----------------------------- MODULE TinybObjects -----------------------------
(***************************************************************************)
(* How a program gets hold of Bluetooth objects through the tinyb          *)
(* bindings: BluetoothManager.find, getObject and getObjects, the find     *)
(* functions of the other classes, the functions that list children or     *)
(* return the owner, and clone.                                            *)
(*                                                                         *)
(* The objects appear and disappear in BlueZ while the one caller of this  *)
(* model waits.  A Java class and the type of the objects it stands for    *)
(* have the same name; NONE is the abstract class BluetoothObject.         *)
(***************************************************************************)
EXTENDS Integers, Sequences

CONSTANTS
    Objects,
    TypeOf,         \* the type of each object
    ParentOf,       \* the object it belongs to, or Nothing
    Identifiers,    \* addresses, names and UUIDs
    IdentifierOf,
    Durations,      \* in nanoseconds
    NanosPerMilli,
    Nothing

ObjectTypes == {"ADAPTER", "DEVICE", "GATT_SERVICE", "GATT_CHARACTERISTIC", "GATT_DESCRIPTOR"}

Types == ObjectTypes \cup {"NONE"}

(* What an object of a type belongs to.                                    *)
ParentType ==
    [ADAPTER |-> Nothing, DEVICE |-> "ADAPTER", GATT_SERVICE |-> "DEVICE",
     GATT_CHARACTERISTIC |-> "GATT_SERVICE", GATT_DESCRIPTOR |-> "GATT_CHARACTERISTIC"]

ASSUME ObjectAssumption ==
    /\ Nothing \notin Objects \cup Identifiers \cup Types
    /\ TypeOf \in [Objects -> ObjectTypes]
    /\ IdentifierOf \in [Objects -> Identifiers]
    /\ ParentOf \in [Objects -> Objects \cup {Nothing}]
    /\ \A o \in Objects :
        IF ParentOf[o] = Nothing THEN TypeOf[o] = "ADAPTER"
        ELSE ParentType[TypeOf[o]] = TypeOf[ParentOf[o]]

ASSUME DurationAssumption ==
    /\ Durations \subseteq Nat
    /\ 0 \in Durations
    /\ NanosPerMilli \in Nat \ {0}

VARIABLES
    present,    \* the objects that BlueZ has
    handle,     \* the Java object that the program got last
    call        \* the call under way, or its outcome

vars == <<present, handle, call>>

(* A Java object: the native object it stands for, its class, and the      *)
(* class that the program takes it for.                                    *)
Handle == [object : Objects, class : ObjectTypes, declared : Types]

(* What a call fails for, or a search that goes on although it has failed. *)
Failures == {"none", "library", "memory", "abstract", "cast"}

(* A search, from its Java arguments to its outcome.  The native memory    *)
(* that it has allocated and nobody owns yet, is its heap.                 *)
Call ==
    [function : {"none", "find", "getObject", "getObjects", "list", "copy", "misuse"},
     step : {"idle", "waiting", "returned", "thrown", "crashed"},
     asked : Types,                         \* the type searched for
     identifier : Identifiers \cup {Nothing},
     parent : Objects \cup {Nothing},
     timeout : Durations,
     expected : Types,                      \* the class that Java casts to
     failure : Failures,
     result : SUBSET Objects,               \* {} for null and the empty list
     heap : SUBSET {"strings", "object"}]

NoCall ==
    [function |-> "none", step |-> "idle", asked |-> "NONE", identifier |-> Nothing,
     parent |-> Nothing, timeout |-> 0, expected |-> "NONE", failure |-> "none",
     result |-> {}, heap |-> {}]

Init ==
    /\ present = {}
    /\ handle = Nothing
    /\ call = NoCall

-------------------------------------------------------------------------------
(* BlueZ: an object comes after its parent and goes before it.             *)
Appear(o) ==
    /\ o \notin present
    /\ ParentOf[o] \in present \cup {Nothing}
    /\ present' = present \cup {o}
    /\ UNCHANGED <<handle, call>>

Disappear(o) ==
    /\ o \in present
    /\ \A c \in present : ParentOf[c] # o
    /\ present' = present \ {o}
    /\ UNCHANGED <<handle, call>>

-------------------------------------------------------------------------------
(* The position of a type in the Java enumeration.                         *)
Ordinal ==
    [NONE |-> 0, ADAPTER |-> 1, DEVICE |-> 2, GATT_SERVICE |-> 3,
     GATT_CHARACTERISTIC |-> 4, GATT_DESCRIPTOR |-> 5]

(* Mutants: no case for descriptors; the case of services falls through.   *)
FromIntToBtypeNoDescriptor(n) ==
    CASE n = 1 -> "ADAPTER" [] n = 2 -> "DEVICE" [] n = 3 -> "GATT_SERVICE"
      [] n = 4 -> "GATT_CHARACTERISTIC" [] OTHER -> "NONE"

FromIntToBtypeFallsThrough(n) ==
    CASE n = 1 -> "ADAPTER" [] n = 2 -> "DEVICE"
      [] n \in 3 .. 5 -> "GATT_CHARACTERISTIC" [] OTHER -> "NONE"

(* The type of C++ that a number stands for; that of a descriptor gives    *)
(* the type of a characteristic.                                           *)
FromIntToBtype(n) ==
    CASE n = 1 -> "ADAPTER"
      [] n = 2 -> "DEVICE"
      [] n = 3 -> "GATT_SERVICE"
      [] n \in {4, 5} -> "GATT_CHARACTERISTIC"
      [] OTHER -> "NONE"

(* Mutant: the timeout is taken in units of two milliseconds.              *)
ToMillisCoarse(d) == d \div (2 * NanosPerMilli)

(* The whole milliseconds of a duration: none for less than one.           *)
ToMillis(d) == d \div NanosPerMilli

(* What libtinyb searches with: NONE is any type.                          *)
Matches(o, type, identifier, parent) ==
    /\ type \in {"NONE", TypeOf[o]}
    /\ identifier \in {Nothing, IdentifierOf[o]}
    /\ parent \in {Nothing, ParentOf[o]}

IsMatch(o) == Matches(o, FromIntToBtype(Ordinal[call.asked]), call.identifier, call.parent)

(* Mutant: of the class that the function is declared to return.           *)
NewHandleDeclared(o, declared) == [object |-> o, class |-> declared, declared |-> declared]

(* A Java object of the class of the native one.                           *)
NewHandle(o, declared) == [object |-> o, class |-> TypeOf[o], declared |-> declared]

(* Java's checked cast of a result.                                        *)
CastSucceeds(o, class) == class \in {"NONE", TypeOf[o]}

(* The program may take a BluetoothObject for what it is.                  *)
IsA(class) == handle # Nothing /\ handle.class = class /\ handle.declared \in {"NONE", class}

(* The C++ strings that the arguments are copied to.                       *)
Strings(identifier) == IF identifier = Nothing THEN {} ELSE {"strings"}

MayCall == call.step = "idle"

(* JNI functions that are called while a Java exception is pending may do  *)
(* anything, and so may libtinyb with pointers that nobody has set.        *)
Undefined == {"thrown", "crashed"}

-------------------------------------------------------------------------------
(* What comes of a search with pointers that nobody has set.               *)
EndAstray(function) ==
    /\ \E s \in Undefined, h \in {{}, {"object"}} :
        call' = [NoCall EXCEPT !.function = function, !.step = s,
                               !.failure = "memory", !.heap = h]
    /\ UNCHANGED handle

BeginSearch(asked, identifier, parent, timeout, expected, failure, heap) ==
    /\ call' = [function |-> "find", step |-> "waiting", asked |-> asked,
                identifier |-> identifier, parent |-> parent, timeout |-> timeout,
                expected |-> expected, failure |-> failure, result |-> {}, heap |-> heap]
    /\ UNCHANGED handle

(* A search starts: the arguments are copied to strings of C++, and        *)
(* libtinyb waits for an object.  A copy that fails for memory leaves an   *)
(* exception pending that nobody looks at: libtinyb searches with whatever *)
(* the pointers hold, if they hold anything that can be searched with.     *)
Search(asked, identifier, parent, timeout, expected) ==
    /\ MayCall
    /\ \/ BeginSearch(asked, identifier, parent, timeout, expected, "none", Strings(identifier))
       \/ /\ identifier # Nothing
          /\ \/ \E i \in Identifiers \cup {Nothing} :
                    BeginSearch(asked, i, parent, timeout, expected, "memory", {})
             \/ EndAstray("find")
    /\ UNCHANGED present

Parents == {Nothing} \cup (IF handle = Nothing THEN {} ELSE {handle.object})

(* BluetoothManager.find(type, name, identifier, parent, timeout).         *)
Find(asked, identifier, timeout) ==
    \E p \in Parents : Search(asked, identifier, p, timeout, "NONE")

(* BluetoothManager.<T>find(...): the type searched for is that of the     *)
(* class T is erased to, the cast to T is the caller's.                    *)
FindOfClass(class, identifier, timeout) ==
    \E p \in Parents : Search("NONE", identifier, p, timeout, class)

(* find of adapters, devices, services and characteristics: a child of the *)
(* type below.                                                             *)
FindChild(class, identifier, timeout) ==
    /\ class # "ADAPTER"
    /\ IsA(ParentType[class])
    /\ Search(class, identifier, handle.object, timeout, class)

StartSearch ==
    \E i \in Identifiers \cup {Nothing}, d \in Durations :
        \/ \E t \in Types : Find(t, i, d)
        \/ \E c \in ObjectTypes : FindOfClass(c, i, d) \/ FindChild(c, i, d)

(* The search goes on with pointers that nobody has set.                   *)
Stray == call.step = "waiting" /\ call.failure = "memory"

(* libtinyb has an object: the strings are freed, and the object gets a    *)
(* handle of its own class, which Java casts.                              *)
Found(o) ==
    /\ call.step = "waiting"
    /\ ~Stray
    /\ o \in present
    /\ IsMatch(o)
    /\ IF CastSucceeds(o, call.expected)
       THEN /\ handle' = NewHandle(o, call.expected)
            /\ call' = [call EXCEPT !.step = "returned", !.result = {o}, !.heap = {}]
       ELSE /\ call' = [call EXCEPT !.step = "thrown", !.failure = "cast", !.heap = {}]
            /\ UNCHANGED handle
    /\ UNCHANGED present

(* NewObject runs out of memory: nobody owns the native object.            *)
FoundUnwrapped ==
    /\ call.step = "waiting"
    /\ ~Stray
    /\ \E o \in present : IsMatch(o)
    /\ call' = [call EXCEPT !.step = "thrown", !.failure = "memory", !.heap = {"object"}]
    /\ UNCHANGED <<present, handle>>

(* libtinyb throws, and the strings are not freed.                         *)
FindThrows ==
    /\ call.step = "waiting"
    /\ ~Stray
    /\ call' = [call EXCEPT !.step = "thrown", !.failure = "library"]
    /\ UNCHANGED <<present, handle>>

(* Mutant: null is returned before the strings are freed.                  *)
TimeOutEarly ==
    /\ call.step = "waiting"
    /\ ~Stray
    /\ ToMillis(call.timeout) > 0
    /\ call' = [call EXCEPT !.step = "returned"]
    /\ UNCHANGED <<present, handle>>

(* The time is up; a time of zero milliseconds never is.                   *)
TimeOut ==
    /\ call.step = "waiting"
    /\ ~Stray
    /\ ToMillis(call.timeout) > 0
    /\ call' = [call EXCEPT !.step = "returned", !.heap = {}]
    /\ UNCHANGED <<present, handle>>

(* Such a search has an object or its time is up: the pointers are freed   *)
(* and the object is wrapped, with the exception still pending.            *)
EndStray ==
    /\ Stray
    /\ ToMillis(call.timeout) > 0 \/ \E o \in present : IsMatch(o)
    /\ EndAstray("find")
    /\ UNCHANGED present

(* ... or libtinyb throws or crashes before that.                          *)
BreakStray ==
    /\ Stray
    /\ EndAstray("find")
    /\ UNCHANGED present

EndSearch == (\E o \in Objects : Found(o)) \/ TimeOut \/ EndStray

-------------------------------------------------------------------------------
(* A call that answers at once.                                            *)
Answer(function, asked, identifier, parent, step, failure, result, heap) ==
    call' = [function |-> function, step |-> step, asked |-> asked, identifier |-> identifier,
             parent |-> parent, timeout |-> 0, expected |-> "NONE", failure |-> failure,
             result |-> result, heap |-> heap]

(* The call fails, and the program keeps the handle it has.                *)
Fail(function, asked, identifier, parent, steps, failure, heap) ==
    /\ \E s \in steps : Answer(function, asked, identifier, parent, s, failure, {}, heap)
    /\ UNCHANGED handle

(* The objects there are that match the Java arguments.                    *)
Known(asked, identifier, parent) ==
    {o \in present : Matches(o, FromIntToBtype(Ordinal[asked]), identifier, parent)}

(* BluetoothManager.getObject: one of these objects, or null.              *)
GetObject(asked, identifier, parent) ==
    LET known == Known(asked, identifier, parent) IN
    \/ \E o \in known :
        /\ handle' = NewHandle(o, "NONE")
        /\ Answer("getObject", asked, identifier, parent, "returned", "none", {o}, {})
    \/ /\ known = {}
       /\ Answer("getObject", asked, identifier, parent, "returned", "none", {}, {})
       /\ UNCHANGED handle
    \/ /\ known # {}
       /\ Fail("getObject", asked, identifier, parent, {"thrown"}, "memory", {"object"})

IsAbstract(class) == class = "NONE"

(* Objects become a list of handles of one class; the program takes up one *)
(* of them.  NewObject fails on an abstract class, and without memory, and *)
(* the object that it was called for is nobody's.                          *)
ConvertVector(function, objects, class, asked, identifier, parent) ==
    \/ /\ objects = {} \/ ~IsAbstract(class)
       /\ Answer(function, asked, identifier, parent, "returned", "none", objects, {})
       /\ IF objects = {} THEN UNCHANGED handle
          ELSE \E o \in objects : handle' = NewHandle(o, class)
    \/ /\ objects # {}
       /\ \E f \in {"memory"} \cup (IF IsAbstract(class) THEN {"abstract"} ELSE {}) :
            Fail(function, asked, identifier, parent, Undefined, f, {"object"})

(* BluetoothManager.getObjects: the elements are BluetoothObjects.         *)
GetObjects(asked, identifier, parent) ==
    ConvertVector("getObjects", Known(asked, identifier, parent), "NONE",
                  asked, identifier, parent)

(* libtinyb throws, and the strings are not freed.                         *)
LookUpThrows(function, asked, identifier, parent) ==
    Fail(function, asked, identifier, parent, {"thrown"}, "library", Strings(identifier))

LookUpStray(function, identifier) == identifier # Nothing /\ EndAstray(function)

LookUp ==
    /\ MayCall
    /\ \E t \in Types, i \in Identifiers \cup {Nothing}, p \in Parents :
        \/ GetObject(t, i, p)
        \/ GetObjects(t, i, p)
        \/ \E f \in {"getObject", "getObjects"} :
            LookUpThrows(f, t, i, p) \/ LookUpStray(f, i)
    /\ UNCHANGED present

-------------------------------------------------------------------------------
(* The functions that list objects: the class that has them, NONE for the  *)
(* manager, and the class of the elements.                                 *)
ListFunction(of, lists) == [of |-> of, lists |-> lists]

ManagerGetAdapters == ListFunction("NONE", "ADAPTER")
ManagerGetDevices == ListFunction("NONE", "DEVICE")
ManagerGetServices == ListFunction("NONE", "GATT_SERVICE")
AdapterGetDevices == ListFunction("ADAPTER", "DEVICE")
DeviceGetServices == ListFunction("DEVICE", "GATT_SERVICE")
ServiceGetCharacteristics == ListFunction("GATT_SERVICE", "GATT_CHARACTERISTIC")
CharacteristicGetDescriptors == ListFunction("GATT_CHARACTERISTIC", "GATT_DESCRIPTOR")

ListFunctions ==
    {ManagerGetAdapters, ManagerGetDevices, ManagerGetServices, AdapterGetDevices,
     DeviceGetServices, ServiceGetCharacteristics, CharacteristicGetDescriptors}

List(f) ==
    LET parent == IF f.of = "NONE" THEN Nothing ELSE handle.object IN
    /\ MayCall
    /\ f.of = "NONE" \/ IsA(f.of)
    /\ \/ ConvertVector("list", {o \in present : Matches(o, f.lists, Nothing, parent)}, f.lists,
                        f.lists, Nothing, parent)
       \/ LookUpThrows("list", f.lists, Nothing, parent)
    /\ UNCHANGED present

(* The functions that return the object that another one belongs to.       *)
OwnerFunction(of, returns) == [of |-> of, returns |-> returns]

(* Mutant: declared like clone of a service.                               *)
ServiceGetDeviceAsAdapter == OwnerFunction("GATT_SERVICE", "ADAPTER")

DeviceGetAdapter == OwnerFunction("DEVICE", "ADAPTER")
ServiceGetDevice == OwnerFunction("GATT_SERVICE", "DEVICE")
CharacteristicGetService == OwnerFunction("GATT_CHARACTERISTIC", "GATT_SERVICE")
DescriptorGetCharacteristic == OwnerFunction("GATT_DESCRIPTOR", "GATT_CHARACTERISTIC")

OwnerFunctions ==
    {DeviceGetAdapter, ServiceGetDevice, CharacteristicGetService, DescriptorGetCharacteristic}

(* The class that the Java declaration of clone says it returns.           *)
CloneFunction(of, returns) == [of |-> of, returns |-> returns]

AdapterClone == CloneFunction("ADAPTER", "ADAPTER")
DeviceClone == CloneFunction("DEVICE", "DEVICE")
ServiceClone == CloneFunction("GATT_SERVICE", "ADAPTER")
CharacteristicClone == CloneFunction("GATT_CHARACTERISTIC", "GATT_CHARACTERISTIC")
DescriptorClone == CloneFunction("GATT_DESCRIPTOR", "ADAPTER")

CloneFunctions ==
    {AdapterClone, DeviceClone, ServiceClone, CharacteristicClone, DescriptorClone}

(* A copy of a native object in a new handle; libtinyb may throw before    *)
(* that, and memory for the handle may be short.                           *)
Copy(o, declared) ==
    /\ MayCall
    /\ \/ /\ handle' = NewHandle(o, declared)
          /\ Answer("copy", TypeOf[o], Nothing, Nothing, "returned", "none", {o}, {})
       \/ LookUpThrows("copy", TypeOf[o], Nothing, Nothing)
       \/ Fail("copy", TypeOf[o], Nothing, Nothing, Undefined, "memory", {"object"})
    /\ UNCHANGED present

Owner(f) == IsA(f.of) /\ Copy(ParentOf[handle.object], f.returns)

Clone(f) == IsA(f.of) /\ Copy(handle.object, f.returns)

(* A function called through a handle whose class is not the one it is     *)
(* taken for: the native object is another one than the function casts to. *)
Misuse ==
    /\ MayCall
    /\ handle # Nothing
    /\ handle.declared \notin {"NONE", handle.class}
    /\ \E s \in Undefined \cup {"returned"} :
        Answer("misuse", handle.declared, Nothing, Nothing, s,
               IF s = "returned" THEN "none" ELSE "cast", {}, {})
    /\ UNCHANGED <<present, handle>>

(* The program goes on with what a call has returned or thrown.            *)
Return ==
    /\ call.step \in {"returned", "thrown"}
    /\ call' = NoCall
    /\ UNCHANGED <<present, handle>>

Next ==
    \/ \E o \in Objects : Appear(o) \/ Disappear(o)
    \/ StartSearch
    \/ EndSearch
    \/ FoundUnwrapped
    \/ FindThrows
    \/ BreakStray
    \/ LookUp
    \/ \E f \in ListFunctions : List(f)
    \/ \E f \in OwnerFunctions : Owner(f)
    \/ \E f \in CloneFunctions : Clone(f)
    \/ Misuse
    \/ Return

Spec == Init /\ [][Next]_vars

(* libtinyb looks at the objects there are, wakes up for new ones, and     *)
(* keeps the time.                                                         *)
Fairness == WF_vars(EndSearch)

FairSpec == Spec /\ Fairness

-------------------------------------------------------------------------------
Waiting == call.step = "waiting"

(* Every variable keeps its type, and BlueZ has no object without parent.  *)
TypeOK ==
    /\ present \subseteq Objects
    /\ \A o \in present : ParentOf[o] \in present \cup {Nothing}
    /\ handle \in Handle \cup {Nothing}
    /\ call \in Call

(* A call that returns objects returns those of the type, identifier and   *)
(* parent that it was asked for, across the numbers that stand for types   *)
(* between Java and C++ and the casts on both sides - except for           *)
(* descriptors, for which find and getObject return characteristics.       *)
FoundIsWhatWasAsked ==
    call.step = "returned" =>
        \A o \in call.result :
            /\ \/ call.asked \in {"NONE", TypeOf[o]}
               \/ /\ call.asked = "GATT_DESCRIPTOR" /\ call.function \in {"find", "getObject"}
                  /\ TypeOf[o] = "GATT_CHARACTERISTIC"
            /\ call.expected \in {"NONE", TypeOf[o]}
            /\ call.identifier \in {Nothing, IdentifierOf[o]}
            /\ call.parent \in {Nothing, ParentOf[o]}

(* A handle is of the class of its native object, and the program takes it *)
(* for that class or for any object - except that clone of a service or a  *)
(* descriptor is declared to return an adapter.                            *)
HandleFitsNative ==
    handle # Nothing =>
        /\ handle.class = TypeOf[handle.object]
        /\ \/ handle.declared \in {"NONE", handle.class}
           \/ /\ handle.declared = "ADAPTER"
              /\ handle.class \in {"GATT_SERVICE", "GATT_DESCRIPTOR"}

(* getObjects, documented to return a list of the objects that match, does *)
(* so unless libtinyb or memory fails.                                     *)
GetObjectsReturnsMatches ==
    [][/\ call.step = "idle" /\ call'.function = "getObjects"
       /\ call'.failure \notin {"library", "memory"}
       => /\ call'.step = "returned"
          /\ call'.result =
                {o \in present : Matches(o, call'.asked, call'.identifier, call'.parent)}]_vars

(* A call that returns leaves no native memory behind that nobody owns;    *)
(* one that waits has at most the copies of its arguments.                 *)
ReturnedCallsCleanUp ==
    /\ call.step \in {"idle", "returned"} => call.heap = {}
    /\ Waiting => call.heap \subseteq {"strings"}

(* A search below a characteristic, documented to find a descriptor, never *)
(* does: it returns null when its time is up, and without a time only an   *)
(* error ends it.                                                          *)
LooksForDescriptor ==
    /\ Waiting
    /\ call.asked = "GATT_DESCRIPTOR"
    /\ call.parent # Nothing
    /\ TypeOf[call.parent] = "GATT_CHARACTERISTIC"

DescriptorFindIsBlind ==
    [][LooksForDescriptor /\ call' # call =>
        \/ call'.step \in Undefined
        \/ call'.result = {} /\ call.timeout >= NanosPerMilli]_vars

(* A search ends when its time is up, if that is a millisecond or more,    *)
(* and when an object that matches stays.                                  *)
FindEnds ==
    /\ Waiting /\ call.timeout >= NanosPerMilli ~> ~Waiting
    /\ \A o \in Objects :
        Waiting /\ o \in present /\ IsMatch(o) ~> ~Waiting \/ o \notin present
===============================================================================
