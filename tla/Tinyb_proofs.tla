------------------------------ MODULE Tinyb_proofs ------------------------------
(***************************************************************************)
(* What the tinyb bindings return, for any objects that BlueZ may have and *)
(* any durations, that their searches end if libtinyb ends them, and what  *)
(* they make of values, for any widths of integers and lengths of arrays.  *)
(***************************************************************************)
EXTENDS TinybObjects, TinybProperties, TLAPS

(* Only find waits, and it has no result yet.                              *)
WaitingIsFind == Waiting => call.function = "find" /\ call.result = {}

IInv ==
    /\ TypeOK
    /\ WaitingIsFind
    /\ FoundIsWhatWasAsked
    /\ HandleFitsNative
    /\ ReturnedCallsCleanUp

Functions == {"none", "find", "getObject", "getObjects", "list", "copy", "misuse"}

-------------------------------------------------------------------------------
(* The numbers mean the same on both sides, but for the descriptor's.      *)
LEMMA TypeNumbers ==
    ASSUME NEW type \in Types
    PROVE  FromIntToBtype(Ordinal[type]) =
              IF type = "GATT_DESCRIPTOR" THEN "GATT_CHARACTERISTIC" ELSE type
<1>1. /\ Ordinal["NONE"] = 0 /\ Ordinal["ADAPTER"] = 1 /\ Ordinal["DEVICE"] = 2
      /\ Ordinal["GATT_SERVICE"] = 3 /\ Ordinal["GATT_CHARACTERISTIC"] = 4
      /\ Ordinal["GATT_DESCRIPTOR"] = 5
  BY DEF Ordinal
<1>2. CASE type = "NONE"
  BY <1>1, <1>2 DEF FromIntToBtype
<1>3. CASE type = "ADAPTER"
  BY <1>1, <1>3 DEF FromIntToBtype
<1>4. CASE type = "DEVICE"
  BY <1>1, <1>4 DEF FromIntToBtype
<1>5. CASE type = "GATT_SERVICE"
  BY <1>1, <1>5 DEF FromIntToBtype
<1>6. CASE type \in {"GATT_CHARACTERISTIC", "GATT_DESCRIPTOR"}
  BY <1>1, <1>6 DEF FromIntToBtype
<1> QED BY <1>2, <1>3, <1>4, <1>5, <1>6 DEF Types, ObjectTypes

(* An object that has a parent has one of the type above.                  *)
LEMMA ParentOfType ==
    ASSUME NEW o \in Objects, TypeOf[o] # "ADAPTER"
    PROVE  ParentOf[o] \in Objects /\ TypeOf[ParentOf[o]] = ParentType[TypeOf[o]]
BY ObjectAssumption

(* A handle of an object is of its type.                                   *)
LEMMA NewHandleFits ==
    ASSUME NEW o \in Objects, NEW declared \in Types,
           handle' = NewHandle(o, declared),
           \/ declared \in {"NONE", TypeOf[o]}
           \/ declared = "ADAPTER" /\ TypeOf[o] \in {"GATT_SERVICE", "GATT_DESCRIPTOR"}
    PROVE  handle' \in Handle /\ HandleFitsNative'
BY ObjectAssumption DEF NewHandle, Handle, HandleFitsNative

(* A call that ends without a result keeps what a reader may rely on.      *)
LEMMA FailInv ==
    ASSUME IInv, NEW function \in Functions, NEW asked \in Types,
           NEW identifier \in Identifiers \cup {Nothing},
           NEW parent \in Objects \cup {Nothing},
           NEW step \in {"thrown", "crashed"}, NEW failure \in Failures,
           NEW heap \in SUBSET {"strings", "object"},
           Answer(function, asked, identifier, parent, step, failure, {}, heap),
           UNCHANGED <<present, handle>>
    PROVE  IInv'
<1>1. /\ call' \in Call
      /\ call'.step = step
  BY DurationAssumption DEF Answer, Call, Failures, Functions, Types
<1>2. TypeOK'
  BY <1>1 DEF IInv, TypeOK
<1>3. HandleFitsNative'
  BY DEF IInv, HandleFitsNative
<1> QED BY <1>1, <1>2, <1>3 DEF IInv, WaitingIsFind, Waiting, FoundIsWhatWasAsked,
            ReturnedCallsCleanUp

LEMMA EndAstrayInv ==
    ASSUME IInv, NEW function \in Functions, EndAstray(function), UNCHANGED present
    PROVE  IInv' /\ call'.step \in Undefined
<1>1. PICK s \in Undefined, h \in {{}, {"object"}} :
        call' = [NoCall EXCEPT !.function = function, !.step = s,
                               !.failure = "memory", !.heap = h]
  BY DEF EndAstray
<1>2. s \in {"thrown", "crashed"}
  BY DEF Undefined
<1>3. /\ call' = [function |-> function, step |-> s, asked |-> "NONE",
                  identifier |-> Nothing, parent |-> Nothing, timeout |-> 0,
                  expected |-> "NONE", failure |-> "memory", result |-> {}, heap |-> h]
  BY <1>1 DEF NoCall
<1>4. call' \in Call /\ call'.step = s
  BY <1>2, <1>3, DurationAssumption DEF Call, Functions, Failures, Types
<1>5. TypeOK' /\ HandleFitsNative'
  BY <1>4 DEF IInv, TypeOK, HandleFitsNative, EndAstray
<1> QED BY <1>2, <1>4, <1>5 DEF IInv, WaitingIsFind, Waiting, FoundIsWhatWasAsked,
            ReturnedCallsCleanUp, Undefined

(* A call that returns objects keeps it if they are what was asked for.    *)
LEMMA ReturnInv ==
    ASSUME IInv, NEW function \in Functions, NEW asked \in Types,
           NEW identifier \in Identifiers \cup {Nothing},
           NEW parent \in Objects \cup {Nothing},
           NEW result \in SUBSET Objects,
           Answer(function, asked, identifier, parent, "returned", "none", result, {}),
           \A o \in result :
               /\ \/ asked \in {"NONE", TypeOf[o]}
                  \/ /\ asked = "GATT_DESCRIPTOR" /\ function \in {"find", "getObject"}
                     /\ TypeOf[o] = "GATT_CHARACTERISTIC"
               /\ identifier \in {Nothing, IdentifierOf[o]}
               /\ parent \in {Nothing, ParentOf[o]},
           UNCHANGED present,
           UNCHANGED handle \/ (handle' \in Handle /\ HandleFitsNative')
    PROVE  IInv'
<1>1. /\ call' \in Call
      /\ call'.step = "returned" /\ call'.function = function /\ call'.asked = asked
      /\ call'.identifier = identifier /\ call'.parent = parent
      /\ call'.expected = "NONE" /\ call'.result = result /\ call'.heap = {}
  BY DurationAssumption DEF Answer, Call, Failures, Functions, Types
<1>2. TypeOK'
  BY <1>1 DEF IInv, TypeOK
<1>3. HandleFitsNative'
  BY DEF IInv, HandleFitsNative
<1>4. FoundIsWhatWasAsked'
  BY <1>1 DEF FoundIsWhatWasAsked
<1> QED BY <1>1, <1>2, <1>3, <1>4 DEF IInv, WaitingIsFind, Waiting,
            ReturnedCallsCleanUp

-------------------------------------------------------------------------------
LEMMA InitInv == Init => IInv
<1> SUFFICES ASSUME Init PROVE IInv
  OBVIOUS
<1>1. TypeOK
  BY DurationAssumption DEF Init, TypeOK, NoCall, Call, Failures, Types
<1> QED BY <1>1 DEF Init, NoCall, IInv, WaitingIsFind, Waiting, FoundIsWhatWasAsked,
            HandleFitsNative, ReturnedCallsCleanUp

LEMMA AppearInv ==
    ASSUME IInv, NEW o \in Objects, Appear(o) \/ Disappear(o)
    PROVE  IInv'
<1>1. TypeOK'
  BY DEF IInv, TypeOK, Appear, Disappear
<1>2. UNCHANGED <<handle, call>>
  BY DEF Appear, Disappear
<1> QED BY <1>1, <1>2 DEF IInv, WaitingIsFind, Waiting, FoundIsWhatWasAsked,
            HandleFitsNative, ReturnedCallsCleanUp

LEMMA BeginSearchInv ==
    ASSUME IInv, NEW asked \in Types, NEW identifier \in Identifiers \cup {Nothing},
           NEW parent \in Objects \cup {Nothing}, NEW timeout \in Durations,
           NEW expected \in Types, NEW failure \in Failures, NEW heap \in SUBSET {"strings"},
           BeginSearch(asked, identifier, parent, timeout, expected, failure, heap),
           UNCHANGED present
    PROVE  IInv'
<1>1. /\ call' \in Call
      /\ call'.step = "waiting" /\ call'.function = "find" /\ call'.result = {}
      /\ call'.heap \subseteq {"strings"}
  BY DEF BeginSearch, Call
<1>2. TypeOK' /\ HandleFitsNative'
  BY <1>1 DEF IInv, TypeOK, HandleFitsNative, BeginSearch
<1> QED BY <1>1, <1>2 DEF IInv, WaitingIsFind, Waiting, FoundIsWhatWasAsked,
            ReturnedCallsCleanUp

LEMMA SearchInv ==
    ASSUME IInv, NEW asked \in Types, NEW identifier \in Identifiers \cup {Nothing},
           NEW parent \in Objects \cup {Nothing}, NEW timeout \in Durations,
           NEW expected \in Types,
           Search(asked, identifier, parent, timeout, expected)
    PROVE  IInv'
<1>1. CASE BeginSearch(asked, identifier, parent, timeout, expected, "none",
                       Strings(identifier))
  BY <1>1, BeginSearchInv DEF Search, Strings, Failures
<1>2. CASE \E i \in Identifiers \cup {Nothing} :
             BeginSearch(asked, i, parent, timeout, expected, "memory", {})
  BY <1>2, BeginSearchInv DEF Search, Failures
<1>3. CASE EndAstray("find")
  BY <1>3, EndAstrayInv DEF Search, Functions
<1> QED BY <1>1, <1>2, <1>3 DEF Search

LEMMA ParentsAreObjects == ASSUME IInv PROVE Parents \subseteq Objects \cup {Nothing}
BY DEF IInv, TypeOK, Handle, Parents

LEMMA StartSearchInv == ASSUME IInv, StartSearch PROVE IInv'
<1>1. PICK i \in Identifiers \cup {Nothing}, d \in Durations :
        \/ \E t \in Types : Find(t, i, d)
        \/ \E c \in ObjectTypes : FindOfClass(c, i, d) \/ FindChild(c, i, d)
  BY DEF StartSearch
<1>2. ASSUME NEW t \in Types, Find(t, i, d) PROVE IInv'
  BY <1>2, SearchInv, ParentsAreObjects DEF Find, Types
<1>3. ASSUME NEW c \in ObjectTypes, FindOfClass(c, i, d) PROVE IInv'
  BY <1>3, SearchInv, ParentsAreObjects DEF FindOfClass, Types
<1>4. ASSUME NEW c \in ObjectTypes, FindChild(c, i, d) PROVE IInv'
  <2>1. handle.object \in Objects
    BY <1>4 DEF IInv, TypeOK, Handle, FindChild, IsA
  <2> QED BY <1>4, <2>1, SearchInv DEF FindChild, Types
<1> QED BY <1>1, <1>2, <1>3, <1>4

(* What find returns passes the search and the cast.                       *)
LEMMA FoundInv == ASSUME IInv, NEW o \in Objects, Found(o) PROVE IInv'
<1>1. /\ call \in Call /\ call.step = "waiting" /\ call.function = "find"
      /\ o \in present /\ UNCHANGED present
      /\ Matches(o, FromIntToBtype(Ordinal[call.asked]), call.identifier, call.parent)
  BY DEF IInv, TypeOK, WaitingIsFind, Waiting, Found, IsMatch
<1>2. call.asked \in Types /\ call.expected \in Types
  BY <1>1 DEF Call
<1>3. CASE CastSucceeds(o, call.expected)
  <2>1. /\ handle' = NewHandle(o, call.expected)
        /\ call' = [call EXCEPT !.step = "returned", !.result = {o}, !.heap = {}]
    BY <1>3 DEF Found
  <2>2. call.expected \in {"NONE", TypeOf[o]}
    BY <1>3 DEF CastSucceeds
  <2>3. handle' \in Handle /\ HandleFitsNative'
    BY <1>2, <2>1, <2>2, NewHandleFits
  <2>4. /\ call' \in Call
        /\ call'.step = "returned" /\ call'.function = "find" /\ call'.asked = call.asked
        /\ call'.identifier = call.identifier /\ call'.parent = call.parent
        /\ call'.expected = call.expected /\ call'.result = {o} /\ call'.heap = {}
    BY <1>1, <2>1 DEF Call
  <2>5. TypeOK'
    BY <1>1, <2>3, <2>4 DEF IInv, TypeOK
  <2>6. \/ call.asked \in {"NONE", TypeOf[o]}
        \/ call.asked = "GATT_DESCRIPTOR" /\ TypeOf[o] = "GATT_CHARACTERISTIC"
    BY <1>1, <1>2, TypeNumbers DEF Matches
  <2>7. FoundIsWhatWasAsked'
    BY <1>1, <2>2, <2>4, <2>6 DEF FoundIsWhatWasAsked, Matches
  <2> QED BY <2>3, <2>4, <2>5, <2>7 DEF IInv, WaitingIsFind, Waiting,
              ReturnedCallsCleanUp
<1>4. CASE ~CastSucceeds(o, call.expected)
  <2>1. /\ call' = [call EXCEPT !.step = "thrown", !.failure = "cast", !.heap = {}]
        /\ UNCHANGED handle
    BY <1>4 DEF Found
  <2>2. call' \in Call /\ call'.step = "thrown"
    BY <1>1, <2>1 DEF Call, Failures
  <2>3. TypeOK' /\ HandleFitsNative'
    BY <1>1, <2>1, <2>2 DEF IInv, TypeOK, HandleFitsNative
  <2> QED BY <2>2, <2>3 DEF IInv, WaitingIsFind, Waiting, FoundIsWhatWasAsked,
              ReturnedCallsCleanUp
<1> QED BY <1>3, <1>4

(* The other ends of a search give no result.                              *)
LEMMA NotFoundInv == ASSUME IInv, TimeOut \/ FoundUnwrapped \/ FindThrows PROVE IInv'
<1>1. /\ call \in Call /\ call.step = "waiting" /\ call.function = "find"
      /\ call.result = {} /\ UNCHANGED <<present, handle>>
  BY DEF IInv, TypeOK, WaitingIsFind, Waiting, TimeOut, FoundUnwrapped, FindThrows
<1>2. /\ call' \in Call
      /\ call'.function = "find" /\ call'.result = {}
      /\ call'.step = "thrown" \/ (call'.step = "returned" /\ call'.heap = {})
  <2>1. CASE TimeOut
    BY <1>1, <2>1 DEF Call, TimeOut
  <2>2. CASE FoundUnwrapped
    BY <1>1, <2>2 DEF Call, Failures, FoundUnwrapped
  <2>3. CASE FindThrows
    BY <1>1, <2>3 DEF Call, Failures, FindThrows
  <2> QED BY <2>1, <2>2, <2>3
<1>3. TypeOK' /\ HandleFitsNative'
  BY <1>1, <1>2 DEF IInv, TypeOK, HandleFitsNative
<1> QED BY <1>2, <1>3 DEF IInv, WaitingIsFind, Waiting, FoundIsWhatWasAsked,
            ReturnedCallsCleanUp

LEMMA StrayInv ==
    ASSUME IInv, EndStray \/ BreakStray
    PROVE  IInv' /\ call'.step \in Undefined
BY EndAstrayInv DEF EndStray, BreakStray, Functions

-------------------------------------------------------------------------------
(* The ways that a call can throw, whatever its function.                  *)
LEMMA FailsInv ==
    ASSUME IInv, NEW function \in Functions, NEW asked \in Types,
           NEW identifier \in Identifiers \cup {Nothing},
           NEW parent \in Objects \cup {Nothing},
           NEW heap \in SUBSET {"strings", "object"},
           NEW steps \in SUBSET Undefined, NEW failure \in Failures,
           Fail(function, asked, identifier, parent, steps, failure, heap),
           UNCHANGED present
    PROVE  IInv'
<1>1. PICK s \in steps : Answer(function, asked, identifier, parent, s, failure, {}, heap)
  BY DEF Fail
<1>2. s \in {"thrown", "crashed"}
  BY DEF Undefined
<1> QED BY <1>1, <1>2, FailInv DEF Fail

LEMMA LookUpThrowsInv ==
    ASSUME IInv, NEW function \in Functions, NEW asked \in Types,
           NEW identifier \in Identifiers \cup {Nothing},
           NEW parent \in Objects \cup {Nothing},
           LookUpThrows(function, asked, identifier, parent), UNCHANGED present
    PROVE  IInv'
BY FailsInv DEF LookUpThrows, Strings, Undefined, Failures

(* A list is of objects, all of the class of its handles.                  *)
LEMMA ConvertVectorInv ==
    ASSUME IInv, NEW function \in Functions, NEW objects \in SUBSET Objects,
           NEW class \in Types, NEW asked \in Types,
           NEW identifier \in Identifiers \cup {Nothing},
           NEW parent \in Objects \cup {Nothing},
           ConvertVector(function, objects, class, asked, identifier, parent),
           class # "NONE" =>
               \A o \in objects :
                   /\ class = TypeOf[o] /\ asked = class
                   /\ identifier \in {Nothing, IdentifierOf[o]}
                   /\ parent \in {Nothing, ParentOf[o]},
           UNCHANGED present
    PROVE  IInv'
<1>1. CASE /\ objects = {} \/ ~IsAbstract(class)
           /\ Answer(function, asked, identifier, parent, "returned", "none", objects, {})
           /\ IF objects = {} THEN UNCHANGED handle
              ELSE \E o \in objects : handle' = NewHandle(o, class)
  <2>1. objects = {} \/ class # "NONE"
    BY <1>1 DEF IsAbstract
  <2>2. UNCHANGED handle \/ (handle' \in Handle /\ HandleFitsNative')
    BY <1>1, <2>1, NewHandleFits
  <2> QED BY <1>1, <2>1, <2>2, ReturnInv
<1>2. CASE \E f \in {"memory", "abstract"} :
             Fail(function, asked, identifier, parent, Undefined, f, {"object"})
  <2>1. PICK f \in {"memory", "abstract"} :
          Fail(function, asked, identifier, parent, Undefined, f, {"object"})
    BY <1>2
  <2>2. f \in Failures
    BY DEF Failures
  <2> QED BY <2>1, <2>2, FailsInv
<1> QED BY <1>1, <1>2 DEF ConvertVector

(* What is known under a number is what was asked for.                     *)
LEMMA KnownMatches ==
    ASSUME IInv, NEW asked \in Types, NEW identifier \in Identifiers \cup {Nothing},
           NEW parent \in Objects \cup {Nothing}, NEW o \in Known(asked, identifier, parent)
    PROVE  /\ o \in Objects
           /\ \/ asked \in {"NONE", TypeOf[o]}
              \/ asked = "GATT_DESCRIPTOR" /\ TypeOf[o] = "GATT_CHARACTERISTIC"
           /\ identifier \in {Nothing, IdentifierOf[o]}
           /\ parent \in {Nothing, ParentOf[o]}
BY TypeNumbers DEF IInv, TypeOK, Known, Matches

LEMMA GetObjectInv ==
    ASSUME IInv, NEW asked \in Types, NEW identifier \in Identifiers \cup {Nothing},
           NEW parent \in Objects \cup {Nothing}, GetObject(asked, identifier, parent),
           UNCHANGED present
    PROVE  IInv'
<1> DEFINE known == Known(asked, identifier, parent)
<1>1. CASE \E o \in known :
             /\ handle' = NewHandle(o, "NONE")
             /\ Answer("getObject", asked, identifier, parent, "returned", "none", {o}, {})
  <2>1. PICK o \in known :
          /\ handle' = NewHandle(o, "NONE")
          /\ Answer("getObject", asked, identifier, parent, "returned", "none", {o}, {})
    BY <1>1
  <2>2. /\ o \in Objects
        /\ \/ asked \in {"NONE", TypeOf[o]}
           \/ asked = "GATT_DESCRIPTOR" /\ TypeOf[o] = "GATT_CHARACTERISTIC"
        /\ identifier \in {Nothing, IdentifierOf[o]}
        /\ parent \in {Nothing, ParentOf[o]}
    BY KnownMatches
  <2>3. handle' \in Handle /\ HandleFitsNative'
    BY <2>1, <2>2, NewHandleFits DEF Types
  <2>4. {o} \in SUBSET Objects /\ "getObject" \in Functions
    BY <2>2 DEF Functions
  <2>5. \A x \in {o} :
          /\ \/ asked \in {"NONE", TypeOf[x]}
             \/ /\ asked = "GATT_DESCRIPTOR" /\ "getObject" \in {"find", "getObject"}
                /\ TypeOf[x] = "GATT_CHARACTERISTIC"
          /\ identifier \in {Nothing, IdentifierOf[x]}
          /\ parent \in {Nothing, ParentOf[x]}
    BY <2>2
  <2> HIDE DEF known
  <2> QED BY <2>1, <2>3, <2>4, <2>5, ReturnInv
<1>2. CASE /\ known = {}
           /\ Answer("getObject", asked, identifier, parent, "returned", "none", {}, {})
           /\ UNCHANGED handle
  BY <1>2, ReturnInv DEF Functions
<1>3. CASE Fail("getObject", asked, identifier, parent, {"thrown"}, "memory", {"object"})
  BY <1>3, FailsInv DEF Functions, Undefined, Failures
<1> QED BY <1>1, <1>2, <1>3 DEF GetObject

LEMMA LookUpInv == ASSUME IInv, LookUp PROVE IInv'
<1>1. PICK t \in Types, i \in Identifiers \cup {Nothing}, p \in Parents :
        \/ GetObject(t, i, p)
        \/ GetObjects(t, i, p)
        \/ \E f \in {"getObject", "getObjects"} :
             LookUpThrows(f, t, i, p) \/ LookUpStray(f, i)
  BY DEF LookUp
<1>2. p \in Objects \cup {Nothing} /\ UNCHANGED present
  BY ParentsAreObjects DEF LookUp
<1>3. CASE GetObject(t, i, p)
  BY <1>2, <1>3, GetObjectInv
<1>4. CASE GetObjects(t, i, p)
  <2>1. Known(t, i, p) \in SUBSET Objects
    BY DEF IInv, TypeOK, Known
  <2> QED BY <1>2, <1>4, <2>1, ConvertVectorInv DEF GetObjects, Functions, Types
<1>5. CASE \E f \in {"getObject", "getObjects"} : LookUpThrows(f, t, i, p)
  BY <1>2, <1>5, LookUpThrowsInv DEF Functions
<1>6. CASE \E f \in {"getObject", "getObjects"} : LookUpStray(f, i)
  BY <1>2, <1>6, EndAstrayInv DEF LookUpStray, Functions
<1> QED BY <1>1, <1>3, <1>4, <1>5, <1>6

(* A handle that is taken for its class is of an object of that type.      *)
LEMMA ThisIsA ==
    ASSUME IInv, NEW class \in ObjectTypes, IsA(class)
    PROVE  handle.object \in Objects /\ TypeOf[handle.object] = class
BY DEF IInv, TypeOK, Handle, HandleFitsNative, IsA

LEMMA ListInv == ASSUME IInv, NEW f \in ListFunctions, List(f) PROVE IInv'
<1> DEFINE parent == IF f.of = "NONE" THEN Nothing ELSE handle.object
           listed == {o \in present : Matches(o, f.lists, Nothing, parent)}
<1>1. f.lists \in ObjectTypes /\ f.of \in Types
  BY DEF ListFunctions, ListFunction, ManagerGetAdapters, ManagerGetDevices,
         ManagerGetServices, AdapterGetDevices, DeviceGetServices,
         ServiceGetCharacteristics, CharacteristicGetDescriptors, Types, ObjectTypes
<1>2. parent \in Objects \cup {Nothing}
  BY <1>1, ThisIsA DEF List, Types
<1>3. listed \in SUBSET Objects
  BY DEF IInv, TypeOK
<1>4. \A o \in listed : f.lists = TypeOf[o] /\ parent \in {Nothing, ParentOf[o]}
  BY <1>1 DEF Matches, ObjectTypes
<1>5. UNCHANGED present
  BY DEF List
<1>6. CASE ConvertVector("list", listed, f.lists, f.lists, Nothing, parent)
  <2> HIDE DEF parent, listed
  <2> QED BY <1>1, <1>2, <1>3, <1>4, <1>5, <1>6, ConvertVectorInv DEF Functions, Types
<1>7. CASE LookUpThrows("list", f.lists, Nothing, parent)
  <2> HIDE DEF parent
  <2> QED BY <1>1, <1>2, <1>5, <1>7, LookUpThrowsInv DEF Functions, Types
<1> QED BY <1>6, <1>7 DEF List

LEMMA CopyInv ==
    ASSUME IInv, NEW o \in Objects, NEW declared \in Types, Copy(o, declared),
           \/ declared \in {"NONE", TypeOf[o]}
           \/ declared = "ADAPTER" /\ TypeOf[o] \in {"GATT_SERVICE", "GATT_DESCRIPTOR"}
    PROVE  IInv'
<1>1. TypeOf[o] \in Types /\ "copy" \in Functions /\ UNCHANGED present
  BY ObjectAssumption DEF Types, Functions, Copy
<1>2. CASE /\ handle' = NewHandle(o, declared)
           /\ Answer("copy", TypeOf[o], Nothing, Nothing, "returned", "none", {o}, {})
  <2>1. handle' \in Handle /\ HandleFitsNative'
    BY <1>2, NewHandleFits
  <2> QED BY <1>1, <1>2, <2>1, ReturnInv
<1>3. CASE LookUpThrows("copy", TypeOf[o], Nothing, Nothing)
  BY <1>1, <1>3, LookUpThrowsInv
<1>4. CASE Fail("copy", TypeOf[o], Nothing, Nothing, Undefined, "memory", {"object"})
  BY <1>1, <1>4, FailsInv DEF Failures
<1> QED BY <1>2, <1>3, <1>4 DEF Copy

(* Every function that returns the owner is declared to return its class.  *)
LEMMA OwnerInv == ASSUME IInv, NEW f \in OwnerFunctions, Owner(f) PROVE IInv'
<1>1. f.of \in ObjectTypes \ {"ADAPTER"} /\ f.returns \in Types /\ f.returns = ParentType[f.of]
  BY DEF OwnerFunctions, OwnerFunction, DeviceGetAdapter, ServiceGetDevice,
         CharacteristicGetService, DescriptorGetCharacteristic, Types, ObjectTypes, ParentType
<1>2. handle.object \in Objects /\ TypeOf[handle.object] = f.of
  BY <1>1, ThisIsA DEF Owner
<1>3. ParentOf[handle.object] \in Objects /\ TypeOf[ParentOf[handle.object]] = f.returns
  BY <1>1, <1>2, ParentOfType
<1> QED BY <1>1, <1>3, CopyInv DEF Owner

LEMMA CloneInv == ASSUME IInv, NEW f \in CloneFunctions, Clone(f) PROVE IInv'
<1>1. /\ f.of \in ObjectTypes /\ f.returns \in Types
      /\ \/ f.returns = f.of
         \/ f.returns = "ADAPTER" /\ f.of \in {"GATT_SERVICE", "GATT_DESCRIPTOR"}
  BY DEF CloneFunctions, CloneFunction, AdapterClone, DeviceClone, ServiceClone,
         CharacteristicClone, DescriptorClone, Types, ObjectTypes
<1>2. handle.object \in Objects /\ TypeOf[handle.object] = f.of
  BY <1>1, ThisIsA DEF Clone
<1> QED BY <1>1, <1>2, CopyInv DEF Clone

(* What is called through a handle of the wrong class may do anything but  *)
(* return objects.                                                         *)
LEMMA MisuseInv == ASSUME IInv, Misuse PROVE IInv'
<1>1. PICK s \in {"thrown", "crashed", "returned"} :
        Answer("misuse", handle.declared, Nothing, Nothing, s,
               IF s = "returned" THEN "none" ELSE "cast", {}, {})
  BY DEF Misuse, Undefined
<1>2. handle.declared \in Types /\ "misuse" \in Functions /\ UNCHANGED <<present, handle>>
  BY DEF IInv, TypeOK, Handle, Functions, Misuse
<1>3. CASE s = "returned"
  <2>1. Answer("misuse", handle.declared, Nothing, Nothing, "returned", "none", {}, {})
    BY <1>1, <1>3
  <2>2. {} \in SUBSET Objects /\ Nothing \in Identifiers \cup {Nothing}
        /\ Nothing \in Objects \cup {Nothing}
    OBVIOUS
  <2> QED BY <1>2, <2>1, <2>2, ReturnInv
<1>4. CASE s \in {"thrown", "crashed"}
  <2>1. Answer("misuse", handle.declared, Nothing, Nothing, s, "cast", {}, {})
    BY <1>1, <1>4
  <2>2. /\ {} \in SUBSET {"strings", "object"} /\ "cast" \in Failures
        /\ Nothing \in Identifiers \cup {Nothing} /\ Nothing \in Objects \cup {Nothing}
    BY DEF Failures
  <2> QED BY <1>2, <1>4, <2>1, <2>2, FailInv
<1> QED BY <1>3, <1>4

LEMMA ReturnsInv == ASSUME IInv, Return PROVE IInv'
<1>1. call' \in Call
  BY DurationAssumption DEF Return, NoCall, Call, Failures, Types
<1>2. TypeOK' /\ HandleFitsNative'
  BY <1>1 DEF IInv, TypeOK, HandleFitsNative, Return
<1> QED BY <1>1, <1>2 DEF Return, NoCall, IInv, WaitingIsFind, Waiting, FoundIsWhatWasAsked,
            ReturnedCallsCleanUp

LEMMA NextInv == ASSUME IInv, [Next]_vars PROVE IInv'
<1>1. CASE \E o \in Objects : Appear(o) \/ Disappear(o)
  BY <1>1, AppearInv
<1>2. CASE StartSearch
  BY <1>2, StartSearchInv
<1>3. CASE EndSearch
  BY <1>3, FoundInv, NotFoundInv, StrayInv DEF EndSearch
<1>4. CASE FoundUnwrapped \/ FindThrows \/ BreakStray
  BY <1>4, NotFoundInv, StrayInv
<1>5. CASE LookUp
  BY <1>5, LookUpInv
<1>6. CASE \E f \in ListFunctions : List(f)
  BY <1>6, ListInv
<1>7. CASE \E f \in OwnerFunctions : Owner(f)
  BY <1>7, OwnerInv
<1>8. CASE \E f \in CloneFunctions : Clone(f)
  BY <1>8, CloneInv
<1>9. CASE Misuse
  BY <1>9, MisuseInv
<1>10. CASE Return
  BY <1>10, ReturnsInv
<1>11. CASE UNCHANGED vars
  BY <1>11 DEF vars, IInv, TypeOK, WaitingIsFind, Waiting, FoundIsWhatWasAsked,
               HandleFitsNative, ReturnedCallsCleanUp
<1> QED BY <1>1, <1>2, <1>3, <1>4, <1>5, <1>6, <1>7, <1>8, <1>9, <1>10, <1>11 DEF Next

LEMMA Invariance == Spec => []IInv
BY InitInv, NextInv, PTL DEF Spec

(* A duration that is whole milliseconds long has one.                     *)
LEMMA MillisNeedOne ==
    ASSUME NEW d \in Durations, ToMillis(d) > 0
    PROVE  d >= NanosPerMilli
<1>1. d \in Nat /\ NanosPerMilli \in Nat /\ NanosPerMilli > 0
  BY DurationAssumption
<1>2. SUFFICES ASSUME d < NanosPerMilli PROVE ToMillis(d) = 0
  BY <1>1
<1>3. d \div NanosPerMilli = 0
  BY <1>1, <1>2, SMTT(30)
<1> QED BY <1>3 DEF ToMillis

(* Nothing that libtinyb has matches what a characteristic's find becomes. *)
LEMMA NothingMatches ==
    ASSUME IInv, LooksForDescriptor, NEW o \in Objects
    PROVE  ~IsMatch(o)
<1> SUFFICES ASSUME IsMatch(o) PROVE FALSE
  OBVIOUS
<1>1. call.asked = "GATT_DESCRIPTOR" /\ call.parent # Nothing
  BY DEF LooksForDescriptor
<1>2. FromIntToBtype(Ordinal[call.asked]) = "GATT_CHARACTERISTIC"
  BY <1>1, TypeNumbers DEF Types, ObjectTypes
<1>3. TypeOf[o] = "GATT_CHARACTERISTIC" /\ call.parent = ParentOf[o]
  BY <1>1, <1>2 DEF IsMatch, Matches
<1>4. TypeOf[ParentOf[o]] = "GATT_SERVICE"
  BY <1>3, ParentOfType DEF ParentType
<1> QED BY <1>3, <1>4 DEF LooksForDescriptor

LEMMA BlindStep ==
    ASSUME IInv, Next, LooksForDescriptor, call' # call
    PROVE  \/ call'.step \in Undefined
           \/ call'.result = {} /\ call.timeout >= NanosPerMilli
<1>1. /\ call \in Call /\ call.step = "waiting" /\ call.result = {}
      /\ present \subseteq Objects
  BY DEF IInv, TypeOK, WaitingIsFind, Waiting, LooksForDescriptor
<1>2. ~MayCall
  BY <1>1 DEF MayCall
<1>3. CASE \E o \in Objects : Appear(o) \/ Disappear(o)
  BY <1>3 DEF Appear, Disappear
<1>4. CASE StartSearch
  BY <1>2, <1>4 DEF StartSearch, Find, FindOfClass, FindChild, Search
<1>5. CASE EndSearch
  <2>1. TimeOut \/ EndStray
    BY <1>5, NothingMatches DEF EndSearch, Found
  <2>2. CASE TimeOut
    <3>1. call.timeout >= NanosPerMilli
      BY <1>1, <2>2, MillisNeedOne DEF TimeOut, Call
    <3> QED BY <1>1, <2>2, <3>1 DEF TimeOut, Call
  <2>3. CASE EndStray
    BY <2>3, StrayInv
  <2> QED BY <2>1, <2>2, <2>3
<1>6. CASE FoundUnwrapped \/ FindThrows \/ BreakStray
  BY <1>1, <1>6, StrayInv DEF FoundUnwrapped, FindThrows, Call, Undefined
<1>7. CASE \/ LookUp \/ Misuse \/ \E f \in ListFunctions : List(f)
           \/ \E f \in OwnerFunctions : Owner(f)
           \/ \E f \in CloneFunctions : Clone(f)
  BY <1>2, <1>7 DEF LookUp, Misuse, List, Owner, Clone, Copy
<1>8. CASE Return
  BY <1>1, <1>8 DEF Return
<1> QED BY <1>3, <1>4, <1>5, <1>6, <1>7, <1>8 DEF Next

-------------------------------------------------------------------------------
(* The program's handle, the call under way and the objects of BlueZ keep  *)
(* their types in every operation of the bindings.                         *)
THEOREM TypeCorrect == Spec => []TypeOK
BY Invariance, PTL DEF IInv

(* find, getObject and the functions that list, return the owner or clone  *)
(* return what they were asked for, but for the descriptor's type number.  *)
THEOREM AnswersFit == Spec => []FoundIsWhatWasAsked
BY Invariance, PTL DEF IInv

(* A handle has the class of its native object, and the clones of services *)
(* and descriptors are the only ones declared as another.                  *)
THEOREM HandlesFit == Spec => []HandleFitsNative
BY Invariance, PTL DEF IInv

(* No call that returns leaves native memory without an owner.             *)
THEOREM NoLeakOnReturn == Spec => []ReturnedCallsCleanUp
BY Invariance, PTL DEF IInv

(* find of a characteristic never finds a descriptor, whatever objects     *)
(* there are: only its time or an error ends it.                           *)
THEOREM BlindForDescriptors == Spec => DescriptorFindIsBlind
<1>1. ASSUME IInv, [Next]_vars
      PROVE  [LooksForDescriptor /\ call' # call =>
                \/ call'.step \in Undefined
                \/ call'.result = {} /\ call.timeout >= NanosPerMilli]_vars
  BY <1>1, BlindStep DEF vars
<1> QED BY <1>1, Invariance, PTL DEF Spec, DescriptorFindIsBlind

LEMMA EndSearchEnds == ASSUME IInv, EndSearch PROVE ~Waiting'
BY StrayInv DEF IInv, TypeOK, EndSearch, Found, TimeOut, Call, Waiting, Undefined

(* A search under way goes on as it is, or is over.                        *)
LEMMA SearchGoesOn ==
    ASSUME IInv, [Next]_vars, Waiting
    PROVE  UNCHANGED call \/ ~Waiting'
<1> USE DEF Waiting
<1>1. ~MayCall /\ call \in Call
  BY DEF MayCall, IInv, TypeOK
<1>2. CASE UNCHANGED vars \/ \E o \in Objects : Appear(o) \/ Disappear(o)
  BY <1>2 DEF vars, Appear, Disappear
<1>3. CASE StartSearch
  BY <1>1, <1>3 DEF StartSearch, Find, FindOfClass, FindChild, Search
<1>4. CASE EndSearch
  BY <1>4, EndSearchEnds
<1>5. CASE FoundUnwrapped \/ FindThrows \/ BreakStray
  BY <1>1, <1>5, StrayInv DEF FoundUnwrapped, FindThrows, Call, Undefined
<1>6. CASE \/ LookUp \/ Misuse \/ \E f \in ListFunctions : List(f)
           \/ \E f \in OwnerFunctions : Owner(f)
           \/ \E f \in CloneFunctions : Clone(f)
  BY <1>1, <1>6 DEF LookUp, Misuse, List, Owner, Clone, Copy
<1>7. CASE Return
  BY <1>7 DEF Return
<1> QED BY <1>2, <1>3, <1>4, <1>5, <1>6, <1>7 DEF Next

(* libtinyb can end a search whose time can be up, or that has a match.    *)
CanEnd == Waiting /\ (ToMillis(call.timeout) > 0 \/ \E o \in present : IsMatch(o))

LEMMA MilliIsEnough ==
    ASSUME NEW d \in Durations, d >= NanosPerMilli
    PROVE  ToMillis(d) > 0
<1>1. d \in Nat /\ NanosPerMilli \in Nat /\ NanosPerMilli > 0
  BY DurationAssumption
<1>2. d \div NanosPerMilli > 0
  BY <1>1, SMT
<1> QED BY <1>2 DEF ToMillis

(* The fairness of EndSearch, with the condition that enables it spelled   *)
(* out: a search that libtinyb can end for ever, it ends.                  *)
EndsWhatItCan == <>[]CanEnd => ~<>[][~EndSearch]_vars

(* FindEnds, from that: nothing but the end of a search changes what it    *)
(* asks for, so that a time of a millisecond or more stays one, and a      *)
(* match stays a match as long as it is there.                             *)
THEOREM SearchesEnd == Spec /\ EndsWhatItCan => FindEnds
<1> DEFINE Timed == Waiting /\ call.timeout >= NanosPerMilli
           Over == ~Waiting
<1>1. IInv /\ [Next]_vars /\ Timed => Timed' \/ Over'
  BY SearchGoesOn
<1>2. IInv /\ Timed => CanEnd
  <2>1. ASSUME IInv, Timed PROVE call.timeout \in Durations
    BY <2>1 DEF IInv, TypeOK, Call
  <2> QED BY <2>1, MilliIsEnough DEF CanEnd
<1>3. IInv /\ ~Over' => [~EndSearch]_vars
  BY EndSearchEnds
<1>4. Timed => ~Over
  OBVIOUS
<1>5. Spec /\ EndsWhatItCan => (Timed ~> Over)
  <2> HIDE DEF Timed, Over
  <2> QED BY <1>1, <1>2, <1>3, <1>4, Invariance, PTL DEF Spec, EndsWhatItCan
<1>6. ASSUME NEW o \in Objects
      PROVE  Spec /\ EndsWhatItCan =>
               (Waiting /\ o \in present /\ IsMatch(o) ~> ~Waiting \/ o \notin present)
  <2> DEFINE Matched == Waiting /\ o \in present /\ IsMatch(o)
             Gone == ~Waiting \/ o \notin present
  <2>1. IInv /\ [Next]_vars /\ Matched => Matched' \/ Gone'
    BY SearchGoesOn DEF IsMatch
  <2>2. Matched => CanEnd
    BY DEF CanEnd
  <2>3. IInv /\ ~Gone' => [~EndSearch]_vars
    BY EndSearchEnds
  <2>4. Spec /\ EndsWhatItCan => (Matched ~> Gone)
    <3> HIDE DEF Matched, Gone
    <3> QED BY <2>1, <2>2, <2>3, Invariance, PTL DEF Spec, EndsWhatItCan
  <2> QED BY <2>4 DEF Matched, Gone
<1> QED BY <1>5, <1>6 DEF FindEnds, Timed, Over

-------------------------------------------------------------------------------
(* The pairs of conversions that an accessor can have.                     *)
LEMMA Rows ==
    ASSUME NEW p \in Accessors
    PROVE  /\ p.reads \in DOMAIN Read \cup {"nothing"}
           /\ \/ p.writes = "nothing"
              \/ p.writes = "string" /\ p.reads \in {"string", "nothing"}
              \/ p.writes = "bool" /\ p.reads \in {"bool", "nothing"}
              \/ p.writes = "bytes" /\ p.reads = "bytes"
              \/ p.writes = "timeout" /\ p.reads = "uint32"
              \/ p.writes \in {"filter", "adapter"} /\ p.reads = "nothing"
<1>1. DOMAIN Read = {"string", "optional_string", "strings", "bool", "uint32",
                     "uint32_as_int", "int16", "uint16", "bytes", "manufacturer_data",
                     "service_data"}
  BY DEF Read
<1> QED BY <1>1 DEF Accessors, Getter, Setter, Property,
      DeviceDisconnect, DeviceConnect, DeviceConnectProfile, DeviceDisconnectProfile,
      DevicePair, DeviceRemove, DeviceCancelPairing, DeviceAddress, DeviceName, DeviceAlias,
      DeviceClass, DeviceAppearance, DeviceIcon, DevicePaired, DeviceTrusted, DeviceBlocked,
      DeviceLegacyPairing, DeviceRSSI, DeviceConnected, DeviceUUIDs, DeviceModalias,
      DeviceManufacturerData, DeviceServiceData, DeviceTxPower, DeviceServicesResolved,
      AdapterStartDiscovery, AdapterStopDiscovery, AdapterAddress, AdapterName, AdapterAlias,
      AdapterClass, AdapterPowered, AdapterDiscoverable, AdapterDiscoverableTimeout,
      AdapterPairable, AdapterSetPairable, AdapterPairableTimeout, AdapterDiscovering,
      AdapterUUIDs, AdapterModalias, AdapterDiscoveryFilter, ManagerDefaultAdapter,
      ManagerDiscovering, ManagerNativeAPIVersion, ServiceUUID, ServicePrimary,
      CharacteristicContents, CharacteristicUUID, CharacteristicCachedValue,
      CharacteristicNotifying, CharacteristicFlags, DescriptorContents, DescriptorUUID,
      DescriptorCachedValue

-------------------------------------------------------------------------------
(* Integers of the same size become one another and back.                  *)
LEMMA SignedAndBack ==
    ASSUME NEW half \in Nat \ {0}
    PROVE  /\ \A v \in Signed(half) : /\ AsUnsigned(v, half) \in Unsigned(half)
                                      /\ AsSigned(AsUnsigned(v, half), half) = v
           /\ \A n, m \in Unsigned(half) :
                /\ AsSigned(n, half) \in Signed(half)
                /\ AsSigned(n, half) = AsSigned(m, half) => n = m
BY DEF Signed, Unsigned, AsSigned, AsUnsigned

(* A truncated integer fits, and when it did before ...                    *)
LEMMA TruncatedType ==
    ASSUME NEW half \in Nat \ {0}, NEW v \in Int
    PROVE  Truncated(v, half) \in Unsigned(half)
<1>1. 2 * half \in Nat \ {0}
  OBVIOUS
<1>2. \A y \in Int, n \in Nat \ {0} : y % n \in 0 .. n - 1
  OBVIOUS
<1> QED BY <1>1, <1>2 DEF Truncated, Unsigned

(* ... it is what it was, or its bits are.                                 *)
LEMMA TruncatedKeeps ==
    ASSUME NEW half \in Nat \ {0}
    PROVE  /\ \A v \in Unsigned(half) : Truncated(v, half) = v
           /\ \A v \in Signed(half) : Truncated(v, half) = AsUnsigned(v, half)
<1>1. ASSUME NEW size \in Nat \ {0}, NEW v \in 0 .. size - 1
      PROVE  v % size = v
  OBVIOUS
<1>2. ASSUME NEW size \in Nat \ {0}, NEW v \in Int, v < 0, 0 - size <= v
      PROVE  v % size = v + size
  <2> DEFINE q == v \div size
             r == v % size
  <2>1. q \in Int /\ r \in 0 .. size - 1 /\ v = size * q + r
    OBVIOUS
  <2> HIDE DEF q, r
  <2>2. CASE q >= 0
    <3>1. size * q >= 0
      BY <2>1, <2>2
    <3> QED BY <1>2, <2>1, <3>1
  <2>3. CASE q <= 0 - 2
    <3>1. size * q <= 0 - 2 * size
      BY <2>1, <2>3
    <3> QED BY <1>2, <2>1, <3>1
  <2>4. CASE q = 0 - 1
    <3>1. size * q = 0 - size
      BY <2>4
    <3>2. r = v + size
      BY <2>1, <3>1
    <3> QED BY <3>2 DEF r
  <2> QED BY <2>1, <2>2, <2>3, <2>4
<1>3. 2 * half \in Nat \ {0}
  OBVIOUS
<1>4. ASSUME NEW v \in Unsigned(half) PROVE Truncated(v, half) = v
  BY <1>1, <1>3 DEF Unsigned, Truncated
<1>5. ASSUME NEW v \in Signed(half) PROVE Truncated(v, half) = AsUnsigned(v, half)
  <2>1. CASE v >= 0
    BY <1>1, <1>3, <2>1 DEF Signed, Truncated, AsUnsigned
  <2>2. CASE v < 0
    <3>1. v \in Int /\ 0 - 2 * half <= v
      BY DEF Signed
    <3>2. v % (2 * half) = v + 2 * half
      BY <1>2, <1>3, <2>2, <3>1
    <3> QED BY <2>2, <3>2 DEF Truncated, AsUnsigned
  <2> QED BY <2>1, <2>2 DEF Signed
<1> QED BY <1>4, <1>5

-------------------------------------------------------------------------------
(* The elements of arrays and lists are converted one by one.              *)
LEMMA Elements ==
    ASSUME NEW S, NEW T, NEW f \in [S -> T], NEW s \in BoundedSeq(S, Longest)
    PROVE  [i \in DOMAIN s |-> f[s[i]]] \in BoundedSeq(T, Longest)
<1>1. PICK m \in 0 .. Longest : s \in [1 .. m -> S]
  BY DEF BoundedSeq, SeqOf
<1>2. [i \in DOMAIN s |-> f[s[i]]] \in [1 .. m -> T]
  BY <1>1
<1> QED BY <1>2 DEF BoundedSeq, SeqOf

(* Arrays and lists whose elements become the same are the same.           *)
LEMMA ElementsDiffer ==
    ASSUME NEW S, NEW T \in SUBSET S, NEW f,
           \A x \in T, y \in S : f[x] = f[y] => x = y,
           NEW s \in BoundedSeq(T, Longest), NEW t \in BoundedSeq(S, Longest),
           [i \in DOMAIN s |-> f[s[i]]] = [i \in DOMAIN t |-> f[t[i]]]
    PROVE  s = t
<1>1. PICK m \in 0 .. Longest : s \in [1 .. m -> T]
  BY DEF BoundedSeq, SeqOf
<1>2. PICK n \in 0 .. Longest : t \in [1 .. n -> S]
  BY DEF BoundedSeq, SeqOf
<1>3. DOMAIN s = DOMAIN t
  <2>1. DOMAIN [i \in DOMAIN s |-> f[s[i]]] = DOMAIN [i \in DOMAIN t |-> f[t[i]]]
    OBVIOUS
  <2> QED BY <2>1
<1>4. \A i \in DOMAIN s : f[s[i]] = f[t[i]]
  <2> TAKE i \in DOMAIN s
  <2>1. [j \in DOMAIN s |-> f[s[j]]][i] = [j \in DOMAIN t |-> f[t[j]]][i]
    OBVIOUS
  <2> QED BY <1>3, <2>1
<1>5. \A i \in DOMAIN s : s[i] = t[i]
  BY <1>1, <1>2, <1>3, <1>4
<1> QED BY <1>1, <1>2, <1>3, <1>5

(* Bytes keep their bits on the way to C++ and back.                       *)
LEMMA ByteOfByte ==
    /\ [v \in Signed(ByteHalf) |-> AsUnsigned(v, ByteHalf)]
         \in [Signed(ByteHalf) -> Unsigned(ByteHalf)]
    /\ \A v \in Signed(ByteHalf) : AsSigned(AsUnsigned(v, ByteHalf), ByteHalf) = v
BY SignedAndBack, PropertyAssumption

(* ... and so do arrays of them.                                           *)
LEMMA BytesWrittenType ==
    ASSUME NEW bs \in DOMAIN BytesWritten, bs # Null
    PROVE  /\ bs \in BoundedSeq(Signed(ByteHalf), Longest)
           /\ BytesWritten[bs] = [i \in DOMAIN bs |-> AsUnsigned(bs[i], ByteHalf)]
           /\ BytesWritten[bs] \in BoundedSeq(Unsigned(ByteHalf), Longest)
<1> DEFINE f == [v \in Signed(ByteHalf) |-> AsUnsigned(v, ByteHalf)]
<1>1. /\ bs \in BoundedSeq(Signed(ByteHalf), Longest)
      /\ BytesWritten[bs] = [i \in DOMAIN bs |-> AsUnsigned(bs[i], ByteHalf)]
  BY DEF BytesWritten
<1>2. \A i \in DOMAIN bs : bs[i] \in Signed(ByteHalf)
  BY <1>1 DEF BoundedSeq, SeqOf
<1>3. [i \in DOMAIN bs |-> f[bs[i]]] = [i \in DOMAIN bs |-> AsUnsigned(bs[i], ByteHalf)]
  BY <1>2
<1>4. [i \in DOMAIN bs |-> f[bs[i]]] \in BoundedSeq(Unsigned(ByteHalf), Longest)
  <2>1. f \in [Signed(ByteHalf) -> Unsigned(ByteHalf)]
    BY ByteOfByte
  <2> HIDE DEF f
  <2> QED BY <1>1, <2>1, Elements
<1> QED BY <1>1, <1>3, <1>4

(* What was written is read.                                               *)
LEMMA BytesAndBack ==
    ASSUME NEW bs \in DOMAIN BytesWritten, bs # Null
    PROVE  BytesRead[BytesWritten[bs]] = bs
<1>1. PICK m \in 0 .. Longest : bs \in [1 .. m -> Signed(ByteHalf)]
  BY BytesWrittenType DEF BoundedSeq, SeqOf
<1> DEFINE w == [i \in DOMAIN bs |-> AsUnsigned(bs[i], ByteHalf)]
<1>2. BytesWritten[bs] = w /\ w \in BoundedSeq(Unsigned(ByteHalf), Longest)
  BY BytesWrittenType
<1>3. BytesRead[w] = [i \in DOMAIN w |-> AsSigned(w[i], ByteHalf)]
  BY <1>2 DEF BytesRead
<1>4. \A i \in DOMAIN bs : AsSigned(w[i], ByteHalf) = bs[i]
  BY <1>1, ByteOfByte
<1>5. [i \in DOMAIN w |-> AsSigned(w[i], ByteHalf)] = bs
  BY <1>1, <1>4
<1> QED BY <1>2, <1>3, <1>5

(* The two records, field by field.                                        *)
LEMMA WrittenFields ==
    /\ Written["string"] = StringWritten /\ Written["bool"] = [b \in BOOLEAN |-> b]
    /\ Written["bytes"] = BytesWritten /\ Written["timeout"] = TimeoutWritten
    /\ Written["filter"] = FilterWritten /\ Written["adapter"] = AdapterWritten
BY DEF Written

(* ... what is read.                                                       *)
LEMMA ReadFields ==
    /\ Read["string"] = StringRead /\ Read["optional_string"] = OptionalStringRead
    /\ Read["strings"] = StringsRead /\ Read["bool"] = [b \in BOOLEAN |-> b]
    /\ Read["uint32"] = [n \in Unsigned(IntHalf) |-> n]
    /\ Read["uint32_as_int"] = [n \in Unsigned(IntHalf) |-> AsSigned(n, IntHalf)]
    /\ Read["int16"] = [n \in Signed(ShortHalf) |-> n]
    /\ Read["uint16"] = [n \in Unsigned(ShortHalf) |-> AsSigned(n, ShortHalf)]
    /\ Read["bytes"] = BytesRead
    /\ Read["manufacturer_data"] = ManufacturerDataRead
    /\ Read["service_data"] = ServiceDataRead
BY DEF Read

(* What the native functions accept is a value of the property.            *)
LEMMA WrittenType ==
    ASSUME NEW p \in Accessors, HasSetter(p), NEW v \in DOMAIN Written[p.writes],
           Written[p.writes][v] # Refused
    PROVE  Written[p.writes][v] \in NativeValues(p)
<1>1. CASE ~HasGetter(p)
  BY <1>1 DEF NativeValues
<1>2. CASE HasGetter(p)
  <2>1. NativeValues(p) = DOMAIN Read[p.reads]
    BY <1>2 DEF NativeValues
  <2>2. CASE p.writes = "string" /\ p.reads = "string"
    BY <2>1, <2>2, WrittenFields, ReadFields
    DEF StringWritten, StringRead, ToUTF8, Texts, JavaTexts
  <2>3. CASE p.writes = "bool" /\ p.reads = "bool"
    BY <2>1, <2>3, WrittenFields, ReadFields
  <2>4. CASE p.writes = "bytes" /\ p.reads = "bytes"
    <3>1. v # Null
      BY <2>4, WrittenFields DEF BytesWritten
    <3>2. BytesWritten[v] \in DOMAIN BytesRead
      BY <2>4, <3>1, WrittenFields, BytesWrittenType DEF BytesRead
    <3> QED BY <2>1, <2>4, <3>2, WrittenFields, ReadFields
  <2>5. CASE p.writes = "timeout" /\ p.reads = "uint32"
    <3>1. v \in Int /\ TimeoutWritten[v] = Truncated(v, IntHalf)
      BY <2>5, WrittenFields, PropertyAssumption DEF TimeoutWritten, Signed
    <3>2. Truncated(v, IntHalf) \in Unsigned(IntHalf)
      BY <3>1, TruncatedType, PropertyAssumption
    <3> QED BY <2>1, <2>5, <3>1, <3>2, WrittenFields, ReadFields
  <2> QED BY <1>2, <2>2, <2>3, <2>4, <2>5, Rows DEF HasGetter, HasSetter
<1> QED BY <1>1, <1>2

(* ... and the arguments that fit.                                         *)
LEMMA FittingFields ==
    /\ Fitting["string"] = Plain /\ Fitting["bool"] = BOOLEAN
    /\ Fitting["timeout"] = Unsigned(IntHalf) /\ Fitting["adapter"] = Adapters
    /\ Fitting["filter"] = [rssi : Signed(ShortHalf), pathloss : Unsigned(ShortHalf),
                            transport : Transports]
BY DEF Fitting

(* The transports have the same numbers on both sides.                     *)
LEMMA TransportsKept ==
    ASSUME NEW t \in Transports
    PROVE  FromIntToTransportType(TransportOrdinal[t]) = t
<1>1. /\ TransportOrdinal["AUTO"] = 0 /\ TransportOrdinal["BREDR"] = 1
      /\ TransportOrdinal["LE"] = 2
  BY DEF TransportOrdinal
<1> QED BY <1>1 DEF Transports, FromIntToTransportType

(* A filter that fits is the filter that libtinyb gets.                    *)
LEMMA FilterKept ==
    ASSUME NEW f \in DOMAIN FilterWritten, f \in Fitting["filter"]
    PROVE  FilterWritten[f] = f
<1>1. /\ f.rssi \in Signed(ShortHalf) /\ f.pathloss \in Unsigned(ShortHalf)
      /\ f.transport \in Transports
      /\ f = [rssi |-> f.rssi, pathloss |-> f.pathloss, transport |-> f.transport]
  BY FittingFields
<1>2. AsSigned(Truncated(f.rssi, ShortHalf), ShortHalf) = f.rssi
  BY <1>1, TruncatedKeeps, SignedAndBack, PropertyAssumption
<1>3. Truncated(f.pathloss, ShortHalf) = f.pathloss
  BY <1>1, TruncatedKeeps, PropertyAssumption
<1>4. FromIntToTransportType(TransportOrdinal[f.transport]) = f.transport
  BY <1>1, TransportsKept
<1>5. FilterWritten[f] =
        [rssi |-> AsSigned(Truncated(f.rssi, ShortHalf), ShortHalf),
         pathloss |-> Truncated(f.pathloss, ShortHalf),
         transport |-> FromIntToTransportType(TransportOrdinal[f.transport])]
  BY DEF FilterWritten
<1> QED BY <1>1, <1>2, <1>3, <1>4, <1>5

(* What fits, comes back as it was.                                        *)
LEMMA FittingKept ==
    ASSUME NEW p \in Accessors, HasSetter(p), NEW v \in DOMAIN Written[p.writes],
           Written[p.writes][v] # Refused, v \in Fitting[p.writes]
    PROVE  Meaning(p, Written[p.writes][v]) = v
<1>1. CASE p.writes = "string" /\ p.reads \in {"string", "nothing"}
  <2>1. v \in Plain /\ v \notin Wide \cup WithNul /\ v \in JavaTexts
    BY <1>1, FittingFields, PropertyAssumption DEF Texts, JavaTexts
  <2>2. Written[p.writes][v] = v
    BY <1>1, <2>1, WrittenFields DEF StringWritten, ToUTF8
  <2>3. StringRead[v] = v
    BY <1>1, <2>1, FittingFields DEF StringRead, FromUTF8, Texts
  <2> QED BY <1>1, <2>2, <2>3, ReadFields DEF Meaning, HasGetter
<1>2. CASE p.writes = "bool" /\ p.reads \in {"bool", "nothing"}
  BY <1>2, WrittenFields, ReadFields DEF Meaning, HasGetter
<1>3. CASE p.writes = "bytes" /\ p.reads = "bytes"
  <2>1. v # Null
    BY <1>3, WrittenFields DEF BytesWritten
  <2>2. BytesRead[BytesWritten[v]] = v
    BY <1>3, <2>1, WrittenFields, BytesAndBack
  <2> QED BY <1>3, <2>2, WrittenFields, ReadFields DEF Meaning, HasGetter
<1>4. CASE p.writes = "timeout" /\ p.reads = "uint32"
  <2>1. v \in Unsigned(IntHalf) /\ v >= 0
    BY <1>4, FittingFields, PropertyAssumption DEF Unsigned
  <2>2. TimeoutWritten[v] = Truncated(v, IntHalf)
    BY <1>4, <2>1, WrittenFields DEF TimeoutWritten
  <2>3. Truncated(v, IntHalf) = v
    BY <2>1, TruncatedKeeps, PropertyAssumption
  <2> QED BY <1>4, <2>1, <2>2, <2>3, WrittenFields, ReadFields DEF Meaning, HasGetter
<1>5. CASE p.writes = "filter" /\ p.reads = "nothing"
  BY <1>5, FilterKept, WrittenFields DEF Meaning, HasGetter
<1>6. CASE p.writes = "adapter" /\ p.reads = "nothing"
  BY <1>6, WrittenFields DEF AdapterWritten, Meaning, HasGetter
<1> QED BY <1>1, <1>2, <1>3, <1>4, <1>5, <1>6, Rows DEF HasSetter

-------------------------------------------------------------------------------
(* Maps: keys that become different ones lose no entry.                    *)
LEMMA MapsDiffer ==
    ASSUME NEW K, NEW L \in SUBSET K, NEW key,
           \A i \in L, j \in K : key[i] = key[j] => i = j,
           NEW d \in MapsFrom(L), NEW e \in MapsFrom(K),
           ToHashMap(d, key) = ToHashMap(e, key)
    PROVE  d = e
<1>1. /\ DOMAIN d \subseteq L /\ d \in [DOMAIN d -> Unsigned(ByteHalf)]
      /\ DOMAIN e \subseteq K /\ e \in [DOMAIN e -> Unsigned(ByteHalf)]
  BY DEF MapsFrom
<1>2. {key[i] : i \in DOMAIN d} = {key[i] : i \in DOMAIN e}
  <2>1. DOMAIN ToHashMap(d, key) = DOMAIN ToHashMap(e, key)
    OBVIOUS
  <2> QED BY <2>1 DEF ToHashMap
<1>3. DOMAIN d = DOMAIN e
  BY <1>1, <1>2
<1>4. ASSUME NEW i \in DOMAIN d PROVE d[i] = e[i]
  <2>1. (CHOOSE j \in DOMAIN d : key[j] = key[i]) = i
    BY <1>1
  <2>2. (CHOOSE j \in DOMAIN e : key[j] = key[i]) = i
    BY <1>1, <1>3
  <2>3. ToHashMap(d, key)[key[i]] = AsSigned(d[i], ByteHalf)
    BY <2>1 DEF ToHashMap
  <2>4. ToHashMap(e, key)[key[i]] = AsSigned(e[i], ByteHalf)
    BY <1>3, <2>2 DEF ToHashMap
  <2>5. AsSigned(d[i], ByteHalf) = AsSigned(e[i], ByteHalf)
    BY <2>3, <2>4
  <2>6. d[i] \in Unsigned(ByteHalf) /\ e[i] \in Unsigned(ByteHalf)
    BY <1>1, <1>3
  <2> QED BY <2>5, <2>6, SignedAndBack, PropertyAssumption
<1> QED BY <1>1, <1>3, <1>4

(* The types of C++, one by one.                                           *)
LEMMA NativesFields ==
    ASSUME NEW texts
    PROVE  /\ DOMAIN Natives(texts) = DOMAIN Read
           /\ Natives(texts)["string"] = texts
           /\ Natives(texts)["optional_string"] = texts \cup {Null}
           /\ Natives(texts)["strings"] = BoundedSeq(texts, Longest)
           /\ Natives(texts)["bool"] = BOOLEAN
           /\ Natives(texts)["uint32"] = Unsigned(IntHalf)
           /\ Natives(texts)["uint32_as_int"] = Unsigned(IntHalf)
           /\ Natives(texts)["int16"] = Signed(ShortHalf)
           /\ Natives(texts)["uint16"] = Unsigned(ShortHalf)
           /\ Natives(texts)["bytes"] = BoundedSeq(Unsigned(ByteHalf), Longest)
           /\ Natives(texts)["manufacturer_data"] = MapsFrom(Unsigned(ShortHalf))
           /\ Natives(texts)["service_data"] = MapsFrom(texts)
BY DEF Natives, Read

(* A text without a wide character is read as no other.                    *)
LEMMA TextsDiffer ==
    /\ Plain \in SUBSET Texts
    /\ \A s \in Plain, t \in Texts : StringRead[s] = StringRead[t] => s = t
BY PropertyAssumption DEF Texts, StringRead, FromUTF8

(* Two values of a type are read as two values.                            *)
LEMMA ReadDiffers ==
    ASSUME NEW type \in DOMAIN Read, NEW n \in Natives(Plain)[type],
           NEW m \in DOMAIN Read[type], Read[type][n] = Read[type][m]
    PROVE  n = m
<1>1. CASE type = "string"
  BY <1>1, TextsDiffer, NativesFields, ReadFields DEF StringRead
<1>2. CASE type = "optional_string"
  BY <1>2, NativesFields, ReadFields, PropertyAssumption
  DEF OptionalStringRead, FromUTF8, Texts
<1>3. CASE type = "strings"
  <2>1. /\ n \in BoundedSeq(Plain, Longest) /\ m \in BoundedSeq(Texts, Longest)
        /\ StringsRead[n] = StringsRead[m]
    BY <1>3, NativesFields, ReadFields DEF StringsRead
  <2>2. ASSUME NEW s \in BoundedSeq(Texts, Longest)
        PROVE  StringsRead[s] = [i \in DOMAIN s |-> StringRead[s[i]]]
    <3>1. \A i \in DOMAIN s : StringRead[s[i]] = FromUTF8(s[i])
      BY <2>2 DEF StringRead, BoundedSeq, SeqOf
    <3> QED BY <3>1 DEF StringsRead
  <2>3. n \in BoundedSeq(Texts, Longest)
    BY <2>1, TextsDiffer DEF BoundedSeq, SeqOf
  <2>4. [i \in DOMAIN n |-> StringRead[n[i]]] = [i \in DOMAIN m |-> StringRead[m[i]]]
    BY <2>1, <2>2, <2>3
  <2> QED BY <2>1, <2>4, TextsDiffer, ElementsDiffer
<1>4. CASE type = "bool"
  BY <1>4, NativesFields, ReadFields
<1>5. CASE type \in {"uint32", "int16"}
  BY <1>5, NativesFields, ReadFields
<1>6. CASE type = "uint32_as_int"
  BY <1>6, NativesFields, ReadFields, SignedAndBack, PropertyAssumption
<1>7. CASE type = "uint16"
  BY <1>7, NativesFields, ReadFields, SignedAndBack, PropertyAssumption
<1>8. CASE type = "bytes"
  <2> DEFINE f == [b \in Unsigned(ByteHalf) |-> AsSigned(b, ByteHalf)]
  <2>1. /\ n \in BoundedSeq(Unsigned(ByteHalf), Longest)
        /\ m \in BoundedSeq(Unsigned(ByteHalf), Longest)
        /\ BytesRead[n] = BytesRead[m]
    BY <1>8, NativesFields, ReadFields DEF BytesRead
  <2>2. ASSUME NEW s \in BoundedSeq(Unsigned(ByteHalf), Longest)
        PROVE  BytesRead[s] = [i \in DOMAIN s |-> f[s[i]]]
    <3>1. \A i \in DOMAIN s : f[s[i]] = AsSigned(s[i], ByteHalf)
      BY <2>2 DEF BoundedSeq, SeqOf
    <3> QED BY <3>1 DEF BytesRead
  <2>3. \A x, y \in Unsigned(ByteHalf) : f[x] = f[y] => x = y
    BY SignedAndBack, PropertyAssumption
  <2>4. [i \in DOMAIN n |-> f[n[i]]] = [i \in DOMAIN m |-> f[m[i]]]
    BY <2>1, <2>2
  <2> HIDE DEF f
  <2> QED BY <2>1, <2>3, <2>4, ElementsDiffer
<1>9. CASE type = "manufacturer_data"
  <2> DEFINE key == [k \in Unsigned(ShortHalf) |-> AsSigned(k, ShortHalf)]
  <2>1. /\ n \in MapsFrom(Unsigned(ShortHalf)) /\ m \in MapsFrom(Unsigned(ShortHalf))
        /\ ToHashMap(n, key) = ToHashMap(m, key)
    BY <1>9, NativesFields, ReadFields DEF ManufacturerDataRead
  <2>2. \A i, j \in Unsigned(ShortHalf) : key[i] = key[j] => i = j
    BY SignedAndBack, PropertyAssumption
  <2> HIDE DEF key
  <2> QED BY <2>1, <2>2, MapsDiffer
<1>10. CASE type = "service_data"
  <2>1. /\ n \in MapsFrom(Plain) /\ m \in MapsFrom(Texts)
        /\ ServiceDataRead[n] = ServiceDataRead[m]
    BY <1>10, NativesFields, ReadFields DEF ServiceDataRead
  <2>2. n \in MapsFrom(Texts)
    BY <2>1, TextsDiffer DEF MapsFrom
  <2>3. ToHashMap(n, StringRead) = ToHashMap(m, StringRead)
    BY <2>1, <2>2 DEF ServiceDataRead
  <2> QED BY <2>1, <2>3, TextsDiffer, MapsDiffer
<1> QED BY <1>1, <1>2, <1>3, <1>4, <1>5, <1>6, <1>7, <1>8, <1>9, <1>10 DEF Read

-------------------------------------------------------------------------------
(* What has been given is what is stored, what was got was read from it.   *)
PropertyInv ==
    /\ property \in Accessors \cup {NoValue}
    /\ stored # NoValue => property # NoValue /\ stored \in NativeValues(property)
    /\ given # NoValue =>
        /\ property # NoValue
        /\ HasSetter(property)
        /\ given \in DOMAIN Written[property.writes]
        /\ Written[property.writes][given] # Refused
        /\ stored = Written[property.writes][given]
    /\ got # NoValue =>
        /\ property # NoValue
        /\ HasGetter(property)
        /\ stored \in NativeValues(property)
        /\ got = Read[property.reads][stored]

LEMMA PropertyInitInv == PropertiesInit => PropertyInv
BY DEF PropertiesInit, PropertyInv

(* Set and its failures.                                                   *)
LEMMA WriteInv == ASSUME PropertyInv, Write PROVE PropertyInv'
<1>1. /\ property \in Accessors /\ property # NoValue
      /\ HasSetter(property)
  BY DEF PropertyInv, Write
<1>2. PICK v \in DOMAIN Written[property.writes] : Set(v) \/ SetRefused(v) \/ SetFails(v)
  BY DEF Write
<1>3. CASE Set(v)
  <2>1. Written[property.writes][v] # Refused
    BY <1>3 DEF Set
  <2>2. Written[property.writes][v] \in NativeValues(property)
    BY <1>1, <2>1, WrittenType
  <2> QED BY <1>1, <1>3, <2>1, <2>2 DEF Set, PropertyInv
<1>4. CASE SetRefused(v)
  BY <1>4 DEF SetRefused, propertyVars, PropertyInv
<1>5. CASE SetFails(v)
  <2>1. Written[property.writes][v] # Refused
    BY <1>5 DEF SetFails
  <2>2. Written[property.writes][v] \in NativeValues(property)
    BY <1>1, <2>1, WrittenType
  <2> QED BY <1>1, <1>5, <2>2 DEF SetFails, PropertyInv
<1> QED BY <1>2, <1>3, <1>4, <1>5

LEMMA PropertyNextInv == ASSUME PropertyInv, [PropertiesNext]_propertyVars PROVE PropertyInv'
<1>1. CASE \E p \in Accessors : Use(p)
  BY <1>1 DEF Use, PropertyInv
<1>2. CASE PropertyChanges
  BY <1>2 DEF PropertyChanges, PropertyInv
<1>3. CASE Get
  BY <1>3 DEF Get, PropertyInv
<1>4. CASE GetFails
  BY <1>4 DEF GetFails, PropertyInv
<1>5. CASE Write
  BY <1>5, WriteInv
<1>6. CASE UNCHANGED propertyVars
  BY <1>6 DEF propertyVars, PropertyInv
<1> QED BY <1>1, <1>2, <1>3, <1>4, <1>5, <1>6 DEF PropertiesNext

LEMMA PropertyInvariance == PropertiesSpec => []PropertyInv
BY PropertyInitInv, PropertyNextInv, PTL DEF PropertiesSpec

LEMMA SurvivesInv == PropertyInv => SettingSurvives
BY FittingKept DEF PropertyInv, SettingSurvives

LEMMA TellsInv == PropertyInv => GottenTellsStored
<1> SUFFICES ASSUME PropertyInv, got # NoValue,
                    NEW n \in Natives(Plain)[property.reads], Read[property.reads][n] = got
             PROVE  n = stored
  BY DEF GottenTellsStored
<1>1. /\ property \in Accessors /\ HasGetter(property)
      /\ stored \in NativeValues(property)
      /\ got = Read[property.reads][stored]
  BY DEF PropertyInv
<1>2. property.reads \in DOMAIN Read
  BY <1>1, Rows DEF HasGetter
<1>3. stored \in DOMAIN Read[property.reads]
  BY <1>1 DEF NativeValues
<1> QED BY <1>1, <1>2, <1>3, ReadDiffers

(* The property keeps a value of its C++ type, whoever changes it.         *)
THEOREM PropertiesTypeCorrect == PropertiesSpec => []PropertiesTypeOK
<1>1. PropertyInv => PropertiesTypeOK
  BY DEF PropertyInv, PropertiesTypeOK
<1> QED BY <1>1, PropertyInvariance, PTL

(* What the program has set and what fits, comes back, for any widths of   *)
(* integers and lengths of arrays.                                         *)
THEOREM SettingsSurvive == PropertiesSpec => []SettingSurvives
BY SurvivesInv, PropertyInvariance, PTL

(* The getters of the bindings tell any two values apart.                  *)
THEOREM ReadingsTell == PropertiesSpec => []GottenTellsStored
BY TellsInv, PropertyInvariance, PTL
===============================================================================
