----------------------------- MODULE TinybHandles -----------------------------
(***************************************************************************)
(* The tinyb bindings: Java handles (BluetoothObject and its subclasses)   *)
(* that own objects on the native heap, and the callbacks that the native  *)
(* objects keep for the Java program.                                      *)
(*                                                                         *)
(* A handle releases its native object in close(), which the program may   *)
(* call and the finalizer calls again.  An installed callback is a JNI     *)
(* global reference: it keeps the Java objects it captures, handles among  *)
(* them, from being collected for as long as the native object that holds  *)
(* it exists.                                                              *)
(***************************************************************************)
CONSTANTS
    Handles,    \* Java objects
    Addresses,  \* addresses of native objects; a freed one is used again
    Kinds,      \* the notifications the program uses, of one Java class
    Plain,      \* a callback that captures no handle
    Nothing

-------------------------------------------------------------------------------
(* The property whose callback an enable...Notifications function sets,    *)
(* and the one whose callback its disable...Notifications clears.          *)
Notification(enabled, disabled) == [enables |-> enabled, disables |-> disabled]

(* tinyb.BluetoothDevice *)
Paired == Notification("paired", "paired")
Trusted == Notification("trusted", "trusted")
Blocked == Notification("blocked", "blocked")
RSSI == Notification("rssi", "rssi")
Connected == Notification("connected", "connected")
ManufacturerData == Notification("manufacturer_data", "service_data")
ServiceData == Notification("service_data", "service_data")
ServicesResolved == Notification("services_resolved", "services_resolved")

(* tinyb.BluetoothAdapter *)
Powered == Notification("powered", "powered")
Discoverable == Notification("discoverable", "discoverable")
Pairable == Notification("pairable", "pairable")
Discovering == Notification("discovering", "discovering")

(* tinyb.BluetoothGattCharacteristic and tinyb.BluetoothGattDescriptor *)
CharacteristicValue == Notification("characteristic_value", "characteristic_value")
DescriptorValue == Notification("descriptor_value", "descriptor_value")

Notifications ==
    [paired |-> Paired, trusted |-> Trusted, blocked |-> Blocked, rssi |-> RSSI,
     connected |-> Connected, manufacturer_data |-> ManufacturerData,
     service_data |-> ServiceData, services_resolved |-> ServicesResolved,
     powered |-> Powered, discoverable |-> Discoverable, pairable |-> Pairable,
     discovering |-> Discovering, characteristic_value |-> CharacteristicValue,
     descriptor_value |-> DescriptorValue]

ASSUME HandleAssumption ==
    /\ Kinds \subseteq DOMAIN Notifications
    /\ \A k \in Kinds : Notifications[k].enables \in Kinds /\ Notifications[k].disables \in Kinds
    /\ Plain \notin Handles /\ Nothing \notin Handles \cup Addresses /\ Plain # Nothing

VARIABLES
    handle,     \* the Java objects
    allocated,  \* the native objects that exist
    slot        \* per native object and property, the callback it keeps

vars == <<handle, allocated, slot>>

(* A Java object: is it valid (not closed), what is in its nativeInstance, *)
(* and does the program - a field, or the frame of a Java or native method *)
(* - refer to it?  Unused is an object not created yet, or collected.      *)
Handle == [isValid : BOOLEAN, nativeInstance : Addresses \cup {Nothing}, rooted : BOOLEAN]

Unused == [isValid |-> FALSE, nativeInstance |-> Nothing, rooted |-> FALSE]

Callbacks == Handles \cup {Plain, Nothing}

NoCallbacks == [k \in Kinds |-> Nothing]

Native(h) == handle[h].nativeInstance

(* The rule of BluetoothObject.close: the program does not use a handle    *)
(* that it has closed.                                                     *)
Usable(h) == handle[h].rooted /\ handle[h].isValid

(* The garbage collector's view of a handle.                               *)
Captured(h) == \E a \in allocated, k \in Kinds : slot[a][k] = h

Reachable(h) == handle[h].rooted \/ Captured(h)

Init ==
    /\ handle = [h \in Handles |-> Unused]
    /\ allocated = {}
    /\ slot = [a \in Addresses |-> NoCallbacks]

-------------------------------------------------------------------------------
(* Mutant: no check whether the native function has found anything.        *)
WrapNull(h) ==
    \E a \in (Addresses \ allocated) \cup {Nothing} :
        /\ handle[h] = Unused
        /\ handle' = [handle EXCEPT ![h] = [isValid |-> TRUE, nativeInstance |-> a,
                                            rooted |-> TRUE]]
        /\ allocated' = allocated \cup {a}
        /\ UNCHANGED slot

(* A native function returns a new native object in a new handle.          *)
Wrap(h) ==
    \E a \in Addresses \ allocated :
        /\ handle[h] = Unused
        /\ handle' = [handle EXCEPT ![h] = [isValid |-> TRUE, nativeInstance |-> a,
                                            rooted |-> TRUE]]
        /\ allocated' = allocated \cup {a}
        /\ UNCHANGED slot

(* The native object has been released from its unique_ptr, but NewObject  *)
(* fails: nobody owns it.                                                  *)
WrapFails ==
    \E a \in Addresses \ allocated :
        /\ allocated' = allocated \cup {a}
        /\ UNCHANGED <<handle, slot>>

Clone(g, h) == Usable(g) /\ Wrap(h)

(* Mutants: a second close() deletes again; a close() that only marks the  *)
(* handle.                                                                 *)
ReleaseAgain(h) ==
    /\ allocated' = allocated \ {Native(h)}
    /\ slot' = [slot EXCEPT ![Native(h)] = NoCallbacks]

ReleaseNothing(h) == UNCHANGED <<allocated, slot>>

(* What close() does to the native side; delete destroys the callbacks     *)
(* that the object keeps.                                                  *)
Release(h) ==
    IF handle[h].isValid
    THEN /\ allocated' = allocated \ {Native(h)}
         /\ slot' = [slot EXCEPT ![Native(h)] = NoCallbacks]
    ELSE UNCHANGED <<allocated, slot>>

Close(h) ==
    /\ handle[h].rooted
    /\ handle' = [handle EXCEPT ![h].isValid = FALSE]
    /\ Release(h)

(* The program forgets the handle.                                         *)
Drop(h) ==
    /\ handle[h].rooted
    /\ handle' = [handle EXCEPT ![h].rooted = FALSE]
    /\ UNCHANGED <<allocated, slot>>

(* finalize() calls close(), and the object is collected.                  *)
Finalize(h) ==
    /\ handle[h] # Unused
    /\ ~Reachable(h)
    /\ handle' = [handle EXCEPT ![h] = Unused]
    /\ Release(h)

(* enable...Notifications(callback): the callback replaces an older one.   *)
Enable(h, k, callback) ==
    /\ Usable(h)
    /\ callback \in {Plain} \cup {g \in Handles : handle[g].rooted}
    /\ slot' = [slot EXCEPT ![Native(h)][Notifications[k].enables] = callback]
    /\ UNCHANGED <<handle, allocated>>

Disable(h, k) ==
    /\ Usable(h)
    /\ slot' = [slot EXCEPT ![Native(h)][Notifications[k].disables] = Nothing]
    /\ UNCHANGED <<handle, allocated>>

(* A notification arrives: the callback runs, and may hand the handle it   *)
(* captures back to the program.                                           *)
Notify(a, k) ==
    /\ a \in allocated
    /\ slot[a][k] \in Handles
    /\ handle' = [handle EXCEPT ![slot[a][k]].rooted = TRUE]
    /\ UNCHANGED <<allocated, slot>>

-------------------------------------------------------------------------------
Next ==
    \/ WrapFails
    \/ \E h \in Handles : Wrap(h) \/ Close(h) \/ Drop(h) \/ Finalize(h)
    \/ \E g, h \in Handles : Clone(g, h)
    \/ \E h \in Handles, k \in Kinds : Disable(h, k)
    \/ \E h \in Handles, k \in Kinds, callback \in Callbacks : Enable(h, k, callback)
    \/ \E a \in Addresses, k \in Kinds : Notify(a, k)

Spec == Init /\ [][Next]_vars

(* The collector runs again and again, and the finalizers with it.         *)
FairSpec == Spec /\ \A h \in Handles : WF_vars(Finalize(h))

-------------------------------------------------------------------------------
(* Type correctness of the handles and of the native heap.                 *)
TypeOK ==
    /\ handle \in [Handles -> Handle]
    /\ allocated \subseteq Addresses
    /\ slot \in [Addresses -> [Kinds -> Callbacks]]

(* The memory discipline of the bindings: a handle that has not been       *)
(* closed owns a native object that exists and that no other handle owns,  *)
(* freed memory keeps no callback, and a handle that a callback may still  *)
(* hand to the program has not been collected - whatever the program       *)
(* closes or drops, in whatever order the finalizers run, and although     *)
(* the addresses of freed objects are used again (BluetoothObject.close    *)
(* and finalize, the JNI delete and enable functions).                     *)
ValidOwnsNative ==
    \A h \in Handles : handle[h].isValid =>
        /\ Native(h) \in allocated
        /\ \A g \in Handles \ {h} : handle[g].isValid => Native(g) # Native(h)

FreedKeepsNoCallback == \A a \in Addresses \ allocated : slot[a] = NoCallbacks

CapturedIsNotCollected == \A h \in Handles : Captured(h) => handle[h] # Unused

HandlesOwnTheirNatives == ValidOwnsNative /\ FreedKeepsNoCallback /\ CapturedIsNotCollected

(* A native object that has had an owner is freed with it: only what a     *)
(* failing wrap has released leaks.                                        *)
Owned == {Native(h) : h \in {g \in Handles : handle[g].isValid}}

OwnedUntilFreed == [][ \A a \in Owned : a \in Owned' \/ a \notin allocated' ]_vars

(* The handles that stay: those the program refers to, those captured by a *)
(* callback that the native object of a handle that stays keeps - a ring   *)
(* of handles that capture one another, or a handle captured by its own    *)
(* callback, among them.                                                   *)
Staying(hs) ==
    \A h \in hs :
        handle[h].rooted \/ \E g \in hs, k \in Kinds :
                              handle[g].isValid /\ slot[Native(g)][k] = h

Held == UNION {hs \in SUBSET Handles : Staying(hs)}

(* Dropping is enough: a handle that neither the program nor a ring of     *)
(* callbacks holds is collected in the end, and its native object freed    *)
(* with it, although a chain of callbacks of other dropped handles may     *)
(* still lead to it (finalize, delete and the global references of         *)
(* installed callbacks).                                                   *)
DroppedHandleIsFreed ==
    \A h \in Handles : <>[](h \notin Held) => <>[](handle[h] = Unused)

(* The documentation of the disable functions: each "unregisters the       *)
(* callback object passed through the corresponding enable method".        *)
DisableUnregisters ==
    [][ \A h \in Handles, k \in Kinds :
          Disable(h, k) => slot'[Native(h)][k] = Nothing ]_vars
===============================================================================
