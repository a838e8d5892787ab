-------------------------- MODULE TinybHandles_proofs --------------------------
(***************************************************************************)
(* The memory discipline of the tinyb bindings, for every number of        *)
(* handles, native objects and notifications, what the collector can take, *)
(* and which disable functions do what they promise.                       *)
(***************************************************************************)
EXTENDS TinybHandles, TLAPS

(* A closed handle still holds the address of its native object.           *)
UsedHasNative == \A h \in Handles : handle[h] = Unused \/ Native(h) \in Addresses

IInv == TypeOK /\ UsedHasNative /\ HandlesOwnTheirNatives

-------------------------------------------------------------------------------
LEMMA InitInv == Init => IInv
<1> SUFFICES ASSUME Init PROVE IInv
  OBVIOUS
<1>1. Unused \in Handle /\ ~Unused.isValid
  BY DEF Unused, Handle
<1>2. NoCallbacks \in [Kinds -> Callbacks]
  BY DEF NoCallbacks, Callbacks
<1>3. TypeOK
  BY <1>1, <1>2 DEF Init, TypeOK
<1>4. \A h \in Handles : ~handle[h].isValid /\ ~Captured(h)
  BY <1>1 DEF Init, Captured
<1>5. HandlesOwnTheirNatives
  BY <1>4 DEF HandlesOwnTheirNatives, ValidOwnsNative, FreedKeepsNoCallback,
              CapturedIsNotCollected, Init
<1>6. UsedHasNative
  BY DEF UsedHasNative, Init
<1> QED BY <1>3, <1>5, <1>6 DEF IInv

(* A new native object is new: no handle owns it, and it keeps nothing.    *)
LEMMA WrapInv ==
    ASSUME IInv, NEW h \in Handles, Wrap(h)
    PROVE  IInv'
<1>1. PICK a \in Addresses \ allocated :
        /\ handle[h] = Unused
        /\ handle' = [handle EXCEPT ![h] = [isValid |-> TRUE, nativeInstance |-> a,
                                            rooted |-> TRUE]]
        /\ allocated' = allocated \cup {a}
        /\ UNCHANGED slot
  BY DEF Wrap
<1>2. TypeOK'
  BY <1>1 DEF IInv, TypeOK, Handle
<1>3. /\ handle'[h] = [isValid |-> TRUE, nativeInstance |-> a, rooted |-> TRUE]
      /\ \A g \in Handles \ {h} : handle'[g] = handle[g]
  BY <1>1 DEF IInv, TypeOK
<1>4. ValidOwnsNative'
  BY <1>1, <1>3 DEF IInv, HandlesOwnTheirNatives, ValidOwnsNative, Native
<1>5. FreedKeepsNoCallback'
  BY <1>1 DEF IInv, HandlesOwnTheirNatives, FreedKeepsNoCallback
<1>6. ASSUME NEW g \in Handles, Captured(g)' PROVE Captured(g)
  <2>1. slot[a] = NoCallbacks
    BY DEF IInv, HandlesOwnTheirNatives, FreedKeepsNoCallback
  <2>2. g # Nothing
    BY HandleAssumption
  <2> QED BY <1>1, <1>6, <2>1, <2>2 DEF Captured, NoCallbacks
<1>7. CapturedIsNotCollected'
  <2>1. handle'[h] # Unused
    BY <1>3 DEF Unused
  <2> QED BY <1>3, <1>6, <2>1 DEF IInv, HandlesOwnTheirNatives, CapturedIsNotCollected
<1>8. UsedHasNative'
  BY <1>3 DEF IInv, UsedHasNative, Native
<1> QED BY <1>2, <1>4, <1>5, <1>7, <1>8 DEF IInv, HandlesOwnTheirNatives

LEMMA WrapFailsInv ==
    ASSUME IInv, WrapFails
    PROVE  IInv'
<1>1. PICK a \in Addresses \ allocated :
        allocated' = allocated \cup {a} /\ UNCHANGED <<handle, slot>>
  BY DEF WrapFails
<1>2. TypeOK'
  BY <1>1 DEF IInv, TypeOK
<1>3. ValidOwnsNative' /\ FreedKeepsNoCallback'
  BY <1>1 DEF IInv, HandlesOwnTheirNatives, ValidOwnsNative, FreedKeepsNoCallback, Native
<1>4. ASSUME NEW g \in Handles, Captured(g)' PROVE Captured(g)
  <2>1. slot[a] = NoCallbacks
    BY DEF IInv, HandlesOwnTheirNatives, FreedKeepsNoCallback
  <2>2. g # Nothing
    BY HandleAssumption
  <2> QED BY <1>1, <1>4, <2>1, <2>2 DEF Captured, NoCallbacks
<1>5. CapturedIsNotCollected'
  BY <1>1, <1>4 DEF IInv, HandlesOwnTheirNatives, CapturedIsNotCollected
<1>6. UsedHasNative'
  BY <1>1 DEF IInv, UsedHasNative, Native
<1> QED BY <1>2, <1>3, <1>5, <1>6 DEF IInv, HandlesOwnTheirNatives

-------------------------------------------------------------------------------
(* Closing and finalizing: h is left invalid, and the native object it     *)
(* owned, which nobody else owns, is freed with its callbacks.             *)
LEMMA ReleaseInv ==
    ASSUME IInv, NEW h \in Handles, Release(h), NEW object \in Handle,
           handle' = [handle EXCEPT ![h] = object], ~object.isValid,
           object = Unused => ~Captured(h),
           object = Unused \/ object.nativeInstance \in Addresses
    PROVE  IInv'
<1>1. /\ handle'[h] = object
      /\ \A g \in Handles \ {h} : handle'[g] = handle[g]
  BY DEF IInv, TypeOK
<1>2. NoCallbacks \in [Kinds -> Callbacks]
  BY DEF NoCallbacks, Callbacks
<1>3. \/ /\ handle[h].isValid /\ Native(h) \in allocated
         /\ allocated' = allocated \ {Native(h)}
         /\ slot' = [slot EXCEPT ![Native(h)] = NoCallbacks]
      \/ ~handle[h].isValid /\ allocated' = allocated /\ slot' = slot
  BY DEF Release, IInv, HandlesOwnTheirNatives, ValidOwnsNative
<1>4. TypeOK'
  BY <1>2, <1>3 DEF IInv, TypeOK
<1>5. ValidOwnsNative'
  BY <1>1, <1>3 DEF IInv, HandlesOwnTheirNatives, ValidOwnsNative, Native
<1>6. FreedKeepsNoCallback'
  BY <1>3 DEF IInv, TypeOK, HandlesOwnTheirNatives, FreedKeepsNoCallback, NoCallbacks
<1>7. \A a \in allocated' : a \in allocated /\ slot'[a] = slot[a]
  BY <1>3 DEF IInv, TypeOK
<1>8. ASSUME NEW g \in Handles, Captured(g)' PROVE Captured(g)
  BY <1>7, <1>8 DEF Captured
<1>9. CapturedIsNotCollected'
  BY <1>1, <1>8 DEF IInv, HandlesOwnTheirNatives, CapturedIsNotCollected
<1>10. UsedHasNative'
  BY <1>1 DEF IInv, UsedHasNative, Native
<1> QED BY <1>4, <1>5, <1>6, <1>9, <1>10 DEF IInv, HandlesOwnTheirNatives

LEMMA CloseInv ==
    ASSUME IInv, NEW h \in Handles, Close(h)
    PROVE  IInv'
<1> DEFINE object == [handle[h] EXCEPT !.isValid = FALSE]
<1>1. handle[h] \in Handle
  BY DEF IInv, TypeOK
<1>2. object \in Handle /\ ~object.isValid /\ object.rooted
  BY <1>1 DEF Close, Handle
<1>3. object # Unused
  BY <1>2 DEF Unused
<1>4. handle' = [handle EXCEPT ![h] = object]
  BY DEF Close
<1>5. object.nativeInstance \in Addresses
  BY <1>1 DEF IInv, UsedHasNative, Native, Close, Unused, Handle
<1> HIDE DEF object
<1> QED BY <1>2, <1>3, <1>4, <1>5, ReleaseInv DEF Close

LEMMA FinalizeInv ==
    ASSUME IInv, NEW h \in Handles, Finalize(h)
    PROVE  IInv'
<1>1. Unused \in Handle /\ ~Unused.isValid
  BY DEF Unused, Handle
<1>2. ~Captured(h)
  BY DEF Finalize, Reachable
<1> QED BY <1>1, <1>2, ReleaseInv DEF Finalize

-------------------------------------------------------------------------------
(* Drop and Notify only change whether the program refers to a handle in   *)
(* use.                                                                    *)
LEMMA RootInv ==
    ASSUME IInv, NEW h \in Handles, NEW rooted \in BOOLEAN, handle[h] # Unused,
           handle' = [handle EXCEPT ![h].rooted = rooted], UNCHANGED <<allocated, slot>>
    PROVE  IInv'
<1>1. handle[h] \in Handle
  BY DEF IInv, TypeOK
<1>2. /\ handle'[h] = [handle[h] EXCEPT !.rooted = rooted]
      /\ \A g \in Handles \ {h} : handle'[g] = handle[g]
  BY DEF IInv, TypeOK
<1>3. /\ handle'[h].isValid = handle[h].isValid
      /\ handle'[h].nativeInstance = handle[h].nativeInstance
      /\ handle'[h] \in Handle
  BY <1>1, <1>2 DEF Handle
<1>4. TypeOK'
  BY <1>3 DEF IInv, TypeOK
<1>5. Native(h) \in Addresses
  BY DEF IInv, UsedHasNative
<1>6. handle'[h] # Unused
  BY <1>3, <1>5, HandleAssumption DEF Native, Unused
<1>7. UsedHasNative'
  BY <1>2, <1>3, <1>5 DEF IInv, UsedHasNative, Native
<1>8. ValidOwnsNative' /\ FreedKeepsNoCallback'
  BY <1>2, <1>3 DEF IInv, HandlesOwnTheirNatives, ValidOwnsNative, FreedKeepsNoCallback, Native
<1>9. CapturedIsNotCollected'
  BY <1>2, <1>6 DEF IInv, HandlesOwnTheirNatives, CapturedIsNotCollected, Captured
<1> QED BY <1>4, <1>7, <1>8, <1>9 DEF IInv, HandlesOwnTheirNatives

LEMMA DropInv ==
    ASSUME IInv, NEW h \in Handles, Drop(h)
    PROVE  IInv'
<1>1. handle[h] # Unused
  BY DEF Drop, Unused
<1> QED BY <1>1, RootInv DEF Drop

LEMMA NotifyInv ==
    ASSUME IInv, NEW a \in Addresses, NEW k \in Kinds, Notify(a, k)
    PROVE  IInv'
<1>1. slot[a][k] \in Handles /\ Captured(slot[a][k])
  BY DEF Notify, Captured
<1>2. handle[slot[a][k]] # Unused
  BY <1>1 DEF IInv, HandlesOwnTheirNatives, CapturedIsNotCollected
<1> QED BY <1>1, <1>2, RootInv DEF Notify

(* Installed callbacks capture handles the program refers to.              *)
LEMMA EnableInv ==
    ASSUME IInv, NEW h \in Handles, NEW k \in Kinds, NEW callback \in Callbacks,
           Enable(h, k, callback)
    PROVE  IInv'
<1> DEFINE a == Native(h)
           i == Notifications[k].enables
<1>1. a \in allocated /\ a \in Addresses
  BY DEF Enable, Usable, IInv, HandlesOwnTheirNatives, ValidOwnsNative, TypeOK
<1>2. i \in Kinds
  BY HandleAssumption
<1>3. slot' = [slot EXCEPT ![a] = [slot[a] EXCEPT ![i] = callback]]
  BY <1>1 DEF Enable, IInv, TypeOK
<1>4. UNCHANGED <<handle, allocated>>
  BY DEF Enable
<1> HIDE DEF a, i
<1>5. TypeOK'
  BY <1>1, <1>2, <1>3, <1>4 DEF IInv, TypeOK
<1>6. ValidOwnsNative' /\ FreedKeepsNoCallback'
  BY <1>1, <1>3, <1>4
  DEF IInv, TypeOK, HandlesOwnTheirNatives, ValidOwnsNative, FreedKeepsNoCallback, Native,
      NoCallbacks
<1>7. ASSUME NEW g \in Handles, Captured(g)' PROVE Captured(g) \/ handle[g].rooted
  <2>1. callback \in Handles => handle[callback].rooted
    BY HandleAssumption DEF Enable
  <2> QED BY <1>1, <1>2, <1>3, <1>4, <1>7, <2>1 DEF Captured, IInv, TypeOK
<1>8. \A g \in Handles : handle[g].rooted => handle[g] # Unused
  BY DEF Unused
<1>9. CapturedIsNotCollected'
  BY <1>4, <1>7, <1>8 DEF IInv, HandlesOwnTheirNatives, CapturedIsNotCollected
<1>10. UsedHasNative'
  BY <1>4 DEF IInv, UsedHasNative, Native
<1> QED BY <1>5, <1>6, <1>9, <1>10 DEF IInv, HandlesOwnTheirNatives

LEMMA DisableInv ==
    ASSUME IInv, NEW h \in Handles, NEW k \in Kinds, Disable(h, k)
    PROVE  IInv'
<1> DEFINE a == Native(h)
           i == Notifications[k].disables
<1>1. a \in allocated /\ a \in Addresses
  BY DEF Disable, Usable, IInv, HandlesOwnTheirNatives, ValidOwnsNative, TypeOK
<1>2. i \in Kinds
  BY HandleAssumption
<1>3. slot' = [slot EXCEPT ![a] = [slot[a] EXCEPT ![i] = Nothing]]
  BY <1>1 DEF Disable, IInv, TypeOK
<1>4. UNCHANGED <<handle, allocated>>
  BY DEF Disable
<1> HIDE DEF a, i
<1>5. TypeOK'
  BY <1>1, <1>2, <1>3, <1>4 DEF IInv, TypeOK, Callbacks
<1>6. ValidOwnsNative' /\ FreedKeepsNoCallback'
  BY <1>1, <1>3, <1>4
  DEF IInv, TypeOK, HandlesOwnTheirNatives, ValidOwnsNative, FreedKeepsNoCallback, Native,
      NoCallbacks
<1>7. ASSUME NEW g \in Handles, Captured(g)' PROVE Captured(g)
  BY <1>1, <1>2, <1>3, <1>4, <1>7, HandleAssumption DEF Captured, IInv, TypeOK
<1>8. CapturedIsNotCollected'
  BY <1>4, <1>7 DEF IInv, HandlesOwnTheirNatives, CapturedIsNotCollected
<1>9. UsedHasNative'
  BY <1>4 DEF IInv, UsedHasNative, Native
<1> QED BY <1>5, <1>6, <1>8, <1>9 DEF IInv, HandlesOwnTheirNatives

-------------------------------------------------------------------------------
LEMMA NextInv == IInv /\ [Next]_vars => IInv'
<1> SUFFICES ASSUME IInv, [Next]_vars PROVE IInv'
  OBVIOUS
<1>1. ASSUME NEW g \in Handles, NEW h \in Handles, Clone(g, h) PROVE IInv'
  BY <1>1, WrapInv DEF Clone
<1>2. CASE UNCHANGED vars
  BY <1>2 DEF vars, IInv, TypeOK, UsedHasNative, HandlesOwnTheirNatives, ValidOwnsNative,
              FreedKeepsNoCallback, CapturedIsNotCollected, Captured, Native
<1> QED
  BY <1>1, <1>2, WrapInv, WrapFailsInv, CloseInv, DropInv, FinalizeInv, EnableInv, DisableInv,
     NotifyInv
  DEF Next

(* Ownership, the emptiness of freed memory and the life of captured       *)
(* handles are inductive together, given that a handle in use keeps an     *)
(* address.                                                                *)
THEOREM Invariance == Spec => []IInv
<1> QED BY InitInv, NextInv, PTL DEF Spec

(* No handle is used after its native object has been freed, and no native *)
(* object is freed twice (BluetoothObject.close and finalize).             *)
THEOREM MemoryDiscipline == Spec => []HandlesOwnTheirNatives
<1>1. IInv => HandlesOwnTheirNatives
  BY DEF IInv
<1> QED BY <1>1, Invariance, PTL

(* The types of the handles and of the native heap.                        *)
THEOREM TypeCorrect == Spec => []TypeOK
<1>1. IInv => TypeOK
  BY DEF IInv
<1> QED BY <1>1, Invariance, PTL

-------------------------------------------------------------------------------
(* A native object leaves its owner only by being freed.                   *)
LEMMA StepKeepsOwners ==
    ASSUME IInv, [Next]_vars, NEW a \in Owned
    PROVE  a \in Owned' \/ a \notin allocated'
<1>1. PICK o \in Handles : handle[o].isValid /\ Native(o) = a
  BY DEF Owned
<1>2. /\ a \in allocated
      /\ handle[o] # Unused
  BY <1>1 DEF IInv, HandlesOwnTheirNatives, ValidOwnsNative, Unused
<1>3. SUFFICES ASSUME a \in allocated'
               PROVE  handle'[o].isValid /\ handle'[o].nativeInstance = a
  BY DEF Owned, Native
<1>4. ASSUME NEW h \in Handles, Release(h) PROVE h # o
  BY <1>1, <1>3, <1>4 DEF Release
<1>5. ASSUME NEW h \in Handles, Wrap(h) \/ Close(h) \/ Finalize(h)
      PROVE  h # o /\ handle'[o] = handle[o]
  BY <1>2, <1>4, <1>5 DEF Wrap, Close, Finalize, IInv, TypeOK
<1>6. ASSUME NEW h \in Handles, NEW rooted \in BOOLEAN,
             handle' = [handle EXCEPT ![h].rooted = rooted]
      PROVE  /\ handle'[o].isValid = handle[o].isValid
             /\ handle'[o].nativeInstance = handle[o].nativeInstance
  <2>1. handle[o] \in Handle
    BY DEF IInv, TypeOK
  <2>2. handle'[o] = IF h = o THEN [handle[o] EXCEPT !.rooted = rooted] ELSE handle[o]
    BY <1>6 DEF IInv, TypeOK
  <2> QED BY <2>1, <2>2 DEF Handle
<1>7. ASSUME NEW h \in Handles, Drop(h)
      PROVE  handle'[o].isValid /\ handle'[o].nativeInstance = a
  BY <1>1, <1>6, <1>7 DEF Drop, Native
<1>8. ASSUME NEW b \in Addresses, NEW k \in Kinds, Notify(b, k)
      PROVE  handle'[o].isValid /\ handle'[o].nativeInstance = a
  BY <1>1, <1>6, <1>8 DEF Notify, Native
<1>9. ASSUME \/ WrapFails \/ UNCHANGED vars
             \/ \E h \in Handles, k \in Kinds : Disable(h, k)
             \/ \E h \in Handles, k \in Kinds, callback \in Callbacks : Enable(h, k, callback)
      PROVE  handle' = handle
  BY <1>9 DEF WrapFails, vars, Disable, Enable
<1> QED
  BY <1>1, <1>5, <1>7, <1>8, <1>9 DEF Next, Clone, Native

(* Native memory is only lost where creating its first handle fails:       *)
(* whatever has had an owner is freed with it (Release in close).          *)
THEOREM NoOrphans == Spec => OwnedUntilFreed
<1>1. IInv /\ [Next]_vars => [ \A a \in Owned : a \in Owned' \/ a \notin allocated' ]_vars
  BY StepKeepsOwners
<1> QED BY <1>1, Invariance, PTL DEF Spec, OwnedUntilFreed
-------------------------------------------------------------------------------
(* The collector.                                                          *)

(* Only a native object with an owner keeps a callback: one that a failing *)
(* wrap has leaked has never been handed to the program.                   *)
CallbacksOwned == \A a \in Addresses : slot[a] = NoCallbacks \/ a \in Owned

LEMMA NextCallbacks ==
    ASSUME IInv, CallbacksOwned, [Next]_vars
    PROVE  CallbacksOwned'
<1> SUFFICES ASSUME NEW a \in Addresses, slot'[a] # NoCallbacks
             PROVE  a \in Owned'
  BY DEF CallbacksOwned
<1>1. a \in allocated'
  <2>1. IInv'
    BY NextInv
  <2> QED BY <2>1 DEF IInv, HandlesOwnTheirNatives, FreedKeepsNoCallback
<1>2. SUFFICES a \in Owned
  BY <1>1, StepKeepsOwners
<1>3. CASE slot[a] # NoCallbacks
  BY <1>3 DEF CallbacksOwned
<1>4. CASE slot[a] = NoCallbacks
  <2>1. NoCallbacks \in [Kinds -> Callbacks] /\ slot \in [Addresses -> [Kinds -> Callbacks]]
    BY DEF IInv, TypeOK, NoCallbacks, Callbacks
  <2>2. ~UNCHANGED slot
    BY <1>4
  <2>3. \A h \in Handles : ~Close(h) /\ ~Finalize(h)
    BY <1>4, <2>1, <2>2 DEF Close, Finalize, Release
  <2>4. ASSUME NEW h \in Handles, NEW k \in Kinds, Disable(h, k) PROVE FALSE
    <3>1. slot'[a] = slot[a]
      <4>1. Notifications[k].disables \in Kinds
        BY HandleAssumption
      <4>2. slot[a][Notifications[k].disables] = Nothing
        BY <1>4, <4>1 DEF NoCallbacks
      <4> QED BY <2>1, <2>4, <4>1, <4>2 DEF Disable
    <3> QED BY <1>4, <3>1
  <2>5. ASSUME NEW h \in Handles, NEW k \in Kinds, NEW callback \in Callbacks,
               Enable(h, k, callback)
        PROVE  a \in Owned
    <3>1. a = Native(h)
      BY <1>4, <2>1, <2>5 DEF Enable
    <3> QED BY <2>5, <3>1 DEF Enable, Usable, Owned
  <2> QED BY <2>2, <2>3, <2>4, <2>5
          DEF Next, vars, Wrap, WrapFails, Clone, Drop, Notify
<1> QED BY <1>3, <1>4

LEMMA CallbackOwners == Spec => []CallbacksOwned
<1>1. Init => CallbacksOwned
  BY DEF Init, CallbacksOwned
<1>2. IInv /\ CallbacksOwned /\ [Next]_vars => CallbacksOwned'
  BY NextCallbacks
<1> QED BY <1>1, <1>2, Invariance, PTL DEF Spec

(* The handles that stay are themselves a set whose members stay.          *)
LEMMA HeldStays == Staying(Held)
  BY DEF Staying, Held

LEMMA StayingIsHeld ==
    ASSUME NEW hs \in SUBSET Handles, Staying(hs)
    PROVE  hs \subseteq Held
  BY DEF Held

(* The handles that are in use although nothing holds them.                *)
Garbage == {h \in Handles : handle[h] # Unused /\ h \notin Held}

(* The collector takes nothing that is held, and as long as there is       *)
(* garbage it can take some of it.                                         *)
CollectsExactlyTheGarbage ==
    /\ \A h \in Held : Reachable(h)
    /\ Garbage # {} => \E h \in Garbage : ~Reachable(h)

(* If all garbage were reachable, it would be held: every garbage handle   *)
(* would be captured by a callback of another one's native object.         *)
LEMMA GarbageCollectable ==
    ASSUME IInv, CallbacksOwned
    PROVE  CollectsExactlyTheGarbage
<1>1. ASSUME NEW h \in Held PROVE Reachable(h)
  <2>1. CASE handle[h].rooted
    BY <2>1 DEF Reachable
  <2>2. ASSUME NEW g \in Held, NEW k \in Kinds, handle[g].isValid, slot[Native(g)][k] = h
        PROVE  Captured(h)
    <3>1. g \in Handles
      BY DEF Held
    <3>2. Native(g) \in allocated
      BY <2>2, <3>1 DEF IInv, HandlesOwnTheirNatives, ValidOwnsNative
    <3> QED BY <2>2, <3>2 DEF Captured
  <2> QED BY <2>1, <2>2, HeldStays DEF Staying, Reachable
<1>2. ASSUME Garbage # {}, \A h \in Garbage : Reachable(h) PROVE FALSE
  <2>1. Held \subseteq Handles /\ Garbage \subseteq Handles
    BY DEF Held, Garbage
  <2>2. ASSUME NEW h \in Garbage
        PROVE  \E g \in Garbage \cup Held, k \in Kinds :
                  handle[g].isValid /\ slot[Native(g)][k] = h
    <3>1. ~handle[h].rooted
      <4>1. handle[h].rooted => Staying({h})
        BY DEF Staying
      <4> QED BY <2>1, <4>1, StayingIsHeld DEF Garbage
    <3>2. PICK a \in allocated, k \in Kinds : slot[a][k] = h
      BY <1>2, <3>1 DEF Reachable, Captured
    <3>3. slot[a] # NoCallbacks /\ a \in Addresses
      BY <2>1, <3>2, HandleAssumption DEF NoCallbacks, IInv, TypeOK
    <3>4. PICK g \in Handles : handle[g].isValid /\ Native(g) = a
      BY <3>3 DEF CallbacksOwned, Owned
    <3>5. handle[g] # Unused
      BY <3>4 DEF Unused
    <3> QED BY <3>2, <3>4, <3>5 DEF Garbage
  <2>3. Staying(Garbage \cup Held)
    BY <2>2, HeldStays DEF Staying
  <2>4. Garbage \subseteq Held
    BY <2>1, <2>3, StayingIsHeld
  <2> QED BY <1>2, <2>4 DEF Garbage
<1> QED BY <1>1, <1>2 DEF CollectsExactlyTheGarbage

(* The safety core of DroppedHandleIsFreed: what holds a handle in memory  *)
(* is exactly Held, rings of callbacks included, and a chain of garbage    *)
(* always has a first handle that no callback captures any more.           *)
THEOREM CollectorNeverStuck == Spec => []CollectsExactlyTheGarbage
<1>1. IInv /\ CallbacksOwned => CollectsExactlyTheGarbage
  BY GarbageCollectable
<1> QED BY <1>1, Invariance, CallbackOwners, PTL

(* Without a notification, a handle in use gains no hold: what holds it    *)
(* after a step has held it before, or the program referred to it.         *)
LEMMA StepHoldsNoMore ==
    ASSUME IInv, [Next]_vars, \A a \in Addresses, k \in Kinds : ~Notify(a, k),
           NEW g \in Handles, handle[g] # Unused
    PROVE  /\ handle'[g].rooted => handle[g].rooted
           /\ \A x \in Handles, k \in Kinds :
                 handle'[x].isValid /\ slot'[handle'[x].nativeInstance][k] = g =>
                    \/ handle[g].rooted
                    \/ handle[x].isValid /\ slot[Native(x)][k] = g
<1> USE HandleAssumption
<1>1. /\ handle \in [Handles -> Handle] /\ allocated \subseteq Addresses
      /\ slot \in [Addresses -> [Kinds -> Callbacks]] /\ g # Nothing
  BY DEF IInv, TypeOK
<1>2. ASSUME NEW h \in Handles, Wrap(h)
      PROVE  /\ handle'[g].rooted => handle[g].rooted
             /\ \A x \in Handles, k \in Kinds :
                   handle'[x].isValid /\ slot'[handle'[x].nativeInstance][k] = g =>
                      handle[x].isValid /\ slot[Native(x)][k] = g
  <2>1. PICK a \in Addresses \ allocated :
          /\ handle[h] = Unused
          /\ handle' = [handle EXCEPT ![h] = [isValid |-> TRUE, nativeInstance |-> a,
                                              rooted |-> TRUE]]
          /\ UNCHANGED slot
    BY <1>2 DEF Wrap
  <2>2. slot[a] = NoCallbacks
    BY DEF IInv, HandlesOwnTheirNatives, FreedKeepsNoCallback
  <2>3. /\ handle'[h].nativeInstance = a
        /\ \A x \in Handles \ {h} : handle'[x] = handle[x]
    BY <1>1, <2>1
  <2> QED BY <1>1, <2>1, <2>2, <2>3 DEF NoCallbacks, Native
<1>3. ASSUME NEW h \in Handles, Close(h) \/ Finalize(h)
      PROVE  /\ handle'[g].rooted => handle[g].rooted
             /\ \A x \in Handles, k \in Kinds :
                   handle'[x].isValid /\ slot'[handle'[x].nativeInstance][k] = g =>
                      handle[x].isValid /\ slot[Native(x)][k] = g
  <2>1. /\ ~handle'[h].isValid
        /\ handle'[h].rooted => handle[h].rooted
        /\ \A x \in Handles \ {h} : handle'[x] = handle[x]
    <3>1. CASE Close(h)
      BY <1>1, <3>1 DEF Close, Handle
    <3>2. CASE Finalize(h)
      BY <1>1, <3>2 DEF Finalize, Unused
    <3> QED BY <1>3, <3>1, <3>2
  <2>2. \A a \in Addresses : slot'[a] = slot[a] \/ slot'[a] = NoCallbacks
    BY <1>1, <1>3 DEF Close, Finalize, Release
  <2>3. ASSUME NEW x \in Handles, handle[x].isValid PROVE Native(x) \in Addresses
    BY <2>3, <1>1 DEF IInv, HandlesOwnTheirNatives, ValidOwnsNative
  <2>4. ASSUME NEW x \in Handles, NEW k \in Kinds, handle'[x].isValid,
               slot'[handle'[x].nativeInstance][k] = g
        PROVE  handle[x].isValid /\ slot[Native(x)][k] = g
    <3>1. x # h /\ handle'[x] = handle[x]
      BY <2>1, <2>4
    <3>2. slot'[Native(x)][k] = g /\ Native(x) \in Addresses
      BY <2>3, <2>4, <3>1 DEF Native
    <3> QED BY <1>1, <2>2, <2>4, <3>1, <3>2 DEF NoCallbacks
  <2> QED BY <2>1, <2>4
<1>4. ASSUME NEW h \in Handles, Drop(h)
      PROVE  /\ handle'[g].rooted => handle[g].rooted
             /\ \A x \in Handles : /\ handle'[x].isValid = handle[x].isValid
                                   /\ handle'[x].nativeInstance = handle[x].nativeInstance
             /\ UNCHANGED slot
  BY <1>1, <1>4 DEF Drop, Handle
<1>5. ASSUME NEW h \in Handles, NEW i \in Kinds, NEW callback \in {Nothing, Plain} \cup Handles,
             callback \in Handles => handle[callback].rooted,
             slot' = [slot EXCEPT ![Native(h)][i] = callback], UNCHANGED handle
      PROVE  \A x \in Handles, k \in Kinds :
                handle'[x].isValid /\ slot'[handle'[x].nativeInstance][k] = g =>
                   handle[g].rooted \/ (handle[x].isValid /\ slot[Native(x)][k] = g)
  <2>1. \A x \in Handles : handle[x].isValid => Native(x) \in Addresses
    BY <1>1 DEF IInv, HandlesOwnTheirNatives, ValidOwnsNative
  <2>2. ASSUME NEW a \in Addresses, NEW k \in Kinds, slot'[a][k] = g, slot[a][k] # g
        PROVE  callback = g
    BY <1>1, <1>5, <2>2
  <2> QED BY <1>5, <2>1, <2>2 DEF Native
<1>6. ASSUME NEW h \in Handles, NEW k \in Kinds, NEW callback \in Callbacks,
             Enable(h, k, callback) \/ Disable(h, k)
      PROVE  /\ UNCHANGED handle
             /\ \A x \in Handles, i \in Kinds :
                   handle'[x].isValid /\ slot'[handle'[x].nativeInstance][i] = g =>
                      handle[g].rooted \/ (handle[x].isValid /\ slot[Native(x)][i] = g)
  <2>1. Notifications[k].enables \in Kinds /\ Notifications[k].disables \in Kinds
    OBVIOUS
  <2>2. CASE Enable(h, k, callback)
    <3>1. /\ callback \in {Plain} \cup Handles
          /\ callback \in Handles => handle[callback].rooted
          /\ slot' = [slot EXCEPT ![Native(h)][Notifications[k].enables] = callback]
          /\ UNCHANGED handle
      BY <2>2 DEF Enable
    <3> QED BY <1>5, <2>1, <3>1
  <2>3. CASE Disable(h, k)
    <3>1. /\ slot' = [slot EXCEPT ![Native(h)][Notifications[k].disables] = Nothing]
          /\ UNCHANGED handle
      BY <2>3 DEF Disable
    <3> QED BY <1>5, <2>1, <3>1
  <2> QED BY <1>6, <2>2, <2>3
<1>7. CASE UNCHANGED <<handle, slot>>
  BY <1>7 DEF Native
<1>8. Nothing \in Callbacks
  BY DEF Callbacks
<1> QED BY <1>2, <1>3, <1>4, <1>6, <1>7, <1>8 DEF Next, vars, WrapFails, Clone, Native

(* Garbage stays garbage until it is collected, except that a notification *)
(* may hand a handle that a dropped one's callback captures back to the    *)
(* program.                                                                *)
OnlyCallbacksResurrect ==
    [][ \A h \in Garbage :
          \/ h \in Garbage' \/ handle'[h] = Unused
          \/ \E a \in Addresses, k \in Kinds : Notify(a, k) ]_vars

LEMMA StepKeepsGarbage ==
    ASSUME IInv, [Next]_vars, \A a \in Addresses, k \in Kinds : ~Notify(a, k),
           NEW h \in Garbage, handle'[h] # Unused
    PROVE  h \in Garbage'
<1> DEFINE used == {g \in Held' : handle[g] # Unused}
<1>1. Held' \subseteq Handles /\ h \in Handles /\ handle[h] # Unused
  BY DEF Held, Garbage
<1>2. \A g \in Held' :
        handle'[g].rooted \/ \E x \in Held', k \in Kinds :
                                handle'[x].isValid /\ slot'[handle'[x].nativeInstance][k] = g
  BY DEF Held, Staying, Native
<1>3. Staying(used)
  <2> SUFFICES ASSUME NEW g \in used
               PROVE  handle[g].rooted \/ \E x \in used, k \in Kinds :
                                             handle[x].isValid /\ slot[Native(x)][k] = g
    BY DEF Staying
  <2>1. g \in Handles /\ handle[g] # Unused /\ g \in Held'
    BY <1>1
  <2>2. CASE handle'[g].rooted
    BY <2>1, <2>2, StepHoldsNoMore
  <2>3. ASSUME NEW x \in Held', NEW k \in Kinds, handle'[x].isValid,
               slot'[handle'[x].nativeInstance][k] = g
        PROVE  handle[g].rooted \/ (x \in used /\ handle[x].isValid /\ slot[Native(x)][k] = g)
    <3>1. x \in Handles
      BY <1>1
    <3>2. handle[g].rooted \/ (handle[x].isValid /\ slot[Native(x)][k] = g)
      BY <2>1, <2>3, <3>1, StepHoldsNoMore
    <3>3. handle[x].isValid => handle[x] # Unused
      BY DEF Unused
    <3> QED BY <3>2, <3>3
  <2> QED BY <1>2, <2>1, <2>2, <2>3
<1>4. used \subseteq Held
  BY <1>1, <1>3, StayingIsHeld
<1> QED BY <1>1, <1>4 DEF Garbage

(* What the program has dropped, and no ring of callbacks holds, comes     *)
(* back only through a callback that still runs.                           *)
THEOREM GarbageIsFinal == Spec => OnlyCallbacksResurrect
<1>1. IInv /\ [Next]_vars =>
        [ \A h \in Garbage :
            \/ h \in Garbage' \/ handle'[h] = Unused
            \/ \E a \in Addresses, k \in Kinds : Notify(a, k) ]_vars
  BY StepKeepsGarbage
<1> QED BY <1>1, Invariance, PTL DEF Spec, OnlyCallbacksResurrect

-------------------------------------------------------------------------------
LEMMA DisablesItself ==
    ASSUME NEW k \in DOMAIN Notifications, k # "manufacturer_data"
    PROVE  Notifications[k].disables = k
  BY DEF Notifications, Notification, Paired, Trusted, Blocked, RSSI, Connected, ServiceData,
         ServicesResolved, Powered, Discoverable, Pairable, Discovering, CharacteristicValue,
         DescriptorValue

(* The extent of what the handles_disable run finds: of all the disable    *)
(* functions of the bindings, the one of the manufacturer data alone does  *)
(* not do what its documentation says.                                     *)
THEOREM OthersUnregister ==
    ASSUME "manufacturer_data" \notin Kinds
    PROVE  Spec => DisableUnregisters
<1>1. ASSUME IInv, NEW h \in Handles, NEW k \in Kinds, Disable(h, k)
      PROVE  slot'[Native(h)][k] = Nothing
  <2>1. Native(h) \in Addresses /\ slot \in [Addresses -> [Kinds -> Callbacks]]
    BY <1>1 DEF Disable, Usable, IInv, TypeOK, HandlesOwnTheirNatives, ValidOwnsNative
  <2>2. Notifications[k].disables = k
    BY HandleAssumption, DisablesItself
  <2> QED BY <1>1, <2>1, <2>2 DEF Disable
<1>2. IInv /\ [Next]_vars =>
        [ \A h \in Handles, k \in Kinds : Disable(h, k) => slot'[Native(h)][k] = Nothing ]_vars
  BY <1>1
<1> QED BY <1>2, Invariance, PTL DEF Spec, DisableUnregisters

===============================================================================
