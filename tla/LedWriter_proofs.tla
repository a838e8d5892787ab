---------------------------- MODULE LedWriter_proofs ----------------------------
(***************************************************************************)
(* The LED writer keeps its types, and a topic with a device of its own    *)
(* implements a latest-value register, for any topics, actors and threads; *)
(* and what walks that reach, or do not reach, a topic come to, as long as *)
(* walks and threads end and writes get through.                           *)
(***************************************************************************)
EXTENDS LedRegister, WellFoundedInduction, TLAPS

(* The first of several positions.                                         *)
LEMMA SmallestOf ==
    ASSUME NEW S \in SUBSET Nat, S # {}
    PROVE  \E i \in S : \A j \in S : i <= j
<1>1. PICK i \in S : \A j \in S : ~ (<<j, i>> \in OpToRel(<, Nat))
  BY NatLessThanWellFounded, WFMin
<1>2. \A j \in S : ~ (j < i)
  BY <1>1 DEF OpToRel
<1> QED BY <1>2

(* The lookup of an actor returns the address of a device, or nothing.     *)
LEMMA GetActorType ==
    ASSUME NEW actors \in ActorConfigs, NEW stripID, NEW ledID
    PROVE  GetActor(actors, stripID, ledID) \in Devices \cup {Null}
<1> DEFINE found == {i \in 1 .. Len(actors) : HasLed(actors[i], stripID, ledID)}
<1>1. CASE found = {}
  BY <1>1 DEF GetActor
<1>2. CASE found # {}
  <2>1. found \in SUBSET Nat
    BY LedAssumption
  <2>2. \E i \in found : \A j \in found : i <= j
    BY <1>2, <2>1, SmallestOf
  <2>3. (CHOOSE i \in found : \A j \in found : i <= j) \in 1 .. Len(actors)
    BY <2>2
  <2>4. actors[CHOOSE i \in found : \A j \in found : i <= j].address \in Devices
    BY <2>3, LedAssumption
  <2> QED BY <1>2, <2>4 DEF GetActor
<1> QED BY <1>1, <1>2

LEMMA OrderFacts ==
    /\ Len(Order) \in Nat
    /\ \A i \in 1 .. Len(Order) : Order[i] \in Topics
BY LedAssumption DEF Topics

LEMMA BytesType == \A value : Bytes(value) \in ByteArrays
BY DEF Bytes, ByteArrays

-------------------------------------------------------------------------------
(* A thread at work has an address and bytes, and the register's device is *)
(* the address of the register's threads and of no other.                  *)
ThreadsInv ==
    \A t \in Topics, s \in Slots :
        writes[t][s].step # "none" =>
            /\ writes[t][s].address \in Devices
            /\ writes[t][s].bytes \in ByteArrays
            /\ writes[t][s].address = LedDevice <=> t = LedTopic

IInv == TypeOK /\ ThreadsInv

LEMMA InitInv == Init => IInv
<1> SUFFICES ASSUME Init PROVE IInv
  OBVIOUS
<1>1. Idle \in WriteType /\ Idle.step = "none"
  BY DEF Idle, WriteType
<1>2. TypeOK
  <2>1. writes \in [Topics -> [Slots -> WriteType]]
    BY <1>1 DEF Init
  <2>2. cursor \in 0 .. Len(Order)
    BY OrderFacts DEF Init
  <2>3. scannedDevices \subseteq Devices
    BY DEF Init
  <2> QED BY <2>1, <2>2, <2>3 DEF Init, TypeOK
<1>3. ThreadsInv
  BY <1>1 DEF Init, ThreadsInv
<1> QED BY <1>2, <1>3 DEF IInv

(* Everything but the walk and the threads leaves the threads alone.       *)
LEMMA QuietInv ==
    ASSUME IInv,
           \/ Subscribe \/ ConnectionLost \/ StartMap \/ SkipEntry \/ ShortTopic
           \/ \E topic \in Topics, value \in Payloads : MessageArrived(topic, value)
           \/ \E c \in ActorConfigs : LoadActors(c)
           \/ \E devices \in SUBSET Devices : Scan(devices)
    PROVE  IInv'
<1>1. ThreadsInv'
  BY DEF IInv, ThreadsInv, Subscribe, ConnectionLost, StartMap, SkipEntry, ShortTopic,
         MessageArrived, LoadActors, Scan
<1>2. CASE Subscribe \/ ConnectionLost
  BY <1>1, <1>2 DEF IInv, TypeOK, Subscribe, ConnectionLost
<1>3. CASE StartMap
  <2>1. 1 \in 0 .. Len(Order)
    BY <1>3, LedAssumption DEF StartMap
  <2> QED BY <1>1, <1>3, <2>1 DEF IInv, TypeOK, StartMap
<1>4. CASE SkipEntry \/ ShortTopic
  <2>1. Following \in 0 .. Len(Order) /\ 0 \in 0 .. Len(Order)
    BY OrderFacts DEF IInv, TypeOK, Following
  <2> QED BY <1>1, <1>4, <2>1 DEF IInv, TypeOK, SkipEntry, ShortTopic
<1>5. CASE \E topic \in Topics, value \in Payloads : MessageArrived(topic, value)
  BY <1>1, <1>5 DEF IInv, TypeOK, MessageArrived
<1>6. CASE \E c \in ActorConfigs : LoadActors(c)
  BY <1>1, <1>6 DEF IInv, TypeOK, LoadActors
<1>7. CASE \E devices \in SUBSET Devices : Scan(devices)
  BY <1>1, <1>7 DEF IInv, TypeOK, Scan
<1> QED BY <1>2, <1>3, <1>4, <1>5, <1>6, <1>7

(* A thread's own state, and nothing else of the threads, is replaced.     *)
LEMMA ThreadInv ==
    ASSUME IInv, NEW topic \in Topics, NEW slot \in Slots, NEW thread \in WriteType,
           writes' = [writes EXCEPT ![topic][slot] = thread],
           thread.step # "none" =>
               /\ thread.address \in Devices
               /\ thread.bytes \in ByteArrays
               /\ thread.address = LedDevice <=> topic = LedTopic
    PROVE  /\ writes' \in [Topics -> [Slots -> WriteType]]
           /\ ThreadsInv'
<1>1. writes \in [Topics -> [Slots -> WriteType]]
  BY DEF IInv, TypeOK
<1>2. \A t \in Topics, s \in Slots :
        writes'[t][s] = IF t = topic /\ s = slot THEN thread ELSE writes[t][s]
  BY <1>1
<1> QED BY <1>1, <1>2 DEF IInv, ThreadsInv

(* The walk starts a thread for the actor of a topic with five segments.   *)
LEMMA WriteEntryInv == ASSUME IInv, NEW slot \in Slots, WriteEntry(slot) PROVE IInv'
<1> DEFINE topic == Order[cursor]
           thread == [step |-> "started", address |-> ActorOf(topic),
                      bytes |-> Bytes(values[topic])]
<1>1. topic \in Topics /\ ~IsShort(topic)
  BY OrderFacts DEF IInv, TypeOK, WriteEntry
<1>2. Following \in 0 .. Len(Order)
  BY OrderFacts DEF IInv, TypeOK, Following
<1>3. /\ cursor' = Following
      /\ UNCHANGED <<running, actorsConfig, subscription, values, grown, scannedDevices, led>>
  BY DEF WriteEntry
<1>4. CASE ActorOf(topic) # Null /\ writes' = [writes EXCEPT ![topic][slot] = thread]
  <2>1. actorsConfig \in ActorConfigs
    BY DEF IInv, TypeOK
  <2>2. ActorOf(topic) \in Devices
    BY <1>4, <2>1, GetActorType DEF ActorOf
  <2>3. ActorOf(topic) = LedDevice <=> topic = LedTopic
    BY <1>1, <2>1, RegisterAssumption DEF SoleWriter, ActorOf
  <2>4. thread \in WriteType
    BY <2>2, BytesType DEF WriteType
  <2>5. thread.address = ActorOf(topic) /\ thread.bytes \in ByteArrays
    BY BytesType
  <2>6. /\ writes' \in [Topics -> [Slots -> WriteType]]
        /\ ThreadsInv'
    <3> HIDE DEF topic, thread
    <3> QED BY <1>1, <1>4, <2>2, <2>3, <2>4, <2>5, ThreadInv
  <2> QED BY <1>2, <1>3, <2>6 DEF IInv, TypeOK
<1>5. CASE UNCHANGED writes
  BY <1>2, <1>3, <1>5 DEF IInv, TypeOK, ThreadsInv
<1> QED BY <1>4, <1>5 DEF WriteEntry

(* A step of a write thread keeps its address and bytes, or ends it.       *)
LEMMA ThreadStepInv ==
    ASSUME IInv, NEW topic \in Topics, NEW slot \in Slots, Thread(topic, slot)
    PROVE  IInv'
<1> DEFINE thread == writes[topic][slot]
<1>1. /\ thread \in WriteType
      /\ writes \in [Topics -> [Slots -> WriteType]]
  BY DEF IInv, TypeOK
<1>2. Idle \in WriteType /\ Idle.step = "none"
  BY DEF Idle, WriteType
<1>3. CASE GiveUp(topic, slot) \/ WriteFails(topic, slot)
  <2>1. writes' = [writes EXCEPT ![topic][slot] = Idle]
    BY <1>3 DEF GiveUp, WriteFails
  <2>2. writes' \in [Topics -> [Slots -> WriteType]] /\ ThreadsInv'
    BY <1>2, <2>1, ThreadInv
  <2> QED BY <1>3, <2>2 DEF IInv, TypeOK, GiveUp, WriteFails
<1>4. CASE Write(topic, slot)
  <2>1. writes' = [writes EXCEPT ![topic][slot] = Idle]
    BY <1>4 DEF Write
  <2>2. writes' \in [Topics -> [Slots -> WriteType]] /\ ThreadsInv'
    BY <1>2, <2>1, ThreadInv
  <2>3. thread.address \in Devices /\ thread.bytes \in ByteArrays
    BY <1>4 DEF IInv, ThreadsInv, Write
  <2> QED BY <1>4, <2>2, <2>3 DEF IInv, TypeOK, Write
<1>5. CASE Connect(topic, slot)
  <2> DEFINE next == [thread EXCEPT !.step = "connected"]
  <2>1. writes' = [writes EXCEPT ![topic][slot] = next]
    BY <1>1, <1>5 DEF Connect
  <2>2. next \in WriteType /\ next.address = thread.address /\ next.bytes = thread.bytes
    BY <1>1 DEF WriteType
  <2>3. /\ thread.address \in Devices /\ thread.bytes \in ByteArrays
        /\ thread.address = LedDevice <=> topic = LedTopic
    BY <1>5 DEF IInv, ThreadsInv, Connect
  <2>4. writes' \in [Topics -> [Slots -> WriteType]] /\ ThreadsInv'
    <3> HIDE DEF next, thread
    <3> QED BY <2>1, <2>2, <2>3, ThreadInv
  <2> QED BY <1>5, <2>4 DEF IInv, TypeOK, Connect
<1>6. CASE ExitOnConnect(topic, slot)
  BY <1>6 DEF IInv, TypeOK, ThreadsInv, ExitOnConnect
<1> QED BY <1>3, <1>4, <1>5, <1>6 DEF Thread

LEMMA NextInv == ASSUME IInv, [Next]_vars PROVE IInv'
<1>1. CASE UNCHANGED vars
  BY <1>1 DEF vars, IInv, TypeOK, ThreadsInv
<1>2. CASE Visit
  BY <1>2, QuietInv, WriteEntryInv DEF Visit
<1>3. CASE \E topic \in Topics, slot \in Slots : Thread(topic, slot)
  BY <1>3, ThreadStepInv
<1> QED BY <1>1, <1>2, <1>3, QuietInv DEF Next

LEMMA Invariance == Spec => []IInv
BY InitInv, NextInv, PTL DEF Spec

(* The map, the walk over it and the write threads keep their types.       *)
THEOREM TypeCorrect == Spec => []TypeOK
BY Invariance, PTL DEF IInv

-------------------------------------------------------------------------------
(* The topic's threads at work, and their bytes.                           *)
Busy == {s \in Slots : writes[LedTopic][s].step # "none"}

LEMMA BusyBytes ==
    ASSUME IInv
    PROVE  /\ InFlightOf(LedTopic) = {writes[LedTopic][s].bytes : s \in Busy}
           /\ InFlightOf(LedTopic) \subseteq ByteArrays
BY RegisterAssumption DEF IInv, ThreadsInv, InFlightOf, Busy

LEMMA InitRefines == Init => Register!Init
BY RegisterAssumption DEF Init, Register!Init, RequestedOf, InFlightOf, Idle

(* What leaves the values, the threads and the LED alone, is not seen.     *)
LEMMA QuietRefines ==
    ASSUME UNCHANGED <<values, writes, led>>
    PROVE  UNCHANGED Register!vars
BY DEF Register!vars, RequestedOf, InFlightOf

LEMMA MessageRefines ==
    ASSUME IInv, NEW topic \in Topics, NEW value \in Payloads, MessageArrived(topic, value)
    PROVE  Register!Next \/ UNCHANGED Register!vars
<1>1. /\ values' = [values EXCEPT ![topic] = value] /\ UNCHANGED <<writes, led>>
      /\ values \in [Topics -> Payloads \cup {Null}]
  BY DEF IInv, TypeOK, MessageArrived
<1>2. UNCHANGED <<InFlightOf(LedTopic), led[LedDevice]>>
  BY <1>1 DEF InFlightOf
<1>3. CASE topic = LedTopic
  <2>1. RequestedOf(LedTopic)' = Bytes(value)
    BY <1>1, <1>3, RegisterAssumption, LedAssumption DEF RequestedOf
  <2>2. Register!Request(Bytes(value))
    BY <1>2, <2>1 DEF Register!Request
  <2> QED BY <2>2, BytesType DEF Register!Next
<1>4. CASE topic # LedTopic
  BY <1>1, <1>2, <1>4, RegisterAssumption DEF Register!vars, RequestedOf
<1> QED BY <1>3, <1>4

(* A new thread of the topic carries the value that is requested.          *)
LEMMA WriteEntryRefines ==
    ASSUME IInv, NEW slot \in Slots, WriteEntry(slot)
    PROVE  Register!Next \/ UNCHANGED Register!vars
<1> DEFINE topic == Order[cursor]
           thread == [step |-> "started", address |-> ActorOf(topic),
                      bytes |-> Bytes(values[topic])]
<1>1. /\ topic \in Topics /\ values[topic] # Null /\ UNCHANGED <<values, led>>
      /\ writes \in [Topics -> [Slots -> WriteType]]
  BY OrderFacts DEF IInv, TypeOK, WriteEntry
<1>2. CASE UNCHANGED writes
  BY <1>1, <1>2, QuietRefines
<1>3. CASE writes[topic][slot] = Idle /\ writes' = [writes EXCEPT ![topic][slot] = thread]
  <2>1. CASE topic # LedTopic
    <3>1. writes'[LedTopic] = writes[LedTopic]
      BY <1>1, <1>3, <2>1, RegisterAssumption
    <3> QED BY <1>1, <3>1 DEF Register!vars, RequestedOf, InFlightOf
  <2>2. CASE topic = LedTopic
    <3>1. /\ writes'[LedTopic][slot].step = "started"
          /\ writes'[LedTopic][slot].bytes = Bytes(values[LedTopic])
          /\ \A s \in Slots \ {slot} : writes'[LedTopic][s] = writes[LedTopic][s]
      BY <1>1, <1>3, <2>2
    <3>2. slot \notin Busy
      BY <1>3, <2>2 DEF Busy, Idle
    <3>3. Busy' = Busy \cup {slot}
      BY <3>1 DEF Busy
    <3>4. {writes'[LedTopic][s].bytes : s \in Busy'} =
            {writes[LedTopic][s].bytes : s \in Busy} \cup {Bytes(values[LedTopic])}
      BY <3>1, <3>2, <3>3 DEF Busy
    <3>5. InFlightOf(LedTopic)' = InFlightOf(LedTopic) \cup {Bytes(values[LedTopic])}
      BY <3>4 DEF InFlightOf, Busy
    <3>6. RequestedOf(LedTopic) = Bytes(values[LedTopic]) /\ RequestedOf(LedTopic) # Null
      BY <1>1, <2>2, BytesType, LedAssumption DEF RequestedOf
    <3>7. Register!Send
      BY <1>1, <3>5, <3>6 DEF Register!Send, RequestedOf
    <3> QED BY <3>7 DEF Register!Next
  <2> QED BY <2>1, <2>2
<1> QED BY <1>2, <1>3 DEF WriteEntry

(* A thread of the topic that ends: its bytes are on their way no more,    *)
(* unless another one carries the same.                                    *)
LEMMA EndRefines ==
    ASSUME IInv, NEW slot \in Busy,
           writes' = [writes EXCEPT ![LedTopic][slot] = Idle]
    PROVE  LET b == writes[LedTopic][slot].bytes IN
           /\ b \in ByteArrays /\ b \in InFlightOf(LedTopic)
           /\ InFlightOf(LedTopic)' \in {InFlightOf(LedTopic), InFlightOf(LedTopic) \ {b}}
<1> DEFINE b == writes[LedTopic][slot].bytes
<1>1. /\ writes'[LedTopic][slot] = Idle
      /\ \A s \in Slots \ {slot} : writes'[LedTopic][s] = writes[LedTopic][s]
  BY RegisterAssumption DEF IInv, TypeOK, Busy
<1>2. Busy' = Busy \ {slot}
  BY <1>1 DEF Busy, Idle
<1>3. InFlightOf(LedTopic)' = {writes[LedTopic][s].bytes : s \in Busy \ {slot}}
  <2>1. InFlightOf(LedTopic)' = {writes'[LedTopic][s].bytes : s \in Busy'}
    BY DEF InFlightOf, Busy
  <2> QED BY <1>1, <1>2, <2>1 DEF Busy
<1>4. InFlightOf(LedTopic) = {writes[LedTopic][s].bytes : s \in Busy}
  BY BusyBytes
<1>5. b \in InFlightOf(LedTopic) /\ b \in ByteArrays
  BY <1>4, BusyBytes
<1>6. CASE \E s \in Busy \ {slot} : writes[LedTopic][s].bytes = b
  BY <1>3, <1>4, <1>5, <1>6
<1>7. CASE \A s \in Busy \ {slot} : writes[LedTopic][s].bytes # b
  BY <1>3, <1>4, <1>5, <1>7
<1> QED BY <1>5, <1>6, <1>7

(* A step of a thread of the topic sends, loses or shows its bytes; one of *)
(* another thread is not seen, because it has another address.             *)
LEMMA ThreadRefines ==
    ASSUME IInv, NEW topic \in Topics, NEW slot \in Slots, Thread(topic, slot)
    PROVE  Register!Next \/ UNCHANGED Register!vars
<1>1. /\ UNCHANGED values
      /\ writes \in [Topics -> [Slots -> WriteType]]
      /\ led \in [Devices -> ByteArrays \cup {Null}]
  BY DEF IInv, TypeOK, Thread, Connect, GiveUp, ExitOnConnect, Write, WriteFails
<1>2. UNCHANGED RequestedOf(LedTopic)
  BY <1>1 DEF RequestedOf
<1>3. CASE ExitOnConnect(topic, slot)
  BY <1>3, QuietRefines DEF ExitOnConnect
<1>4. CASE Connect(topic, slot)
  <2>1. \A s \in Slots :
          /\ writes'[LedTopic][s].bytes = writes[LedTopic][s].bytes
          /\ writes'[LedTopic][s].step # "none" <=> writes[LedTopic][s].step # "none"
    BY <1>1, <1>4, RegisterAssumption DEF Connect, WriteType
  <2>2. UNCHANGED InFlightOf(LedTopic)
    BY <2>1 DEF InFlightOf
  <2> QED BY <1>2, <1>4, <2>2 DEF Register!vars, Connect
<1>5. CASE topic # LedTopic /\ ~ Connect(topic, slot) /\ ~ ExitOnConnect(topic, slot)
  <2>1. writes' = [writes EXCEPT ![topic][slot] = Idle]
    BY <1>5 DEF Thread, GiveUp, Write, WriteFails
  <2>2. writes'[LedTopic] = writes[LedTopic]
    BY <1>1, <1>5, <2>1, RegisterAssumption
  <2>3. UNCHANGED InFlightOf(LedTopic)
    BY <2>2 DEF InFlightOf
  <2>4. CASE Write(topic, slot)
    <3>1. writes[topic][slot].address # LedDevice
      BY <1>5, <2>4 DEF IInv, ThreadsInv, Write
    <3>2. UNCHANGED led[LedDevice]
      BY <1>1, <2>4, <3>1, RegisterAssumption DEF Write
    <3> QED BY <1>2, <2>3, <3>2 DEF Register!vars
  <2>5. CASE GiveUp(topic, slot) \/ WriteFails(topic, slot)
    BY <1>2, <2>3, <2>5 DEF Register!vars, GiveUp, WriteFails
  <2> QED BY <1>5, <2>4, <2>5 DEF Thread
<1>6. CASE topic = LedTopic /\ (GiveUp(topic, slot) \/ WriteFails(topic, slot))
  <2> DEFINE b == writes[LedTopic][slot].bytes
  <2>1. slot \in Busy /\ writes' = [writes EXCEPT ![LedTopic][slot] = Idle] /\ UNCHANGED led
    BY <1>6 DEF Busy, GiveUp, WriteFails
  <2>2. /\ b \in ByteArrays
        /\ InFlightOf(LedTopic)' \in {InFlightOf(LedTopic), InFlightOf(LedTopic) \ {b}}
    BY <2>1, EndRefines
  <2>3. CASE UNCHANGED InFlightOf(LedTopic)
    BY <1>2, <2>1, <2>3 DEF Register!vars
  <2>4. CASE InFlightOf(LedTopic)' = InFlightOf(LedTopic) \ {b}
    <3>1. Register!Lose(b)
      BY <1>2, <2>1, <2>4 DEF Register!Lose
    <3> QED BY <2>2, <3>1 DEF Register!Next
  <2> QED BY <2>2, <2>3, <2>4
<1>7. CASE topic = LedTopic /\ Write(topic, slot)
  <2> DEFINE b == writes[LedTopic][slot].bytes
  <2>1. slot \in Busy /\ writes' = [writes EXCEPT ![LedTopic][slot] = Idle]
    BY <1>7 DEF Busy, Write
  <2>2. /\ b \in ByteArrays /\ b \in InFlightOf(LedTopic)
        /\ InFlightOf(LedTopic)' \in {InFlightOf(LedTopic), InFlightOf(LedTopic) \ {b}}
    BY <2>1, EndRefines
  <2>3. writes[LedTopic][slot].address = LedDevice
    BY <1>7 DEF IInv, ThreadsInv, Write
  <2>4. led'[LedDevice] = b
    BY <1>1, <1>7, <2>3, RegisterAssumption DEF Write
  <2>5. Register!Arrive(b)
    BY <1>2, <2>2, <2>4 DEF Register!Arrive
  <2> QED BY <2>2, <2>5 DEF Register!Next
<1> QED BY <1>3, <1>4, <1>5, <1>6, <1>7 DEF Thread

LEMMA StepRefines ==
    ASSUME IInv, [Next]_vars
    PROVE  [Register!Next]_Register!vars
<1>1. CASE UNCHANGED vars
  BY <1>1, QuietRefines DEF vars
<1>2. CASE \/ Subscribe \/ ConnectionLost \/ StartMap \/ SkipEntry \/ ShortTopic
           \/ \E c \in ActorConfigs : LoadActors(c)
           \/ \E devices \in SUBSET Devices : Scan(devices)
  <2>1. UNCHANGED <<values, writes, led>>
    BY <1>2 DEF Subscribe, ConnectionLost, StartMap, SkipEntry, ShortTopic, LoadActors, Scan
  <2> QED BY <2>1, QuietRefines
<1>3. CASE \E topic \in Topics, value \in Payloads : MessageArrived(topic, value)
  BY <1>3, MessageRefines
<1>4. CASE \E slot \in Slots : WriteEntry(slot)
  BY <1>4, WriteEntryRefines
<1>5. CASE \E topic \in Topics, slot \in Slots : Thread(topic, slot)
  BY <1>5, ThreadRefines
<1> QED BY <1>1, <1>2, <1>3, <1>4, <1>5 DEF Next, Visit

(* Whatever threads overlap, fail and overtake one another, and however    *)
(* the actors and the scanned devices change, the topic and its device are *)
(* a latest-value register.                                                *)
THEOREM RegisterRefined == Spec => ImplementsLatestValue
<1>1. ASSUME IInv, [Next]_vars PROVE [Register!Next]_Register!vars
  BY <1>1, StepRefines
<1> QED BY <1>1, InitRefines, Invariance, PTL DEF Spec, ImplementsLatestValue, Register!Spec
-------------------------------------------------------------------------------
(* A topic gets its first message, and with it an entry in the map.        *)
NewTopic == \E t \in Topics : values[t] = Null /\ values'[t] # Null

(* map() starts a thread for the topic.                                    *)
WriteStarts(topic) ==
    \E slot \in Slots : writes[topic][slot] = Idle /\ writes'[topic][slot] # Idle

(* A walk that has not come past entry i, and sees every entry up to it.   *)
NotBeyond(i) == cursor = 0 \/ (cursor <= i /\ ~grown)

(* An entry stays in the map, ...                                          *)
LEMMA EntryStays ==
    ASSUME IInv, [Next]_vars, NEW topic \in Topics, values[topic] # Null
    PROVE  values'[topic] # Null
<1>1. CASE UNCHANGED values
  BY <1>1
<1>2. CASE \E t \in Topics, value \in Payloads : MessageArrived(t, value)
  BY <1>2, LedAssumption DEF IInv, TypeOK, MessageArrived
<1>3. CASE Visit \/ \E t \in Topics, slot \in Slots : Thread(t, slot)
  BY <1>1, <1>3 DEF Visit, SkipEntry, ShortTopic, WriteEntry,
                    Thread, Connect, GiveUp, ExitOnConnect, Write, WriteFails
<1> QED BY <1>1, <1>2, <1>3 DEF Next, Subscribe, ConnectionLost, LoadActors, Scan, StartMap, vars

(* ... and while no entry is added, no walk gets past a malformed one.     *)
LEMMA MalformedStopsWalk ==
    ASSUME IInv, [Next]_vars, ~NewTopic, NEW i \in 1 .. Len(Order), IsShort(Order[i]),
           values[Order[i]] # Null, NotBeyond(i)
    PROVE  NotBeyond(i)'
<1> USE DEF NotBeyond
<1>1. Len(Order) \in Nat /\ cursor \in 0 .. Len(Order)
  BY OrderFacts DEF IInv, TypeOK
<1>2. CASE UNCHANGED <<cursor, grown>>
  BY <1>2
<1>3. CASE StartMap
  BY <1>3 DEF StartMap
<1>4. ASSUME NEW t \in Topics, NEW value \in Payloads, MessageArrived(t, value)
      PROVE  NotBeyond(i)'
  <2>1. values'[t] # Null
    BY <1>4, LedAssumption DEF IInv, TypeOK, MessageArrived
  <2>2. grown' = grown /\ cursor' = cursor
    BY <1>4, <2>1 DEF NewTopic, MessageArrived, IInv, TypeOK
  <2> QED BY <2>2
<1>5. CASE SkipEntry
  <2>1. cursor # i /\ cursor < i /\ grown' = grown /\ cursor' = Following /\ ~grown
    BY <1>1, <1>5 DEF SkipEntry
  <2> QED BY <1>1, <2>1 DEF Following
<1>6. CASE ShortTopic
  BY <1>6 DEF ShortTopic
<1>7. ASSUME NEW slot \in Slots, WriteEntry(slot) PROVE NotBeyond(i)'
  <2>1. cursor # i /\ cursor < i /\ grown' = grown /\ cursor' = Following /\ ~grown
    BY <1>1, <1>7 DEF WriteEntry
  <2> QED BY <1>1, <2>1 DEF Following
<1>8. CASE \E t \in Topics, slot \in Slots : Thread(t, slot)
  BY <1>2, <1>8 DEF Thread, Connect, GiveUp, ExitOnConnect, Write, WriteFails
<1> QED
  BY <1>2, <1>3, <1>4, <1>5, <1>6, <1>7, <1>8
     DEF Next, Visit, Subscribe, ConnectionLost, LoadActors, Scan, vars

(* A walk before an entry starts no thread for one behind it.              *)
LEMMA NothingStartsBeyond ==
    ASSUME IInv, [Next]_vars, NEW i \in 1 .. Len(Order), NEW j \in 1 .. Len(Order), i < j,
           NotBeyond(i)
    PROVE  ~WriteStarts(Order[j])
<1> DEFINE topic == Order[j]
<1>1. /\ Len(Order) \in Nat /\ cursor \in 0 .. Len(Order) /\ topic \in Topics
      /\ writes \in [Topics -> [Slots -> WriteType]]
  BY OrderFacts DEF IInv, TypeOK
<1>2. CASE UNCHANGED writes
  BY <1>2 DEF WriteStarts
<1>3. ASSUME NEW slot \in Slots, WriteEntry(slot) PROVE ~WriteStarts(topic)
  <2>1. cursor \in 1 .. Len(Order) /\ cursor # j
    BY <1>1, <1>3 DEF WriteEntry, NotBeyond
  <2>2. Order[cursor] # topic
    BY <2>1, LedAssumption
  <2>3. writes'[topic] = writes[topic]
    BY <1>1, <1>3, <2>2 DEF WriteEntry
  <2> QED BY <2>3 DEF WriteStarts
<1>4. ASSUME NEW t \in Topics, NEW slot \in Slots, Thread(t, slot) PROVE ~WriteStarts(topic)
  <2>1. CASE ExitOnConnect(t, slot)
    BY <1>2, <2>1 DEF ExitOnConnect
  <2>2. writes[t][slot] # Idle
    BY <1>4, <2>1 DEF Thread, Connect, GiveUp, ExitOnConnect, Write, WriteFails, Idle
  <2>3. CASE ~ExitOnConnect(t, slot)
    <3>1. \A s \in Slots : t # topic \/ s # slot => writes'[topic][s] = writes[topic][s]
      BY <1>1, <1>4, <2>3 DEF Thread, Connect, GiveUp, Write, WriteFails
    <3> QED BY <2>2, <3>1 DEF WriteStarts
  <2> QED BY <2>1, <2>3
<1>5. CASE SkipEntry \/ ShortTopic
  BY <1>2, <1>5 DEF SkipEntry, ShortTopic
<1>6. CASE \E t \in Topics, value \in Payloads : MessageArrived(t, value)
  BY <1>2, <1>6 DEF MessageArrived
<1> QED
  BY <1>2, <1>3, <1>4, <1>5, <1>6
     DEF Next, Visit, Subscribe, ConnectionLost, LoadActors, Scan, StartMap, vars

(* There are finitely many topics: at some time the last new one has come. *)
TopicsSettle == <>[][~NewTopic]_vars

(* Walks end, ...                                                          *)
WalksEnd == []<>(cursor = 0 \/ ~running)

(* ... and so do the threads of a topic for which none is started.         *)
WritesEnd(j) ==
    <>[][~WriteStarts(Order[j])]_vars =>
        []<>((\A slot \in Slots : writes[Order[j]][slot] = Idle) \/ ~running)

(* ShortTopicSilencesTheRest, without the fairness: once the map has all   *)
(* its entries and a walk has ended, every walk ends at the malformed      *)
(* topic, and no thread is started for those behind it.  That entries stop *)
(* being added, that walks end and that threads end is left to TLC.        *)
THEOREM MalformedSilences ==
    Spec /\ TopicsSettle /\ WalksEnd /\ (\A j \in 1 .. Len(Order) : WritesEnd(j))
      => ShortTopicSilencesTheRest
<1> SUFFICES ASSUME NEW i \in 1 .. Len(Order), NEW j \in 1 .. Len(Order)
             PROVE  Spec /\ TopicsSettle /\ WalksEnd /\ WritesEnd(j) =>
                      (i < j /\ IsShort(Order[i]) =>
                        (values[Order[i]] # Null
                         ~> \/ ~running
                            \/ [](\A slot \in Slots : writes[Order[j]][slot] = Idle)))
  BY DEF ShortTopicSilencesTheRest
<1> SUFFICES ASSUME i < j, IsShort(Order[i])
             PROVE  Spec /\ TopicsSettle /\ WalksEnd /\ WritesEnd(j) =>
                      (values[Order[i]] # Null
                         ~> \/ ~running
                            \/ [](\A slot \in Slots : writes[Order[j]][slot] = Idle))
  OBVIOUS
<1> DEFINE Present == values[Order[i]] # Null
           AtRest == cursor = 0
           Behind == NotBeyond(i)
           Silent == \A slot \in Slots : writes[Order[j]][slot] = Idle
<1>1. IInv /\ [Next]_vars /\ Present => Present'
  BY EntryStays, OrderFacts
<1>2. AtRest => Behind
  BY DEF NotBeyond
<1>3. IInv /\ [Next]_vars /\ [~NewTopic]_vars /\ Present /\ Behind => Behind'
  <2>1. CASE UNCHANGED vars
    BY <2>1 DEF vars, NotBeyond
  <2>2. CASE ~NewTopic
    BY <2>2, MalformedStopsWalk
  <2> QED BY <2>1, <2>2
<1>4. IInv /\ [Next]_vars /\ Behind => [~WriteStarts(Order[j])]_vars
  BY NothingStartsBeyond
<1>5. [~WriteStarts(Order[j])]_vars /\ Silent => Silent'
  BY DEF vars, WriteStarts
<1>6. /\ cursor = 0 => AtRest
      /\ (\A slot \in Slots : writes[Order[j]][slot] = Idle) => Silent
  OBVIOUS
<1>7. [Next]_vars /\ ~running => ~running'
  BY DEF Next, vars
<1> HIDE DEF Present, AtRest, Behind, Silent
<1>8. Spec /\ TopicsSettle /\ WalksEnd /\ WritesEnd(j) =>
        (Present ~> ~running \/ []Silent)
  BY <1>1, <1>2, <1>3, <1>4, <1>5, <1>6, <1>7, Invariance, PTL
     DEF Spec, TopicsSettle, WalksEnd, WritesEnd
<1> QED BY <1>8, PTL DEF Present, Silent
-------------------------------------------------------------------------------
(* A walk that sees every entry, or none under way.                        *)
SeesAll == cursor = 0 \/ ~grown

(* The table grows under a walk only by a new entry.                       *)
LEMMA WalkSeesAll ==
    ASSUME IInv, [Next]_vars, ~NewTopic, SeesAll
    PROVE  SeesAll'
<1> USE DEF SeesAll
<1>1. CASE UNCHANGED <<cursor, grown>> \/ StartMap \/ ShortTopic
  BY <1>1 DEF StartMap, ShortTopic
<1>2. ASSUME NEW t \in Topics, NEW value \in Payloads, MessageArrived(t, value)
      PROVE  SeesAll'
  <2>1. values'[t] # Null
    BY <1>2, LedAssumption DEF IInv, TypeOK, MessageArrived
  <2>2. grown' = grown /\ cursor' = cursor
    BY <1>2, <2>1 DEF NewTopic, MessageArrived, IInv, TypeOK
  <2> QED BY <2>2
<1>3. CASE SkipEntry \/ \E slot \in Slots : WriteEntry(slot)
  <2>1. cursor > 0 /\ grown' = grown
    BY <1>3 DEF SkipEntry, WriteEntry
  <2> QED BY <2>1
<1>4. CASE \E t \in Topics, slot \in Slots : Thread(t, slot)
  BY <1>1, <1>4 DEF Thread, Connect, GiveUp, ExitOnConnect, Write, WriteFails
<1> QED
  BY <1>1, <1>2, <1>3, <1>4
     DEF Next, Visit, Subscribe, ConnectionLost, LoadActors, Scan, vars

(* A walk that goes towards entry i.                                       *)
Heading(i) == cursor \in 1 .. i

(* A walk towards a reached topic with an actor does not end before it has *)
(* started a thread for it.                                                *)
LEMMA WalkReaches ==
    ASSUME IInv, [Next]_vars, NEW i \in 1 .. Len(Order), ~IsShort(Order[i]),
           NEW value \in Payloads, NEW d \in Devices, StableFor(Order[i], value, d),
           SeesAll, Heading(i), ~WriteStarts(Order[i])
    PROVE  Heading(i)'
<1> USE DEF Heading
<1>1. /\ Len(Order) \in Nat /\ cursor \in 0 .. Len(Order) /\ Order[i] \in Topics
      /\ writes \in [Topics -> [Slots -> WriteType]]
      /\ i \in Nat /\ cursor \in Nat /\ cursor > 0 /\ cursor <= i /\ i <= Len(Order)
  BY OrderFacts DEF IInv, TypeOK
<1>2. /\ values[Order[i]] # Null /\ ActorOf(Order[i]) # Null /\ ~grown
      /\ \A k \in 1 .. i - 1 : IsShort(Order[k]) => values[Order[k]] = Null
  BY <1>1, LedAssumption DEF StableFor, Reached, IInv, TypeOK, SeesAll
<1>3. CASE UNCHANGED cursor
  BY <1>3
<1>4. cursor # i => Following \in 1 .. i
  BY <1>1 DEF Following
<1>5. CASE SkipEntry
  BY <1>1, <1>2, <1>4, <1>5 DEF SkipEntry
<1>6. CASE ShortTopic
  <2>1. cursor # i
    BY <1>6 DEF ShortTopic
  <2>2. cursor \in 1 .. i - 1
    BY <1>1, <2>1
  <2> QED BY <1>2, <1>6, <2>2 DEF ShortTopic
<1>7. ASSUME NEW slot \in Slots, WriteEntry(slot) PROVE Heading(i)'
  <2>1. CASE cursor # i
    BY <1>4, <1>7, <2>1 DEF WriteEntry
  <2>2. CASE cursor = i
    <3>1. /\ writes[Order[i]][slot] = Idle
          /\ writes'[Order[i]][slot].step = "started"
      BY <1>1, <1>2, <1>7, <2>2 DEF WriteEntry
    <3>2. WriteStarts(Order[i])
      BY <3>1 DEF WriteStarts, Idle
    <3> QED BY <3>2
  <2> QED BY <2>1, <2>2
<1>8. CASE StartMap
  BY <1>1, <1>8 DEF StartMap
<1>9. CASE \E t \in Topics, slot \in Slots : Thread(t, slot)
  BY <1>3, <1>9 DEF Thread, Connect, GiveUp, ExitOnConnect, Write, WriteFails
<1> QED
  BY <1>3, <1>5, <1>6, <1>7, <1>8, <1>9
     DEF Next, Visit, Subscribe, ConnectionLost, MessageArrived, LoadActors, Scan, vars

LEMMA WalkStarts ==
    ASSUME [Next]_vars, cursor = 0, NEW i \in 1 .. Len(Order)
    PROVE  cursor' = 0 \/ Heading(i)'
<1>1. CASE UNCHANGED cursor
  BY <1>1
<1>2. CASE StartMap
  <2>1. 1 \in 1 .. i
    BY OrderFacts
  <2> QED BY <1>2, <2>1 DEF StartMap, Heading
<1>3. CASE \E t \in Topics, slot \in Slots : Thread(t, slot)
  BY <1>1, <1>3 DEF Thread, Connect, GiveUp, ExitOnConnect, Write, WriteFails
<1>4. CASE Visit
  BY <1>4 DEF Visit, SkipEntry, ShortTopic, WriteEntry
<1> QED
  BY <1>1, <1>2, <1>3, <1>4
     DEF Next, Subscribe, ConnectionLost, MessageArrived, LoadActors, Scan, vars

(* A thread that is out of date: it carries something else to the topic's  *)
(* device d, or one of the topic's values elsewhere.                       *)
Stale(topic, d, value, t, thread) ==
    /\ thread.step # "none"
    /\ \/ thread.address = d /\ thread.bytes # Bytes(value)
       \/ t = topic /\ thread.address # d

NoneStale(topic, d, value) ==
    \A t \in Topics, slot \in Slots : ~Stale(topic, d, value, t, writes[t][slot])

StaleStarts(topic, d, value) ==
    \E t \in Topics, slot \in Slots :
        /\ ~Stale(topic, d, value, t, writes[t][slot])
        /\ Stale(topic, d, value, t, writes'[t][slot])

(* While a topic is stable, no thread starts that is out of date.          *)
LEMMA NothingStaleStarts ==
    ASSUME IInv, [Next]_vars, NEW topic \in Topics, NEW value \in Payloads, NEW d \in Devices,
           StableFor(topic, value, d)
    PROVE  ~StaleStarts(topic, d, value)
<1>1. /\ writes \in [Topics -> [Slots -> WriteType]]
      /\ \A i \in 1 .. Len(Order) : Order[i] \in Topics
      /\ cursor \in 0 .. Len(Order) /\ Len(Order) \in Nat
  BY OrderFacts DEF IInv, TypeOK
<1>2. CASE UNCHANGED writes
  BY <1>2 DEF StaleStarts
<1>3. ASSUME NEW slot \in Slots, WriteEntry(slot) PROVE ~StaleStarts(topic, d, value)
  <2> DEFINE t == Order[cursor]
             thread == [step |-> "started", address |-> ActorOf(t), bytes |-> Bytes(values[t])]
  <2>1. t \in Topics /\ ~IsShort(t)
    BY <1>1, <1>3 DEF WriteEntry
  <2>2. CASE writes' = [writes EXCEPT ![t][slot] = thread]
    <3>1. ActorOf(t) = d => t = topic
      BY <2>1 DEF StableFor, Writers
    <3>2. ~Stale(topic, d, value, t, thread)
      BY <3>1 DEF Stale, StableFor
    <3>3. \A u \in Topics, s \in Slots :
            writes'[u][s] = IF u = t /\ s = slot THEN thread ELSE writes[u][s]
      BY <1>1, <2>1, <2>2
    <3> HIDE DEF t, thread
    <3> QED BY <3>2, <3>3 DEF StaleStarts
  <2> QED BY <1>2, <1>3, <2>2 DEF WriteEntry
<1>4. ASSUME NEW t \in Topics, NEW slot \in Slots, Thread(t, slot)
      PROVE  ~StaleStarts(topic, d, value)
  <2>1. CASE ExitOnConnect(t, slot)
    BY <1>2, <2>1 DEF ExitOnConnect
  <2>2. CASE Connect(t, slot)
    <3>1. /\ writes[t][slot].step # "none"
          /\ \A u \in Topics, s \in Slots :
                /\ writes'[u][s].address = writes[u][s].address
                /\ writes'[u][s].bytes = writes[u][s].bytes
                /\ u # t \/ s # slot => writes'[u][s] = writes[u][s]
      BY <1>1, <2>2 DEF Connect, WriteType
    <3> QED BY <3>1 DEF StaleStarts, Stale
  <2>3. CASE GiveUp(t, slot) \/ Write(t, slot) \/ WriteFails(t, slot)
    <3>1. writes' = [writes EXCEPT ![t][slot] = Idle]
      BY <2>3 DEF GiveUp, Write, WriteFails
    <3>2. \A u \in Topics, s \in Slots :
            writes'[u][s] = IF u = t /\ s = slot THEN Idle ELSE writes[u][s]
      BY <1>1, <3>1
    <3> QED BY <3>2 DEF StaleStarts, Stale, Idle
  <2> QED BY <1>4, <2>1, <2>2, <2>3 DEF Thread
<1>5. CASE SkipEntry \/ ShortTopic
  BY <1>2, <1>5 DEF SkipEntry, ShortTopic
<1>6. CASE \E t \in Topics, v \in Payloads : MessageArrived(t, v)
  BY <1>2, <1>6 DEF MessageArrived
<1> QED
  BY <1>2, <1>3, <1>4, <1>5, <1>6
     DEF Next, Visit, Subscribe, ConnectionLost, LoadActors, Scan, StartMap, vars
(* Without such threads, what is written to d is the value, and the topic  *)
(* writes to d.                                                            *)
WriteSucceeds(topic) == \E slot \in Slots : Write(topic, slot)

LEMMA OnlyValueIsShown ==
    ASSUME IInv, [Next]_vars, NEW topic \in Topics, NEW value \in Payloads, NEW d \in Devices,
           NoneStale(topic, d, value)
    PROVE  /\ led[d] = Bytes(value) => led'[d] = Bytes(value)
           /\ WriteSucceeds(topic) => led'[d] = Bytes(value)
<1>1. led \in [Devices -> ByteArrays \cup {Null}]
  BY DEF IInv, TypeOK
<1>2. ASSUME NEW t \in Topics, NEW slot \in Slots, Write(t, slot)
      PROVE  /\ led[d] = Bytes(value) => led'[d] = Bytes(value)
             /\ t = topic => led'[d] = Bytes(value)
  <2>1. /\ writes[t][slot].step # "none"
        /\ led' = [led EXCEPT ![writes[t][slot].address] = writes[t][slot].bytes]
    BY <1>2 DEF Write
  <2>2. /\ writes[t][slot].address = d => writes[t][slot].bytes = Bytes(value)
        /\ t = topic => writes[t][slot].address = d
    BY <2>1 DEF NoneStale, Stale
  <2> QED BY <1>1, <2>1, <2>2
<1>3. CASE UNCHANGED led
  <2>1. WriteSucceeds(topic) => led'[d] = Bytes(value)
    BY <1>2 DEF WriteSucceeds
  <2> QED BY <1>3, <2>1
<1>4. CASE \E t \in Topics, slot \in Slots : Write(t, slot)
  <2>1. WriteSucceeds(topic) => led'[d] = Bytes(value)
    BY <1>2 DEF WriteSucceeds
  <2> QED BY <1>2, <1>4, <2>1
<1>5. CASE Visit
  BY <1>3, <1>5 DEF Visit, SkipEntry, ShortTopic, WriteEntry
<1>6. CASE \E t \in Topics, slot \in Slots : Thread(t, slot)
  BY <1>3, <1>4, <1>6 DEF Thread, Connect, GiveUp, ExitOnConnect, WriteFails
<1> QED
  BY <1>3, <1>5, <1>6
     DEF Next, Subscribe, ConnectionLost, MessageArrived, LoadActors, Scan, StartMap, vars

(* map() is called again and again, ...                                    *)
WalksStart == []<>(cursor # 0 \/ ~running)

(* ... writes started again and again for a device that stays scanned      *)
(* succeed again and again, ...                                            *)
WritesSucceed(topic, d) ==
    /\ <>[](ActorOf(topic) = d /\ d \in scannedDevices)
    /\ <>[][~WriteSucceeds(topic)]_vars
    => <>[][~WriteStarts(topic)]_vars

(* ... and threads that are out of date, when no more are started, end.    *)
StaleWritesEnd(topic, d, value) ==
    <>[][~StaleStarts(topic, d, value)]_vars => []<>(NoneStale(topic, d, value) \/ ~running)

(* What the fairness gives LedShowsStableValue.                            *)
ActorsAnswer ==
    \A topic \in Topics, value \in Payloads, d \in Devices :
        WritesSucceed(topic, d) /\ StaleWritesEnd(topic, d, value)

(* LedShowsStableValue, without the fairness: every walk reaches the topic *)
(* and starts a thread with the value for its device; once the threads     *)
(* from before the topic was stable have ended, nothing else is written to *)
(* the device, whatever overlaps.  That walks start and end, and that      *)
(* threads end and writes succeed, is left to TLC.                         *)
THEOREM StableValueShown ==
    Spec /\ TopicsSettle /\ WalksStart /\ WalksEnd /\ ActorsAnswer => LedShowsStableValue
<1>1. ASSUME NEW topic \in Topics, NEW value \in Payloads, NEW d \in Devices, ~IsShort(topic)
      PROVE  Spec /\ TopicsSettle /\ WalksStart /\ WalksEnd
             /\ WritesSucceed(topic, d) /\ StaleWritesEnd(topic, d, value)
               => (<>[]StableFor(topic, value, d) => <>[](led[d] = Bytes(value)))
  <2>1. PICK i \in 1 .. Len(Order) : Order[i] = topic
    BY DEF Topics
  <2> DEFINE Regime == StableFor(topic, value, d)
             Answers == ActorOf(topic) = d /\ d \in scannedDevices
             Fresh == NoneStale(topic, d, value)
             Shown == led[d] = Bytes(value)
             AtRest == cursor = 0
             Under == Heading(i)
  <2>2. /\ Regime => running
        /\ Regime => Answers
    BY DEF StableFor
  <2>3. IInv /\ [Next]_vars /\ [~NewTopic]_vars /\ SeesAll => SeesAll'
    <3>1. CASE UNCHANGED vars
      BY <3>1 DEF vars, SeesAll
    <3>2. CASE ~NewTopic
      BY <3>2, WalkSeesAll
    <3> QED BY <3>1, <3>2
  <2>4. IInv /\ [Next]_vars /\ [~WriteStarts(topic)]_vars /\ Regime /\ SeesAll /\ Under => Under'
    <3>1. CASE UNCHANGED vars
      BY <3>1 DEF vars, Heading
    <3>2. CASE ~WriteStarts(topic)
      BY <1>1, <2>1, <3>2, WalkReaches
    <3> QED BY <3>1, <3>2
  <2>5. [Next]_vars /\ AtRest => AtRest' \/ Under'
    BY WalkStarts
  <2>6. /\ AtRest => SeesAll
        /\ Under => ~AtRest
        /\ cursor = 0 <=> AtRest
        /\ cursor # 0 <=> ~AtRest
    BY DEF SeesAll, Heading
  <2>7. IInv /\ [Next]_vars /\ Regime => [~StaleStarts(topic, d, value)]_vars
    BY NothingStaleStarts
  <2>8. [~StaleStarts(topic, d, value)]_vars /\ Fresh => Fresh'
    BY DEF vars, StaleStarts, NoneStale
  <2>9. /\ IInv /\ [Next]_vars /\ Fresh /\ Shown => Shown'
        /\ IInv /\ [Next]_vars /\ Fresh /\ ~Shown' => [~WriteSucceeds(topic)]_vars
    BY OnlyValueIsShown
  <2>10. /\ NoneStale(topic, d, value) => Fresh
         /\ Answers => ActorOf(topic) = d /\ d \in scannedDevices
    OBVIOUS
  <2> HIDE DEF Regime, Answers, Fresh, Shown, AtRest, Under
  <2>11. Spec /\ TopicsSettle /\ WalksStart /\ WalksEnd
              /\ WritesSucceed(topic, d) /\ StaleWritesEnd(topic, d, value)
           => (<>[]Regime => <>[]Shown)
    BY <2>2, <2>3, <2>4, <2>5, <2>6, <2>7, <2>8, <2>9, <2>10, Invariance, PTL
       DEF Spec, TopicsSettle, WalksStart, WalksEnd, WritesSucceed, StaleWritesEnd
  <2> QED BY <2>11 DEF Regime, Shown
<1> QED BY <1>1 DEF LedShowsStableValue, ActorsAnswer
===============================================================================
