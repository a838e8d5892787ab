------------------------------- MODULE LedWriter -------------------------------
(***************************************************************************)
(* The LED writer (GATTWriteLEDScheduledTask, GATTWriteSensorAsyncTask).   *)
(*                                                                         *)
(* The MQTT callback thread stores the last value of every LED topic in an *)
(* unsynchronised HashMap.  Once a second the scheduler thread walks the   *)
(* map and starts, for every topic with a configured actor, a thread that  *)
(* writes the value to the actor's device.  These threads are not waited   *)
(* for: old and new writes overlap and overtake one another.               *)
(***************************************************************************)
EXTENDS Integers, Sequences, FiniteSets

CONSTANTS
    Null,
    Payloads,       \* values that arrive on LED topics
    Order,          \* the LED topics, in the order in which the HashMap is walked
    Devices,        \* addresses of GATT devices
    ActorConfigs,   \* actor configurations: sequences of actor devices
    GrowthSizes,    \* sizes at which the HashMap grows its table
    Slots           \* bound: write threads alive at one time, per topic

(* A topic as topic.split('/') sees it: the number of its segments, and    *)
(* those at index 3 and 4, which a topic with fewer segments does not have. *)
Topics == {Order[i] : i \in 1 .. Len(Order)}

IsShort(topic) == topic.segments < 5

(* ConfigurationController.getActor: the address of the first device that  *)
(* has the strip with the LED.                                             *)
HasLed(device, stripID, ledID) ==
    \E strip \in device.strips : strip.index = stripID /\ ledID \in strip.leds

GetActor(actors, stripID, ledID) ==
    LET found == {i \in 1 .. Len(actors) : HasLed(actors[i], stripID, ledID)}
    IN  IF found = {} THEN Null
        ELSE actors[CHOOSE i \in found : \A j \in found : i <= j].address

(* The byte array written for a value.                                     *)
Bytes(value) == CASE value = "0" -> <<0>>
                  [] value = "1" -> <<1>>
                  [] OTHER -> <<>>

ByteArrays == {<<0>>, <<1>>, <<>>}

ASSUME LedAssumption ==
    /\ Order \in Seq([segments : Nat, stripID : STRING, ledID : STRING])
    /\ \A i, j \in 1 .. Len(Order) : Order[i] = Order[j] => i = j
    /\ \A c \in ActorConfigs :
        Len(c) \in Nat /\ \A i \in 1 .. Len(c) : c[i].address \in Devices
    /\ Null \notin Payloads /\ Null \notin Devices /\ Null \notin ByteArrays

VARIABLES
    running,        \* FALSE once System.exit has been called
    actorsConfig,   \* ConfigurationController.actorsConfig
    subscription,   \* of the LED topics: "starting", "live" or "lost"
    values,         \* the HashMap: last value per topic
    cursor,         \* entry map() visits next, 0 when map() does not run
    grown,          \* has the table grown since map() started?
    scannedDevices, \* TinybController.scannedDevices
    writes,         \* GATTWriteSensorAsyncTask threads, per topic and slot
    led             \* the bytes in each device's LED characteristic

vars == <<running, actorsConfig, subscription, values, cursor, grown,
          scannedDevices, writes, led>>

Idle == [step |-> "none", address |-> Null, bytes |-> Null]

ActorOf(topic) == GetActor(actorsConfig, topic.stripID, topic.ledID)

Init ==
    /\ running = TRUE
    /\ actorsConfig \in ActorConfigs
    /\ subscription = "starting"
    /\ values = [t \in Topics |-> Null]
    /\ cursor = 0
    /\ grown = FALSE
    /\ scannedDevices = {}
    /\ writes = [t \in Topics |-> [slot \in Slots |-> Idle]]
    /\ led = [d \in Devices |-> Null]

-------------------------------------------------------------------------------
Subscribe ==
    /\ subscription = "starting"
    /\ subscription' \in {"live", "lost"}
    /\ UNCHANGED <<running, actorsConfig, values, cursor, grown, scannedDevices, writes, led>>

(* connectionLost only logs, and a reconnected client has no subscription. *)
ConnectionLost ==
    /\ subscription = "live"
    /\ subscription' = "lost"
    /\ UNCHANGED <<running, actorsConfig, values, cursor, grown, scannedDevices, writes, led>>

MessageArrived(topic, value) ==
    LET present == {t \in Topics : values[t] # Null}
    IN  /\ subscription = "live"
        /\ values' = [values EXCEPT ![topic] = value]
        /\ grown' = (grown \/ /\ cursor > 0
                              /\ topic \notin present
                              /\ Cardinality(present) + 1 \in GrowthSizes)
        /\ UNCHANGED <<running, actorsConfig, subscription, cursor, scannedDevices, writes, led>>

(* SentientPropertiesAsyncTask replaces the actors, and a scan the devices. *)
LoadActors(c) ==
    /\ actorsConfig' = c
    /\ UNCHANGED <<running, subscription, values, cursor, grown, scannedDevices, writes, led>>

Scan(devices) ==
    /\ scannedDevices' = devices
    /\ UNCHANGED <<running, actorsConfig, subscription, values, cursor, grown, writes, led>>

-------------------------------------------------------------------------------
(* map(), on the scheduler thread.  An exception that leaves it is logged, *)
(* and map() is called again a second later.                               *)
StartMap ==
    /\ cursor = 0
    /\ Order # <<>>
    /\ cursor' = 1
    /\ grown' = FALSE
    /\ UNCHANGED <<running, actorsConfig, subscription, values, scannedDevices, writes, led>>

(* Mutant: a walk that runs past the last entry.                           *)
FollowingUnchecked == cursor + 1

Following == IF cursor = Len(Order) THEN 0 ELSE cursor + 1

(* No entry for this topic; or one that a table growing under the walk     *)
(* hides from it.                                                          *)
SkipEntry ==
    /\ cursor > 0
    /\ values[Order[cursor]] = Null \/ grown
    /\ cursor' = Following
    /\ UNCHANGED <<running, actorsConfig, subscription, values, grown, scannedDevices, writes, led>>

(* Mutant: a malformed topic is skipped.                                   *)
ShortTopicSkipped ==
    /\ cursor > 0
    /\ values[Order[cursor]] # Null
    /\ IsShort(Order[cursor])
    /\ cursor' = Following
    /\ UNCHANGED <<running, actorsConfig, subscription, values, grown, scannedDevices, writes, led>>

(* topic.split('/')[3] or [4] throws: the walk ends here.                  *)
ShortTopic ==
    /\ cursor > 0
    /\ values[Order[cursor]] # Null
    /\ IsShort(Order[cursor])
    /\ cursor' = 0
    /\ UNCHANGED <<running, actorsConfig, subscription, values, grown, scannedDevices, writes, led>>

(* An entry with five segments: a write thread for its actor, if any.      *)
WriteEntry(slot) ==
    LET topic == Order[cursor]
    IN  /\ cursor > 0
        /\ values[topic] # Null
        /\ ~IsShort(topic)
        /\ \/ /\ ActorOf(topic) # Null
              /\ writes[topic][slot] = Idle
              /\ writes' = [writes EXCEPT ![topic][slot] =
                              [step |-> "started", address |-> ActorOf(topic),
                               bytes |-> Bytes(values[topic])]]
           \/ /\ ActorOf(topic) = Null
              /\ UNCHANGED writes
        /\ cursor' = Following
        /\ UNCHANGED <<running, actorsConfig, subscription, values, grown, scannedDevices, led>>

-------------------------------------------------------------------------------
(* The write thread: the device is among the scanned ones, ensureConnection *)
(* returns twice (in run and in writeCharacteristic), and the device has   *)
(* the characteristic.                                                     *)
Connect(topic, slot) ==
    /\ writes[topic][slot].step = "started"
    /\ writes[topic][slot].address \in scannedDevices
    /\ writes' = [writes EXCEPT ![topic][slot].step = "connected"]
    /\ UNCHANGED <<running, actorsConfig, subscription, values, cursor, grown, scannedDevices, led>>

(* Mutant: a thread that gives up switches the LED off.                    *)
GiveUpDark(topic, slot) ==
    /\ writes[topic][slot].step = "started"
    /\ led' = [led EXCEPT ![writes[topic][slot].address] = <<0>>]
    /\ writes' = [writes EXCEPT ![topic][slot] = Idle]
    /\ UNCHANGED <<running, actorsConfig, subscription, values, cursor, grown, scannedDevices>>

(* The device is not among them, every attempt to connect fails, or no     *)
(* characteristic matches: the thread ends, and the value is dropped.      *)
GiveUp(topic, slot) ==
    /\ writes[topic][slot].step = "started"
    /\ writes' = [writes EXCEPT ![topic][slot] = Idle]
    /\ UNCHANGED <<running, actorsConfig, subscription, values, cursor, grown, scannedDevices, led>>

(* connect() returns false: connectDevice calls System.exit.               *)
ExitOnConnect(topic, slot) ==
    /\ writes[topic][slot].step = "started"
    /\ writes[topic][slot].address \in scannedDevices
    /\ running' = FALSE
    /\ UNCHANGED <<actorsConfig, subscription, values, cursor, grown, scannedDevices, writes, led>>

(* Mutant: a thread that writes its bytes again and again.                 *)
WriteForever(topic, slot) ==
    /\ writes[topic][slot].step = "connected"
    /\ led' = [led EXCEPT ![writes[topic][slot].address] = writes[topic][slot].bytes]
    /\ UNCHANGED <<running, actorsConfig, subscription, values, cursor, grown, scannedDevices,
                   writes>>

(* characteristic.writeValue(bytes) *)
Write(topic, slot) ==
    /\ writes[topic][slot].step = "connected"
    /\ led' = [led EXCEPT ![writes[topic][slot].address] = writes[topic][slot].bytes]
    /\ writes' = [writes EXCEPT ![topic][slot] = Idle]
    /\ UNCHANGED <<running, actorsConfig, subscription, values, cursor, grown, scannedDevices>>

(* ... which throws a BluetoothException: logged, not repeated.            *)
WriteFails(topic, slot) ==
    /\ writes[topic][slot].step = "connected"
    /\ writes' = [writes EXCEPT ![topic][slot] = Idle]
    /\ UNCHANGED <<running, actorsConfig, subscription, values, cursor, grown, scannedDevices, led>>

-------------------------------------------------------------------------------
Visit == SkipEntry \/ ShortTopic \/ \E slot \in Slots : WriteEntry(slot)

Thread(topic, slot) ==
    \/ Connect(topic, slot) \/ GiveUp(topic, slot) \/ ExitOnConnect(topic, slot)
    \/ Write(topic, slot) \/ WriteFails(topic, slot)

Next ==
    /\ running
    /\ \/ Subscribe
       \/ ConnectionLost
       \/ \E topic \in Topics, value \in Payloads : MessageArrived(topic, value)
       \/ \E c \in ActorConfigs : LoadActors(c)
       \/ \E devices \in SUBSET Devices : Scan(devices)
       \/ StartMap
       \/ Visit
       \/ \E topic \in Topics, slot \in Slots : Thread(topic, slot)

Spec == Init /\ [][Next]_vars

(* The scheduler calls map() again and again, and threads run.  A device   *)
(* that stays scanned lets itself be connected, and written to, infinitely *)
(* often when it is tried infinitely often.                                *)
Fairness ==
    /\ WF_vars(running /\ StartMap)
    /\ WF_vars(running /\ Visit)
    /\ \A topic \in Topics, slot \in Slots :
          /\ WF_vars(running /\ Thread(topic, slot))
          /\ SF_vars(running /\ Connect(topic, slot))
          /\ SF_vars(running /\ Write(topic, slot))

FairSpec == Spec /\ Fairness

-------------------------------------------------------------------------------
(* Type correctness of the map, of the walk and of the write threads.      *)
WriteType ==
    [step : {"none", "started", "connected"}, address : Devices \cup {Null},
     bytes : ByteArrays \cup {Null}]

TypeOK ==
    /\ running \in BOOLEAN /\ grown \in BOOLEAN
    /\ actorsConfig \in ActorConfigs
    /\ subscription \in {"starting", "live", "lost"}
    /\ values \in [Topics -> Payloads \cup {Null}]
    /\ cursor \in 0 .. Len(Order)
    /\ scannedDevices \subseteq Devices
    /\ writes \in [Topics -> [Slots -> WriteType]]
    /\ led \in [Devices -> ByteArrays \cup {Null}]

(* The topics whose writes go to device d.                                 *)
Writers(d) == {t \in Topics : ~IsShort(t) /\ ActorOf(t) = d}

(* A topic that the walk reaches in every turn.                            *)
Reached(topic) ==
    \E i \in 1 .. Len(Order) :
        /\ Order[i] = topic
        /\ \A j \in 1 .. i - 1 : IsShort(Order[j]) => values[Order[j]] = Null

(* The promise of the writer: when the value and the device of a topic     *)
(* stop changing, the device shows the value in the end, and for good, in  *)
(* spite of failing and overtaking writes - provided the program keeps     *)
(* running, the device stays scanned, no other topic is written to the     *)
(* same characteristic and no malformed topic stands before it in the map. *)
StableFor(topic, value, d) ==
    /\ running
    /\ values[topic] = value
    /\ ActorOf(topic) = d
    /\ d \in scannedDevices
    /\ Writers(d) = {topic}
    /\ Reached(topic)

LedShowsStableValue ==
    \A topic \in Topics, value \in Payloads, d \in Devices :
        ~IsShort(topic) =>
            (<>[]StableFor(topic, value, d) => <>[](led[d] = Bytes(value)))

(* What one malformed topic does: from its first message on, the LEDs of   *)
(* the topics behind it in the map are, in the end, never written again    *)
(* (split('/')[4] throws out of the walk, and the entry is never removed). *)
ShortTopicSilencesTheRest ==
    \A i, j \in 1 .. Len(Order) :
        i < j /\ IsShort(Order[i]) =>
            (values[Order[i]] # Null
               ~> \/ ~running
                  \/ [](\A slot \in Slots : writes[Order[j]][slot] = Idle))

(* A topic and its device as a latest-value register (LatestValue): what   *)
(* is on its way to the device are the bytes of the topic's write threads. *)
RequestedOf(topic) == IF values[topic] = Null THEN Null ELSE Bytes(values[topic])

InFlightOf(topic) ==
    {writes[topic][slot].bytes : slot \in {s \in Slots : writes[topic][s].step # "none"}}

SoleWriter(topic, d) ==
    /\ ~IsShort(topic)
    /\ \A c \in ActorConfigs, t \in {u \in Topics : ~IsShort(u)} :
          GetActor(c, t.stripID, t.ledID) = d <=> t = topic
===============================================================================
