---------------------------- MODULE SentientMapping ----------------------------
(***************************************************************************)
(* The mapping engine (SentientMappingScheduledTask and                    *)
(* SentientMappingEvaluationAsyncTask).                                    *)
(*                                                                         *)
(* Three kinds of thread share three unsynchronised HashMaps:              *)
(*   - the MQTT callback thread stores every reading and recomputes the    *)
(*     average of its sensor (handleValue);                                *)
(*   - the scheduler thread starts one evaluation thread per mapping,      *)
(*     every second, whether or not the earlier ones have ended (map);     *)
(*   - each evaluation thread reads the maps and, when its condition is    *)
(*     fulfilled, starts a thread that publishes the command.              *)
(***************************************************************************)
EXTENDS Conditions, Sequences, FiniteSets

CONSTANTS
    Sensors,        \* checkerboardIDs that arrive on the sensor topic
    Readings,       \* integers the sensors report
    ReadingLow,     \* the least and the greatest integer a sensor can report:
    ReadingHigh,    \* -32768 and 32767, as SentientController.parse reads int16
    HistorySizes,   \* values SentientProperties.VALUE_HISTORY may be given
    Topics,         \* LED topics
    Commands,       \* values of actions
    Configs,        \* mapping configurations: sets of mappings
    GrowthSizes,    \* sizes at which a HashMap grows its table (13, 25, ...)
    Rounds          \* bound: rounds of evaluations alive at one time

Payloads == Readings \cup {Garbage}

Mappings == UNION Configs

ASSUME MappingAssumption ==
    /\ ReadingLow \in JInt /\ ReadingHigh \in JInt
    /\ ReadingLow <= 0 /\ 0 <= ReadingHigh
    /\ Readings \subseteq ReadingLow .. ReadingHigh
    /\ HistorySizes \subseteq Int
    /\ \A c \in Configs : c \subseteq MappingOver(Sensors, Topics, Commands)
    /\ Null \notin Sensors /\ Null \notin Commands

VARIABLES
    valueHistory,       \* SentientProperties.VALUE_HISTORY
    mappingsConfig,     \* ConfigurationController.mappingsConfig
    subscription,       \* of the sensor topic: "starting", "live" or "lost"
    valuesCurrent,
    valuesHistoric,
    valuesAverage,
    handler,            \* the callback thread inside handleValue
    tasks,              \* evaluation and publish threads, by mapping and round
    accepted            \* per LED topic, the last command the broker accepted

maps == <<valuesCurrent, valuesHistoric, valuesAverage>>
config == <<valueHistory, mappingsConfig>>
vars == <<valueHistory, mappingsConfig, subscription, valuesCurrent, valuesHistoric,
          valuesAverage, handler, tasks, accepted>>

-------------------------------------------------------------------------------
(* Guava's EvictingQueue: a bounded FIFO that drops its oldest element.    *)
Queue == {q \in [capacity : Nat, items : Seq(Payloads)] : Len(q.items) <= q.capacity}

ASSUME QueueAssumption == Null \notin Queue

NewQueue(capacity) == [capacity |-> capacity, items |-> <<>>]

(* Mutants: a queue without a limit, and one that refuses what is too much. *)
OfferUnbounded(queue, value) == [queue EXCEPT !.items = Append(@, value)]

OfferRefusing(queue, value) ==
    IF Len(queue.items) >= queue.capacity THEN queue
    ELSE [queue EXCEPT !.items = Append(@, value)]

Offer(queue, value) ==
    LET items == queue.items
    IN  IF queue.capacity = 0
        THEN queue
        ELSE [queue EXCEPT !.items = IF Len(items) >= queue.capacity
                                     THEN Append(Tail(items), value)
                                     ELSE Append(items, value)]

(* The callback thread's locals.  "growCurrent" and "growAverage" are the  *)
(* moments when a put has installed a larger, not yet filled table.        *)
HandlerSteps == {"idle", "growCurrent", "history", "sum", "growAverage"}

NoQueue == NewQueue(0)

Idle == [step |-> "idle", sensor |-> Null, value |-> Null, queue |-> NoQueue,
         next |-> 1, acc |-> 0]

(* A thread started for a mapping: reading the average, reading the        *)
(* current value, or publishing the mapping's command; average is its      *)
(* local averageValue.                                                     *)
TaskSteps == {"none", "readAverage", "readCurrent", "publish"}

NoTask == [step |-> "none", average |-> Null]

Present(map) == {s \in Sensors : map[s] # Null}

(* Does putting key s grow the table of this map?                          *)
Grows(map, s) == map[s] = Null /\ Cardinality(Present(map)) + 1 \in GrowthSizes

(* What an unsynchronised get(s) may return: the entry, or null while the  *)
(* table is being replaced.                                                *)
Get(map, s, growing) == {map[s]} \cup (IF growing THEN {Null} ELSE {})

-------------------------------------------------------------------------------
Init ==
    /\ valueHistory \in HistorySizes
    /\ mappingsConfig \in Configs
    /\ subscription = "starting"
    /\ valuesCurrent = [s \in Sensors |-> Null]
    /\ valuesHistoric = [s \in Sensors |-> Null]
    /\ valuesAverage = [s \in Sensors |-> Null]
    /\ handler = Idle
    /\ tasks = [m \in Mappings |-> [round \in Rounds |-> NoTask]]
    /\ accepted = [t \in Topics |-> Null]

(* MQTTSubscribeAsyncTask: connects and subscribes, or dies of the         *)
(* exception; nothing tries again.                                         *)
Subscribe ==
    /\ subscription = "starting"
    /\ subscription' \in {"live", "lost"}
    /\ UNCHANGED <<config, maps, handler, tasks, accepted>>

(* connectionLost only logs.  The client reconnects by itself, with a      *)
(* clean session: its subscription is gone.                                *)
ConnectionLost ==
    /\ subscription = "live"
    /\ subscription' = "lost"
    /\ UNCHANGED <<config, maps, handler, tasks, accepted>>

(* Mutant: a catch block that ignores the exception.                       *)
HandlerSwallows ==
    /\ handler' = Idle
    /\ UNCHANGED subscription

(* An exception that leaves messageArrived makes the client close its      *)
(* connection.                                                             *)
HandlerThrows ==
    /\ handler' = Idle
    /\ subscription' = "lost"

(* messageArrived up to valuesCurrent[checkerboardID] = value *)
MessageArrived(s, value) ==
    /\ subscription = "live"
    /\ handler.step = "idle"
    /\ valuesCurrent' = [valuesCurrent EXCEPT ![s] = value]
    /\ handler' = [Idle EXCEPT
                     !.step = IF Grows(valuesCurrent, s) THEN "growCurrent" ELSE "history",
                     !.sensor = s, !.value = value]
    /\ UNCHANGED <<config, subscription, valuesHistoric, valuesAverage, tasks, accepted>>

CurrentGrown ==
    /\ handler.step = "growCurrent"
    /\ handler' = [handler EXCEPT !.step = "history"]
    /\ UNCHANGED <<config, subscription, maps, tasks, accepted>>

(* queue = valuesHistoric[checkerboardID] ?: EvictingQueue.create(...), then *)
(* queue.add(value).  A queue that is already in the map is updated in     *)
(* place; a new one enters the map only with PutAverage.                   *)
AddToHistory ==
    LET s == handler.sensor
        known == valuesHistoric[s] # Null
        queue == Offer(IF known THEN valuesHistoric[s] ELSE NewQueue(valueHistory),
                       handler.value)
    IN  /\ handler.step = "history"
        /\ \/ /\ known \/ valueHistory >= 0
              /\ valuesHistoric' = IF known THEN [valuesHistoric EXCEPT ![s] = queue]
                                            ELSE valuesHistoric
              /\ handler' = [handler EXCEPT !.step = "sum", !.queue = queue]
              /\ UNCHANGED subscription
           \/ /\ ~known /\ valueHistory < 0     \* IllegalArgumentException
              /\ HandlerThrows
              /\ UNCHANGED valuesHistoric
        /\ UNCHANGED <<config, valuesCurrent, valuesAverage, tasks, accepted>>

(* One turn of queue.forEach { v -> acc += v.toInt() } *)
SumNext ==
    LET value == handler.queue.items[handler.next]
    IN  /\ handler.step = "sum"
        /\ handler.next <= Len(handler.queue.items)
        /\ \/ /\ value # Garbage
              /\ handler' = [handler EXCEPT !.acc = Wrap(@ + value), !.next = @ + 1]
              /\ UNCHANGED subscription
           \/ /\ value = Garbage                \* NumberFormatException
              /\ HandlerThrows
        /\ UNCHANGED <<config, maps, tasks, accepted>>

(* avg = acc / queue.size, and the two puts that end handleValue *)
PutAverage ==
    LET s == handler.sensor
        size == Len(handler.queue.items)
    IN  /\ handler.step = "sum"
        /\ handler.next > size
        /\ \/ /\ size > 0
              /\ valuesHistoric' = [valuesHistoric EXCEPT ![s] = handler.queue]
              /\ valuesAverage' = [valuesAverage EXCEPT ![s] = Quotient(handler.acc, size)]
              /\ handler' = IF Grows(valuesAverage, s)
                            THEN [Idle EXCEPT !.step = "growAverage"] ELSE Idle
              /\ UNCHANGED subscription
           \/ /\ size = 0                       \* ArithmeticException
              /\ HandlerThrows
              /\ UNCHANGED <<valuesHistoric, valuesAverage>>
        /\ UNCHANGED <<config, valuesCurrent, tasks, accepted>>

AverageGrown ==
    /\ handler.step = "growAverage"
    /\ handler' = Idle
    /\ UNCHANGED <<config, subscription, maps, tasks, accepted>>

-------------------------------------------------------------------------------
(* map(): one new thread per configured mapping *)
Map(round) ==
    /\ \A m \in mappingsConfig : tasks[m][round] = NoTask
    /\ tasks' = [m \in Mappings |->
                   IF m \in mappingsConfig
                   THEN [tasks[m] EXCEPT ![round] =
                           [step |-> IF IsDynamic(m) THEN "readAverage" ELSE "readCurrent",
                            average |-> Null]]
                   ELSE tasks[m]]
    /\ UNCHANGED <<config, subscription, maps, handler, accepted>>

ReadAverage(m, round) ==
    /\ tasks[m][round].step = "readAverage"
    /\ \E average \in Get(valuesAverage, m.checkerboardID, handler.step = "growAverage") :
          tasks' = [tasks EXCEPT ![m][round] =
                      [step |-> "readCurrent", average |-> average]]
    /\ UNCHANGED <<config, subscription, maps, handler, accepted>>

(* The read of the current value, the condition and, when it is fulfilled, *)
(* the start of the publish thread.                                        *)
ReadCurrent(m, round) ==
    /\ tasks[m][round].step = "readCurrent"
    /\ \E current \in Get(valuesCurrent, m.checkerboardID, handler.step = "growCurrent") :
          tasks' = [tasks EXCEPT ![m][round] =
                      IF IsFulfilled(m, @.average, current)
                      THEN [NoTask EXCEPT !.step = "publish"] ELSE NoTask]
    /\ UNCHANGED <<config, subscription, maps, handler, accepted>>

(* Mutant: only the first command of a topic goes out.                     *)
PublishOnce(m, round) ==
    /\ tasks[m][round].step = "publish"
    /\ tasks' = [tasks EXCEPT ![m][round] = NoTask]
    /\ accepted' = IF accepted[m.topic] = Null
                   THEN [accepted EXCEPT ![m.topic] = m.value] ELSE accepted
    /\ UNCHANGED <<config, subscription, maps, handler>>

(* MqttController.publish on the thread's own client ... *)
Publish(m, round) ==
    /\ tasks[m][round].step = "publish"
    /\ tasks' = [tasks EXCEPT ![m][round] = NoTask]
    /\ accepted' = [accepted EXCEPT ![m.topic] = m.value]
    /\ UNCHANGED <<config, subscription, maps, handler>>

(* ... which throws when the broker cannot be reached: the thread ends and *)
(* the command with it.                                                    *)
PublishFails(m, round) ==
    /\ tasks[m][round].step = "publish"
    /\ tasks' = [tasks EXCEPT ![m][round] = NoTask]
    /\ UNCHANGED <<config, subscription, maps, handler, accepted>>

(* The configuration topic assigns VALUE_HISTORY and replaces the mappings *)
(* (SentientPropertiesAsyncTask.handleValue).                              *)
SetValueHistory(n) ==
    /\ valueHistory' = n
    /\ UNCHANGED <<mappingsConfig, subscription, maps, handler, tasks, accepted>>

LoadMappings(c) ==
    /\ mappingsConfig' = c
    /\ UNCHANGED <<valueHistory, subscription, maps, handler, tasks, accepted>>

-------------------------------------------------------------------------------
Handle == CurrentGrown \/ AddToHistory \/ SumNext \/ PutAverage \/ AverageGrown

Evaluate(m, round) == ReadAverage(m, round) \/ ReadCurrent(m, round)

Environment ==
    \/ Subscribe
    \/ ConnectionLost
    \/ \E s \in Sensors, value \in Payloads : MessageArrived(s, value)
    \/ \E n \in HistorySizes : SetValueHistory(n)
    \/ \E c \in Configs : LoadMappings(c)

Tasks ==
    \/ \E round \in Rounds : Map(round)
    \/ \E m \in Mappings, round \in Rounds :
          Evaluate(m, round) \/ Publish(m, round) \/ PublishFails(m, round)

Next == Environment \/ Handle \/ Tasks

(* Started threads run; the scheduler calls map() again and again.  A      *)
(* publish may fail any number of times, but not for ever (strong          *)
(* fairness): the broker is reachable infinitely often.                    *)
Fairness ==
    /\ WF_vars(Handle)
    /\ WF_vars(\E round \in Rounds : Map(round))
    /\ \A m \in Mappings, round \in Rounds :
          /\ WF_vars(Evaluate(m, round))
          /\ SF_vars(Publish(m, round))

Spec == Init /\ [][Next]_vars

FairSpec == Spec /\ Fairness
-------------------------------------------------------------------------------
(* Type correctness of the shared maps, of the callback thread and of the  *)
(* evaluation threads.                                                     *)
HandlerType ==
    [step : HandlerSteps, sensor : Sensors \cup {Null},
     value : Payloads \cup {Null}, queue : Queue, next : Nat \ {0}, acc : JInt]

TaskType == [step : TaskSteps, average : JInt \cup {Null}]

TypeOK ==
    /\ valueHistory \in HistorySizes
    /\ mappingsConfig \in Configs
    /\ subscription \in {"starting", "live", "lost"}
    /\ valuesCurrent \in [Sensors -> Payloads \cup {Null}]
    /\ valuesHistoric \in [Sensors -> Queue \cup {Null}]
    /\ valuesAverage \in [Sensors -> JInt \cup {Null}]
    /\ handler \in HandlerType
    /\ tasks \in [Mappings -> [Rounds -> TaskType]]
    /\ accepted \in [Topics -> Commands \cup {Null}]

(* Except for the sensor being handled, the history of a sensor ends with  *)
(* its current value, and a sensor with a value but no history means that  *)
(* handling it has killed the subscription (handleValue: the three maps    *)
(* are written at different moments, with exceptions between them).        *)
HistoryEndsWithCurrent ==
    \A s \in Sensors \ {handler.sensor} :
        IF valuesHistoric[s] = Null
        THEN valuesCurrent[s] = Null \/ subscription = "lost"
        ELSE LET items == valuesHistoric[s].items
             IN  Len(items) > 0 /\ items[Len(items)] = valuesCurrent[s]

(* The average as the code's authors mean it: the sum of the history,      *)
(* divided by its length and truncated.                                    *)
SumOf(items) ==
    LET sum[n \in 0 .. Len(items)] == IF n = 0 THEN 0 ELSE sum[n - 1] + items[n]
    IN  sum[Len(items)]

MeanOf(items) ==
    LET sum == SumOf(items)
    IN  IF sum < 0 THEN -((-sum) \div Len(items)) ELSE sum \div Len(items)

(* Except for the sensor being handled, the average an evaluation reads is *)
(* the mean of the whole history of that sensor; where the history holds a *)
(* payload that cannot be averaged, the subscription is dead.              *)
AverageIsMeanOfHistory ==
    \A s \in Sensors \ {handler.sensor} :
        IF valuesHistoric[s] = Null
        THEN valuesAverage[s] = Null
        ELSE LET items == valuesHistoric[s].items
             IN  IF \E i \in 1 .. Len(items) : items[i] = Garbage
                 THEN subscription = "lost"
                 ELSE valuesAverage[s] = MeanOf(items)

(* As long as VALUE_HISTORY readings cannot overflow the accumulator, every *)
(* average lies in the range of the readings themselves (the Int sum and   *)
(* the truncating division of handleValue).                                *)
HistoryFits ==
    \A n \in HistorySizes :
        n > 0 => n * ReadingHigh < IntHalf /\ n * ReadingLow >= -IntHalf

AverageInReadingRange ==
    HistoryFits =>
        \A s \in Sensors :
            valuesAverage[s] # Null => valuesAverage[s] \in ReadingLow .. ReadingHigh

(* Whatever evaluations overlap with whatever handling, a command is only  *)
(* on its way for a sensor that has reported and, for a dynamic condition, *)
(* whose average has been computed: a map entry seen as null never         *)
(* triggers (SentientMappingEvaluationAsyncTask.run).                      *)
TriggerNeedsReports ==
    \A m \in Mappings, round \in Rounds :
        tasks[m][round].step = "publish" =>
            /\ valuesCurrent[m.checkerboardID] # Null
            /\ IsDynamic(m) => valuesAverage[m.checkerboardID] # Null
                               /\ valuesHistoric[m.checkerboardID] # Null

(* One payload that is not an integer ends the mapping engine's input for  *)
(* good: the subscription is lost for ever, and the payload stays the      *)
(* sensor's current value (handleValue stores before it parses,            *)
(* connectionLost only logs).                                              *)
GarbageIsFatal ==
    \A s \in Sensors :
        (valuesCurrent[s] = Garbage) ~>
            [](subscription = "lost" /\ valuesCurrent[s] = Garbage)

(* The promise of the mapping engine: when from some time on a mapping is  *)
(* fulfilled, and none that sends anything else to its topic, the broker   *)
(* ends up with its command as the topic's last one for good, in spite of  *)
(* overlapping evaluations, of publishes that overtake one another and of  *)
(* publishes that fail - provided the mappings, and the averages that      *)
(* those of the topic compare with, no longer change: an evaluation reads  *)
(* the average and the current value at different times, and while both    *)
(* rise, say, may compare a pair that has never been in the maps together. *)
IsFulfilledNow(m) ==
    /\ m \in mappingsConfig
    /\ IsFulfilled(m, valuesAverage[m.checkerboardID], valuesCurrent[m.checkerboardID])

Demanded(m) ==
    /\ IsFulfilledNow(m)
    /\ \A n \in Mappings : n.topic = m.topic /\ n.value # m.value => ~IsFulfilledNow(n)

AveragesStay(t) ==
    \A n \in Mappings :
        n.topic = t /\ IsDynamic(n) => UNCHANGED valuesAverage[n.checkerboardID]

StableDemandWins ==
    \A m \in Mappings :
        /\ <>[]Demanded(m)
        /\ <>[][UNCHANGED mappingsConfig /\ AveragesStay(m.topic)]_vars
        => <>[](accepted[m.topic] = m.value)
===============================================================================
