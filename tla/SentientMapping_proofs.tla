------------------------ MODULE SentientMapping_proofs ------------------------
(***************************************************************************)
(* The safety of the mapping engine, for every set of sensors, readings,   *)
(* mappings and history sizes, the correctness of its averages included;   *)
(* and its liveness up to the scheduling: what follows once threads run,   *)
(* end and get through, which is stated as hypotheses.                     *)
(***************************************************************************)
EXTENDS SentientMapping, Conditions_proofs, WellFoundedInduction

(* What the callback thread's locals mean while it handles a reading.      *)
HandlerInv ==
    /\ handler.step \in {"idle", "growAverage"} => handler.sensor = Null
    /\ handler.step \in {"growCurrent", "history", "sum"} =>
          /\ handler.sensor \in Sensors
          /\ handler.value \in Payloads
          /\ valuesCurrent[handler.sensor] = handler.value
    /\ handler.step # "sum" => handler.next = 1 /\ handler.acc = 0

(* A queue within its capacity, and with a capacity that was configured.   *)
Bounded(queue) ==
    /\ Len(queue.items) <= queue.capacity
    /\ queue.capacity > 0 => queue.capacity \in HistorySizes

(* A queue that has just been given value.                                 *)
EndsWith(queue, value) ==
    /\ Len(queue.items) > 0
    /\ queue.items[Len(queue.items)] = value

(* A history in the map is never empty; while its average is recomputed it *)
(* is the very queue that is summed, and that queue ends with the reading. *)
QueueInv ==
    /\ \A s \in Sensors : valuesHistoric[s] # Null =>
          /\ Bounded(valuesHistoric[s])
          /\ Len(valuesHistoric[s].items) > 0
    /\ handler.step = "sum" =>
          /\ Bounded(handler.queue)
          /\ handler.next <= Len(handler.queue.items) + 1
          /\ handler.queue.capacity > 0 => EndsWith(handler.queue, handler.value)
          /\ valuesHistoric[handler.sensor] # Null =>
                valuesHistoric[handler.sensor] = handler.queue

(* The partial sum of the readings added so far.                           *)
AccInv ==
    HistoryFits /\ handler.step = "sum" =>
        /\ (handler.next - 1) * ReadingLow <= handler.acc
        /\ handler.acc <= (handler.next - 1) * ReadingHigh

(* What an evaluation that has read an average knows of the maps.          *)
TaskInv ==
    /\ \A s \in Sensors : valuesAverage[s] # Null => valuesHistoric[s] # Null
    /\ \A m \in Mappings, round \in Rounds :
          (tasks[m][round].step = "readCurrent" /\ tasks[m][round].average # Null)
             => valuesAverage[m.checkerboardID] # Null

TypeInv == TypeOK /\ HandlerInv

IInv ==
    /\ TypeInv
    /\ QueueInv
    /\ AccInv
    /\ TaskInv
    /\ AverageInReadingRange
    /\ HistoryEndsWithCurrent
    /\ TriggerNeedsReports

-------------------------------------------------------------------------------
LEMMA MappingType ==
    \A m \in Mappings :
        /\ m.checkerboardID \in Sensors
        /\ m.topic \in Topics
        /\ m.value \in Commands
  BY MappingAssumption DEF Mappings, MappingOver

LEMMA PayloadFacts ==
    /\ Payloads \subseteq Int \cup {Garbage}
    /\ Null \notin Payloads
    /\ \A v \in Payloads : v # Garbage => v \in JInt /\ ReadingLow <= v /\ v <= ReadingHigh
<1>1. Readings \subseteq ReadingLow .. ReadingHigh
  BY MappingAssumption
<1>2. \A v \in ReadingLow .. ReadingHigh :
         v \in JInt /\ v \in Int /\ ReadingLow <= v /\ v <= ReadingHigh
  BY MappingAssumption, IntHalfAssumption DEF JInt
<1> QED BY <1>1, <1>2, PayloadAssumption DEF Payloads

(* A queue that takes an element keeps its capacity and its type, ...      *)
LEMMA OfferType ==
    ASSUME NEW queue \in Queue, NEW value \in Payloads
    PROVE  /\ Offer(queue, value) \in Queue
           /\ Offer(queue, value).capacity = queue.capacity
<1> DEFINE items == queue.items
<1>1. /\ queue.capacity \in Nat /\ items \in Seq(Payloads) /\ Len(items) \in Nat
      /\ Len(items) <= queue.capacity
  BY DEF Queue
<1>2. CASE queue.capacity = 0
  BY <1>2 DEF Offer
<1>3. CASE queue.capacity # 0 /\ Len(items) >= queue.capacity
  <2>1. items # <<>> /\ Len(items) = queue.capacity
    BY <1>1, <1>3
  <2>2. /\ Append(Tail(items), value) \in Seq(Payloads)
        /\ Len(Append(Tail(items), value)) = Len(items)
    BY <1>1, <2>1
  <2> QED BY <1>1, <1>3, <2>1, <2>2 DEF Offer, Queue
<1>4. CASE queue.capacity # 0 /\ ~(Len(items) >= queue.capacity)
  <2>1. /\ Append(items, value) \in Seq(Payloads)
        /\ Len(Append(items, value)) = Len(items) + 1
    BY <1>1
  <2> QED BY <1>1, <1>4, <2>1 DEF Offer, Queue
<1> QED BY <1>2, <1>3, <1>4

(* ... stays within its capacity, and ends with the element unless it can  *)
(* hold none.                                                              *)
LEMMA OfferBounded ==
    ASSUME NEW queue \in Queue, NEW value \in Payloads,
           Len(queue.items) <= queue.capacity
    PROVE  /\ Len(Offer(queue, value).items) <= queue.capacity
           /\ queue.capacity > 0 => EndsWith(Offer(queue, value), value)
<1> DEFINE items == queue.items
<1>1. queue.capacity \in Nat /\ items \in Seq(Payloads) /\ Len(items) \in Nat
  BY DEF Queue
<1>2. CASE queue.capacity = 0
  BY <1>2 DEF Offer
<1>3. CASE queue.capacity # 0 /\ Len(items) >= queue.capacity
  <2>1. items # <<>> /\ Len(items) = queue.capacity
    BY <1>1, <1>3
  <2>2. Tail(items) \in Seq(Payloads) /\ Len(Tail(items)) = Len(items) - 1
    BY <1>1, <2>1
  <2>3. Offer(queue, value).items = Append(Tail(items), value)
    BY <1>1, <1>3 DEF Offer, Queue
  <2> QED BY <1>1, <1>3, <2>1, <2>2, <2>3 DEF EndsWith
<1>4. CASE queue.capacity # 0 /\ ~(Len(items) >= queue.capacity)
  <2>1. Offer(queue, value).items = Append(items, value)
    BY <1>1, <1>4 DEF Offer, Queue
  <2> QED BY <1>1, <1>4, <2>1 DEF EndsWith
<1> QED BY <1>1, <1>2, <1>3, <1>4
-------------------------------------------------------------------------------
(* Type correctness is inductive together with HandlerInv.                 *)
LEMMA InitType == Init => TypeInv
<1> SUFFICES ASSUME Init PROVE TypeInv
  OBVIOUS
<1>1. NoQueue \in Queue
  BY DEF NoQueue, NewQueue, Queue
<1>2. Idle \in HandlerType
  BY <1>1, IntHalfAssumption DEF Idle, HandlerType, HandlerSteps, JInt
<1>3. NoTask \in TaskType
  BY DEF NoTask, TaskType, TaskSteps
<1> QED BY <1>2, <1>3 DEF Init, TypeInv, TypeOK, HandlerInv, Idle

LEMMA IdleType == Idle \in HandlerType
<1>1. NoQueue \in Queue
  BY DEF NoQueue, NewQueue, Queue
<1> QED BY <1>1, IntHalfAssumption DEF Idle, HandlerType, HandlerSteps, JInt

LEMMA NextType == TypeInv /\ [Next]_vars => TypeInv'
<1> SUFFICES ASSUME TypeInv, [Next]_vars PROVE TypeInv'
  OBVIOUS
<1> USE DEF TypeInv
<1>1. CASE Subscribe
  BY <1>1 DEF Subscribe, TypeOK, HandlerInv, config, maps
<1>2. CASE ConnectionLost
  BY <1>2 DEF ConnectionLost, TypeOK, HandlerInv, config, maps
<1>3. ASSUME NEW s \in Sensors, NEW value \in Payloads, MessageArrived(s, value)
      PROVE  TypeInv'
  <2>1. valuesCurrent' \in [Sensors -> Payloads \cup {Null}] /\ valuesCurrent'[s] = value
    BY <1>3 DEF MessageArrived, TypeOK
  <2>2. /\ handler' \in HandlerType
        /\ handler'.step \in {"growCurrent", "history"}
        /\ handler'.sensor = s /\ handler'.value = value
        /\ handler'.next = 1 /\ handler'.acc = 0
    BY <1>3, IdleType DEF MessageArrived, HandlerType, HandlerSteps, Idle
  <2> QED BY <1>3, <2>1, <2>2 DEF MessageArrived, TypeOK, HandlerInv, config
<1>4. ASSUME NEW n \in HistorySizes, SetValueHistory(n) PROVE TypeInv'
  BY <1>4 DEF SetValueHistory, TypeOK, HandlerInv, maps
<1>5. ASSUME NEW c \in Configs, LoadMappings(c) PROVE TypeInv'
  BY <1>5 DEF LoadMappings, TypeOK, HandlerInv, maps
<1>6. CASE CurrentGrown
  <2>1. /\ handler' \in HandlerType /\ handler'.step = "history"
        /\ handler'.sensor = handler.sensor /\ handler'.value = handler.value
        /\ handler'.next = handler.next /\ handler'.acc = handler.acc
    BY <1>6 DEF CurrentGrown, TypeOK, HandlerType, HandlerSteps
  <2> QED BY <1>6, <2>1 DEF CurrentGrown, TypeOK, HandlerInv, config, maps
<1>7. CASE AddToHistory
  <2> DEFINE hs == handler.sensor
             known == valuesHistoric[hs] # Null
             old == IF known THEN valuesHistoric[hs] ELSE NewQueue(valueHistory)
             queue == Offer(old, handler.value)
  <2>1. /\ handler.step = "history" /\ hs \in Sensors /\ handler.value \in Payloads
        /\ handler \in HandlerType /\ valuesHistoric \in [Sensors -> Queue \cup {Null}]
        /\ valueHistory \in Int
    BY <1>7, MappingAssumption DEF AddToHistory, HandlerInv, TypeOK
  <2>2. CASE /\ known \/ valueHistory >= 0
             /\ valuesHistoric' = IF known THEN [valuesHistoric EXCEPT ![hs] = queue]
                                           ELSE valuesHistoric
             /\ handler' = [handler EXCEPT !.step = "sum", !.queue = queue]
             /\ UNCHANGED subscription
    <3>1. old \in Queue
      BY <2>1, <2>2 DEF NewQueue, Queue
    <3>2. queue \in Queue
      BY <2>1, <3>1, OfferType
    <3> HIDE DEF queue
    <3>3. valuesHistoric' \in [Sensors -> Queue \cup {Null}]
      BY <2>1, <2>2, <3>2
    <3>4. /\ handler' \in HandlerType /\ handler'.step = "sum"
          /\ handler'.sensor = handler.sensor /\ handler'.value = handler.value
      BY <2>1, <2>2, <3>2 DEF HandlerType, HandlerSteps
    <3> QED BY <1>7, <2>1, <2>2, <3>3, <3>4 DEF AddToHistory, TypeOK, HandlerInv, config
  <2>3. CASE HandlerThrows /\ UNCHANGED valuesHistoric
    BY <1>7, <2>3, IdleType DEF AddToHistory, HandlerThrows, Idle, TypeOK, HandlerInv, config
  <2> QED BY <1>7, <2>2, <2>3 DEF AddToHistory
<1>8. CASE SumNext
  <2> DEFINE value == handler.queue.items[handler.next]
  <2>1. /\ handler.step = "sum" /\ handler \in HandlerType
        /\ handler.next \in Nat \ {0} /\ handler.acc \in JInt
        /\ handler.queue.items \in Seq(Payloads)
        /\ handler.next <= Len(handler.queue.items)
    BY <1>8 DEF SumNext, TypeOK, HandlerType, Queue
  <2>2. value \in Payloads
    BY <2>1
  <2> HIDE DEF value
  <2>3. CASE /\ value # Garbage
             /\ handler' = [handler EXCEPT !.acc = Wrap(@ + value), !.next = @ + 1]
             /\ UNCHANGED subscription
    <3>1. handler.acc + value \in Int
      BY <2>1, <2>2, <2>3, PayloadFacts, IntHalfAssumption DEF JInt
    <3>2. Wrap(handler.acc + value) \in JInt
      BY <3>1, WrapType
    <3>3. handler.next + 1 \in Nat \ {0}
      BY <2>1
    <3>4. handler' \in HandlerType
      BY <2>1, <2>3, <3>2, <3>3 DEF HandlerType
    <3>5. /\ handler'.step = "sum"
          /\ handler'.sensor = handler.sensor /\ handler'.value = handler.value
      BY <2>1, <2>3 DEF HandlerType
    <3> QED BY <1>8, <2>1, <2>3, <3>4, <3>5 DEF SumNext, TypeOK, HandlerInv, config, maps
  <2>4. CASE HandlerThrows
    BY <1>8, <2>4, IdleType DEF SumNext, HandlerThrows, Idle, TypeOK, HandlerInv, config, maps
  <2> QED BY <1>8, <2>3, <2>4 DEF SumNext, value
<1>9. CASE PutAverage
  <2> DEFINE hs == handler.sensor
             size == Len(handler.queue.items)
  <2>1. /\ hs \in Sensors /\ handler.queue \in Queue /\ handler.acc \in JInt /\ size \in Nat
    BY <1>9 DEF PutAverage, HandlerInv, TypeOK, HandlerType, Queue
  <2>2. CASE /\ size > 0
             /\ valuesHistoric' = [valuesHistoric EXCEPT ![hs] = handler.queue]
             /\ valuesAverage' = [valuesAverage EXCEPT ![hs] = Quotient(handler.acc, size)]
             /\ handler' = IF Grows(valuesAverage, hs)
                           THEN [Idle EXCEPT !.step = "growAverage"] ELSE Idle
             /\ UNCHANGED subscription
    <3>1. Quotient(handler.acc, size) \in JInt
      BY <2>1, <2>2, QuotientType
    <3>2. valuesHistoric' \in [Sensors -> Queue \cup {Null}]
      BY <2>1, <2>2 DEF TypeOK
    <3>3. valuesAverage' \in [Sensors -> JInt \cup {Null}]
      BY <2>1, <2>2, <3>1 DEF TypeOK
    <3>4. /\ handler' \in HandlerType /\ handler'.sensor = Null
          /\ handler'.step \in {"idle", "growAverage"}
          /\ handler'.next = 1 /\ handler'.acc = 0
      BY <2>2, IdleType DEF Idle, HandlerType, HandlerSteps
    <3> QED BY <1>9, <2>2, <3>2, <3>3, <3>4 DEF PutAverage, TypeOK, HandlerInv, config
  <2>3. CASE HandlerThrows /\ UNCHANGED <<valuesHistoric, valuesAverage>>
    BY <1>9, <2>3, IdleType DEF PutAverage, HandlerThrows, Idle, TypeOK, HandlerInv, config
  <2> QED BY <1>9, <2>2, <2>3 DEF PutAverage
<1>10. CASE AverageGrown
  BY <1>10, IdleType DEF AverageGrown, TypeOK, HandlerInv, Idle, config, maps
<1>11. ASSUME NEW round \in Rounds, Map(round) PROVE TypeInv'
  <2>1. tasks' \in [Mappings -> [Rounds -> TaskType]]
    BY <1>11 DEF Map, TypeOK, TaskType, TaskSteps
  <2> QED BY <1>11, <2>1 DEF Map, TypeOK, HandlerInv, config, maps
<1>12. ASSUME NEW m \in Mappings, NEW round \in Rounds, ReadAverage(m, round)
       PROVE  TypeInv'
  <2>1. PICK average \in Get(valuesAverage, m.checkerboardID, handler.step = "growAverage") :
          tasks' = [tasks EXCEPT ![m][round] = [step |-> "readCurrent", average |-> average]]
    BY <1>12 DEF ReadAverage
  <2>2. average \in JInt \cup {Null}
    BY <2>1, MappingType DEF Get, TypeOK
  <2>3. tasks' \in [Mappings -> [Rounds -> TaskType]]
    BY <2>1, <2>2 DEF TypeOK, TaskType, TaskSteps
  <2> QED BY <1>12, <2>3 DEF ReadAverage, TypeOK, HandlerInv, config, maps
<1>13. ASSUME NEW m \in Mappings, NEW round \in Rounds, ReadCurrent(m, round)
       PROVE  TypeInv'
  <2>1. PICK t \in TaskType : tasks' = [tasks EXCEPT ![m][round] = t]
    BY <1>13 DEF ReadCurrent, NoTask, TaskType, TaskSteps
  <2>2. tasks' \in [Mappings -> [Rounds -> TaskType]]
    BY <2>1 DEF TypeOK
  <2> QED BY <1>13, <2>2 DEF ReadCurrent, TypeOK, HandlerInv, config, maps
<1>14. ASSUME NEW m \in Mappings, NEW round \in Rounds, Publish(m, round)
       PROVE  TypeInv'
  <2>1. tasks' \in [Mappings -> [Rounds -> TaskType]]
    BY <1>14 DEF Publish, NoTask, TypeOK, TaskType, TaskSteps
  <2>2. accepted' \in [Topics -> Commands \cup {Null}]
    BY <1>14, MappingType DEF Publish, TypeOK
  <2> QED BY <1>14, <2>1, <2>2 DEF Publish, TypeOK, HandlerInv, config, maps
<1>15. ASSUME NEW m \in Mappings, NEW round \in Rounds, PublishFails(m, round)
       PROVE  TypeInv'
  <2>1. tasks' \in [Mappings -> [Rounds -> TaskType]]
    BY <1>15 DEF PublishFails, NoTask, TypeOK, TaskType, TaskSteps
  <2> QED BY <1>15, <2>1 DEF PublishFails, TypeOK, HandlerInv, config, maps
<1>16. CASE UNCHANGED vars
  BY <1>16 DEF vars, TypeOK, HandlerInv
<1> QED
  BY <1>1, <1>2, <1>3, <1>4, <1>5, <1>6, <1>7, <1>8, <1>9, <1>10, <1>11, <1>12, <1>13,
     <1>14, <1>15, <1>16 DEF Next, Environment, Handle, Tasks, Evaluate
-------------------------------------------------------------------------------
(* Only the callback thread changes its locals and the maps; a lost        *)
(* subscription stays lost.                                                *)
LEMMA HandlerAlone ==
    ASSUME [Next]_vars
    PROVE  \/ /\ UNCHANGED <<valuesCurrent, valuesHistoric, valuesAverage, handler>>
              /\ subscription = "lost" => subscription' = "lost"
           \/ \E s \in Sensors, value \in Payloads : MessageArrived(s, value)
           \/ Handle
<1>1. CASE Environment
  BY <1>1 DEF Environment, Subscribe, ConnectionLost, SetValueHistory, LoadMappings, maps
<1>2. CASE Tasks
  BY <1>2 DEF Tasks, Map, Evaluate, ReadAverage, ReadCurrent, Publish, PublishFails, maps
<1>3. CASE UNCHANGED vars
  BY <1>3 DEF vars
<1> QED BY <1>1, <1>2, <1>3 DEF Next

LEMMA NextQueue == TypeInv /\ QueueInv /\ [Next]_vars => QueueInv'
<1> SUFFICES ASSUME TypeInv, QueueInv, [Next]_vars PROVE QueueInv'
  OBVIOUS
<1> USE DEF TypeInv
<1>1. CASE UNCHANGED <<valuesCurrent, valuesHistoric, valuesAverage, handler>>
  BY <1>1 DEF QueueInv
<1>2. ASSUME NEW s \in Sensors, NEW value \in Payloads, MessageArrived(s, value)
      PROVE  QueueInv'
  <2>1. handler'.step # "sum" /\ UNCHANGED valuesHistoric
    BY <1>2 DEF MessageArrived, Idle
  <2> QED BY <2>1 DEF QueueInv
<1>3. CASE CurrentGrown \/ AverageGrown
  <2>1. handler'.step # "sum" /\ UNCHANGED valuesHistoric
    BY <1>3 DEF CurrentGrown, AverageGrown, Idle, maps, TypeOK, HandlerType
  <2> QED BY <2>1 DEF QueueInv
<1>4. CASE AddToHistory
  <2> DEFINE hs == handler.sensor
             known == valuesHistoric[hs] # Null
             old == IF known THEN valuesHistoric[hs] ELSE NewQueue(valueHistory)
             queue == Offer(old, handler.value)
  <2>1. /\ handler.step = "history" /\ hs \in Sensors /\ handler.value \in Payloads
        /\ handler \in HandlerType /\ valuesHistoric \in [Sensors -> Queue \cup {Null}]
        /\ valueHistory \in Int /\ valueHistory \in HistorySizes
    BY <1>4, MappingAssumption DEF AddToHistory, HandlerInv, TypeOK
  <2>2. CASE /\ known \/ valueHistory >= 0
             /\ valuesHistoric' = IF known THEN [valuesHistoric EXCEPT ![hs] = queue]
                                           ELSE valuesHistoric
             /\ handler' = [handler EXCEPT !.step = "sum", !.queue = queue]
    <3>1. old \in Queue
      BY <2>1, <2>2 DEF NewQueue, Queue
    <3>2. Bounded(old) /\ (known => old.capacity > 0)
      BY <2>1, <2>2, <3>1 DEF QueueInv, NewQueue, Bounded, Queue
    <3>3. /\ queue \in Queue /\ Bounded(queue)
          /\ queue.capacity > 0 => EndsWith(queue, handler.value)
          /\ known => Len(queue.items) > 0
      BY <2>1, <3>1, <3>2, OfferType, OfferBounded DEF Bounded, EndsWith
    <3>4. /\ handler'.queue = queue /\ handler'.value = handler.value
          /\ handler'.sensor = hs /\ handler'.next = 1
      BY <2>1, <2>2 DEF HandlerType, HandlerInv
    <3> HIDE DEF queue
    <3>5. \A s \in Sensors : valuesHistoric'[s] # Null =>
             Bounded(valuesHistoric'[s]) /\ Len(valuesHistoric'[s].items) > 0
      BY <2>1, <2>2, <3>3 DEF QueueInv
    <3>6. valuesHistoric'[hs] # Null => valuesHistoric'[hs] = queue
      BY <2>1, <2>2
    <3>7. Len(queue.items) \in Nat
      BY <3>3 DEF Queue
    <3> QED BY <3>3, <3>4, <3>5, <3>6, <3>7 DEF QueueInv, Bounded
  <2>3. CASE HandlerThrows /\ UNCHANGED valuesHistoric
    BY <2>3 DEF HandlerThrows, Idle, QueueInv
  <2> QED BY <1>4, <2>2, <2>3 DEF AddToHistory
<1>5. CASE SumNext
  <2>1. UNCHANGED valuesHistoric
    BY <1>5 DEF SumNext, maps
  <2>2. CASE handler' = [handler EXCEPT !.acc = Wrap(@ + handler.queue.items[handler.next]),
                                        !.next = @ + 1]
    <3>1. /\ handler'.queue = handler.queue /\ handler'.value = handler.value
          /\ handler'.sensor = handler.sensor /\ handler'.next = handler.next + 1
      BY <2>2 DEF TypeOK, HandlerType
    <3>2. /\ handler.step = "sum" /\ handler.next <= Len(handler.queue.items)
          /\ handler.next \in Nat /\ Len(handler.queue.items) \in Nat
      BY <1>5 DEF SumNext, TypeOK, HandlerType, Queue
    <3> QED BY <2>1, <3>1, <3>2 DEF QueueInv
  <2>3. CASE HandlerThrows
    BY <2>1, <2>3 DEF HandlerThrows, Idle, QueueInv
  <2> QED BY <1>5, <2>2, <2>3 DEF SumNext
<1>6. CASE PutAverage
  <2>1. handler.step = "sum" /\ handler.sensor \in Sensors
    BY <1>6 DEF PutAverage, HandlerInv
  <2>2. handler'.step # "sum"
    BY <1>6 DEF PutAverage, HandlerThrows, Idle
  <2>3. CASE /\ Len(handler.queue.items) > 0
             /\ valuesHistoric' = [valuesHistoric EXCEPT ![handler.sensor] = handler.queue]
    BY <2>1, <2>2, <2>3 DEF QueueInv, TypeOK
  <2>4. CASE UNCHANGED valuesHistoric
    BY <2>2, <2>4 DEF QueueInv
  <2> QED BY <1>6, <2>3, <2>4 DEF PutAverage
<1> QED BY <1>1, <1>2, <1>3, <1>4, <1>5, <1>6, HandlerAlone DEF Handle
(* Adding one more reading to a sum of k readings that is within k times   *)
(* the reading range stays within k + 1 times that range.                  *)
LEMMA PartialSum ==
    ASSUME NEW k \in Nat, NEW acc \in Int, NEW v \in Int,
           k * ReadingLow <= acc, acc <= k * ReadingHigh,
           ReadingLow <= v, v <= ReadingHigh
    PROVE  (k + 1) * ReadingLow <= acc + v /\ acc + v <= (k + 1) * ReadingHigh
  BY MappingAssumption, IntHalfAssumption DEF JInt

(* The multiples of the range that the accumulator reaches are Ints.       *)
LEMMA SumFits ==
    ASSUME HistoryFits, NEW n \in Nat, n > 0 => n \in HistorySizes,
           NEW k \in Nat, k <= n
    PROVE  k * ReadingHigh < IntHalf /\ k * ReadingLow >= -IntHalf
<1>1. CASE n = 0
  BY <1>1, IntHalfAssumption, MappingAssumption DEF JInt
<1>2. CASE n > 0
  <2>1. n * ReadingHigh < IntHalf /\ n * ReadingLow >= -IntHalf
    BY <1>2 DEF HistoryFits
  <2>2. k * ReadingHigh <= n * ReadingHigh /\ n * ReadingLow <= k * ReadingLow
    BY MappingAssumption, IntHalfAssumption DEF JInt
  <2> QED BY <2>1, <2>2, MappingAssumption, IntHalfAssumption DEF JInt
<1> QED BY <1>1, <1>2

(* One more reading keeps the accumulator within its multiple of the       *)
(* range, so that the Int addition does not wrap around.                   *)
LEMMA SumNextFits ==
    ASSUME TypeInv, QueueInv, AccInv, HistoryFits, SumNext,
           handler.queue.items[handler.next] # Garbage
    PROVE  LET sum == handler.acc + handler.queue.items[handler.next]
           IN  /\ handler.next * ReadingLow <= sum
               /\ sum <= handler.next * ReadingHigh
               /\ sum \in JInt
<1> USE DEF TypeInv
<1> DEFINE value == handler.queue.items[handler.next]
           k == handler.next - 1
           acc == handler.acc
<1>1. /\ handler.step = "sum" /\ handler.next \in Nat \ {0} /\ acc \in Int
      /\ handler.queue \in Queue /\ handler.queue.items \in Seq(Payloads)
      /\ handler.next <= Len(handler.queue.items)
  BY IntHalfAssumption DEF SumNext, TypeOK, HandlerType, Queue, JInt
<1>2. k \in Nat /\ k * ReadingLow <= acc /\ acc <= k * ReadingHigh
  BY <1>1 DEF AccInv
<1>3. value \in Int /\ ReadingLow <= value /\ value <= ReadingHigh
  <2>1. value \in Payloads
    BY <1>1
  <2> QED BY <2>1, PayloadFacts
<1> HIDE DEF value
<1>4. (k + 1) * ReadingLow <= acc + value /\ acc + value <= (k + 1) * ReadingHigh
  BY <1>1, <1>2, <1>3, PartialSum
<1>5. (k + 1) * ReadingHigh < IntHalf /\ (k + 1) * ReadingLow >= -IntHalf
  <2>1. /\ handler.queue.capacity \in Nat
        /\ handler.queue.capacity > 0 => handler.queue.capacity \in HistorySizes
        /\ Len(handler.queue.items) \in Nat
        /\ Len(handler.queue.items) <= handler.queue.capacity
    BY <1>1 DEF QueueInv, Bounded, Queue
  <2>2. k + 1 \in Nat /\ k + 1 <= handler.queue.capacity
    BY <1>1, <2>1
  <2> HIDE DEF k
  <2> QED BY <2>1, <2>2, SumFits
<1>6. acc + value \in Int /\ k + 1 \in Int
  BY <1>1, <1>3
<1> HIDE DEF k, acc
<1>7. (k + 1) * ReadingLow \in Int /\ (k + 1) * ReadingHigh \in Int
  BY <1>6, MappingAssumption, IntHalfAssumption DEF JInt
<1>8. acc + value \in JInt
  BY <1>4, <1>5, <1>6, <1>7, IntHalfAssumption DEF JInt
<1>9. k + 1 = handler.next
  BY <1>1 DEF k
<1> QED BY <1>4, <1>8, <1>9 DEF acc, value

LEMMA NextAverage ==
    TypeInv /\ QueueInv /\ AccInv /\ AverageInReadingRange /\ [Next]_vars
        => AccInv' /\ AverageInReadingRange'
<1> SUFFICES ASSUME TypeInv, QueueInv, AccInv, AverageInReadingRange, [Next]_vars,
                    HistoryFits
             PROVE  AccInv' /\ AverageInReadingRange'
  BY DEF AccInv, AverageInReadingRange, HistoryFits
<1> USE DEF TypeInv
<1>1. CASE UNCHANGED <<valuesCurrent, valuesHistoric, valuesAverage, handler>>
  BY <1>1 DEF AccInv, AverageInReadingRange, HistoryFits
<1>2. ASSUME NEW s \in Sensors, NEW value \in Payloads, MessageArrived(s, value)
      PROVE  AccInv' /\ AverageInReadingRange'
  <2>1. handler'.step # "sum" /\ UNCHANGED valuesAverage
    BY <1>2 DEF MessageArrived, Idle
  <2> QED BY <2>1 DEF AccInv, AverageInReadingRange, HistoryFits
<1>3. CASE CurrentGrown \/ AverageGrown
  <2>1. handler'.step # "sum" /\ UNCHANGED valuesAverage
    BY <1>3 DEF CurrentGrown, AverageGrown, Idle, maps, TypeOK, HandlerType
  <2> QED BY <2>1 DEF AccInv, AverageInReadingRange, HistoryFits
<1>4. CASE AddToHistory
  <2>1. UNCHANGED valuesAverage
    BY <1>4 DEF AddToHistory
  <2>2. handler'.step = "sum" => handler'.next = 1 /\ handler'.acc = 0
    <3>1. handler.next = 1 /\ handler.acc = 0 /\ handler \in HandlerType
      BY <1>4 DEF AddToHistory, HandlerInv, TypeOK
    <3>2. CASE HandlerThrows
      BY <3>2 DEF HandlerThrows, Idle
    <3>3. ASSUME NEW queue, handler' = [handler EXCEPT !.step = "sum", !.queue = queue]
          PROVE  handler'.next = 1 /\ handler'.acc = 0
      BY <3>1, <3>3 DEF HandlerType
    <3> QED BY <1>4, <3>2, <3>3 DEF AddToHistory
  <2> QED BY <2>1, <2>2, MappingAssumption, IntHalfAssumption
          DEF AccInv, AverageInReadingRange, HistoryFits, JInt
<1>5. CASE SumNext
  <2> DEFINE value == handler.queue.items[handler.next]
  <2>1. handler.next \in Nat /\ UNCHANGED valuesAverage
    BY <1>5 DEF SumNext, TypeOK, HandlerType, maps
  <2>2. CASE /\ value # Garbage
             /\ handler' = [handler EXCEPT !.acc = Wrap(@ + value), !.next = @ + 1]
    <3> DEFINE sum == handler.acc + value
    <3>1. /\ handler.next * ReadingLow <= sum /\ sum <= handler.next * ReadingHigh
          /\ sum \in JInt
      BY <1>5, <2>2, SumNextFits
    <3>2. handler'.acc = sum /\ handler'.next - 1 = handler.next
      BY <2>1, <2>2, <3>1, WrapIdentity DEF TypeOK, HandlerType
    <3> HIDE DEF sum
    <3> QED BY <2>1, <3>1, <3>2 DEF AccInv, AverageInReadingRange, HistoryFits
  <2>3. CASE HandlerThrows
    BY <2>1, <2>3 DEF HandlerThrows, Idle, AccInv, AverageInReadingRange, HistoryFits
  <2> QED BY <1>5, <2>2, <2>3 DEF SumNext
<1>6. CASE PutAverage
  <2> DEFINE size == Len(handler.queue.items)
  <2>1. /\ handler.step = "sum" /\ handler.sensor \in Sensors
        /\ handler.next \in Nat /\ handler.next = size + 1 /\ size \in Nat
        /\ handler.acc \in Int
    BY <1>6, IntHalfAssumption
    DEF PutAverage, HandlerInv, QueueInv, TypeOK, HandlerType, Queue, JInt
  <2>2. handler'.step # "sum"
    BY <1>6 DEF PutAverage, HandlerThrows, Idle
  <2>3. CASE /\ size > 0
             /\ valuesAverage' = [valuesAverage EXCEPT ![handler.sensor] =
                                                         Quotient(handler.acc, size)]
    <3>1. size * ReadingLow <= handler.acc /\ handler.acc <= size * ReadingHigh
      BY <2>1 DEF AccInv
    <3>2. Quotient(handler.acc, size) \in ReadingLow .. ReadingHigh
      <4>1. /\ size \in Nat \ {0} /\ ReadingLow \in Int /\ ReadingHigh \in Int
            /\ ReadingLow <= 0 /\ 0 <= ReadingHigh
        BY <2>1, <2>3, MappingAssumption, IntHalfAssumption DEF JInt
      <4> HIDE DEF size
      <4> QED BY <2>1, <3>1, <4>1, QuotientBounds
    <3> QED BY <2>1, <2>2, <2>3, <3>2
            DEF AccInv, AverageInReadingRange, HistoryFits, TypeOK
  <2>4. CASE UNCHANGED valuesAverage
    BY <2>2, <2>4 DEF AccInv, AverageInReadingRange, HistoryFits
  <2> QED BY <1>6, <2>3, <2>4 DEF PutAverage
<1> QED BY <1>1, <1>2, <1>3, <1>4, <1>5, <1>6, HandlerAlone DEF Handle

LEMMA NextHistory ==
    TypeInv /\ QueueInv /\ HistoryEndsWithCurrent /\ [Next]_vars
        => HistoryEndsWithCurrent'
<1> DEFINE Consistent(s) ==
             IF valuesHistoric[s] = Null
             THEN valuesCurrent[s] = Null \/ subscription = "lost"
             ELSE LET items == valuesHistoric[s].items
                  IN  Len(items) > 0 /\ items[Len(items)] = valuesCurrent[s]
<1> SUFFICES ASSUME TypeInv, QueueInv, [Next]_vars,
                    \A s \in Sensors \ {handler.sensor} : Consistent(s),
                    NEW s \in Sensors \ {handler'.sensor}
             PROVE  Consistent(s)'
  BY DEF HistoryEndsWithCurrent
<1> USE DEF TypeInv
<1>1. CASE /\ UNCHANGED <<valuesCurrent, valuesHistoric, valuesAverage, handler>>
           /\ subscription = "lost" => subscription' = "lost"
  BY <1>1
<1>2. ASSUME NEW r \in Sensors, NEW value \in Payloads, MessageArrived(r, value)
      PROVE  Consistent(s)'
  <2>1. handler.sensor = Null /\ handler'.sensor = r
    BY <1>2 DEF MessageArrived, HandlerInv, Idle
  <2>2. s \in Sensors \ {handler.sensor} /\ s # r
    BY <2>1, MappingAssumption
  <2> QED BY <1>2, <2>2 DEF MessageArrived, TypeOK
<1>3. CASE CurrentGrown \/ AverageGrown
  <2>1. UNCHANGED <<valuesCurrent, valuesHistoric, subscription>>
    BY <1>3 DEF CurrentGrown, AverageGrown, maps
  <2>2. handler'.sensor = handler.sensor
    BY <1>3 DEF CurrentGrown, AverageGrown, Idle, HandlerInv, TypeOK, HandlerType
  <2> QED BY <2>1, <2>2
<1>4. CASE AddToHistory
  <2>1. /\ UNCHANGED valuesCurrent
        /\ \A r \in Sensors \ {handler.sensor} : valuesHistoric'[r] = valuesHistoric[r]
    BY <1>4 DEF AddToHistory, TypeOK
  <2>2. CASE handler'.sensor = handler.sensor /\ UNCHANGED subscription
    BY <2>1, <2>2
  <2>3. CASE /\ valuesHistoric[handler.sensor] = Null
             /\ HandlerThrows /\ UNCHANGED valuesHistoric
    BY <2>1, <2>3 DEF HandlerThrows
  <2> QED BY <1>4, <2>2, <2>3 DEF AddToHistory, TypeOK, HandlerType
<1>5. CASE SumNext
  <2>1. /\ UNCHANGED <<valuesCurrent, valuesHistoric>>
        /\ handler.step = "sum" /\ handler.sensor \in Sensors
    BY <1>5 DEF SumNext, maps, HandlerInv
  <2>2. CASE handler'.sensor = handler.sensor /\ UNCHANGED subscription
    BY <2>1, <2>2
  <2>3. CASE HandlerThrows
    <3>1. CASE s # handler.sensor
      BY <2>1, <2>3, <3>1 DEF HandlerThrows
    <3>2. CASE s = handler.sensor /\ valuesHistoric[s] = Null
      BY <2>1, <2>3, <3>2 DEF HandlerThrows
    <3>3. CASE s = handler.sensor /\ valuesHistoric[s] # Null
      <4>1. /\ valuesHistoric[s] = handler.queue /\ valuesCurrent[s] = handler.value
            /\ handler.queue.capacity > 0
        BY <2>1, <3>3 DEF QueueInv, HandlerInv, Bounded, TypeOK, HandlerType, Queue
      <4> QED BY <2>1, <3>3, <4>1 DEF QueueInv, EndsWith
    <3> QED BY <3>1, <3>2, <3>3
  <2> QED BY <1>5, <2>2, <2>3 DEF SumNext, TypeOK, HandlerType
<1>6. CASE PutAverage
  <2>1. /\ UNCHANGED valuesCurrent
        /\ handler.step = "sum" /\ handler.sensor \in Sensors
        /\ valuesCurrent[handler.sensor] = handler.value
        /\ handler.queue \in Queue /\ Len(handler.queue.items) \in Nat
    BY <1>6 DEF PutAverage, HandlerInv, TypeOK, HandlerType, Queue
  <2>2. CASE /\ Len(handler.queue.items) > 0
             /\ valuesHistoric' = [valuesHistoric EXCEPT ![handler.sensor] = handler.queue]
             /\ UNCHANGED subscription
    <3>1. CASE s # handler.sensor
      BY <2>1, <2>2, <3>1 DEF TypeOK
    <3>2. CASE s = handler.sensor
      <4>1. handler.queue.capacity > 0
        BY <2>1, <2>2 DEF QueueInv, Bounded, Queue
      <4>2. EndsWith(handler.queue, handler.value)
        BY <2>1, <4>1 DEF QueueInv
      <4>3. handler.queue # Null
        BY <2>1, QueueAssumption
      <4> QED BY <2>1, <2>2, <3>2, <4>2, <4>3 DEF TypeOK, EndsWith
    <3> QED BY <3>1, <3>2
  <2>3. CASE /\ Len(handler.queue.items) = 0 /\ HandlerThrows
             /\ UNCHANGED valuesHistoric
    <3>1. CASE s # handler.sensor
      BY <2>1, <2>3, <3>1 DEF HandlerThrows
    <3>2. CASE s = handler.sensor
      <4>1. valuesHistoric[s] = Null
        BY <2>1, <2>3, <3>2 DEF QueueInv
      <4> QED BY <2>3, <4>1 DEF HandlerThrows
    <3> QED BY <3>1, <3>2
  <2> QED BY <1>6, <2>1, <2>2, <2>3 DEF PutAverage
<1> QED BY <1>1, <1>2, <1>3, <1>4, <1>5, <1>6, HandlerAlone DEF Handle
(* An entry of the three maps, once set, is never removed; an average is   *)
(* only put after a history.                                               *)
LEMMA EntriesStay ==
    TypeInv /\ TypeInv' /\ TaskInv /\ [Next]_vars =>
        \A s \in Sensors :
            /\ valuesCurrent[s] # Null => valuesCurrent'[s] # Null
            /\ valuesAverage[s] # Null => valuesAverage'[s] # Null
            /\ valuesHistoric[s] # Null => valuesHistoric'[s] # Null
            /\ valuesAverage'[s] # Null => valuesHistoric'[s] # Null
<1> SUFFICES ASSUME TypeInv, TypeInv', TaskInv, [Next]_vars, NEW s \in Sensors
             PROVE  /\ valuesCurrent[s] # Null => valuesCurrent'[s] # Null
                    /\ valuesAverage[s] # Null => valuesAverage'[s] # Null
                    /\ valuesHistoric[s] # Null => valuesHistoric'[s] # Null
                    /\ valuesAverage'[s] # Null => valuesHistoric'[s] # Null
  OBVIOUS
<1> USE DEF TypeInv
<1>1. CASE UNCHANGED <<valuesCurrent, valuesHistoric, valuesAverage, handler>>
  BY <1>1 DEF TaskInv
<1>2. ASSUME NEW r \in Sensors, NEW value \in Payloads, MessageArrived(r, value)
      PROVE  /\ valuesCurrent[s] # Null => valuesCurrent'[s] # Null
             /\ UNCHANGED <<valuesHistoric, valuesAverage>>
  BY <1>2, PayloadFacts DEF MessageArrived, TypeOK
<1>3. CASE CurrentGrown \/ AverageGrown \/ SumNext
  BY <1>3 DEF CurrentGrown, AverageGrown, SumNext, maps, TaskInv
<1>4. CASE AddToHistory
  <2>1. /\ handler.sensor \in Sensors /\ handler.value \in Payloads
        /\ valuesHistoric \in [Sensors -> Queue \cup {Null}]
        /\ UNCHANGED <<valuesCurrent, valuesAverage>>
    BY <1>4 DEF AddToHistory, HandlerInv, TypeOK
  <2>2. valuesHistoric[s] # Null => valuesHistoric'[s] # Null
    <3>1. CASE valuesHistoric[handler.sensor] = Null
      BY <1>4, <3>1 DEF AddToHistory
    <3>2. CASE valuesHistoric[handler.sensor] # Null
      <4>1. valuesHistoric[handler.sensor] \in Queue
        BY <2>1, <3>2
      <4>2. Offer(valuesHistoric[handler.sensor], handler.value) # Null
        BY <2>1, <4>1, OfferType, QueueAssumption
      <4> QED BY <1>4, <2>1, <3>2, <4>2 DEF AddToHistory
    <3> QED BY <3>1, <3>2
  <2> QED BY <2>1, <2>2 DEF TaskInv
<1>5. CASE PutAverage
  <2>1. /\ UNCHANGED valuesCurrent /\ handler.sensor \in Sensors /\ handler.queue # Null
    BY <1>5, QueueAssumption DEF PutAverage, HandlerInv, TypeOK, HandlerType
  <2>2. CASE /\ Len(handler.queue.items) > 0
             /\ valuesHistoric' = [valuesHistoric EXCEPT ![handler.sensor] = handler.queue]
             /\ valuesAverage' = [valuesAverage EXCEPT ![handler.sensor] =
                                     Quotient(handler.acc, Len(handler.queue.items))]
    <3>1. Quotient(handler.acc, Len(handler.queue.items)) # Null
      <4>1. Len(handler.queue.items) \in Nat \ {0} /\ handler.acc \in JInt
        BY <2>2 DEF TypeOK, HandlerType, Queue
      <4>2. Quotient(handler.acc, Len(handler.queue.items)) \in JInt
        BY <4>1, QuotientType
      <4> QED BY <4>2, PayloadAssumption, IntHalfAssumption DEF JInt
    <3> HIDE DEF JInt
    <3> QED BY <2>1, <2>2, <3>1 DEF TypeOK, TaskInv
  <2>3. CASE UNCHANGED <<valuesHistoric, valuesAverage>>
    BY <2>1, <2>3 DEF TaskInv
  <2> QED BY <1>5, <2>1, <2>2, <2>3 DEF PutAverage
<1> QED BY <1>1, <1>2, <1>3, <1>4, <1>5, HandlerAlone DEF Handle, TaskInv

(* A fulfilled condition has seen a current value and, when it is dynamic, *)
(* an average.                                                             *)
LEMMA FulfilledSaw ==
    ASSUME NEW m, NEW average \in JInt \cup {Null}, NEW current,
           IsFulfilled(m, average, current)
    PROVE  current # Null /\ (IsDynamic(m) => average # Null)
  BY PayloadAssumption, IntHalfAssumption
  DEF IsFulfilled, DynamicFulfilled, AbsoluteFulfilled, ToIntOrNull, JInt

LEMMA NextTrigger ==
    TypeInv /\ TypeInv' /\ TaskInv /\ TriggerNeedsReports /\ [Next]_vars
        => TaskInv' /\ TriggerNeedsReports'
<1> DEFINE Informed(m, task) ==
             /\ (task.step = "readCurrent" /\ task.average # Null)
                   => valuesAverage[m.checkerboardID] # Null
             /\ task.step = "publish" =>
                   /\ valuesCurrent[m.checkerboardID] # Null
                   /\ IsDynamic(m) => valuesAverage[m.checkerboardID] # Null
                                      /\ valuesHistoric[m.checkerboardID] # Null
<1> SUFFICES ASSUME TypeInv, TypeInv', TaskInv, [Next]_vars,
                    \A m \in Mappings, round \in Rounds : Informed(m, tasks[m][round]),
                    NEW m \in Mappings, NEW round \in Rounds
             PROVE  Informed(m, tasks[m][round])'
  BY EntriesStay DEF TaskInv, TriggerNeedsReports
<1> USE DEF TypeInv
<1> DEFINE task == tasks[m][round]
           s == m.checkerboardID
<1>1. /\ s \in Sensors
      /\ valuesCurrent[s] # Null => valuesCurrent'[s] # Null
      /\ valuesAverage[s] # Null => valuesAverage'[s] # Null
      /\ valuesHistoric[s] # Null => valuesHistoric'[s] # Null
      /\ valuesAverage[s] # Null => valuesHistoric[s] # Null
  BY MappingType, EntriesStay DEF TaskInv
<1>2. CASE task' = task
  BY <1>1, <1>2
<1>3. CASE task'.step = "none" \/ task'.step = "readAverage"
  BY <1>3
<1>4. CASE task'.step = "readCurrent" /\ task'.average = Null
  BY <1>4
<1>5. CASE ReadAverage(m, round)
  <2>1. PICK average \in Get(valuesAverage, s, handler.step = "growAverage") :
          tasks' = [tasks EXCEPT ![m][round] = [step |-> "readCurrent", average |-> average]]
    BY <1>5 DEF ReadAverage
  <2>2. task' = [step |-> "readCurrent", average |-> average]
    BY <2>1 DEF TypeOK
  <2>3. average # Null => valuesAverage[s] # Null
    BY <2>1 DEF Get
  <2> QED BY <1>1, <2>2, <2>3
<1>6. CASE ReadCurrent(m, round)
  <2>1. PICK current \in Get(valuesCurrent, s, handler.step = "growCurrent") :
          tasks' = [tasks EXCEPT ![m][round] =
                      IF IsFulfilled(m, task.average, current)
                      THEN [NoTask EXCEPT !.step = "publish"] ELSE NoTask]
    BY <1>6 DEF ReadCurrent
  <2>2. CASE ~IsFulfilled(m, task.average, current)
    <3>1. task' = NoTask
      BY <2>1, <2>2 DEF TypeOK
    <3> QED BY <3>1, <1>3 DEF NoTask
  <2>3. CASE IsFulfilled(m, task.average, current)
    <3>1. task'.step = "publish"
      BY <2>1, <2>3 DEF TypeOK, NoTask
    <3>2. task.average \in JInt \cup {Null} /\ task.step = "readCurrent"
      BY <1>6 DEF ReadCurrent, TypeOK, TaskType
    <3>3. current # Null /\ (IsDynamic(m) => task.average # Null)
      BY <2>3, <3>2, FulfilledSaw
    <3>4. valuesCurrent[s] # Null
      BY <2>1, <3>3 DEF Get
    <3>5. IsDynamic(m) => valuesAverage[s] # Null
      BY <3>2, <3>3
    <3> QED BY <1>1, <3>1, <3>4, <3>5
  <2> QED BY <2>2, <2>3
<1>7. \/ task' = task
      \/ task'.step = "none" \/ task'.step = "readAverage"
      \/ task'.step = "readCurrent" /\ task'.average = Null
      \/ ReadAverage(m, round) \/ ReadCurrent(m, round)
  <2>1. CASE UNCHANGED tasks
    BY <2>1
  <2>2. ASSUME NEW r \in Rounds, Map(r)
        PROVE  \/ task' = task \/ task'.step = "readAverage"
               \/ task'.step = "readCurrent" /\ task'.average = Null
    <3>1. CASE m \in mappingsConfig /\ r = round
      BY <2>2, <3>1 DEF Map, TypeOK
    <3>2. CASE ~(m \in mappingsConfig /\ r = round)
      BY <2>2, <3>2 DEF Map, TypeOK
    <3> QED BY <3>1, <3>2
  <2>3. ASSUME NEW n \in Mappings, NEW r \in Rounds, n # m \/ r # round,
               Evaluate(n, r) \/ Publish(n, r) \/ PublishFails(n, r)
        PROVE  task' = task
    <3>1. PICK t : tasks' = [tasks EXCEPT ![n][r] = t]
      BY <2>3 DEF Evaluate, ReadAverage, ReadCurrent, Publish, PublishFails
    <3> QED BY <2>3, <3>1 DEF TypeOK
  <2>4. ASSUME Publish(m, round) \/ PublishFails(m, round) PROVE task'.step = "none"
    BY <2>4 DEF Publish, PublishFails, TypeOK, NoTask
  <2>5. CASE Environment \/ Handle
    BY <2>1, <2>5 DEF Environment, Handle, Subscribe, ConnectionLost, MessageArrived,
       SetValueHistory, LoadMappings, CurrentGrown, AddToHistory, SumNext, PutAverage,
       AverageGrown
  <2> QED BY <2>1, <2>2, <2>3, <2>4, <2>5 DEF Next, Tasks, Evaluate, vars
<1> HIDE DEF Informed, task
<1> QED BY <1>2, <1>3, <1>4, <1>5, <1>6, <1>7 DEF task

-------------------------------------------------------------------------------
LEMMA InitInv == Init => IInv
<1> SUFFICES ASSUME Init PROVE IInv
  OBVIOUS
<1>1. TypeInv
  BY InitType
<1>2. handler.step = "idle" /\ \A s \in Sensors : valuesHistoric[s] = Null
  BY DEF Init, Idle
<1>3. QueueInv /\ AccInv
  BY <1>2 DEF QueueInv, AccInv
<1>4. /\ \A s \in Sensors : valuesAverage[s] = Null /\ valuesCurrent[s] = Null
      /\ \A m \in Mappings, round \in Rounds : tasks[m][round].step = "none"
  BY DEF Init, NoTask
<1> QED BY <1>1, <1>2, <1>3, <1>4
        DEF IInv, TaskInv, AverageInReadingRange, HistoryEndsWithCurrent, TriggerNeedsReports

(* The whole invariant is inductive.                                       *)
LEMMA NextInv == IInv /\ [Next]_vars => IInv'
<1> SUFFICES ASSUME IInv, [Next]_vars PROVE IInv'
  OBVIOUS
<1>1. TypeInv'
  BY NextType DEF IInv
<1>2. QueueInv'
  BY NextQueue DEF IInv
<1>3. AccInv' /\ AverageInReadingRange'
  BY NextAverage DEF IInv
<1>4. HistoryEndsWithCurrent'
  BY NextHistory DEF IInv
<1>5. TaskInv' /\ TriggerNeedsReports'
  BY <1>1, NextTrigger DEF IInv
<1> QED BY <1>1, <1>2, <1>3, <1>4, <1>5 DEF IInv

(* The inductive invariant holds in every reachable state of the mapping   *)
(* engine.                                                                 *)
THEOREM Invariance == Spec => []IInv
<1>1. Init => IInv
  BY InitInv
<1>2. IInv /\ [Next]_vars => IInv'
  BY NextInv
<1> QED BY <1>1, <1>2, PTL DEF Spec

(* Type correctness: whatever arrives, the shared maps, the callback       *)
(* thread's locals and the evaluation threads stay well typed; every       *)
(* average is a JVM Int.                                                   *)
THEOREM TypeCorrect == Spec => []TypeOK
<1>1. IInv => TypeOK
  BY DEF IInv, TypeInv
<1> QED BY <1>1, Invariance, PTL

(* Outside handleValue, the history of every sensor ends with its current  *)
(* value, unless the subscription is dead.                                 *)
THEOREM HistoryConsistent == Spec => []HistoryEndsWithCurrent
<1>1. IInv => HistoryEndsWithCurrent
  BY DEF IInv
<1> QED BY <1>1, Invariance, PTL

(* No average ever leaves the range of the readings, for every history     *)
(* size whose readings cannot overflow the accumulator.                    *)
THEOREM AverageCorrectRange == Spec => []AverageInReadingRange
<1>1. IInv => AverageInReadingRange
  BY DEF IInv
<1> QED BY <1>1, Invariance, PTL

(* No interleaving of evaluations and handling triggers a command for a    *)
(* sensor that has not reported.                                           *)
THEOREM NoPhantomTrigger == Spec => []TriggerNeedsReports
<1>1. IInv => TriggerNeedsReports
  BY DEF IInv
<1> QED BY <1>1, Invariance, PTL
-------------------------------------------------------------------------------
(* The partial sums of a history.                                          *)
Sums(items) ==
    CHOOSE sum : sum = [n \in 0 .. Len(items) |-> IF n = 0 THEN 0 ELSE sum[n - 1] + items[n]]

LEMMA SumOfSums == ASSUME NEW items PROVE SumOf(items) = Sums(items)[Len(items)]
BY DEF SumOf, Sums

(* The first of several positions.                                         *)
LEMMA SmallestOf ==
    ASSUME NEW S \in SUBSET Nat, S # {}
    PROVE  \E i \in S : \A j \in S : i <= j
<1>1. PICK i \in S : \A j \in S : ~ (<<j, i>> \in OpToRel(<, Nat))
  BY NatLessThanWellFounded, WFMin
<1>2. \A j \in S : ~ (j < i)
  BY <1>1 DEF OpToRel
<1> QED BY <1>2

(* The equation that defines the partial sums has a solution: otherwise    *)
(* there is a first length for which it has none.                          *)
LEMMA SumsExist ==
    ASSUME NEW items, Len(items) \in Nat
    PROVE  \E sum : sum = [n \in 0 .. Len(items) |->
                              IF n = 0 THEN 0 ELSE sum[n - 1] + items[n]]
<1> DEFINE Solves(sum, k) ==
             sum = [n \in 0 .. k |-> IF n = 0 THEN 0 ELSE sum[n - 1] + items[n]]
           Unsolved == {k \in Nat : ~ \E sum : Solves(sum, k)}
<1>1. \E sum : Solves(sum, 0)
  <2> DEFINE start == [n \in 0 .. 0 |-> 0]
  <2>1. start = [n \in 0 .. 0 |-> IF n = 0 THEN 0 ELSE start[n - 1] + items[n]]
    OBVIOUS
  <2> QED BY <2>1
<1>2. ASSUME NEW k \in Nat, NEW sum, Solves(sum, k)
      PROVE  \E next : Solves(next, k + 1)
  <2> DEFINE next == [n \in 0 .. k + 1 |->
                        IF n = k + 1 THEN sum[k] + items[n] ELSE sum[n]]
  <2>1. \A n \in 0 .. k : sum[n] = IF n = 0 THEN 0 ELSE sum[n - 1] + items[n]
    BY <1>2
  <2>2. ASSUME NEW n \in 0 .. k + 1
        PROVE  next[n] = IF n = 0 THEN 0 ELSE next[n - 1] + items[n]
    <3>1. CASE n = k + 1
      <4>1. k \in 0 .. k + 1 /\ next[n - 1] = sum[k] /\ next[n] = sum[k] + items[n]
        BY <3>1
      <4> QED BY <3>1, <4>1
    <3>2. CASE n # k + 1
      <4>1. n \in 0 .. k /\ next[n] = sum[n]
        BY <3>2
      <4>2. n # 0 => n - 1 \in 0 .. k + 1 /\ n - 1 # k + 1 /\ next[n - 1] = sum[n - 1]
        BY <4>1
      <4> QED BY <2>1, <4>1, <4>2
    <3> QED BY <3>1, <3>2
  <2> HIDE DEF next
  <2>3. next = [n \in 0 .. k + 1 |-> IF n = 0 THEN 0 ELSE next[n - 1] + items[n]]
    <3>1. next = [n \in 0 .. k + 1 |-> next[n]]
      BY DEF next
    <3> QED BY <2>2, <3>1
  <2> QED BY <2>3
<1> HIDE DEF Solves
<1>3. Unsolved = {}
  <2>1. Unsolved \in SUBSET Nat
    OBVIOUS
  <2>2. \A k \in Nat : k \notin Unsolved <=> \E sum : Solves(sum, k)
    OBVIOUS
  <2> HIDE DEF Unsolved
  <2> SUFFICES ASSUME Unsolved # {} PROVE FALSE
    OBVIOUS
  <2>3. PICK k \in Unsolved : \A j \in Unsolved : k <= j
    BY <2>1, SmallestOf
  <2>4. k \in Nat /\ k # 0
    BY <1>1, <2>1, <2>2
  <2>5. k - 1 \in Nat /\ k - 1 \notin Unsolved
    BY <2>1, <2>3, <2>4
  <2>6. \E next : Solves(next, (k - 1) + 1)
    BY <1>2, <2>2, <2>5
  <2>7. (k - 1) + 1 = k
    BY <2>4
  <2> QED BY <2>2, <2>4, <2>6, <2>7
<1>4. \E sum : Solves(sum, Len(items))
  BY <1>3
<1> QED BY <1>4 DEF Solves

LEMMA SumsStep ==
    ASSUME NEW items, Len(items) \in Nat
    PROVE  /\ Sums(items)[0] = 0
           /\ \A n \in 1 .. Len(items) : Sums(items)[n] = Sums(items)[n - 1] + items[n]
<1> DEFINE sum == Sums(items)
<1>1. sum = [n \in 0 .. Len(items) |-> IF n = 0 THEN 0 ELSE sum[n - 1] + items[n]]
  BY SumsExist DEF Sums
<1> HIDE DEF sum
<1>2. sum[0] = 0 /\ \A n \in 1 .. Len(items) : sum[n] = sum[n - 1] + items[n]
  BY <1>1
<1> QED BY <1>2 DEF sum

(* While a history is summed, the accumulator is the sum of the payloads   *)
(* added so far, none of which is garbage.                                 *)
SumInv ==
    handler.step = "sum" =>
        /\ \A i \in 1 .. handler.next - 1 : handler.queue.items[i] # Garbage
        /\ handler.acc = Sums(handler.queue.items)[handler.next - 1]

LEMMA NextSum ==
    ASSUME TypeInv, QueueInv, AccInv, HistoryFits, SumInv, [Next]_vars
    PROVE  SumInv'
<1> USE DEF TypeInv
<1>1. CASE UNCHANGED <<valuesCurrent, valuesHistoric, valuesAverage, handler>>
  BY <1>1 DEF SumInv
<1>2. ASSUME NEW s \in Sensors, NEW value \in Payloads, MessageArrived(s, value)
      PROVE  SumInv'
  BY <1>2 DEF MessageArrived, Idle, SumInv
<1>3. CASE CurrentGrown \/ AverageGrown
  BY <1>3 DEF CurrentGrown, AverageGrown, Idle, TypeOK, HandlerType, SumInv
<1>4. CASE AddToHistory
  <2>1. CASE HandlerThrows
    BY <2>1 DEF HandlerThrows, Idle, SumInv
  <2>2. ASSUME NEW queue, handler' = [handler EXCEPT !.step = "sum", !.queue = queue]
        PROVE  handler'.next = 1 /\ handler'.acc = 0
    BY <1>4, <2>2 DEF AddToHistory, HandlerInv, TypeOK, HandlerType
  <2>3. CASE \E queue : handler' = [handler EXCEPT !.step = "sum", !.queue = queue]
    <3>1. handler'.next = 1 /\ handler'.acc = 0
      BY <2>2, <2>3
    <3>2. Len(handler'.queue.items) \in Nat
      <4>1. handler' \in HandlerType
        BY NextType DEF TypeOK
      <4> QED BY <4>1 DEF HandlerType, Queue
    <3>3. Sums(handler'.queue.items)[0] = 0
      BY <3>2, SumsStep
    <3> QED BY <3>1, <3>3 DEF SumInv
  <2> QED BY <1>4, <2>1, <2>3 DEF AddToHistory
<1>5. CASE SumNext
  <2> DEFINE items == handler.queue.items
             n == handler.next
  <2>1. /\ handler.step = "sum" /\ n \in Nat \ {0} /\ n <= Len(items) /\ Len(items) \in Nat
    BY <1>5 DEF SumNext, TypeOK, HandlerType, Queue
  <2>2. CASE /\ items[n] # Garbage
             /\ handler' = [handler EXCEPT !.acc = Wrap(@ + items[n]), !.next = @ + 1]
    <3>1. handler.acc + items[n] \in JInt
      BY <1>5, <2>2, SumNextFits
    <3>2. /\ handler'.acc = handler.acc + items[n] /\ handler'.next = n + 1
          /\ handler'.queue.items = items
      BY <2>2, <3>1, WrapIdentity DEF TypeOK, HandlerType
    <3>3. Sums(items)[n] = Sums(items)[n - 1] + items[n]
      BY <2>1, SumsStep
    <3>4. \A i \in 1 .. n : items[i] # Garbage
      BY <2>1, <2>2 DEF SumInv
    <3>5. handler.acc = Sums(items)[n - 1] /\ handler'.next - 1 = n
      BY <2>1, <3>2 DEF SumInv
    <3> HIDE DEF items, n
    <3> QED BY <3>2, <3>3, <3>4, <3>5 DEF SumInv
  <2>3. CASE HandlerThrows
    BY <2>3 DEF HandlerThrows, Idle, SumInv
  <2> QED BY <1>5, <2>2, <2>3 DEF SumNext
<1>6. CASE PutAverage
  BY <1>6 DEF PutAverage, HandlerThrows, Idle, SumInv
<1> QED BY <1>1, <1>2, <1>3, <1>4, <1>5, <1>6, HandlerAlone DEF Handle

(* A history that has been summed up gives its mean.                       *)
LEMMA QuotientIsMean ==
    ASSUME TypeInv, QueueInv, HistoryFits, SumInv, PutAverage
    PROVE  LET items == handler.queue.items
           IN  /\ \A i \in 1 .. Len(items) : items[i] # Garbage
               /\ Quotient(handler.acc, Len(items)) = MeanOf(items)
<1> DEFINE items == handler.queue.items
<1>1. /\ handler.step = "sum" /\ Len(items) \in Nat /\ handler.next - 1 = Len(items)
      /\ handler.acc \in Int
  BY IntHalfAssumption
  DEF PutAverage, QueueInv, TypeInv, TypeOK, HandlerType, Queue, JInt
<1>2. handler.acc = SumOf(items)
  BY <1>1, SumOfSums DEF SumInv
<1>3. \A i \in 1 .. Len(items) : items[i] # Garbage
  BY <1>1 DEF SumInv
<1> HIDE DEF items
<1>4. Quotient(handler.acc, Len(items)) = MeanOf(items)
  BY <1>1, <1>2 DEF MeanOf, Quotient
<1> QED BY <1>3, <1>4 DEF items

LEMMA NextMean ==
    ASSUME TypeInv, QueueInv, AccInv, TaskInv, HistoryFits, SumInv,
           AverageIsMeanOfHistory, [Next]_vars
    PROVE  AverageIsMeanOfHistory'
<1> DEFINE HasMean(s) ==
             IF valuesHistoric[s] = Null
             THEN valuesAverage[s] = Null
             ELSE LET items == valuesHistoric[s].items
                  IN  IF \E i \in 1 .. Len(items) : items[i] = Garbage
                      THEN subscription = "lost"
                      ELSE valuesAverage[s] = MeanOf(items)
<1> SUFFICES ASSUME \A s \in Sensors \ {handler.sensor} : HasMean(s),
                    NEW s \in Sensors \ {handler'.sensor}
             PROVE  HasMean(s)'
  BY DEF AverageIsMeanOfHistory
<1> USE DEF TypeInv
<1>1. CASE /\ UNCHANGED <<valuesCurrent, valuesHistoric, valuesAverage, handler>>
           /\ subscription = "lost" => subscription' = "lost"
  BY <1>1
<1>2. ASSUME NEW r \in Sensors, NEW value \in Payloads, MessageArrived(r, value)
      PROVE  HasMean(s)'
  <2>1. handler.sensor = Null
    BY <1>2 DEF MessageArrived, HandlerInv
  <2>2. s \in Sensors \ {handler.sensor}
    BY <2>1, MappingAssumption
  <2>3. UNCHANGED <<valuesHistoric, valuesAverage, subscription>>
    BY <1>2 DEF MessageArrived
  <2> QED BY <2>2, <2>3
<1>3. CASE CurrentGrown \/ AverageGrown
  <2>1. UNCHANGED <<valuesHistoric, valuesAverage, subscription>>
    BY <1>3 DEF CurrentGrown, AverageGrown, maps
  <2>2. handler'.sensor = handler.sensor
    BY <1>3 DEF CurrentGrown, AverageGrown, Idle, HandlerInv, TypeOK, HandlerType
  <2> QED BY <2>1, <2>2
<1>4. CASE AddToHistory
  <2>1. /\ UNCHANGED valuesAverage
        /\ \A r \in Sensors \ {handler.sensor} : valuesHistoric'[r] = valuesHistoric[r]
    BY <1>4 DEF AddToHistory, TypeOK
  <2>2. CASE handler'.sensor = handler.sensor /\ UNCHANGED subscription
    BY <2>1, <2>2
  <2>3. CASE /\ valuesHistoric[handler.sensor] = Null
             /\ HandlerThrows /\ UNCHANGED valuesHistoric
    BY <2>1, <2>3 DEF HandlerThrows, TaskInv
  <2> QED BY <1>4, <2>2, <2>3 DEF AddToHistory, TypeOK, HandlerType
<1>5. CASE SumNext
  <2>1. /\ UNCHANGED <<valuesAverage, valuesHistoric>>
        /\ handler.step = "sum" /\ handler.sensor \in Sensors
    BY <1>5 DEF SumNext, maps, HandlerInv
  <2>2. CASE handler'.sensor = handler.sensor /\ UNCHANGED subscription
    BY <2>1, <2>2
  <2>3. CASE HandlerThrows /\ handler.queue.items[handler.next] = Garbage
    <3>1. CASE s # handler.sensor
      BY <2>1, <2>3, <3>1 DEF HandlerThrows
    <3>2. CASE s = handler.sensor /\ valuesHistoric[s] = Null
      BY <2>1, <2>3, <3>2 DEF TaskInv
    <3>3. CASE s = handler.sensor /\ valuesHistoric[s] # Null
      <4>1. valuesHistoric[s] = handler.queue
        BY <2>1, <3>3 DEF QueueInv
      <4>2. handler.next \in 1 .. Len(handler.queue.items)
        BY <1>5 DEF SumNext, TypeOK, HandlerType, Queue
      <4> QED BY <2>1, <2>3, <3>3, <4>1, <4>2 DEF HandlerThrows
    <3> QED BY <3>1, <3>2, <3>3
  <2> QED BY <1>5, <2>2, <2>3 DEF SumNext, TypeOK, HandlerType
<1>6. CASE PutAverage
  <2> DEFINE items == handler.queue.items
  <2>1. /\ handler.step = "sum" /\ handler.sensor \in Sensors
        /\ handler.queue \in Queue /\ Len(items) \in Nat
    BY <1>6 DEF PutAverage, HandlerInv, TypeOK, HandlerType, Queue
  <2>2. CASE /\ Len(items) > 0
             /\ valuesHistoric' = [valuesHistoric EXCEPT ![handler.sensor] = handler.queue]
             /\ valuesAverage' = [valuesAverage EXCEPT ![handler.sensor] =
                                     Quotient(handler.acc, Len(items))]
             /\ UNCHANGED subscription
    <3>1. CASE s # handler.sensor
      BY <2>1, <2>2, <3>1 DEF TypeOK
    <3>2. CASE s = handler.sensor
      <4>1. /\ \A i \in 1 .. Len(items) : items[i] # Garbage
            /\ Quotient(handler.acc, Len(items)) = MeanOf(items)
        BY <1>6, QuotientIsMean
      <4>2. handler.queue # Null
        BY <2>1, QueueAssumption
      <4>3. /\ valuesHistoric'[s] = handler.queue
            /\ valuesAverage'[s] = Quotient(handler.acc, Len(items))
        BY <2>1, <2>2, <3>2 DEF TypeOK
      <4> QED BY <4>1, <4>2, <4>3
    <3> QED BY <3>1, <3>2
  <2>3. CASE /\ Len(items) = 0 /\ HandlerThrows
             /\ UNCHANGED <<valuesHistoric, valuesAverage>>
    <3>1. CASE s # handler.sensor
      BY <2>1, <2>3, <3>1 DEF HandlerThrows
    <3>2. CASE s = handler.sensor
      <4>1. valuesHistoric[s] = Null
        BY <2>1, <2>3, <3>2 DEF QueueInv
      <4> QED BY <2>3, <3>2, <4>1 DEF TaskInv
    <3> QED BY <3>1, <3>2
  <2> QED BY <1>6, <2>1, <2>2, <2>3 DEF PutAverage
<1> QED BY <1>1, <1>2, <1>3, <1>4, <1>5, <1>6, HandlerAlone DEF Handle

(* Every average that an evaluation reads is the mean of the history of    *)
(* its sensor, for any lengths of histories whose readings cannot overflow *)
(* the accumulator.                                                        *)
THEOREM AverageCorrect ==
    ASSUME HistoryFits
    PROVE  Spec => []AverageIsMeanOfHistory
<1>1. Init => SumInv /\ AverageIsMeanOfHistory
  BY DEF Init, Idle, SumInv, AverageIsMeanOfHistory
<1>2. IInv /\ SumInv /\ AverageIsMeanOfHistory /\ [Next]_vars
        => SumInv' /\ AverageIsMeanOfHistory'
  BY NextSum, NextMean DEF IInv
<1> QED BY <1>1, <1>2, Invariance, PTL DEF Spec
-------------------------------------------------------------------------------
(* The readings that have been added so far are none of them garbage.      *)
CleanInv ==
    handler.step = "sum" =>
        \A i \in 1 .. handler.next - 1 : handler.queue.items[i] # Garbage

(* A sensor shows garbage only while that is being handled, or when the    *)
(* subscription is dead.                                                   *)
GarbageKills ==
    \A s \in Sensors :
        valuesCurrent[s] = Garbage => handler.sensor = s \/ subscription = "lost"

LEMMA NextGarbage ==
    ASSUME TypeInv, QueueInv, CleanInv, GarbageKills, [Next]_vars
    PROVE  CleanInv' /\ GarbageKills'
<1> USE DEF TypeInv
<1>1. CASE /\ UNCHANGED <<valuesCurrent, valuesHistoric, valuesAverage, handler>>
           /\ subscription = "lost" => subscription' = "lost"
  BY <1>1 DEF CleanInv, GarbageKills
<1>2. ASSUME NEW s \in Sensors, NEW value \in Payloads, MessageArrived(s, value)
      PROVE  CleanInv' /\ GarbageKills'
  <2>1. handler.sensor = Null /\ Null \notin Sensors /\ UNCHANGED subscription
    BY <1>2, MappingAssumption DEF MessageArrived, HandlerInv
  <2>2. handler'.sensor = s /\ handler'.step # "sum"
    BY <1>2 DEF MessageArrived, Idle
  <2>3. \A r \in Sensors \ {s} : valuesCurrent'[r] = valuesCurrent[r]
    BY <1>2 DEF MessageArrived, TypeOK
  <2> QED BY <2>1, <2>2, <2>3 DEF CleanInv, GarbageKills
<1>3. CASE HandlerThrows /\ UNCHANGED valuesCurrent
  BY <1>3 DEF HandlerThrows, Idle, CleanInv, GarbageKills
<1>4. CASE CurrentGrown \/ AverageGrown
  BY <1>4, MappingAssumption
  DEF CurrentGrown, AverageGrown, Idle, maps, HandlerInv, TypeOK, HandlerType,
      CleanInv, GarbageKills
<1>5. CASE AddToHistory
  <2>1. UNCHANGED valuesCurrent /\ handler.next = 1 /\ handler \in HandlerType
    BY <1>5 DEF AddToHistory, HandlerInv, TypeOK
  <2>2. CASE /\ UNCHANGED subscription
             /\ \E queue : handler' = [handler EXCEPT !.step = "sum", !.queue = queue]
    BY <2>1, <2>2 DEF HandlerType, CleanInv, GarbageKills
  <2> QED BY <1>3, <1>5, <2>1, <2>2 DEF AddToHistory
<1>6. CASE SumNext
  <2>1. UNCHANGED valuesCurrent /\ handler.step = "sum" /\ handler \in HandlerType
    BY <1>6 DEF SumNext, maps, TypeOK
  <2>2. CASE /\ handler.queue.items[handler.next] # Garbage
             /\ UNCHANGED subscription
             /\ \E acc : handler' = [handler EXCEPT !.acc = acc, !.next = @ + 1]
    <3>1. /\ handler'.next = handler.next + 1 /\ handler.next \in Nat \ {0}
          /\ handler'.queue = handler.queue /\ handler'.sensor = handler.sensor
      BY <2>1, <2>2 DEF HandlerType
    <3> QED BY <2>1, <2>2, <3>1 DEF CleanInv, GarbageKills
  <2> QED BY <1>3, <1>6, <2>1, <2>2 DEF SumNext
<1>7. CASE PutAverage
  <2> DEFINE items == handler.queue.items
  <2>1. /\ UNCHANGED valuesCurrent /\ handler.step = "sum"
        /\ handler.queue \in Queue /\ Len(items) \in Nat
        /\ handler.next = Len(items) + 1
    BY <1>7 DEF PutAverage, QueueInv, TypeOK, HandlerType, Queue
  <2>2. CASE /\ Len(items) > 0 /\ UNCHANGED subscription
             /\ handler' \in {Idle, [Idle EXCEPT !.step = "growAverage"]}
    <3>1. handler'.step # "sum"
      BY <2>2 DEF Idle
    <3>2. items[Len(items)] # Garbage
      BY <2>1, <2>2 DEF CleanInv
    <3>3. handler.queue.capacity > 0
      BY <2>1, <2>2 DEF QueueInv, Bounded, Queue
    <3>4. valuesCurrent[handler.sensor] # Garbage
      BY <2>1, <3>2, <3>3 DEF QueueInv, EndsWith, HandlerInv
    <3> QED BY <2>1, <2>2, <3>1, <3>4 DEF CleanInv, GarbageKills
  <2> QED BY <1>3, <1>7, <2>1, <2>2 DEF PutAverage
<1> QED BY <1>1, <1>2, <1>4, <1>5, <1>6, <1>7, HandlerAlone DEF Handle

(* A payload that is not an integer costs the subscription before the next *)
(* reading can be handled: no sensor shows garbage on a live one.          *)
THEOREM GarbageCostsSubscription == Spec => []GarbageKills
<1>1. Init => CleanInv /\ GarbageKills
  BY PayloadAssumption DEF Init, Idle, CleanInv, GarbageKills
<1>2. IInv /\ CleanInv /\ GarbageKills /\ [Next]_vars => CleanInv' /\ GarbageKills'
  BY NextGarbage DEF IInv
<1> QED BY <1>1, <1>2, Invariance, PTL DEF Spec

(* The garbage that a sensor shows stays, and so does a dead subscription: *)
(* the only call that stores a value needs a live one and an idle thread.  *)
LEMMA GarbageStays ==
    ASSUME TypeInv, GarbageKills, [Next]_vars,
           NEW s \in Sensors, valuesCurrent[s] = Garbage
    PROVE  valuesCurrent'[s] = Garbage /\ (subscription = "lost" => subscription' = "lost")
<1>1. CASE /\ UNCHANGED <<valuesCurrent, valuesHistoric, valuesAverage, handler>>
           /\ subscription = "lost" => subscription' = "lost"
  BY <1>1
<1>2. ASSUME NEW r \in Sensors, NEW value \in Payloads, MessageArrived(r, value)
      PROVE  FALSE
  <2>1. handler.sensor = Null /\ subscription = "live"
    BY <1>2 DEF MessageArrived, TypeInv, HandlerInv
  <2> QED BY <2>1, MappingAssumption DEF GarbageKills
<1>3. CASE Handle
  BY <1>3 DEF Handle, CurrentGrown, AddToHistory, SumNext, PutAverage, AverageGrown,
              HandlerThrows, maps
<1> QED BY <1>1, <1>2, <1>3, HandlerAlone

(* GarbageIsFatal, without the fairness: if handleValue leaves every       *)
(* reading it takes up again and again, one payload that is not an integer *)
(* ends the mapping engine's input for good.  That handleValue does end is *)
(* all that is left to the scheduler and to TLC.                           *)
THEOREM GarbageEndsInput ==
    Spec /\ (\A s \in Sensors : []<>(handler.sensor # s)) => GarbageIsFatal
<1> SUFFICES ASSUME NEW s \in Sensors
             PROVE  Spec /\ []<>(handler.sensor # s) =>
                      ((valuesCurrent[s] = Garbage) ~>
                          [](subscription = "lost" /\ valuesCurrent[s] = Garbage))
  BY DEF GarbageIsFatal
<1>1. TypeInv /\ GarbageKills /\ [Next]_vars /\ valuesCurrent[s] = Garbage
        => (valuesCurrent[s] = Garbage)'
  BY GarbageStays
<1>2. TypeInv /\ GarbageKills /\ [Next]_vars /\ valuesCurrent[s] = Garbage
        /\ subscription = "lost" => (subscription = "lost")'
  BY GarbageStays
<1>3. GarbageKills /\ valuesCurrent[s] = Garbage /\ handler.sensor # s
        => subscription = "lost"
  BY DEF GarbageKills
<1>4. IInv => TypeInv
  BY DEF IInv
<1> QED BY <1>1, <1>2, <1>3, <1>4, Invariance, GarbageCostsSubscription, PTL DEF Spec

-------------------------------------------------------------------------------
(* What a step makes of one evaluation or publish thread.                  *)
LEMMA TaskStep ==
    ASSUME TypeInv, [Next]_vars, NEW n \in Mappings, NEW round \in Rounds
    PROVE  \/ tasks'[n][round] = tasks[n][round]
           \/ tasks'[n][round] = NoTask
           \/ /\ n \in mappingsConfig
              /\ tasks'[n][round] =
                    [step |-> IF IsDynamic(n) THEN "readAverage" ELSE "readCurrent",
                     average |-> Null]
           \/ ReadAverage(n, round)
           \/ ReadCurrent(n, round)
<1> USE DEF TypeInv
<1>1. CASE UNCHANGED tasks
  BY <1>1
<1>2. ASSUME NEW r \in Rounds, Map(r)
      PROVE  \/ tasks'[n][round] = tasks[n][round]
             \/ /\ n \in mappingsConfig
                /\ tasks'[n][round] =
                      [step |-> IF IsDynamic(n) THEN "readAverage" ELSE "readCurrent",
                       average |-> Null]
  <2>1. CASE n \in mappingsConfig /\ r = round
    BY <1>2, <2>1 DEF Map, TypeOK
  <2>2. CASE ~(n \in mappingsConfig /\ r = round)
    BY <1>2, <2>2 DEF Map, TypeOK
  <2> QED BY <2>1, <2>2
<1>3. ASSUME NEW k \in Mappings, NEW r \in Rounds, k # n \/ r # round,
             Evaluate(k, r) \/ Publish(k, r) \/ PublishFails(k, r)
      PROVE  tasks'[n][round] = tasks[n][round]
  <2>1. PICK t : tasks' = [tasks EXCEPT ![k][r] = t]
    BY <1>3 DEF Evaluate, ReadAverage, ReadCurrent, Publish, PublishFails
  <2> QED BY <1>3, <2>1 DEF TypeOK
<1>4. ASSUME Publish(n, round) \/ PublishFails(n, round) PROVE tasks'[n][round] = NoTask
  BY <1>4 DEF Publish, PublishFails, TypeOK
<1>5. CASE Environment \/ Handle
  BY <1>1, <1>5 DEF Environment, Handle, Subscribe, ConnectionLost, MessageArrived,
     SetValueHistory, LoadMappings, CurrentGrown, AddToHistory, SumNext, PutAverage,
     AverageGrown
<1> QED BY <1>1, <1>2, <1>3, <1>4, <1>5 DEF Next, Tasks, Evaluate, vars

Growing == handler.step \in {"growCurrent", "growAverage"}

(* A thread for the topic of mapping m that is out of date: its mapping is *)
(* no longer configured, it has read another average than the present one, *)
(* or it is about to publish another command.                              *)
Stale(m, n, round) ==
    /\ n.topic = m.topic
    /\ \/ tasks[n][round].step # "none" /\ n \notin mappingsConfig
       \/ /\ tasks[n][round].step = "readCurrent" /\ IsDynamic(n)
          /\ tasks[n][round].average # valuesAverage[n.checkerboardID]
       \/ tasks[n][round].step = "publish" /\ n.value # m.value

NoneStale(m) == \A n \in Mappings, round \in Rounds : ~Stale(m, n, round)

StaleStarts(m) == \E n \in Mappings, round \in Rounds : ~Stale(m, n, round) /\ Stale(m, n, round)'

(* What an evaluation that is not out of date reads is what the maps hold  *)
(* or, of the current value, nothing.                                      *)
LEMMA EvaluationSees ==
    ASSUME TypeInv, NEW m \in Mappings, NEW n \in Mappings, NEW round \in Rounds,
           n.topic = m.topic, ~Stale(m, n, round), ~Growing, ReadCurrent(n, round)
    PROVE  tasks'[n][round] =
             IF IsFulfilledNow(n) THEN [NoTask EXCEPT !.step = "publish"] ELSE NoTask
<1> DEFINE task == tasks[n][round]
           s == n.checkerboardID
<1>1. /\ task.step = "readCurrent" /\ n \in mappingsConfig
      /\ IsDynamic(n) => task.average = valuesAverage[s]
  BY DEF Stale, ReadCurrent
<1>2. tasks' = [tasks EXCEPT ![n][round] =
                  IF IsFulfilled(n, task.average, valuesCurrent[s])
                  THEN [NoTask EXCEPT !.step = "publish"] ELSE NoTask]
  BY DEF ReadCurrent, Get, Growing
<1>3. IsFulfilled(n, task.average, valuesCurrent[s]) <=>
        IsFulfilled(n, valuesAverage[s], valuesCurrent[s])
  BY <1>1 DEF IsFulfilled
<1>4. IsFulfilled(n, task.average, valuesCurrent[s]) <=> IsFulfilledNow(n)
  BY <1>1, <1>3 DEF IsFulfilledNow
<1>5. tasks'[n][round] = IF IsFulfilled(n, task.average, valuesCurrent[s])
                         THEN [NoTask EXCEPT !.step = "publish"] ELSE NoTask
  BY <1>2 DEF TypeInv, TypeOK
<1> QED BY <1>4, <1>5

(* While a mapping is demanded, and mappings and averages stay, no thread  *)
(* becomes out of date.                                                    *)
LEMMA NothingStaleStarts ==
    ASSUME TypeInv, [Next]_vars, NEW m \in Mappings, Demanded(m), ~Growing,
           UNCHANGED mappingsConfig, AveragesStay(m.topic)
    PROVE  ~StaleStarts(m)
<1> SUFFICES ASSUME NEW n \in Mappings, NEW round \in Rounds, n.topic = m.topic,
                    ~Stale(m, n, round)
             PROVE  ~Stale(m, n, round)'
  BY DEF StaleStarts, Stale
<1>1. IsDynamic(n) => UNCHANGED valuesAverage[n.checkerboardID]
  BY DEF AveragesStay
<1>2. CASE tasks'[n][round] = tasks[n][round]
  BY <1>1, <1>2 DEF Stale
<1>3. CASE tasks'[n][round] = NoTask
  BY <1>3 DEF Stale, NoTask
<1>4. CASE /\ n \in mappingsConfig
           /\ tasks'[n][round] =
                 [step |-> IF IsDynamic(n) THEN "readAverage" ELSE "readCurrent", average |-> Null]
  BY <1>4 DEF Stale
<1>5. CASE ReadAverage(n, round)
  <2>1. tasks' = [tasks EXCEPT ![n][round] =
                    [step |-> "readCurrent", average |-> valuesAverage[n.checkerboardID]]]
    BY <1>5 DEF ReadAverage, Get, Growing
  <2>2. tasks'[n][round] = [step |-> "readCurrent", average |-> valuesAverage[n.checkerboardID]]
    BY <2>1 DEF TypeInv, TypeOK
  <2>3. n \in mappingsConfig
    BY <1>5 DEF ReadAverage, Stale
  <2> QED BY <1>1, <2>2, <2>3 DEF Stale
<1>6. CASE ReadCurrent(n, round)
  <2>1. tasks'[n][round] =
          IF IsFulfilledNow(n) THEN [NoTask EXCEPT !.step = "publish"] ELSE NoTask
    BY <1>6, EvaluationSees
  <2>2. CASE IsFulfilledNow(n)
    <3>1. n.value = m.value /\ n \in mappingsConfig
      BY <2>2 DEF Demanded, IsFulfilledNow
    <3>2. tasks'[n][round].step = "publish"
      BY <2>1, <2>2 DEF NoTask
    <3> QED BY <3>1, <3>2 DEF Stale
  <2> QED BY <1>3, <2>1, <2>2
<1> QED BY <1>2, <1>3, <1>4, <1>5, <1>6, TaskStep

(* An evaluation of m ends; a publish of it starts; one reaches the broker. *)
EvaluationEnds(m) == \E round \in Rounds : ReadCurrent(m, round)

PublishStarts(m) ==
    \E round \in Rounds : tasks[m][round].step # "publish" /\ tasks'[m][round].step = "publish"

PublishSucceeds(m) == \E round \in Rounds : Publish(m, round)

LEMMA DemandIsPublished ==
    ASSUME TypeInv, NEW m \in Mappings, Demanded(m), ~Growing, NoneStale(m), EvaluationEnds(m)
    PROVE  PublishStarts(m)
<1>1. PICK round \in Rounds : ReadCurrent(m, round)
  BY DEF EvaluationEnds
<1>2. IsFulfilledNow(m) /\ ~Stale(m, m, round)
  BY DEF Demanded, NoneStale
<1>3. tasks'[m][round] = [NoTask EXCEPT !.step = "publish"]
  BY <1>1, <1>2, EvaluationSees
<1>4. tasks[m][round].step = "readCurrent"
  BY <1>1 DEF ReadCurrent
<1> QED BY <1>3, <1>4 DEF PublishStarts, NoTask

(* Without threads that are out of date, the broker only hears m's command. *)
LEMMA OnlyCommandAccepted ==
    ASSUME TypeInv, [Next]_vars, NEW m \in Mappings, NoneStale(m)
    PROVE  /\ accepted[m.topic] = m.value => accepted'[m.topic] = m.value
           /\ PublishSucceeds(m) => accepted'[m.topic] = m.value
<1>1. accepted \in [Topics -> Commands \cup {Null}] /\ m.topic \in Topics
  BY MappingType DEF TypeInv, TypeOK
<1>2. ASSUME NEW n \in Mappings, NEW round \in Rounds, Publish(n, round)
      PROVE  /\ accepted[m.topic] = m.value => accepted'[m.topic] = m.value
             /\ n = m => accepted'[m.topic] = m.value
  <2>1. n.topic = m.topic => n.value = m.value
    BY <1>2 DEF Publish, NoneStale, Stale
  <2>2. accepted' = [accepted EXCEPT ![n.topic] = n.value]
    BY <1>2 DEF Publish
  <2> QED BY <1>1, <2>1, <2>2
<1>3. PublishSucceeds(m) => accepted'[m.topic] = m.value
  BY <1>2 DEF PublishSucceeds
<1>4. CASE UNCHANGED accepted
  BY <1>3, <1>4
<1>5. CASE Environment \/ Handle
  BY <1>4, <1>5 DEF Environment, Handle, Subscribe, ConnectionLost, MessageArrived,
     SetValueHistory, LoadMappings, CurrentGrown, AddToHistory, SumNext, PutAverage,
     AverageGrown
<1>6. CASE Tasks
  <2>1. CASE \E n \in Mappings, round \in Rounds : Publish(n, round)
    BY <1>2, <1>3, <2>1
  <2> QED BY <1>4, <1>6, <2>1 DEF Tasks, Map, Evaluate, ReadAverage, ReadCurrent, PublishFails
<1> QED BY <1>4, <1>5, <1>6 DEF Next, vars

(* There are finitely many sensors: at some time the last map has grown.   *)
GrowthEnds == <>[](~Growing)

(* A mapping that stays configured is evaluated again and again, publishes *)
(* that are started again and again succeed again and again, and threads   *)
(* that are out of date, when no others become so, end.                    *)
EvaluationsRecur(m) == <>[](m \in mappingsConfig) => ~<>[][~EvaluationEnds(m)]_vars

PublishesSucceed(m) == <>[][~PublishSucceeds(m)]_vars => <>[][~PublishStarts(m)]_vars

StaleTasksEnd(m) == <>[][~StaleStarts(m)]_vars => []<>NoneStale(m)

(* StableDemandWins, without the fairness: the threads from before the     *)
(* demand was stable end, every later evaluation of the mapping starts a   *)
(* publish of its command, and no evaluation starts one of another command *)
(* for its topic, however they overlap.  That threads run and end and that *)
(* publishes get through is left to TLC.                                   *)
THEOREM DemandWins ==
    Spec /\ GrowthEnds
         /\ (\A m \in Mappings : EvaluationsRecur(m) /\ PublishesSucceed(m) /\ StaleTasksEnd(m))
      => StableDemandWins
<1> SUFFICES ASSUME NEW m \in Mappings
             PROVE  Spec /\ GrowthEnds
                    /\ EvaluationsRecur(m) /\ PublishesSucceed(m) /\ StaleTasksEnd(m) =>
                      (<>[]Demanded(m)
                        /\ <>[][UNCHANGED mappingsConfig /\ AveragesStay(m.topic)]_vars
                       => <>[](accepted[m.topic] = m.value))
  BY DEF StableDemandWins
<1> DEFINE Regime == Demanded(m)
           Configured == m \in mappingsConfig
           Fresh == NoneStale(m)
           Shown == accepted[m.topic] = m.value
<1>1. Regime => Configured
  BY DEF Demanded, IsFulfilledNow
<1>2. /\ IInv /\ [Next]_vars /\ [UNCHANGED mappingsConfig /\ AveragesStay(m.topic)]_vars
         /\ Regime /\ ~Growing
      => [~StaleStarts(m)]_vars
  BY NothingStaleStarts DEF IInv
<1>3. IInv /\ [~StaleStarts(m)]_vars /\ Fresh => Fresh'
  BY DEF vars, StaleStarts, NoneStale, Stale
<1>4. IInv /\ Regime /\ ~Growing /\ Fresh /\ [~PublishStarts(m)]_vars => [~EvaluationEnds(m)]_vars
  BY DemandIsPublished DEF IInv
<1>5. IInv /\ [Next]_vars /\ Fresh /\ Shown => Shown'
  BY OnlyCommandAccepted DEF IInv
<1>6. IInv /\ [Next]_vars /\ Fresh /\ ~Shown' => [~PublishSucceeds(m)]_vars
  BY OnlyCommandAccepted DEF IInv
<1>7. /\ NoneStale(m) => Fresh
      /\ Configured => m \in mappingsConfig
      /\ Demanded(m) => Regime
  OBVIOUS
<1> HIDE DEF Regime, Configured, Fresh, Shown
<1>8. Spec /\ GrowthEnds /\ EvaluationsRecur(m) /\ PublishesSucceed(m) /\ StaleTasksEnd(m) =>
        (<>[]Regime /\ <>[][UNCHANGED mappingsConfig /\ AveragesStay(m.topic)]_vars
          => <>[]Shown)
  BY <1>1, <1>2, <1>3, <1>4, <1>5, <1>6, <1>7, Invariance, PTL
     DEF Spec, GrowthEnds, EvaluationsRecur, PublishesSucceed, StaleTasksEnd
<1> QED BY <1>8 DEF Regime, Shown
===============================================================================
