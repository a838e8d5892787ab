------------------------------ MODULE Conditions ------------------------------
(***************************************************************************)
(* The arithmetic of the mapping engine: 32-bit JVM integers, the two      *)
(* kinds of threshold condition and the mappings built from them.          *)
(*                                                                         *)
(* A payload is the text of an MQTT message.  All the program does with it *)
(* is toInt / toIntOrNull, so a payload is the integer it denotes, or      *)
(* Garbage when it denotes none.  Null is the Kotlin null.                 *)
(***************************************************************************)
EXTENDS Integers

CONSTANTS
    IntHalf,    \* 2^31 in the JVM: an Int is in -IntHalf .. IntHalf-1
    Garbage,    \* a payload that is not the text of an Int
    Null        \* Kotlin null: no entry in a map, or toIntOrNull failed

ASSUME IntHalfAssumption == IntHalf \in Nat \ {0}

JInt == -IntHalf .. IntHalf - 1

ASSUME PayloadAssumption == Garbage \notin Int /\ Null \notin Int /\ Null # Garbage

-------------------------------------------------------------------------------
(* Int addition and subtraction wrap around; Int division truncates        *)
(* towards zero, where \div rounds down.                                   *)

Wrap(x) == ((x + IntHalf) % (2 * IntHalf)) - IntHalf

(* Mutants: division that rounds down, and by one too few.                 *)
FloorQuotient(a, n) == a \div n

QuotientByOneLess(a, n) == IF n > 1 THEN a \div (n - 1) ELSE a

Quotient(a, n) == IF a >= 0 THEN a \div n ELSE -((-a) \div n)

(* Mutant: what has no value counts as zero.                               *)
ToIntOrZero(payload) == IF payload \in {Garbage, Null} THEN 0 ELSE payload

(* String.toIntOrNull of a map entry that may be missing.                  *)
ToIntOrNull(payload) == IF payload = Garbage THEN Null ELSE payload

-------------------------------------------------------------------------------
ConditionType == {"ABSOLUTE_THRESHOLD", "DYNAMIC_THRESHOLD"}

EThresholdType == {"ABOVE_AVERAGE", "BELOW_AVERAGE"}

(* AbsoluteThresholdCondition.isFulfilled *)
AbsoluteFulfilled(threshold, current) ==
    /\ current # Null
    /\ current > threshold

(* DynamicThresholdCondition.isFulfilled *)
DynamicFulfilled(thresholdType, threshold, average, current) ==
    /\ current # Null
    /\ average # Null
    /\ \/ /\ thresholdType = "ABOVE_AVERAGE"
          /\ current > Wrap(average + threshold)
       \/ /\ thresholdType = "BELOW_AVERAGE"
          /\ current < Wrap(average - threshold)

IsDynamic(mapping) == mapping.conditionType = "DYNAMIC_THRESHOLD"

(* What SentientMappingEvaluationAsyncTask.run computes from the entries   *)
(* it read: the average plays no part in an absolute condition.            *)
IsFulfilled(mapping, average, current) ==
    IF IsDynamic(mapping)
    THEN DynamicFulfilled(mapping.thresholdType, mapping.threshold,
                          ToIntOrNull(average), ToIntOrNull(current))
    ELSE AbsoluteFulfilled(mapping.threshold, ToIntOrNull(current))

(* A mapping of the configuration: its condition and its action.  The      *)
(* action's stripID and ledID only name an MQTT topic.                     *)
MappingOver(sensors, topics, commands) ==
    [conditionType : ConditionType, thresholdType : EThresholdType,
     checkerboardID : sensors, threshold : JInt,
     topic : topics, value : commands]
===============================================================================
