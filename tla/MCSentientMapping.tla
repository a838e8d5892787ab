-------------------------- MODULE MCSentientMapping --------------------------
(* The mapping engine on small instances: two sensors, a mapping of each   *)
(* kind, two contradictory commands for one LED topic.                     *)
EXTENDS SentientMapping

CONSTANTS s1, s2, led

MCReadings == {-2, 1}

MCIntHalf == 8

MCReadingLow == -2

MCHistorySizes == {-1, 0, 2}

OnBelow == [conditionType |-> "DYNAMIC_THRESHOLD", thresholdType |-> "BELOW_AVERAGE",
            checkerboardID |-> s1, threshold |-> 0, topic |-> led, value |-> "1"]

OffAbove == [conditionType |-> "DYNAMIC_THRESHOLD", thresholdType |-> "ABOVE_AVERAGE",
             checkerboardID |-> s1, threshold |-> 0, topic |-> led, value |-> "0"]

OffAbsolute == [conditionType |-> "ABSOLUTE_THRESHOLD", thresholdType |-> "ABOVE_AVERAGE",
                checkerboardID |-> s2, threshold |-> 0, topic |-> led, value |-> "0"]

MCConfigs == {{OnBelow, OffAbsolute}, {OffAbsolute}}

(* For the liveness run: "1" while the current value is positive, "0" only *)
(* when an evaluation sees a current value above an average of before.     *)
OnPositive == [conditionType |-> "ABSOLUTE_THRESHOLD", thresholdType |-> "ABOVE_AVERAGE",
               checkerboardID |-> s1, threshold |-> 0, topic |-> led, value |-> "1"]

LiveConfigs == {{OnPositive, OffAbove}}

LiveHistorySizes == {1}
===============================================================================
