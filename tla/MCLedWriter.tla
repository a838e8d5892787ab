------------------------------ MODULE MCLedWriter ------------------------------
(* The LED writer: an LED behind a malformed topic, with two threads that  *)
(* may write to it at a time.                                              *)
EXTENDS LedRegister

CONSTANT d1

Topic(segments, strip, led_) == [segments |-> segments, stripID |-> strip, ledID |-> led_]

T1 == Topic(5, "1", "1")
Malformed == Topic(4, "1", "")

MCActorConfigs == {<<[address |-> d1, strips |-> {[index |-> "1", leds |-> {"1"}]}]>>}

(* The LED's topic comes last in the map: it and the malformed one may be  *)
(* inserted, and make the table grow, while the walk is on its way to it.  *)
MCOrder == <<Malformed, T1>>

MCPayloads == {"0", "1"}
===============================================================================
