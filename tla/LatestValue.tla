------------------------------ MODULE LatestValue ------------------------------
(***************************************************************************)
(* What an asynchronous writer that repeats the latest value promises: a   *)
(* register shows values that have been requested, out of date perhaps,    *)
(* and once the requests stop changing it shows the last one for good.     *)
(***************************************************************************)
CONSTANTS Values, None

VARIABLES
    requested,  \* the value the register should show; None before the first
    inFlight,   \* values on their way to the register
    shown       \* the value the register shows

vars == <<requested, inFlight, shown>>

Init ==
    /\ requested = None
    /\ inFlight = {}
    /\ shown = None

Request(v) ==
    /\ requested' = v
    /\ UNCHANGED <<inFlight, shown>>

Send ==
    /\ requested # None
    /\ inFlight' = inFlight \cup {requested}
    /\ UNCHANGED <<requested, shown>>

(* Another copy of the same value may still be on its way.                 *)
Arrive(v) ==
    /\ v \in inFlight
    /\ shown' = v
    /\ inFlight' \in {inFlight, inFlight \ {v}}
    /\ UNCHANGED requested

Lose(v) ==
    /\ inFlight' = inFlight \ {v}
    /\ UNCHANGED <<requested, shown>>

Next ==
    \/ \E v \in Values : Request(v)
    \/ Send
    \/ \E v \in Values : Arrive(v) \/ Lose(v)

Spec == Init /\ [][Next]_vars
===============================================================================
