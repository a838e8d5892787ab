---------------------------- MODULE NearbyDiscovery ----------------------------
(***************************************************************************)
(* Nearby discovery (BluetoothManager.startNearbyDiscovery and             *)
(* stopNearbyDiscovery): a thread that polls the devices and tells a       *)
(* listener of new ones, next to the scan of Discovery on the same         *)
(* adapter.  One field, nearbyThread, refers to the thread; nothing is     *)
(* locked, and the calls of start and stop come from one caller.           *)
(***************************************************************************)
EXTENDS Discovery

CONSTANTS
    Threads,        \* polling threads; one that has ended is used again
    None            \* no thread

ASSUME ThreadAssumption == None \notin Threads

VARIABLES
    caller,         \* where startNearbyDiscovery is
    nearbyThread,
    poller,         \* the locals of each polling thread
    filled          \* the devices that have manufacturer data

nearbyVars == <<caller, nearbyThread, poller, filled>>
scanVars == <<scanRetry, scannedDevices, step, turns>>
allVars == <<vars, nearbyVars>>

CallerSteps == {"idle", "removing", "starting", "spawning"}

Poller == [state : {"ended", "checking", "walking", "sleeping", "stopping"},
           interrupted : BOOLEAN,
           onlyManufacturerFilled : BOOLEAN,
           list : SUBSET Devices,         \* devices it has still to look at
           discovered : SUBSET Devices]   \* devices the listener was told of

Ended == [state |-> "ended", interrupted |-> FALSE, onlyManufacturerFilled |-> FALSE,
          list |-> {}, discovered |-> {}]

IsAlive(t) == t # None /\ poller[t].state # "ended"

NearbyInit ==
    /\ Init
    /\ caller = "idle"
    /\ nearbyThread = None
    /\ poller = [t \in Threads |-> Ended]
    /\ filled \in SUBSET Devices

-------------------------------------------------------------------------------
(* Mutant: a thread that has been interrupted counts as ended.             *)
StartNearbyUnlessInterrupted ==
    /\ caller = "idle"
    /\ IsAlive(nearbyThread) => poller[nearbyThread].interrupted
    /\ caller' = "removing"
    /\ UNCHANGED <<vars, nearbyThread, poller, filled>>

(* startNearbyDiscovery does nothing while the thread is alive, also when  *)
(* it has been told to stop.                                               *)
StartNearby ==
    /\ caller = "idle"
    /\ ~IsAlive(nearbyThread)
    /\ caller' = "removing"
    /\ UNCHANGED <<vars, nearbyThread, poller, filled>>

(* removeDevices takes one after the other away and may fail between two.  *)
RemoveDevices ==
    /\ caller = "removing"
    /\ \/ objects' = {} /\ caller' = "starting"
       \/ objects' \in SUBSET objects /\ caller' = "idle"
    /\ UNCHANGED <<scanVars, discovering, nearbyThread, poller, filled>>

(* startDiscovery, which throws when the adapter refuses: the devices are  *)
(* gone by then, and no thread is started.                                 *)
NearbyStartsDiscovery ==
    /\ caller = "starting"
    /\ \/ AdapterStarts /\ caller' = "spawning"
       \/ AdapterRefuses /\ caller' = "idle"
    /\ UNCHANGED <<scanVars, objects, nearbyThread, poller, filled>>

SpawnPoller(t) ==
    /\ caller = "spawning"
    /\ ~IsAlive(t)
    /\ \E onlyFilled \in BOOLEAN :
          poller' = [poller EXCEPT ![t] = [Ended EXCEPT !.state = "checking",
                                              !.onlyManufacturerFilled = onlyFilled]]
    /\ nearbyThread' = t
    /\ caller' = "idle"
    /\ UNCHANGED <<vars, filled>>

StopNearby ==
    /\ caller = "idle"
    /\ IsAlive(nearbyThread)
    /\ poller' = [poller EXCEPT ![nearbyThread].interrupted = TRUE]
    /\ UNCHANGED <<vars, caller, nearbyThread, filled>>

(* Advertisements bring manufacturer data, and an object that BlueZ makes  *)
(* anew has none.                                                          *)
ManufacturerData(d) ==
    /\ filled' = IF d \in filled THEN filled \ {d} ELSE filled \cup {d}
    /\ UNCHANGED <<vars, caller, nearbyThread, poller>>

-------------------------------------------------------------------------------
(* The polling thread: while (Thread.interrupted() == false) ...           *)
Check(t) ==
    /\ poller[t].state = "checking"
    /\ poller' = [poller EXCEPT ![t] =
          IF @.interrupted THEN [@ EXCEPT !.state = "stopping", !.interrupted = FALSE]
                           ELSE [@ EXCEPT !.state = "walking", !.list = objects]]
    /\ UNCHANGED <<vars, caller, nearbyThread, filled>>

(* Mutant: waits for manufacturer data whatever it was asked for.          *)
VisitFilled(t) ==
    /\ poller[t].state = "walking"
    /\ \E d \in poller[t].list :
          poller' = [poller EXCEPT
                        ![t].list = @ \ {d},
                        ![t].discovered = IF d \in filled THEN @ \cup {d} ELSE @]
    /\ UNCHANGED <<vars, caller, nearbyThread, filled>>

(* ... looks at each device and tells the listener of the new ones ...     *)
Visit(t) ==
    /\ poller[t].state = "walking"
    /\ \E d \in poller[t].list :
          poller' = [poller EXCEPT
                        ![t].list = @ \ {d},
                        ![t].discovered = IF poller[t].onlyManufacturerFilled => d \in filled
                                          THEN @ \cup {d} ELSE @]
    /\ UNCHANGED <<vars, caller, nearbyThread, filled>>

(* ... and sleeps for the polling rate.                                    *)
Rest(t) ==
    /\ poller[t].state = "walking"
    /\ poller[t].list = {}
    /\ poller' = [poller EXCEPT ![t].state = "sleeping"]
    /\ UNCHANGED <<vars, caller, nearbyThread, filled>>

(* Mutant: the loop catches the interruption of its sleep.                 *)
WakeSwallowing(t) ==
    /\ poller[t].state = "sleeping"
    /\ poller' = [poller EXCEPT ![t].state = "checking", ![t].interrupted = FALSE]
    /\ UNCHANGED <<vars, caller, nearbyThread, filled>>

(* sleep throws when the thread has been or is interrupted.                *)
Wake(t) ==
    /\ poller[t].state = "sleeping"
    /\ poller' = [poller EXCEPT ![t] =
          IF @.interrupted THEN [@ EXCEPT !.state = "stopping", !.interrupted = FALSE]
                           ELSE [@ EXCEPT !.state = "checking"]]
    /\ UNCHANGED <<vars, caller, nearbyThread, filled>>

(* stopDiscovery, which calls start_discovery, is the thread's last act.   *)
EndPoller(t) ==
    /\ poller[t].state = "stopping"
    /\ AdapterStarts \/ AdapterRefuses
    /\ poller' = [poller EXCEPT ![t] = Ended]
    /\ UNCHANGED <<scanVars, objects, caller, nearbyThread, filled>>

(* getDevices or a device's accessor throws a BluetoothException, which    *)
(* the thread does not catch: stopDiscovery is skipped.                    *)
PollerDies(t) ==
    /\ poller[t].state \in {"checking", "walking"}
    /\ poller' = [poller EXCEPT ![t] = Ended]
    /\ UNCHANGED <<vars, caller, nearbyThread, filled>>

-------------------------------------------------------------------------------
Poll(t) == Check(t) \/ Visit(t) \/ Rest(t) \/ Wake(t) \/ EndPoller(t)

NearbyNext ==
    \/ Next /\ UNCHANGED nearbyVars
    \/ StartNearby \/ RemoveDevices \/ NearbyStartsDiscovery \/ StopNearby
    \/ \E t \in Threads : SpawnPoller(t) \/ Poll(t) \/ PollerDies(t)
    \/ \E d \in Devices : ManufacturerData(d)

NearbySpec == NearbyInit /\ [][NearbyNext]_allVars

(* The scan as in Discovery; polling threads run.                          *)
NearbyFairSpec ==
    /\ NearbySpec
    /\ Fairness
    /\ \A t \in Threads : WF_allVars(Poll(t))

-------------------------------------------------------------------------------
(* Types of the caller's and the threads' locals.                          *)
NearbyTypeOK ==
    /\ TypeOK
    /\ caller \in CallerSteps
    /\ nearbyThread \in Threads \cup {None}
    /\ poller \in [Threads -> Poller]
    /\ filled \subseteq Devices

(* A polling thread is the one that nearbyThread refers to, which is how   *)
(* stopNearbyDiscovery reaches it: starting and stopping in any order      *)
(* leaves no thread behind that nobody can stop, and never two.            *)
PollerIsReachable == \A t \in Threads : IsAlive(t) => nearbyThread = t

(* A thread that has been interrupted, wherever it was, comes to its end.  *)
InterruptEndsPoller ==
    \A t \in Threads : poller[t].interrupted ~> ~IsAlive(t)

(* A device that stays, and has manufacturer data if that was asked for,   *)
(* is reported to the listener of a thread that goes on polling, whatever  *)
(* the hub's scan does to the adapter meanwhile.                           *)
NewDeviceIsReported ==
    \A t \in Threads, d \in Devices :
        <>[](/\ poller[t].state \in {"checking", "walking", "sleeping"}
             /\ ~poller[t].interrupted
             /\ d \in objects
             /\ poller[t].onlyManufacturerFilled => d \in filled)
            => <>(d \in poller[t].discovered)
===============================================================================
