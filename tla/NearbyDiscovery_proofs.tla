------------------------ MODULE NearbyDiscovery_proofs ------------------------
(***************************************************************************)
(* The polling threads of nearby discovery, next to the scan on the same   *)
(* adapter: types, and that the only thread alive can be stopped, for any  *)
(* devices, threads and values of GATT_SCAN_RETRY; what threads that move  *)
(* and scans that end achieve; and that nothing turns discovery off.       *)
(***************************************************************************)
EXTENDS NearbyDiscovery, TLAPS

(* Once startNearbyDiscovery has passed its check, no thread is alive.     *)
StartedAlone == caller # "idle" => \A t \in Threads : ~IsAlive(t)

IInv == NearbyTypeOK /\ PollerIsReachable /\ StartedAlone

-------------------------------------------------------------------------------
LEMMA EndedIsPoller ==
    /\ Ended \in Poller
    /\ \A onlyFilled \in BOOLEAN :
          [Ended EXCEPT !.state = "checking", !.onlyManufacturerFilled = onlyFilled] \in Poller
<1>1. Ended \in Poller
  BY DEF Ended, Poller
<1>2. ASSUME NEW onlyFilled \in BOOLEAN
      PROVE  [Ended EXCEPT !.state = "checking", !.onlyManufacturerFilled = onlyFilled] \in Poller
  BY DEF Ended, Poller
<1> QED BY <1>1, <1>2

LEMMA InitInv == NearbyInit => IInv
<1> SUFFICES ASSUME NearbyInit PROVE IInv
  OBVIOUS
<1>1. \A t \in Threads : poller[t] = Ended
  BY DEF NearbyInit
<1>2. \A t \in Threads : ~IsAlive(t)
  BY <1>1 DEF IsAlive, Ended
<1>3. TypeOK
  BY DEF NearbyInit, Init, TypeOK, Steps
<1>4. poller \in [Threads -> Poller]
  BY EndedIsPoller DEF NearbyInit
<1> QED BY <1>2, <1>3, <1>4 DEF NearbyInit, IInv, NearbyTypeOK, PollerIsReachable,
           StartedAlone, CallerSteps

(* The scan and the adapter leave nearby discovery alone.                  *)
LEMMA ScanTypes == TypeOK /\ [Next]_vars => TypeOK'
<1> SUFFICES ASSUME TypeOK, [Next]_vars PROVE TypeOK'
  OBVIOUS
<1> USE DEF TypeOK, Steps
<1>1. CASE StartDiscovery
  BY <1>1, ScanAssumption DEF StartDiscovery, AdapterStarts
<1>2. CASE StartDiscoveryThrows
  BY <1>2 DEF StartDiscoveryThrows, AdapterRefuses
<1>3. CASE Sleep
  BY <1>3 DEF Sleep
<1>4. CASE StopDiscovery
  BY <1>4 DEF StopDiscovery, AdapterStarts, AdapterRefuses
<1>5. CASE Collect \/ CollectThrows
  BY <1>5 DEF Collect, CollectThrows
<1>6. CASE AdapterResets
  BY <1>6 DEF AdapterResets
<1>7. ASSUME NEW d \in Devices, DeviceAppears(d) \/ DeviceExpires(d) PROVE TypeOK'
  BY <1>7 DEF DeviceAppears, DeviceExpires
<1>8. ASSUME NEW n \in ScanRetries, SetScanRetry(n) PROVE TypeOK'
  BY <1>8 DEF SetScanRetry
<1>9. CASE UNCHANGED vars
  BY <1>9 DEF vars
<1> QED BY <1>1, <1>2, <1>3, <1>4, <1>5, <1>6, <1>7, <1>8, <1>9 DEF Next, ScanDevices

(* A step of a thread that is alive changes that thread only.              *)
LEMMA PollerStepInv ==
    ASSUME IInv, TypeOK', NEW t \in Threads, IsAlive(t), NEW p \in Poller,
           poller' = [poller EXCEPT ![t] = p],
           UNCHANGED <<caller, nearbyThread, filled>>
    PROVE  IInv'
<1>1. poller' \in [Threads -> Poller]
  BY DEF IInv, NearbyTypeOK
<1>2. NearbyTypeOK'
  BY <1>1 DEF IInv, NearbyTypeOK
<1>3. \A u \in Threads : IsAlive(u)' => IsAlive(u)
  BY DEF IInv, NearbyTypeOK, IsAlive
<1> QED BY <1>2, <1>3 DEF IInv, PollerIsReachable, StartedAlone

(* What does not touch the threads, and starts nothing while one lives.    *)
LEMMA CallerStepInv ==
    ASSUME IInv, TypeOK', caller' \in CallerSteps,
           caller' # "idle" => \A t \in Threads : ~IsAlive(t),
           UNCHANGED <<poller, nearbyThread>>, filled' \subseteq Devices
    PROVE  IInv'
<1>1. \A t : IsAlive(t)' = IsAlive(t)
  BY DEF IsAlive
<1> QED BY <1>1 DEF IInv, NearbyTypeOK, PollerIsReachable, StartedAlone

-------------------------------------------------------------------------------
LEMMA NextInv == IInv /\ [NearbyNext]_allVars => IInv'
<1> SUFFICES ASSUME IInv, [NearbyNext]_allVars PROVE IInv'
  OBVIOUS
<1>1. /\ TypeOK /\ caller \in CallerSteps /\ filled \subseteq Devices
      /\ poller \in [Threads -> Poller] /\ nearbyThread \in Threads \cup {None}
  BY DEF IInv, NearbyTypeOK
<1>2. UNCHANGED vars => TypeOK'
  BY <1>1, ScanTypes
<1>3. CASE Next /\ UNCHANGED nearbyVars
  <2>1. TypeOK'
    BY <1>1, <1>3, ScanTypes
  <2> QED BY <1>1, <1>3, <2>1, CallerStepInv DEF nearbyVars, IInv, StartedAlone
<1>4. CASE StartNearby
  <2>1. \A t \in Threads : ~IsAlive(t)
    BY <1>4 DEF StartNearby, IInv, PollerIsReachable
  <2> QED BY <1>1, <1>2, <1>4, <2>1, CallerStepInv DEF StartNearby, CallerSteps
<1>5. CASE RemoveDevices
  <2>1. TypeOK'
    BY <1>1, <1>5 DEF RemoveDevices, scanVars, TypeOK
  <2> QED BY <1>1, <1>5, <2>1, CallerStepInv DEF RemoveDevices, CallerSteps, IInv, StartedAlone
<1>6. CASE NearbyStartsDiscovery
  <2>1. TypeOK'
    BY <1>1, <1>6 DEF NearbyStartsDiscovery, scanVars, TypeOK, AdapterStarts, AdapterRefuses
  <2> QED BY <1>1, <1>6, <2>1, CallerStepInv
          DEF NearbyStartsDiscovery, CallerSteps, IInv, StartedAlone
<1>7. CASE StopNearby
  <2>1. nearbyThread \in Threads /\ IsAlive(nearbyThread)
    BY <1>1, <1>7 DEF StopNearby, IsAlive
  <2>2. [poller[nearbyThread] EXCEPT !.interrupted = TRUE] \in Poller
    BY <1>1, <2>1 DEF Poller
  <2> QED BY <1>2, <1>7, <2>1, <2>2, PollerStepInv DEF StopNearby
<1>8. ASSUME NEW t \in Threads, SpawnPoller(t) PROVE IInv'
  <2>1. PICK onlyFilled \in BOOLEAN :
          poller' = [poller EXCEPT ![t] = [Ended EXCEPT !.state = "checking",
                                              !.onlyManufacturerFilled = onlyFilled]]
    BY <1>8 DEF SpawnPoller
  <2>2. poller' \in [Threads -> Poller]
    BY <1>1, <2>1, EndedIsPoller
  <2>3. NearbyTypeOK'
    BY <1>1, <1>2, <1>8, <2>2 DEF SpawnPoller, NearbyTypeOK, CallerSteps
  <2>4. \A u \in Threads \ {t} : ~IsAlive(u)'
    BY <1>1, <1>8, <2>1 DEF SpawnPoller, IInv, StartedAlone, IsAlive
  <2> QED BY <1>8, <2>3, <2>4 DEF SpawnPoller, IInv, PollerIsReachable, StartedAlone
<1>9. ASSUME NEW t \in Threads, Check(t) PROVE IInv'
  <2>1. PICK p \in Poller : poller' = [poller EXCEPT ![t] = p]
    <3>1. [poller[t] EXCEPT !.state = "stopping", !.interrupted = FALSE] \in Poller
      BY <1>1 DEF Poller
    <3>2. [poller[t] EXCEPT !.state = "walking", !.list = objects] \in Poller
      BY <1>1 DEF Poller, TypeOK
    <3> QED BY <1>9, <3>1, <3>2 DEF Check
  <2> QED BY <1>2, <1>9, <2>1, PollerStepInv, ThreadAssumption DEF Check, IsAlive
<1>10. ASSUME NEW t \in Threads, Visit(t) PROVE IInv'
  <2>1. PICK d \in poller[t].list :
          poller' = [poller EXCEPT
                        ![t].list = @ \ {d},
                        ![t].discovered = IF poller[t].onlyManufacturerFilled => d \in filled
                                          THEN @ \cup {d} ELSE @]
    BY <1>10 DEF Visit
  <2>2. [poller[t] EXCEPT !.list = @ \ {d},
                          !.discovered = IF poller[t].onlyManufacturerFilled => d \in filled
                                         THEN @ \cup {d} ELSE @] \in Poller
    BY <1>1 DEF Poller
  <2>3. PICK p \in Poller : poller' = [poller EXCEPT ![t] = p]
    BY <1>1, <2>1, <2>2
  <2> QED BY <1>2, <1>10, <2>3, PollerStepInv, ThreadAssumption DEF Visit, IsAlive
<1>11. ASSUME NEW t \in Threads, Rest(t) PROVE IInv'
  <2>1. [poller[t] EXCEPT !.state = "sleeping"] \in Poller
    BY <1>1 DEF Poller
  <2> QED BY <1>2, <1>11, <2>1, PollerStepInv, ThreadAssumption DEF Rest, IsAlive
<1>12. ASSUME NEW t \in Threads, Wake(t) PROVE IInv'
  <2>1. PICK p \in Poller : poller' = [poller EXCEPT ![t] = p]
    <3>1. [poller[t] EXCEPT !.state = "stopping", !.interrupted = FALSE] \in Poller
      BY <1>1 DEF Poller
    <3>2. [poller[t] EXCEPT !.state = "checking"] \in Poller
      BY <1>1 DEF Poller
    <3> QED BY <1>12, <3>1, <3>2 DEF Wake
  <2> QED BY <1>2, <1>12, <2>1, PollerStepInv, ThreadAssumption DEF Wake, IsAlive
<1>13. ASSUME NEW t \in Threads, EndPoller(t) PROVE IInv'
  <2>1. TypeOK'
    BY <1>1, <1>13 DEF EndPoller, scanVars, TypeOK, AdapterStarts, AdapterRefuses
  <2> QED BY <1>13, <2>1, EndedIsPoller, PollerStepInv, ThreadAssumption
          DEF EndPoller, IsAlive
<1>14. ASSUME NEW t \in Threads, PollerDies(t) PROVE IInv'
  BY <1>2, <1>14, EndedIsPoller, PollerStepInv, ThreadAssumption DEF PollerDies, IsAlive
<1>15. ASSUME NEW d \in Devices, ManufacturerData(d) PROVE IInv'
  BY <1>1, <1>2, <1>15, CallerStepInv DEF ManufacturerData, IInv, StartedAlone
<1>16. CASE UNCHANGED allVars
  BY <1>1, <1>2, <1>16, CallerStepInv DEF allVars, nearbyVars, IInv, StartedAlone
<1> QED BY <1>3, <1>4, <1>5, <1>6, <1>7, <1>8, <1>9, <1>10, <1>11, <1>12, <1>13, <1>14,
           <1>15, <1>16 DEF NearbyNext, Poll

LEMMA Invariance == NearbySpec => []IInv
  BY InitInv, NextInv, PTL DEF NearbySpec

(* The locals of scanDevices and of the polling threads keep their types.  *)
THEOREM TypeCorrect == NearbySpec => []NearbyTypeOK
<1>1. IInv => NearbyTypeOK
  BY DEF IInv
<1> QED BY <1>1, Invariance, PTL

(* Whatever startNearbyDiscovery and stopNearbyDiscovery are called for,   *)
(* by one caller, the only polling thread is the one they know.            *)
THEOREM OnePoller == NearbySpec => []PollerIsReachable
<1>1. IInv => PollerIsReachable
  BY DEF IInv
<1> QED BY <1>1, Invariance, PTL
-------------------------------------------------------------------------------
(* Liveness, up to the scheduling of the threads.                          *)

(* Where a polling thread is.                                              *)
At(t, state) == poller[t].state = state

(* A polling thread never rests in one place of its loop for ever: it is   *)
(* scheduled, and no list of devices is endless.                           *)
Moves(t) ==
    /\ []<>~At(t, "checking")
    /\ []<>~At(t, "walking")
    /\ []<>~At(t, "sleeping")
    /\ []<>~At(t, "stopping")

(* What one step, of whomever, does to a thread: nothing, the interrupt of *)
(* a living one, the start of a dead one, or a step of its own.            *)
LEMMA ThreadStep ==
    ASSUME IInv, [NearbyNext]_allVars, NEW t \in Threads, IsAlive(t)
    PROVE  \/ poller'[t] = poller[t]
           \/ poller'[t] = [poller[t] EXCEPT !.interrupted = TRUE]
           \/ Poll(t) \/ PollerDies(t)
<1>1. poller \in [Threads -> Poller]
  BY DEF IInv, NearbyTypeOK
<1>2. CASE UNCHANGED poller
  BY <1>2
<1>3. CASE StopNearby
  BY <1>1, <1>3 DEF StopNearby
<1>4. ASSUME NEW u \in Threads, SpawnPoller(u) \/ Poll(u) \/ PollerDies(u), u # t
      PROVE  poller'[t] = poller[t]
  <2>1. CASE SpawnPoller(u)
    BY <1>1, <1>4, <2>1 DEF SpawnPoller
  <2>2. CASE Check(u)
    BY <1>1, <1>4, <2>2 DEF Check
  <2>3. CASE Visit(u)
    BY <1>1, <1>4, <2>3 DEF Visit
  <2>4. CASE Rest(u) \/ Wake(u)
    BY <1>1, <1>4, <2>4 DEF Rest, Wake
  <2>5. CASE EndPoller(u) \/ PollerDies(u)
    BY <1>1, <1>4, <2>5 DEF EndPoller, PollerDies
  <2> QED BY <1>4, <2>1, <2>2, <2>3, <2>4, <2>5 DEF Poll
<1>5. ~SpawnPoller(t)
  BY DEF SpawnPoller
<1> QED BY <1>2, <1>3, <1>4, <1>5
        DEF NearbyNext, nearbyVars, allVars, StartNearby, RemoveDevices,
            NearbyStartsDiscovery, ManufacturerData

(* An interrupted thread goes on to its end: it may be told in any place   *)
(* of the loop, and every place leads to one that looks at the flag.       *)
LEMMA InterruptIsSeen ==
    ASSUME IInv, [NearbyNext]_allVars, NEW t \in Threads
    PROVE  LET state == poller[t].state
               next == poller'[t].state
           IN  /\ poller[t].interrupted =>
                    /\ state = "checking" =>
                          (next = "checking" /\ poller'[t].interrupted)
                          \/ next = "stopping" \/ ~IsAlive(t)'
                    /\ state = "walking" =>
                          (next \in {"walking", "sleeping"} /\ poller'[t].interrupted)
                          \/ ~IsAlive(t)'
                    /\ state = "sleeping" =>
                          (next = "sleeping" /\ poller'[t].interrupted)
                          \/ next = "stopping"
               /\ state = "stopping" => next = "stopping" \/ ~IsAlive(t)'
<1>1. poller \in [Threads -> Poller]
  BY DEF IInv, NearbyTypeOK
<1>2. CASE ~IsAlive(t)
  BY <1>2, ThreadAssumption DEF IsAlive
<1>3. CASE /\ IsAlive(t)
           /\ poller'[t] \in {poller[t], [poller[t] EXCEPT !.interrupted = TRUE]}
  BY <1>1, <1>3 DEF Poller
<1>4. CASE Check(t)
  BY <1>1, <1>4 DEF Check, Poller
<1>5. CASE Visit(t)
  BY <1>1, <1>5 DEF Visit, Poller
<1>6. CASE Rest(t)
  BY <1>1, <1>6 DEF Rest, Poller
<1>7. CASE Wake(t)
  BY <1>1, <1>7 DEF Wake, Poller
<1>8. CASE EndPoller(t) \/ PollerDies(t)
  BY <1>1, <1>8 DEF EndPoller, PollerDies, Ended, IsAlive
<1> QED BY <1>2, <1>3, <1>4, <1>5, <1>6, <1>7, <1>8, ThreadStep DEF Poll

(* InterruptEndsPoller, without the fairness: wherever the interruption    *)
(* reaches a thread - about to sleep, asleep, among the devices or already *)
(* stopping - the thread ends, if it moves at all.                         *)
THEOREM InterruptReachesEnd ==
    NearbySpec /\ (\A t \in Threads : Moves(t)) => InterruptEndsPoller
<1> SUFFICES ASSUME NEW t \in Threads
             PROVE  NearbySpec /\ Moves(t) => (poller[t].interrupted ~> ~IsAlive(t))
  BY DEF InterruptEndsPoller
<1> DEFINE Interrupted == poller[t].interrupted
<1>1. IInv /\ [NearbyNext]_allVars /\ Interrupted /\ At(t, "checking")
        => (At(t, "checking") /\ Interrupted)' \/ At(t, "stopping")' \/ (~IsAlive(t))'
  BY InterruptIsSeen DEF At
<1>2. IInv /\ [NearbyNext]_allVars /\ Interrupted /\ At(t, "walking")
        => ((At(t, "walking") \/ At(t, "sleeping")) /\ Interrupted)' \/ (~IsAlive(t))'
  BY InterruptIsSeen DEF At
<1>3. IInv /\ [NearbyNext]_allVars /\ Interrupted /\ At(t, "sleeping")
        => (At(t, "sleeping") /\ Interrupted)' \/ At(t, "stopping")'
  BY InterruptIsSeen DEF At
<1>4. IInv /\ [NearbyNext]_allVars /\ At(t, "stopping") => At(t, "stopping")' \/ (~IsAlive(t))'
  BY InterruptIsSeen DEF At
<1>5. IInv => \/ At(t, "checking") \/ At(t, "walking") \/ At(t, "sleeping") \/ At(t, "stopping")
              \/ ~IsAlive(t)
  BY DEF IInv, NearbyTypeOK, Poller, IsAlive, At
<1> HIDE DEF Interrupted
<1>6. NearbySpec /\ Moves(t) => (Interrupted ~> ~IsAlive(t))
  BY <1>1, <1>2, <1>3, <1>4, <1>5, Invariance, PTL DEF NearbySpec, Moves
<1> QED BY <1>6 DEF Interrupted

(* A thread that goes on polling, for a device that is there to be         *)
(* reported.                                                               *)
Reportable(t, d) ==
    /\ poller[t].state \in {"checking", "walking", "sleeping"}
    /\ ~poller[t].interrupted
    /\ d \in objects
    /\ poller[t].onlyManufacturerFilled => d \in filled

(* One turn of the loop, for a device that stays reportable: the list that *)
(* is taken holds it, and it leaves that list only by being reported.      *)
LEMMA TurnReports ==
    ASSUME IInv, [NearbyNext]_allVars, NEW t \in Threads, NEW d \in Devices,
           Reportable(t, d), Reportable(t, d)'
    PROVE  LET pending == poller[t].state = "walking" /\ d \in poller[t].list
           IN  /\ poller[t].state = "checking" =>
                    poller'[t].state = "checking" \/ pending'
               /\ poller[t].state = "sleeping" => poller'[t].state \in {"sleeping", "checking"}
               /\ poller[t].state = "walking" => poller'[t].state \in {"walking", "sleeping"}
               /\ pending => pending' \/ d \in poller'[t].discovered
<1>1. poller \in [Threads -> Poller] /\ IsAlive(t)
  BY ThreadAssumption DEF IInv, NearbyTypeOK, Reportable, IsAlive
<1>2. CASE poller'[t] \in {poller[t], [poller[t] EXCEPT !.interrupted = TRUE]}
  BY <1>1, <1>2 DEF Poller
<1>3. CASE Check(t)
  BY <1>1, <1>3 DEF Check, Poller, Reportable
<1>4. CASE Visit(t)
  <2>1. PICK seen \in poller[t].list :
          poller' = [poller EXCEPT
                        ![t].list = @ \ {seen},
                        ![t].discovered = IF poller[t].onlyManufacturerFilled => seen \in filled
                                          THEN @ \cup {seen} ELSE @]
    BY <1>4 DEF Visit
  <2>2. /\ poller'[t].state = "walking" /\ poller[t].state = "walking"
        /\ poller'[t].list = poller[t].list \ {seen}
        /\ (poller[t].onlyManufacturerFilled => seen \in filled)
              => seen \in poller'[t].discovered
    BY <1>1, <1>4, <2>1 DEF Visit, Poller
  <2> QED BY <2>2 DEF Reportable
<1>5. CASE Rest(t)
  BY <1>1, <1>5 DEF Rest, Poller
<1>6. CASE Wake(t)
  BY <1>1, <1>6 DEF Wake, Poller, Reportable
<1>7. CASE EndPoller(t) \/ PollerDies(t)
  BY <1>1, <1>7 DEF EndPoller, PollerDies, Ended, Reportable
<1> QED BY <1>1, <1>2, <1>3, <1>4, <1>5, <1>6, <1>7, ThreadStep DEF Poll

(* NewDeviceIsReported, without the fairness: a thread that moves takes a  *)
(* new list in every turn and walks it to its end, so that it reports      *)
(* every device that stays, whatever the scan does to the adapter.         *)
THEOREM EveryDeviceReported ==
    NearbySpec /\ (\A t \in Threads : Moves(t)) => NewDeviceIsReported
<1> SUFFICES ASSUME NEW t \in Threads, NEW d \in Devices
             PROVE  NearbySpec /\ Moves(t) =>
                       (<>[]Reportable(t, d) => <>(d \in poller[t].discovered))
  BY DEF NewDeviceIsReported, Reportable
<1> DEFINE Pending == poller[t].state = "walking" /\ d \in poller[t].list
           Regime == Reportable(t, d)
           Reported == d \in poller[t].discovered
<1>1. IInv /\ [NearbyNext]_allVars /\ Regime /\ Regime' /\ At(t, "checking")
        => At(t, "checking")' \/ Pending'
  BY TurnReports DEF At
<1>2. IInv /\ [NearbyNext]_allVars /\ Regime /\ Regime' /\ At(t, "sleeping")
        => At(t, "sleeping")' \/ At(t, "checking")'
  BY TurnReports DEF At
<1>3. IInv /\ [NearbyNext]_allVars /\ Regime /\ Regime' /\ At(t, "walking")
        => At(t, "walking")' \/ At(t, "sleeping")'
  BY TurnReports DEF At
<1>4. IInv /\ [NearbyNext]_allVars /\ Regime /\ Regime' /\ Pending => Pending' \/ Reported'
  BY TurnReports
<1>5. Regime => At(t, "checking") \/ At(t, "walking") \/ At(t, "sleeping")
  BY DEF Reportable, At
<1>6. Pending => At(t, "walking")
  BY DEF At
<1> HIDE DEF Pending, Regime, Reported
<1>7. NearbySpec /\ Moves(t) => (<>[]Regime => <>Reported)
  BY <1>1, <1>2, <1>3, <1>4, <1>5, <1>6, Invariance, PTL DEF NearbySpec, Moves
<1> QED BY <1>7 DEF Regime, Reported

(* A scan comes to collect when discovery can be turned on again and again *)
(* while no scan runs, and one that comes to collect again and again does  *)
(* not fail to for ever.                                                   *)
ScansComplete ==
    /\ []<>(step = "idle" /\ ~discovering) => []<>(step = "collecting")
    /\ []<>(step = "collecting") => ~<>[][~Collect]_allVars

LEMMA ScanFinds ==
    ASSUME [NearbyNext]_allVars, NEW d \in Devices, d \in objects
    PROVE  /\ Collect => d \in scannedDevices'
           /\ d \in scannedDevices => d \in scannedDevices'
<1>1. Collect => d \in scannedDevices'
  BY DEF Collect
<1>2. CASE Next
  <2>1. CASE StartDiscovery \/ StartDiscoveryThrows \/ Sleep \/ StopDiscovery \/ CollectThrows
    BY <1>1, <2>1 DEF StartDiscovery, StartDiscoveryThrows, Sleep, StopDiscovery, CollectThrows
  <2>2. CASE ~ScanDevices
    BY <1>1, <1>2, <2>2 DEF Next, AdapterResets, DeviceAppears, DeviceExpires, SetScanRetry
  <2> QED BY <1>1, <2>1, <2>2 DEF ScanDevices
<1>3. CASE UNCHANGED scanVars \/ UNCHANGED vars
  BY <1>1, <1>3 DEF scanVars, vars
<1> QED BY <1>2, <1>3
        DEF NearbyNext, allVars, StartNearby, RemoveDevices, NearbyStartsDiscovery, StopNearby,
            SpawnPoller, Poll, Check, Visit, Rest, Wake, EndPoller, PollerDies, ManufacturerData

(* VisibleDeviceIsScanned, without the fairness: a device that stays       *)
(* visible is in what every scan collects, and no failing scan and nothing *)
(* that nearby discovery does takes it away again.                         *)
THEOREM VisibleDeviceFound == NearbySpec /\ ScansComplete => VisibleDeviceIsScanned
<1> SUFFICES ASSUME NEW d \in Devices
             PROVE  NearbySpec /\ ScansComplete =>
                       (<>[](d \in objects) /\ []<>(step = "idle" /\ ~discovering)
                           => <>[](d \in scannedDevices))
  BY DEF VisibleDeviceIsScanned
<1> DEFINE Visible == d \in objects
           Scanned == d \in scannedDevices
<1>1. [NearbyNext]_allVars /\ Visible /\ ~[~Collect]_allVars => Scanned'
  BY ScanFinds
<1>2. [NearbyNext]_allVars /\ Visible /\ Scanned => Scanned'
  BY ScanFinds
<1> HIDE DEF Visible, Scanned
<1>3. NearbySpec /\ ScansComplete =>
        (<>[]Visible /\ []<>(step = "idle" /\ ~discovering) => <>[]Scanned)
  BY <1>1, <1>2, PTL DEF NearbySpec, ScansComplete
<1> QED BY <1>3 DEF Visible, Scanned
-------------------------------------------------------------------------------
(* Nothing the program does turns discovery off, neither stopDiscovery nor *)
(* what it is called for: only a reset of the adapter does.                *)
OnlyResetTurnsOff == [][discovering /\ ~discovering' => AdapterResets]_allVars

(* The extent of what the discovery_stop run finds: the native             *)
(* stopDiscovery is not one that fails at times, it never stops.           *)
THEOREM StopNeverStops == NearbySpec => OnlyResetTurnsOff
<1>1. ASSUME NearbyNext, discovering, ~discovering' PROVE AdapterResets
  <2>1. CASE Next
    BY <1>1, <2>1 DEF Next, ScanDevices, StartDiscovery, StartDiscoveryThrows, Sleep,
         StopDiscovery, Collect, CollectThrows, AdapterStarts, AdapterRefuses, DeviceAppears,
         DeviceExpires, SetScanRetry
  <2>2. CASE NearbyStartsDiscovery \/ \E t \in Threads : EndPoller(t)
    BY <1>1, <2>2 DEF NearbyStartsDiscovery, EndPoller, AdapterStarts, AdapterRefuses
  <2>3. ~UNCHANGED discovering
    BY <1>1
  <2> QED BY <1>1, <2>1, <2>2, <2>3
          DEF NearbyNext, StartNearby, RemoveDevices, StopNearby, SpawnPoller, Poll, Check, Visit,
              Rest, Wake, PollerDies, ManufacturerData, vars
<1> QED BY <1>1, PTL DEF NearbySpec, OnlyResetTurnsOff
===============================================================================
