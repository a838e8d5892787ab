------------------------------- MODULE Discovery -------------------------------
(***************************************************************************)
(* The scan for GATT devices: TinybController.scanDevices, called by       *)
(* GATTScanDevicesScheduledTask on the scheduler thread, over the          *)
(* discovery operations of the tinyb BluetoothManager and the BlueZ        *)
(* adapter behind it.                                                      *)
(***************************************************************************)
EXTENDS Integers, FiniteSets

CONSTANTS
    Devices,        \* addresses of devices in the neighbourhood
    ScanRetries     \* values SentientProperties.GATT_SCAN_RETRY may be given

ASSUME ScanAssumption == ScanRetries \subseteq Int /\ ScanRetries # {}

VARIABLES
    scanRetry,      \* SentientProperties.GATT_SCAN_RETRY
    discovering,    \* is the adapter's discovery turned on (for this client)?
    objects,        \* the devices BlueZ lists: manager.devices
    scannedDevices, \* TinybController.scannedDevices
    step,           \* where scanDevices is
    turns           \* how often it still has to sleep

vars == <<scanRetry, discovering, objects, scannedDevices, step, turns>>

Steps == {"idle", "sleeping", "stopping", "collecting"}

Init ==
    /\ scanRetry \in ScanRetries
    /\ discovering = FALSE
    /\ objects \in SUBSET Devices
    /\ scannedDevices = {}
    /\ step = "idle"
    /\ turns = 0

-------------------------------------------------------------------------------
(* The adapter.  StartDiscovery fails when the same client's discovery is  *)
(* already on (org.bluez.Error.InProgress).                                *)
AdapterStarts == ~discovering /\ discovering' = TRUE

AdapterRefuses == UNCHANGED discovering

DeviceAppears(d) ==
    /\ discovering
    /\ d \notin objects
    /\ objects' = objects \cup {d}
    /\ UNCHANGED <<scanRetry, discovering, scannedDevices, step, turns>>

DeviceExpires(d) ==
    /\ d \in objects
    /\ objects' = objects \ {d}
    /\ UNCHANGED <<scanRetry, discovering, scannedDevices, step, turns>>

(* The adapter is powered down and up, or bluetoothd restarts.             *)
AdapterResets ==
    /\ discovering
    /\ discovering' = FALSE
    /\ UNCHANGED <<scanRetry, objects, scannedDevices, step, turns>>

SetScanRetry(n) ==
    /\ scanRetry' = n
    /\ UNCHANGED <<discovering, objects, scannedDevices, step, turns>>

-------------------------------------------------------------------------------
(* Mutant: a negative number of turns.                                     *)
StartDiscoveryUnchecked ==
    /\ step = "idle"
    /\ AdapterStarts
    /\ step' = "sleeping"
    /\ turns' = scanRetry
    /\ UNCHANGED <<scanRetry, objects, scannedDevices>>

(* manager.startDiscovery() succeeds ...                                   *)
StartDiscovery ==
    /\ step = "idle"
    /\ AdapterStarts
    /\ step' = "sleeping"
    /\ turns' = IF scanRetry > 0 THEN scanRetry ELSE 0
    /\ UNCHANGED <<scanRetry, objects, scannedDevices>>

(* Mutant: a scan that fails also forgets the devices.                     *)
StartDiscoveryForgets ==
    /\ step = "idle"
    /\ AdapterRefuses
    /\ scannedDevices' = {}
    /\ UNCHANGED <<scanRetry, objects, step, turns>>

(* ... or throws: scanDevices returns an empty list and leaves             *)
(* scannedDevices as they are.                                             *)
StartDiscoveryThrows ==
    /\ step = "idle"
    /\ AdapterRefuses
    /\ UNCHANGED <<scanRetry, objects, scannedDevices, step, turns>>

(* One turn of the loop over 0 until GATT_SCAN_RETRY, a range computed     *)
(* once, or its end.                                                       *)
Sleep ==
    /\ step = "sleeping"
    /\ \/ turns > 0 /\ turns' = turns - 1 /\ UNCHANGED step
       \/ turns = 0 /\ step' = "stopping" /\ UNCHANGED turns
    /\ UNCHANGED <<scanRetry, discovering, objects, scannedDevices>>

(* manager.stopDiscovery(): the native function calls start_discovery.  An *)
(* exception is logged.                                                    *)
StopDiscovery ==
    /\ step = "stopping"
    /\ AdapterStarts \/ AdapterRefuses
    /\ step' = "collecting"
    /\ UNCHANGED <<scanRetry, objects, scannedDevices, turns>>

(* scannedDevices = manager.devices                                        *)
Collect ==
    /\ step = "collecting"
    /\ scannedDevices' = objects
    /\ step' = "idle"
    /\ UNCHANGED <<scanRetry, discovering, objects, turns>>

(* ... or it throws: the exception ends scanDevices.                       *)
CollectThrows ==
    /\ step = "collecting"
    /\ step' = "idle"
    /\ UNCHANGED <<scanRetry, discovering, objects, scannedDevices, turns>>

-------------------------------------------------------------------------------
ScanDevices ==
    \/ StartDiscovery \/ StartDiscoveryThrows
    \/ Sleep
    \/ StopDiscovery
    \/ Collect \/ CollectThrows

Next ==
    \/ ScanDevices
    \/ AdapterResets
    \/ \E d \in Devices : DeviceAppears(d) \/ DeviceExpires(d)
    \/ \E n \in ScanRetries : SetScanRetry(n)

Spec == Init /\ [][Next]_vars

(* The scheduler calls scanDevices again and again.  While its discovery   *)
(* is off, an adapter does not refuse to start one for ever, and BlueZ     *)
(* does not fail to list its devices for ever.                             *)
Fairness ==
    /\ WF_vars(Sleep) /\ WF_vars(StopDiscovery)
    /\ SF_vars(StartDiscovery) /\ SF_vars(Collect)

FairSpec == Spec /\ Fairness

-------------------------------------------------------------------------------
(* Type correctness of the scan and of what it has found.                  *)
TypeOK ==
    /\ scanRetry \in ScanRetries
    /\ discovering \in BOOLEAN
    /\ objects \subseteq Devices /\ scannedDevices \subseteq Devices
    /\ step \in Steps
    /\ turns \in Nat

(* A device that stays visible is found, and stays usable, provided        *)
(* something else turns the adapter's discovery off again and again while  *)
(* no scan runs: scanDevices itself never does, and a scan that cannot     *)
(* start discovery collects nothing.                                       *)
VisibleDeviceIsScanned ==
    \A d \in Devices :
        (<>[](d \in objects) /\ []<>(step = "idle" /\ ~discovering))
            => <>[](d \in scannedDevices)

(* The documentation of BluetoothManager.stopDiscovery: "Turns off device  *)
(* discovery on the default adapter if it is enabled".                     *)
StopTurnsDiscoveryOff ==
    [][ (step = "stopping" /\ step' = "collecting") => ~discovering' ]_vars
===============================================================================
