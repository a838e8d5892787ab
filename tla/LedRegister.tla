------------------------------ MODULE LedRegister ------------------------------
(***************************************************************************)
(* One topic of the LED writer and its device, as a latest-value register. *)
(***************************************************************************)
EXTENDS LedWriter

CONSTANTS
    LedTopic,       \* a topic
    LedDevice       \* the device that it, and nothing else, is written to

ASSUME RegisterAssumption ==
    /\ LedTopic \in Topics
    /\ LedDevice \in Devices
    /\ SoleWriter(LedTopic, LedDevice)

Register == INSTANCE LatestValue WITH
    Values <- ByteArrays, None <- Null,
    requested <- RequestedOf(LedTopic), inFlight <- InFlightOf(LedTopic),
    shown <- led[LedDevice]

(* A topic with a device of its own implements a latest-value register:    *)
(* the device only ever shows values the topic has carried, and every      *)
(* write on its way carries one of them (GATTWriteLEDScheduledTask.map and *)
(* GATTWriteSensorAsyncTask.run, with overlapping and failing writes).     *)
ImplementsLatestValue == Register!Spec
===============================================================================
