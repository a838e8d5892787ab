-------------------------------- MODULE MCTinyb --------------------------------
(***************************************************************************)
(* The two ways a program uses the tinyb bindings, looking objects up and  *)
(* accessing a property.  They share nothing but the program's thread: it  *)
(* does the one or the other.                                              *)
(***************************************************************************)
EXTENDS TinybObjects, TinybProperties

CONSTANTS hci, device, service, otherService, characteristic, descriptor, u1, u2

(* One object of each type, and a second service.                          *)
MCObjects == {hci, device, service, otherService, characteristic, descriptor}

MCTypeOf ==
    hci :> "ADAPTER" @@ device :> "DEVICE" @@ service :> "GATT_SERVICE"
    @@ otherService :> "GATT_SERVICE" @@ characteristic :> "GATT_CHARACTERISTIC"
    @@ descriptor :> "GATT_DESCRIPTOR"

MCParentOf ==
    hci :> Nothing @@ device :> hci @@ service :> device @@ otherService :> device
    @@ characteristic :> service @@ descriptor :> characteristic

(* The services, and the characteristic and its descriptor, differ in      *)
(* their identifiers.                                                      *)
MCIdentifierOf ==
    hci :> u1 @@ device :> u1 @@ service :> u1 @@ otherService :> u2
    @@ characteristic :> u1 @@ descriptor :> u2

(* No time, less than a millisecond, and a millisecond.                    *)
MCDurations == {0, 1, 2}

MCInit == Init /\ PropertiesInit

MCNext ==
    \/ property = NoValue /\ Next /\ UNCHANGED propertyVars
    \/ Init /\ PropertiesNext /\ UNCHANGED vars

MCSpec == MCInit /\ [][MCNext]_<<vars, propertyVars>> /\ Fairness
===============================================================================
