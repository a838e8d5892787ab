---------------------------- MODULE MCSensorReader ----------------------------
(* The sensor reader with two devices, the first of which may deliver an   *)
(* odd number of bytes, and with configurations that swap their sensors.   *)
EXTENDS SensorReader, TLC

CONSTANTS a, b, d1, d2

Sensor_(index, id) == [index |-> index, checkerboardID |-> id]

SensorDevice_(address, sensors) == [address |-> address, sensors |-> sensors]

Both == << SensorDevice_(d1, <<Sensor_(0, a)>>),
           SensorDevice_(d2, <<Sensor_(1, b)>>) >>

Swapped == << SensorDevice_(d2, <<Sensor_(0, a)>>) >>

MCSensorConfigs == {Both, Swapped}

MCRawValues == d1 :> {<<2>>, <<-3, 0, 7, 0>>} @@ d2 :> {<<4, 0, 0, -128>>}

MCConnectionRetries == {0, 1}

(* The sensor of a device behind one with an odd number of bytes, and a    *)
(* configuration without any: two publishes of the sensor overlap, and     *)
(* carry its value or the -1 of an unresolved characteristic.              *)
LiveConfigs == {<<SensorDevice_(d1, <<>>), SensorDevice_(d2, <<Sensor_(0, a)>>)>>, <<>>}

LiveRawValues == d1 :> {<<2>>} @@ d2 :> {<<2, 0>>}

PositiveRetries == {1}
===============================================================================
