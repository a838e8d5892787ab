-------------------------- MODULE SensorReader_proofs --------------------------
(***************************************************************************)
(* The safety of the sensor reader, for every set of devices, sensors,     *)
(* configurations and values; that a round only advances; and what comes   *)
(* of rounds that end and of devices and a broker that answer.             *)
(***************************************************************************)
EXTENDS SensorReader, TLAPS, FiniteSetTheorems

(* Inside a device the round's position is one of the configuration it     *)
(* started with; what has been parsed comes from the device it is at.      *)
ReaderInv ==
    /\ reader.step \notin {"idle", "device"} => reader.pos <= Len(reader.intended)
    /\ reader.step # "publish" => reader.parsed = <<>>
    /\ reader.step = "publish" =>
          \/ reader.parsed = <<>>
          \/ \E raw \in RawValues[Intended.address] :
                ~IsOdd(raw) /\ reader.parsed = Parse(raw)

TypeInv == TypeOK /\ ReaderInv

IInv == TypeInv /\ ReadingComesFromItsSensor

-------------------------------------------------------------------------------
(* Two bytes are a short, ...                                              *)
LEMMA LittleEndianType ==
    ASSUME NEW low \in JByte, NEW high \in JByte
    PROVE  LittleEndian(low, high) \in JShort
<1>1. low \in Int /\ high \in Int /\ -128 <= high /\ high <= 127
  BY DEF JByte
<1> DEFINE r == low % 256
<1>2. r \in Int /\ 0 <= r /\ r <= 255
  BY <1>1
<1>3. LittleEndian(low, high) = 256 * high + r
  BY DEF LittleEndian
<1>4. ASSUME NEW h \in Int, NEW l \in Int, -128 <= h, h <= 127, 0 <= l, l <= 255
      PROVE  /\ 256 * h + l \in Int
             /\ -32768 <= 256 * h + l
             /\ 256 * h + l <= 32767
  <2>1. 256 * h + l \in Int
    OBVIOUS
  <2>2. -32768 <= 256 * h + l
    BY <1>4
  <2>3. 256 * h + l <= 32767
    BY <1>4
  <2> QED BY <2>1, <2>2, <2>3
<1> DEFINE short == 256 * high + r
<1>5. short \in Int /\ -ShortHalf <= short /\ short <= ShortHalf - 1
  BY <1>1, <1>2, <1>4 DEF ShortHalf
<1>6. ShortHalf \in Int
  BY DEF ShortHalf
<1> HIDE DEF short
<1>7. short \in JShort
  BY <1>5, <1>6 DEF JShort
<1> QED BY <1>3, <1>7 DEF short

(* ... an even number of bytes is a sequence of shorts, ...                *)
LEMMA ParseType ==
    ASSUME NEW raw \in Seq(JByte), ~IsOdd(raw)
    PROVE  Parse(raw) \in Seq(JShort)
<1> DEFINE n == Len(raw) \div 2
<1>1. Len(raw) \in Nat /\ n \in Nat /\ Len(raw) = 2 * n
  BY DEF IsOdd
<1>2. ASSUME NEW i \in 1 .. n
      PROVE  LittleEndian(raw[2 * i - 1], raw[2 * i]) \in JShort
  <2>1. 2 * i - 1 \in 1 .. Len(raw) /\ 2 * i \in 1 .. Len(raw)
    BY <1>1, <1>2
  <2>2. raw[2 * i - 1] \in JByte /\ raw[2 * i] \in JByte
    BY <2>1
  <2> QED BY <2>2, LittleEndianType
<1>3. Parse(raw) \in [1 .. n -> JShort]
  BY <1>2 DEF Parse
<1> QED BY <1>1, <1>3

(* ... and a sensor's reading is one of them, or -1.                       *)
LEMMA ReadingType ==
    ASSUME NEW parsed \in Seq(JShort), NEW index \in Int
    PROVE  Reading(parsed, index) \in JShort
<1>1. CASE index + 1 \in DOMAIN parsed
  BY <1>1 DEF Reading
<1>2. CASE index + 1 \notin DOMAIN parsed
  <2>1. -1 \in JShort
    <3>1. ShortHalf \in Int /\ ShortHalf >= 1
      BY DEF ShortHalf
    <3> QED BY <3>1 DEF JShort
  <2> QED BY <1>2, <2>1 DEF Reading
<1> QED BY <1>1, <1>2

(* The device a round is at, and the sensor it publishes next.             *)
LEMMA IntendedType ==
    ASSUME TypeOK, reader.pos <= Len(reader.intended)
    PROVE  /\ reader.intended \in SensorConfigs
           /\ reader.pos \in DOMAIN reader.intended
           /\ Intended \in SensorDevice
           /\ Intended \in SensorDevices
<1>1. reader.intended \in SensorConfigs \cup {<<>>} /\ reader.pos \in Nat \ {0}
  BY DEF TypeOK, ReaderType
<1>2. reader.intended # <<>>
  BY <1>1
<1>3. reader.intended \in SensorConfigs /\ reader.intended \in Seq(SensorDevice)
  BY <1>1, <1>2, ReaderAssumption
<1>4. reader.pos \in 1 .. Len(reader.intended) /\ reader.pos \in DOMAIN reader.intended
  BY <1>1, <1>3
<1>5. Intended \in SensorDevice
  BY <1>3, <1>4 DEF Intended
<1>6. Intended \in SensorDevices
  BY <1>3, <1>4 DEF Intended, SensorDevices
<1> QED BY <1>3, <1>4, <1>5, <1>6

-------------------------------------------------------------------------------
LEMMA InitInv == Init => IInv
<1> SUFFICES ASSUME Init PROVE IInv
  OBVIOUS
<1>1. Idle \in ReaderType
  BY DEF Idle, ReaderType, Steps
<1>2. TypeOK
  BY <1>1 DEF Init, TypeOK, OptionalReading
<1>3. ReaderInv
  BY DEF Init, Idle, ReaderInv
<1>4. ReadingComesFromItsSensor
  BY DEF Init, ReadingComesFromItsSensor
<1> QED BY <1>2, <1>3, <1>4 DEF IInv, TypeInv

LEMMA SkipDeviceType ==
    ASSUME TypeInv, SkipDevice
    PROVE  TypeInv'
<1>1. reader' \in ReaderType
  <2>1. reader.intended \in SensorConfigs \cup {<<>>} /\ reader.pos + 1 \in Nat \ {0}
    BY DEF TypeInv, TypeOK, ReaderType
  <2>2. reader' = [step |-> "device", intended |-> reader.intended, pos |-> reader.pos + 1,
                   retries |-> 0, parsed |-> <<>>, next |-> 1]
    BY DEF SkipDevice, Idle
  <2> QED BY <2>1, <2>2 DEF ReaderType, Steps
<1>2. reader'.step = "device" /\ reader'.parsed = <<>>
  BY DEF SkipDevice, Idle
<1> QED BY <1>1, <1>2 DEF SkipDevice, settings, TypeInv, TypeOK, ReaderInv

LEMMA NextType == TypeInv /\ [Next]_vars => TypeInv'
<1> SUFFICES ASSUME TypeInv, [Next]_vars PROVE TypeInv'
  OBVIOUS
<1> USE DEF TypeInv
<1>1. CASE UNCHANGED vars
  BY <1>1 DEF vars, TypeOK, ReaderInv, Intended
<1>2. ASSUME NEW devices \in SUBSET Devices, Scan(devices) PROVE TypeInv'
  BY <1>2 DEF Scan, TypeOK, ReaderInv, Intended
<1>3. ASSUME NEW n \in ConnectionRetries, SetConnectionRetry(n) PROVE TypeInv'
  BY <1>3 DEF SetConnectionRetry, TypeOK, ReaderInv, Intended
<1>4. ASSUME NEW c \in SensorConfigs, LoadSensors(c) PROVE TypeInv'
  BY <1>4 DEF LoadSensors, TypeOK, ReaderInv, Intended
<1>5. ASSUME NEW d \in Devices, NEW raw \in RawValues[d] \cup {Null}, ValueChanges(d, raw)
      PROVE  TypeInv'
  BY <1>5 DEF ValueChanges, TypeOK, ReaderInv, Intended
<1>6. CASE ReadSensor
  <2>1. reader' \in ReaderType
    <3>1. reader' = [step |-> "device", intended |-> sensorsConfig, pos |-> 1,
                     retries |-> 0, parsed |-> <<>>, next |-> 1]
      BY <1>6 DEF ReadSensor, Idle
    <3> QED BY <3>1 DEF TypeOK, ReaderType, Steps
  <2>2. reader'.step = "device" /\ reader'.parsed = <<>>
    BY <1>6 DEF ReadSensor, Idle
  <2> QED BY <1>6, <2>1, <2>2 DEF ReadSensor, settings, TypeOK, ReaderInv
<1>7. CASE Finish
  BY <1>7 DEF Finish, settings, TypeOK, ReaderType, ReaderInv, Idle, Steps
<1>8. CASE FindDevice
  <2>1. CASE SkipDevice
    BY <2>1, SkipDeviceType
  <2>2. CASE reader' = Ensure("ensure") /\ UNCHANGED <<running, settings, pending, published>>
    <3>1. reader' \in ReaderType
      BY <2>2, ReaderAssumption DEF Ensure, TypeOK, ReaderType, Steps
    <3>2. /\ reader'.step = "ensure" /\ reader'.parsed = <<>>
          /\ reader'.pos <= Len(reader'.intended)
      BY <1>8, <2>2 DEF FindDevice, Ensure, ReaderInv, TypeOK, ReaderType
    <3> QED BY <2>2, <3>1, <3>2 DEF settings, TypeOK, ReaderInv
  <2> QED BY <1>8, <2>1, <2>2 DEF FindDevice
<1>9. CASE Connect
  <2>1. reader' \in ReaderType
    BY <1>9 DEF Connect, TypeOK, ReaderType, Steps
  <2>2. /\ reader'.step \in {"lookup", "read"} /\ reader'.parsed = <<>>
        /\ reader'.pos <= Len(reader'.intended)
    BY <1>9 DEF Connect, Ensuring, ReaderInv, TypeOK, ReaderType
  <2> QED BY <1>9, <2>1, <2>2 DEF Connect, settings, TypeOK, ReaderInv
<1>10. CASE ConnectThrows
  <2>1. reader' \in ReaderType
    BY <1>10 DEF ConnectThrows, TypeOK, ReaderType
  <2>2. /\ reader'.step = reader.step /\ reader'.parsed = <<>>
        /\ reader'.pos <= Len(reader'.intended)
    BY <1>10 DEF ConnectThrows, Ensuring, ReaderInv, TypeOK, ReaderType
  <2> QED BY <1>10, <2>1, <2>2 DEF ConnectThrows, Ensuring, settings, TypeOK, ReaderInv
<1>11. CASE ExitOnConnect
  BY <1>11 DEF ExitOnConnect, settings, TypeOK, ReaderInv, Intended
<1>12. CASE CannotConnect
  BY <1>12, SkipDeviceType DEF CannotConnect
<1>13. CASE LookUp
  <2>1. reader' \in ReaderType
    BY <1>13, ReaderAssumption DEF LookUp, Ensure, TypeOK, ReaderType, Steps
  <2>2. /\ reader'.step \in {"ensureAgain", "publish"} /\ reader'.parsed = <<>>
        /\ reader'.pos <= Len(reader'.intended)
    BY <1>13 DEF LookUp, Ensure, ReaderInv, TypeOK, ReaderType
  <2> QED BY <1>13, <2>1, <2>2 DEF LookUp, settings, TypeOK, ReaderInv
<1>14. CASE LookUpThrows
  BY <1>14, SkipDeviceType DEF LookUpThrows
<1>15. CASE ReadValue
  <2> DEFINE raw == rawValue[Intended.address]
  <2>1. /\ reader.step = "read" /\ reader.pos <= Len(reader.intended)
    BY <1>15 DEF ReadValue, ReaderInv
  <2>2. Intended \in SensorDevice
    BY <2>1, IntendedType
  <2>3. raw \in RawValues[Intended.address] /\ raw \in Seq(JByte)
    BY <1>15, <2>2, ReaderAssumption DEF ReadValue, TypeOK, SensorDevice
  <2>4. CASE IsOdd(raw)
    BY <1>15, <2>4 DEF ReadValue, settings, TypeOK, ReaderType, ReaderInv, Idle, Steps
  <2>5. CASE ~IsOdd(raw)
    <3>1. reader' = [reader EXCEPT !.step = "publish", !.parsed = Parse(raw)]
      BY <1>15, <2>5 DEF ReadValue
    <3>2. reader' \in ReaderType
      BY <2>3, <2>5, <3>1, ParseType DEF TypeOK, ReaderType, Steps
    <3>3. /\ reader'.step = "publish" /\ reader'.parsed = Parse(raw)
          /\ reader'.pos = reader.pos /\ reader'.intended = reader.intended
      BY <3>1 DEF TypeOK, ReaderType
    <3>4. Intended' = Intended
      BY <3>3 DEF Intended
    <3> QED
      BY <1>15, <2>1, <2>3, <2>5, <3>2, <3>3, <3>4 DEF ReadValue, settings, TypeOK, ReaderInv
  <2> QED BY <2>4, <2>5
<1>16. CASE ReadThrows
  BY <1>16, SkipDeviceType DEF ReadThrows
<1>17. ASSUME NEW slot \in Slots, StartPublish(slot) PROVE TypeInv'
  <2> DEFINE sensor == Intended.sensors[reader.next]
             id == sensor.checkerboardID
  <2>1. reader.step = "publish" /\ reader.pos <= Len(reader.intended)
    BY <1>17 DEF StartPublish, ReaderInv
  <2>2. Intended \in SensorDevice
    BY <2>1, IntendedType
  <2>3. sensor \in Sensor
    BY <1>17, <2>2 DEF StartPublish, SensorDevice, TypeOK, ReaderType
  <2>4. id \in CheckerboardIDs /\ Reading(reader.parsed, sensor.index) \in OptionalReading
    BY <2>3, ReadingType DEF Sensor, TypeOK, ReaderType, OptionalReading
  <2>5. pending' \in [CheckerboardIDs -> [Slots -> OptionalReading]]
    BY <1>17, <2>4 DEF StartPublish, TypeOK
  <2>6. reader' \in ReaderType
    BY <1>17 DEF StartPublish, TypeOK, ReaderType
  <2>7. /\ reader'.step = "publish" /\ reader'.parsed = reader.parsed
        /\ reader'.pos = reader.pos /\ reader'.intended = reader.intended
    BY <1>17 DEF StartPublish, TypeOK, ReaderType
  <2>8. Intended' = Intended
    BY <2>7 DEF Intended
  <2> QED
    BY <1>17, <2>1, <2>5, <2>6, <2>7, <2>8 DEF StartPublish, settings, TypeOK, ReaderInv
<1>18. CASE DeviceDone \/ AccessorThrows
  BY <1>18, SkipDeviceType DEF DeviceDone, AccessorThrows
<1>19. ASSUME NEW id \in CheckerboardIDs, NEW slot \in Slots, Publish(id, slot)
       PROVE  TypeInv'
  <2>1. /\ published' \in [CheckerboardIDs -> OptionalReading]
        /\ pending' \in [CheckerboardIDs -> [Slots -> OptionalReading]]
    BY <1>19 DEF Publish, TypeOK, OptionalReading
  <2> QED BY <1>19, <2>1 DEF Publish, settings, TypeOK, ReaderInv, Intended
<1>20. ASSUME NEW id \in CheckerboardIDs, NEW slot \in Slots, PublishFails(id, slot)
       PROVE  TypeInv'
  <2>1. pending' \in [CheckerboardIDs -> [Slots -> OptionalReading]]
    BY <1>20 DEF PublishFails, TypeOK, OptionalReading
  <2> QED BY <1>20, <2>1 DEF PublishFails, settings, TypeOK, ReaderInv, Intended
<1> QED
  BY <1>1, <1>2, <1>3, <1>4, <1>5, <1>6, <1>7, <1>8, <1>9, <1>10, <1>11, <1>12, <1>13, <1>14,
     <1>15, <1>16, <1>17, <1>18, <1>19, <1>20
  DEF Next, Surroundings, ReadSensorThrows, Round, Publishing

-------------------------------------------------------------------------------
(* What the thread started for a sensor carries is one of its readings.    *)
LEMMA StartPublishReads ==
    ASSUME TypeInv, NEW slot \in Slots, StartPublish(slot)
    PROVE  LET sensor == Intended.sensors[reader.next]
           IN  /\ sensor.checkerboardID \in CheckerboardIDs
               /\ Reading(reader.parsed, sensor.index) \in ReadingsOf[sensor.checkerboardID]
<1> DEFINE sensor == Intended.sensors[reader.next]
           id == sensor.checkerboardID
           device == Intended
<1>1. reader.step = "publish" /\ reader.pos <= Len(reader.intended)
  BY DEF StartPublish, TypeInv, ReaderInv
<1>2. device \in SensorDevice /\ device \in SensorDevices
  BY <1>1, IntendedType DEF TypeInv
<1>3. reader.next \in DOMAIN device.sensors /\ sensor \in Sensor
  BY <1>2 DEF StartPublish, SensorDevice, TypeInv, TypeOK, ReaderType
<1>4. id \in CheckerboardIDs
  BY <1>3 DEF Sensor
<1>5. sensor.index \in {device.sensors[i].index : i \in
                          {k \in DOMAIN device.sensors : device.sensors[k].checkerboardID = id}}
  BY <1>3
<1>6. CASE reader.parsed = <<>>
  BY <1>4, <1>6 DEF Reading, ReadingsOf
<1>7. CASE reader.parsed # <<>>
  <2>1. PICK raw \in RawValues[device.address] : ~IsOdd(raw) /\ reader.parsed = Parse(raw)
    BY <1>1, <1>7 DEF TypeInv, ReaderInv
  <2>2. <<sensor.index, raw>> \in
          {device.sensors[i].index : i \in
             {k \in DOMAIN device.sensors : device.sensors[k].checkerboardID = id}}
          \X {r \in RawValues[device.address] : ~IsOdd(r)}
    BY <1>5, <2>1
  <2> DEFINE S == UNION {{d.sensors[i].index : i \in
                            {k \in DOMAIN d.sensors : d.sensors[k].checkerboardID = id}}
                         \X {r \in RawValues[d.address] : ~IsOdd(r)} : d \in SensorDevices}
  <2>3. <<sensor.index, raw>> \in S
    BY <1>2, <2>2
  <2>4. Reading(Parse(raw), sensor.index) \in {Reading(Parse(rawOf[2]), rawOf[1]) : rawOf \in S}
    BY <2>3
  <2>5. ReadingsOf[id] = {-1} \cup {Reading(Parse(rawOf[2]), rawOf[1]) : rawOf \in S}
    BY <1>4 DEF ReadingsOf
  <2> QED BY <1>4, <2>1, <2>4, <2>5
<1> QED BY <1>4, <1>6, <1>7

LEMMA NextReading ==
    TypeInv /\ ReadingComesFromItsSensor /\ [Next]_vars => ReadingComesFromItsSensor'
<1> SUFFICES ASSUME TypeInv, ReadingComesFromItsSensor, [Next]_vars
             PROVE  ReadingComesFromItsSensor'
  OBVIOUS
<1>1. CASE UNCHANGED <<pending, published>>
  BY <1>1 DEF ReadingComesFromItsSensor
<1>2. ASSUME NEW slot \in Slots, StartPublish(slot) PROVE ReadingComesFromItsSensor'
  BY <1>2, StartPublishReads DEF StartPublish, TypeInv, TypeOK, ReadingComesFromItsSensor
<1>3. ASSUME NEW id \in CheckerboardIDs, NEW slot \in Slots, Publish(id, slot)
      PROVE  ReadingComesFromItsSensor'
  BY <1>3 DEF Publish, TypeInv, TypeOK, ReadingComesFromItsSensor
<1>4. ASSUME NEW id \in CheckerboardIDs, NEW slot \in Slots, PublishFails(id, slot)
      PROVE  ReadingComesFromItsSensor'
  BY <1>4 DEF PublishFails, TypeInv, TypeOK, ReadingComesFromItsSensor
<1>5. ASSUME SkipDevice PROVE UNCHANGED <<pending, published>>
  BY <1>5 DEF SkipDevice
<1>6. CASE Surroundings \/ UNCHANGED vars
  BY <1>1, <1>6 DEF Surroundings, Scan, SetConnectionRetry, LoadSensors, ValueChanges, vars
<1>7. CASE ReadSensor \/ Finish \/ Connect \/ ConnectThrows \/ ExitOnConnect \/ LookUp \/ ReadValue
  BY <1>1, <1>7
  DEF ReadSensor, Finish, Connect, ConnectThrows, ExitOnConnect, LookUp, ReadValue
<1>8. CASE \/ FindDevice \/ CannotConnect \/ AccessorThrows
           \/ LookUpThrows \/ ReadThrows \/ DeviceDone
  BY <1>1, <1>5, <1>8
  DEF FindDevice, CannotConnect, AccessorThrows, LookUpThrows, ReadThrows, DeviceDone
<1> QED
  BY <1>2, <1>3, <1>4, <1>6, <1>7, <1>8 DEF Next, ReadSensorThrows, Round, Publishing

-------------------------------------------------------------------------------
(* Type correctness and the origin of what is published are inductive      *)
(* together.                                                               *)
THEOREM Invariance == Spec => []IInv
<1>1. Init => IInv
  BY InitInv
<1>2. IInv /\ [Next]_vars => IInv'
  BY NextType, NextReading DEF IInv
<1> QED BY <1>1, <1>2, PTL DEF Spec

(* Every reading on its way to the broker fits the 16 bits that the        *)
(* mapping engine's sums are dimensioned for (SentientController.parse).   *)
THEOREM TypeCorrect == Spec => []TypeOK
<1>1. IInv => TypeOK
  BY DEF IInv, TypeInv
<1> QED BY <1>1, Invariance, PTL

(* No round publishes one sensor's reading as another's, nor a device's    *)
(* left-over bytes as the next device's (readSensor).                      *)
THEOREM OriginOfReadings == Spec => []ReadingComesFromItsSensor
<1>1. IInv => ReadingComesFromItsSensor
  BY DEF IInv
<1> QED BY <1>1, Invariance, PTL
-------------------------------------------------------------------------------
(* The way of a round through a device.                                    *)
Rank(step) ==
    CASE step = "idle" -> 0 [] step = "device" -> 1 [] step = "ensure" -> 2
      [] step = "lookup" -> 3 [] step = "ensureAgain" -> 4 [] step = "read" -> 5
      [] step = "publish" -> 6

(* A round goes on to the next device of its configuration, to the next    *)
(* step of the device it is at, or uses up an attempt to connect or one of *)
(* the device's sensors.                                                   *)
Onward ==
    /\ reader'.intended = reader.intended
    /\ \/ reader'.pos = reader.pos + 1 /\ reader.pos <= Len(reader.intended)
       \/ /\ reader'.pos = reader.pos
          /\ \/ Rank(reader'.step) > Rank(reader.step)
             \/ /\ reader'.step = reader.step
                /\ \/ reader'.retries = reader.retries - 1 /\ reader.retries > 0
                   \/ /\ reader'.retries = reader.retries
                      /\ reader'.next = reader.next + 1
                      /\ reader.next <= Len(Intended.sensors)

(* Whatever happens around it, readSensor never goes back: every step of   *)
(* its thread ends the round or the program or takes the round onward, and *)
(* nobody else moves it.  What it has still to do decreases in the         *)
(* lexicographic order of devices, steps, attempts and sensors.            *)
RoundGoesOnward ==
    [][ /\ Round => reader' = Idle \/ (~running' /\ UNCHANGED reader) \/ Onward
        /\ reader.step # "idle" /\ ~Round => UNCHANGED reader ]_vars

LEMMA SkipIsOnward ==
    ASSUME TypeInv, SkipDevice, reader.pos <= Len(reader.intended)
    PROVE  Onward
<1>1. reader'.pos = reader.pos + 1 /\ reader'.intended = reader.intended
  BY DEF SkipDevice, Idle
<1> QED BY <1>1 DEF Onward

LEMMA RoundOnward ==
    ASSUME TypeInv, Round
    PROVE  reader' = Idle \/ (~running' /\ UNCHANGED reader) \/ Onward
<1> USE DEF TypeInv
<1>1. reader \in ReaderType
  BY DEF TypeOK
<1>2. reader.step \notin {"idle", "device"} => reader.pos <= Len(reader.intended)
  BY DEF ReaderInv
<1>3. CASE Finish \/ ExitOnConnect
  BY <1>3 DEF Finish, ExitOnConnect
<1>4. CASE SkipDevice /\ reader.pos <= Len(reader.intended)
  BY <1>4, SkipIsOnward
<1>5. CASE FindDevice /\ ~SkipDevice
  <2>1. /\ reader' = [reader EXCEPT !.step = "ensure", !.retries = connectionRetry]
        /\ reader.step = "device"
    BY <1>5 DEF FindDevice, Ensure
  <2> QED BY <1>1, <2>1 DEF Onward, Rank, ReaderType
<1>6. CASE Connect
  BY <1>1, <1>6 DEF Connect, Ensuring, Onward, Rank, ReaderType
<1>7. CASE ConnectThrows
  BY <1>1, <1>7 DEF ConnectThrows, Onward, ReaderType
<1>8. CASE LookUp
  BY <1>1, <1>8 DEF LookUp, Ensure, Onward, Rank, ReaderType
<1>9. CASE ReadValue
  BY <1>1, <1>9 DEF ReadValue, Onward, Rank, ReaderType
<1>10. ASSUME NEW slot \in Slots, StartPublish(slot) PROVE Onward
  BY <1>1, <1>10 DEF StartPublish, Onward, ReaderType
<1>11. CASE CannotConnect \/ AccessorThrows \/ LookUpThrows \/ ReadThrows \/ DeviceDone
  BY <1>2, <1>4, <1>11
  DEF CannotConnect, AccessorThrows, Ensuring, LookUpThrows, ReadThrows, DeviceDone
<1>12. FindDevice => reader.pos <= Len(reader.intended)
  BY DEF FindDevice
<1> QED
  BY <1>3, <1>4, <1>5, <1>6, <1>7, <1>8, <1>9, <1>10, <1>11, <1>12 DEF Round

(* The safety core of RoundEnds: an order in which a round only advances,  *)
(* and which has an end for every configuration and number of attempts.    *)
THEOREM RoundsAdvance == Spec => RoundGoesOnward
<1>1. ASSUME IInv, [Next]_vars, ~UNCHANGED vars
      PROVE  /\ Round => reader' = Idle \/ (~running' /\ UNCHANGED reader) \/ Onward
             /\ reader.step # "idle" /\ ~Round => UNCHANGED reader
  <2>1. Round => reader' = Idle \/ (~running' /\ UNCHANGED reader) \/ Onward
    BY <1>1, RoundOnward DEF IInv
  <2>2. ASSUME reader.step # "idle", ~Round PROVE UNCHANGED reader
    BY <1>1, <2>2 DEF Next, Surroundings, Scan, SetConnectionRetry, LoadSensors, ValueChanges,
                      ReadSensor, ReadSensorThrows, vars, Publishing, Publish, PublishFails
  <2> QED BY <2>1, <2>2
<1>2. IInv /\ [Next]_vars =>
        [ /\ Round => reader' = Idle \/ (~running' /\ UNCHANGED reader) \/ Onward
          /\ reader.step # "idle" /\ ~Round => UNCHANGED reader ]_vars
  BY <1>1
<1> QED BY <1>2, Invariance, PTL DEF Spec, RoundGoesOnward

-------------------------------------------------------------------------------
(* Between rounds, the thread knows no configuration.                      *)
IdleInv == reader.step = "idle" => reader = Idle

LEMMA NextIdle == TypeInv /\ IdleInv /\ [Next]_vars => IdleInv'
<1> SUFFICES ASSUME TypeInv, IdleInv, [Next]_vars PROVE IdleInv'
  OBVIOUS
<1>1. CASE UNCHANGED reader
  BY <1>1 DEF IdleInv
<1>2. CASE Surroundings \/ \E id \in CheckerboardIDs, slot \in Slots : Publishing(id, slot)
  BY <1>1, <1>2 DEF Surroundings, Scan, SetConnectionRetry, LoadSensors, ValueChanges,
                    Publishing, Publish, PublishFails
<1>3. CASE ReadSensor
  BY <1>3 DEF ReadSensor, Idle, IdleInv
<1>4. ASSUME Round, reader' # Idle PROVE reader'.step # "idle"
  <2>1. reader \in ReaderType /\ reader.step # "idle"
    BY <1>4 DEF TypeInv, TypeOK, Round, Finish, FindDevice, Connect, ConnectThrows, ExitOnConnect,
                CannotConnect, AccessorThrows, Ensuring, LookUp, LookUpThrows, ReadValue, ReadThrows,
                StartPublish, DeviceDone
  <2>2. CASE SkipDevice
    BY <2>2 DEF SkipDevice, Idle
  <2>3. CASE ~SkipDevice
    BY <1>4, <2>1, <2>3
    DEF Round, Finish, FindDevice, Ensure, Connect, ConnectThrows, ExitOnConnect, CannotConnect,
        AccessorThrows, LookUp, LookUpThrows, ReadValue, ReadThrows, StartPublish, DeviceDone, ReaderType
  <2> QED BY <2>2, <2>3
<1>5. CASE Round
  BY <1>4, <1>5 DEF IdleInv
<1>6. CASE ReadSensorThrows \/ UNCHANGED vars
  BY <1>1, <1>6 DEF ReadSensorThrows, vars
<1> QED BY <1>2, <1>3, <1>5, <1>6 DEF Next

LEMMA IdleInvariance == Spec => []IdleInv
<1>1. Init => IdleInv
  BY DEF Init, IdleInv
<1>2. IInv /\ IdleInv /\ [Next]_vars => IdleInv'
  BY NextIdle DEF IInv
<1> QED BY <1>1, <1>2, Invariance, PTL DEF Spec

(* The configuration of the round under way does not have the sensor.      *)
Omitted(id) ==
    \A i \in DOMAIN reader.intended : \A k \in DOMAIN reader.intended[i].sensors :
        reader.intended[i].sensors[k].checkerboardID # id

(* A step that starts a thread which publishes for the sensor.             *)
PublishStarts(id) == \E slot \in Slots : pending[id][slot] = Null /\ pending'[id][slot] # Null

LEMMA RemovedMeansOmitted ==
    ASSUME TypeInv, IdleInv, [Next]_vars, NEW id \in CheckerboardIDs, ~Configured(id)
    PROVE  /\ reader.step = "idle" => Omitted(id)
           /\ Omitted(id) => Omitted(id)'
<1>1. Idle.intended = <<>>
  BY DEF Idle
<1>2. reader.step = "idle" => Omitted(id)
  BY <1>1 DEF IdleInv, Omitted
<1>3. CASE reader' = Idle
  BY <1>1, <1>2, <1>3 DEF Omitted
<1>4. CASE reader'.intended = reader.intended
  BY <1>2, <1>4 DEF Omitted
<1>5. CASE reader'.intended = sensorsConfig
  <2>1. ASSUME NEW i \in DOMAIN sensorsConfig, NEW k \in DOMAIN sensorsConfig[i].sensors
        PROVE  sensorsConfig[i].sensors[k].checkerboardID # id
    <3>1. <<i, k>> \in SensorsOf(sensorsConfig)
      BY DEF SensorsOf
    <3> QED BY <3>1 DEF Configured
  <2> QED BY <1>2, <1>5, <2>1 DEF Omitted
<1>6. CASE ReadSensor
  BY <1>5, <1>6 DEF ReadSensor, Idle
<1>7. CASE Round
  BY <1>3, <1>4, <1>7, RoundOnward DEF Onward
<1>8. CASE UNCHANGED reader
  BY <1>4, <1>8
<1>9. CASE Surroundings \/ \E i \in CheckerboardIDs, slot \in Slots : Publishing(i, slot)
  BY <1>8, <1>9 DEF Surroundings, Scan, SetConnectionRetry, LoadSensors, ValueChanges,
                    Publishing, Publish, PublishFails
<1> QED BY <1>6, <1>7, <1>8, <1>9 DEF Next, ReadSensorThrows, vars

(* The threads that publish for the sensor are only started by a round     *)
(* whose configuration has it.                                             *)
LEMMA OmittedIsSilent ==
    ASSUME TypeInv, [Next]_vars, NEW id \in CheckerboardIDs, Omitted(id)
    PROVE  ~PublishStarts(id)
<1>1. pending \in [CheckerboardIDs -> [Slots -> OptionalReading]]
  BY DEF TypeInv, TypeOK
<1>2. CASE UNCHANGED pending
  BY <1>2 DEF PublishStarts
<1>3. ASSUME NEW slot \in Slots, StartPublish(slot) PROVE ~PublishStarts(id)
  <2> DEFINE sensor == Intended.sensors[reader.next]
  <2>1. reader.step = "publish" /\ reader.pos <= Len(reader.intended)
    BY <1>3 DEF StartPublish, TypeInv, ReaderInv
  <2>2. Intended \in SensorDevice /\ reader.pos \in DOMAIN reader.intended
    BY <2>1, IntendedType DEF TypeInv
  <2>3. reader.next \in DOMAIN Intended.sensors
    BY <1>3, <2>2 DEF StartPublish, SensorDevice, TypeInv, TypeOK, ReaderType
  <2>4. sensor.checkerboardID # id
    BY <2>2, <2>3 DEF Omitted, Intended
  <2> QED BY <1>1, <1>3, <2>4 DEF StartPublish, PublishStarts
<1>4. ASSUME NEW i \in CheckerboardIDs, NEW slot \in Slots, Publish(i, slot) \/ PublishFails(i, slot)
      PROVE  ~PublishStarts(id)
  <2>1. pending' = [pending EXCEPT ![i] = [pending[i] EXCEPT ![slot] = Null]]
    BY <1>1, <1>4 DEF Publish, PublishFails
  <2> QED BY <1>1, <2>1 DEF PublishStarts
<1>5. ASSUME SkipDevice PROVE UNCHANGED pending
  BY <1>5 DEF SkipDevice
<1>6. CASE Surroundings \/ ReadSensor \/ UNCHANGED vars
  BY <1>2, <1>6 DEF Surroundings, Scan, SetConnectionRetry, LoadSensors, ValueChanges,
                    ReadSensor, vars
<1>7. CASE Finish \/ Connect \/ ConnectThrows \/ ExitOnConnect \/ LookUp \/ ReadValue
  BY <1>2, <1>7 DEF Finish, Connect, ConnectThrows, ExitOnConnect, LookUp, ReadValue
<1>8. CASE \/ FindDevice \/ CannotConnect \/ AccessorThrows
           \/ LookUpThrows \/ ReadThrows \/ DeviceDone
  BY <1>2, <1>5, <1>8
  DEF FindDevice, CannotConnect, AccessorThrows, LookUpThrows, ReadThrows, DeviceDone
<1> QED BY <1>3, <1>4, <1>6, <1>7, <1>8 DEF Next, ReadSensorThrows, Round, Publishing

(* While the program runs, the publish threads of a sensor are all over    *)
(* again and again, unless new ones are started for ever: a publish is not *)
(* endless.                                                                *)
PublishesEnd(id) ==
    <>[][~PublishStarts(id)]_vars =>
        []<>((\A slot \in Slots : pending[id][slot] = Null) \/ ~running)

(* RemovedSensorFallsSilent, without the fairness: as rounds end and       *)
(* publishes end, a sensor that stays out of the configuration is at most  *)
(* published by the round that was under way, and never again.             *)
THEOREM RemovedSensorSilent ==
    Spec /\ RoundEnds /\ (\A id \in CheckerboardIDs : PublishesEnd(id))
      => RemovedSensorFallsSilent
<1> SUFFICES ASSUME NEW id \in CheckerboardIDs
             PROVE  Spec /\ RoundEnds /\ PublishesEnd(id) =>
                       (<>[](running /\ ~Configured(id)) =>
                           <>[](\A slot \in Slots : pending[id][slot] = Null))
  BY DEF RemovedSensorFallsSilent
<1> DEFINE Silent == \A slot \in Slots : pending[id][slot] = Null
           Removed == ~Configured(id)
           AtRest == reader.step = "idle"
           Leaves == Omitted(id)
<1>1. IInv /\ IdleInv /\ [Next]_vars /\ Removed /\ AtRest => Leaves
  BY RemovedMeansOmitted DEF IInv
<1>2. IInv /\ IdleInv /\ [Next]_vars /\ Removed /\ Leaves => Leaves'
  BY RemovedMeansOmitted DEF IInv
<1>3. IInv /\ [Next]_vars /\ Leaves => [~PublishStarts(id)]_vars
  BY OmittedIsSilent DEF IInv
<1>4. [~PublishStarts(id)]_vars /\ Silent => Silent'
  BY DEF vars, PublishStarts
<1>5. /\ running /\ ~Configured(id) => running /\ Removed
      /\ ~AtRest => reader.step # "idle"
      /\ reader.step = "idle" => AtRest
      /\ (\A slot \in Slots : pending[id][slot] = Null) => Silent
  OBVIOUS
<1> HIDE DEF Silent, Removed, AtRest, Leaves
<1>6. Spec /\ RoundEnds /\ PublishesEnd(id) => (<>[](running /\ Removed) => <>[]Silent)
  BY <1>1, <1>2, <1>3, <1>4, <1>5, Invariance, IdleInvariance, PTL DEF Spec, RoundEnds, PublishesEnd
<1> QED BY <1>6 DEF Silent, Removed

-------------------------------------------------------------------------------
(* A configuration has finitely many sensors, ...                          *)
LEMMA SensorsFinite == ASSUME NEW c \in Seq(SensorDevice) PROVE IsFiniteSet(SensorsOf(c))
<1> DEFINE Of(i) == {<<i, k>> : k \in DOMAIN c[i].sensors}
           f == [i \in DOMAIN c |-> Of(i)]
           T == {Of(i) : i \in DOMAIN c}
<1>1. IsFiniteSet(DOMAIN c)
  BY FS_Interval
<1>2. f \in Surjection(DOMAIN c, T)
  BY DEF Surjection
<1>3. IsFiniteSet(T)
  BY <1>1, <1>2, FS_Surjection
<1>4. ASSUME NEW i \in DOMAIN c PROVE IsFiniteSet(Of(i))
  <2>1. c[i].sensors \in Seq(Sensor)
    <3>1. c[i] \in SensorDevice
      OBVIOUS
    <3> QED BY <3>1 DEF SensorDevice
  <2>2. IsFiniteSet({i} \X DOMAIN c[i].sensors)
    <3>1. IsFiniteSet({i})
      BY FS_Singleton
    <3>2. Len(c[i].sensors) \in Nat /\ DOMAIN c[i].sensors = 1 .. Len(c[i].sensors)
      BY <2>1
    <3>3. IsFiniteSet(DOMAIN c[i].sensors)
      BY <3>2, FS_Interval
    <3> QED BY <3>1, <3>3, FS_Product
  <2>3. Of(i) = {i} \X DOMAIN c[i].sensors
    OBVIOUS
  <2> QED BY <2>2, <2>3
<1>5. IsFiniteSet(UNION T)
  BY <1>3, <1>4, FS_UNION
<1> QED BY <1>5 DEF SensorsOf

(* ... and one that is configured once has one place in it.                *)
LEMMA OnePlace ==
    ASSUME NEW c \in Seq(SensorDevice), NEW id, ConfiguredOnce(c, id),
           NEW i \in DOMAIN c, NEW k \in DOMAIN c[i].sensors, c[i].sensors[k].checkerboardID = id,
           NEW j \in DOMAIN c, NEW l \in DOMAIN c[j].sensors, c[j].sensors[l].checkerboardID = id
    PROVE  i = j /\ k = l
<1> DEFINE P == {p \in SensorsOf(c) : c[p[1]].sensors[p[2]].checkerboardID = id}
<1>1. IsFiniteSet(P)
  BY SensorsFinite, FS_Subset
<1>2. PICK place : P = {place}
  BY <1>1, FS_Singleton DEF ConfiguredOnce
<1>3. <<i, k>> \in P /\ <<j, l>> \in P
  BY DEF SensorsOf
<1> QED BY <1>2, <1>3

(* A round that works on configuration c and has parsed nothing but raw at *)
(* device i.                                                               *)
SettledRound(c, i, raw) ==
    reader.step # "idle" =>
        /\ reader.intended = c
        /\ reader.step = "publish" /\ reader.pos = i => reader.parsed = Parse(raw)

LEMMA RoundSettles ==
    ASSUME TypeInv, IdleInv, [Next]_vars, NEW c \in SensorConfigs, NEW i \in DOMAIN c,
           NEW raw \in RawValues[c[i].address], Settled(c, i, raw), SettledRound(c, i, raw)
    PROVE  SettledRound(c, i, raw)'
<1> USE DEF SettledRound
<1>1. CASE UNCHANGED reader
  BY <1>1
<1>2. CASE Surroundings \/ \E id \in CheckerboardIDs, slot \in Slots : Publishing(id, slot)
  BY <1>1, <1>2 DEF Surroundings, Scan, SetConnectionRetry, LoadSensors, ValueChanges,
                    Publishing, Publish, PublishFails
<1>3. CASE ReadSensor
  BY <1>3 DEF ReadSensor, Idle, Settled
<1>4. CASE reader'.step = "device" /\ reader'.intended = reader.intended /\ reader.step # "idle"
  BY <1>4
<1>5. CASE SkipDevice /\ reader.step # "idle"
  BY <1>4, <1>5 DEF SkipDevice, Idle
<1>6. reader \in ReaderType
  BY DEF TypeInv, TypeOK
<1>7. CASE Finish
  BY <1>7 DEF Finish, Idle
<1>8. CASE FindDevice
  BY <1>5, <1>6, <1>8 DEF FindDevice, Ensure, ReaderType
<1>9. CASE Connect \/ ConnectThrows \/ ExitOnConnect
  BY <1>6, <1>9 DEF Connect, ConnectThrows, ExitOnConnect, Ensuring, ReaderType
<1>10. CASE CannotConnect \/ AccessorThrows \/ LookUpThrows \/ ReadThrows \/ DeviceDone
  BY <1>5, <1>10
  DEF CannotConnect, AccessorThrows, Ensuring, LookUpThrows, ReadThrows, DeviceDone
<1>11. ASSUME reader.intended = c, reader.pos = i PROVE rawValue[Intended.address] = raw
  BY <1>11 DEF Intended, Settled
<1>12. raw # Null
  <2>1. c[i].address \in Devices
    <3>1. c \in Seq(SensorDevice)
      BY ReaderAssumption
    <3>2. c[i] \in SensorDevice
      BY <3>1
    <3> QED BY <3>2 DEF SensorDevice
  <2> QED BY <2>1, ReaderAssumption
<1>13. CASE LookUp
  BY <1>6, <1>11, <1>12, <1>13 DEF LookUp, Ensure, ReaderType
<1>14. CASE ReadValue
  BY <1>6, <1>11, <1>14 DEF ReadValue, Idle, ReaderType
<1>15. ASSUME NEW slot \in Slots, StartPublish(slot) PROVE SettledRound(c, i, raw)'
  BY <1>6, <1>15 DEF StartPublish, ReaderType
<1> QED
  BY <1>1, <1>2, <1>3, <1>7, <1>8, <1>9, <1>10, <1>13, <1>14, <1>15
  DEF Next, ReadSensorThrows, Round, vars

(* The threads of a sensor change only by being started with this value or *)
(* by ending.                                                              *)
OnlyPublishes(id, value) ==
    \A slot \in Slots :
        pending'[id][slot] # pending[id][slot] => pending'[id][slot] \in {Null, value}

LEMMA SettledRoundTells ==
    ASSUME TypeInv, [Next]_vars, NEW c \in SensorConfigs, NEW i \in DOMAIN c,
           NEW raw \in RawValues[c[i].address], SettledRound(c, i, raw),
           NEW k \in DOMAIN c[i].sensors,
           ConfiguredOnce(c, c[i].sensors[k].checkerboardID)
    PROVE  OnlyPublishes(c[i].sensors[k].checkerboardID,
                         Reading(Parse(raw), c[i].sensors[k].index))
<1> DEFINE id == c[i].sensors[k].checkerboardID
           value == Reading(Parse(raw), c[i].sensors[k].index)
<1> USE DEF OnlyPublishes
<1>1. /\ pending \in [CheckerboardIDs -> [Slots -> OptionalReading]]
      /\ c \in Seq(SensorDevice) /\ id \in CheckerboardIDs
  <2>1. c \in Seq(SensorDevice) /\ c[i] \in SensorDevice
    BY ReaderAssumption
  <2>2. c[i].sensors \in Seq(Sensor)
    BY <2>1 DEF SensorDevice
  <2>3. c[i].sensors[k] \in Sensor
    BY <2>2
  <2> QED BY <2>1, <2>3 DEF TypeInv, TypeOK, Sensor
<1>2. CASE UNCHANGED pending
  BY <1>2
<1>3. ASSUME NEW slot \in Slots, StartPublish(slot) PROVE OnlyPublishes(id, value)
  <2> DEFINE sensor == Intended.sensors[reader.next]
  <2>1. /\ reader.step = "publish" /\ reader.pos <= Len(reader.intended)
        /\ reader.intended = c
    BY <1>3 DEF StartPublish, TypeInv, ReaderInv, SettledRound
  <2>2. Intended \in SensorDevice /\ reader.pos \in DOMAIN c /\ Intended = c[reader.pos]
    BY <2>1, IntendedType DEF TypeInv, Intended
  <2>3. reader.next \in DOMAIN Intended.sensors
    BY <1>3, <2>2 DEF StartPublish, SensorDevice, TypeInv, TypeOK, ReaderType
  <2>4. /\ pending' = [pending EXCEPT ![sensor.checkerboardID][slot] =
                          Reading(reader.parsed, sensor.index)]
    BY <1>3 DEF StartPublish
  <2>5. CASE sensor.checkerboardID # id
    BY <1>1, <2>4, <2>5
  <2>6. CASE sensor.checkerboardID = id
    <3>1. reader.pos = i /\ reader.next = k
      BY <1>1, <2>2, <2>3, <2>6, OnePlace
    <3>2. Reading(reader.parsed, sensor.index) = value
      BY <2>1, <2>2, <3>1 DEF SettledRound
    <3> QED BY <1>1, <2>4, <2>6, <3>2
  <2> QED BY <2>5, <2>6
<1>4. ASSUME NEW j \in CheckerboardIDs, NEW slot \in Slots, Publish(j, slot) \/ PublishFails(j, slot)
      PROVE  OnlyPublishes(id, value)
  <2>1. pending' = [pending EXCEPT ![j] = [pending[j] EXCEPT ![slot] = Null]]
    BY <1>1, <1>4 DEF Publish, PublishFails
  <2> QED BY <1>1, <2>1
<1>5. ASSUME SkipDevice PROVE UNCHANGED pending
  BY <1>5 DEF SkipDevice
<1>6. CASE Surroundings \/ ReadSensor \/ UNCHANGED vars
  BY <1>2, <1>6 DEF Surroundings, Scan, SetConnectionRetry, LoadSensors, ValueChanges,
                    ReadSensor, vars
<1>7. CASE Finish \/ Connect \/ ConnectThrows \/ ExitOnConnect \/ LookUp \/ ReadValue
  BY <1>2, <1>7 DEF Finish, Connect, ConnectThrows, ExitOnConnect, LookUp, ReadValue
<1>8. CASE \/ FindDevice \/ CannotConnect \/ AccessorThrows
           \/ LookUpThrows \/ ReadThrows \/ DeviceDone
  BY <1>2, <1>5, <1>8
  DEF FindDevice, CannotConnect, AccessorThrows, LookUpThrows, ReadThrows, DeviceDone
<1> QED BY <1>3, <1>4, <1>6, <1>7, <1>8 DEF Next, ReadSensorThrows, Round, Publishing

(* As long as the threads of a sensor start with one value only, those     *)
(* from before with another one come to their ends.                        *)
OldPublishesEnd(id, value) ==
    <>[][OnlyPublishes(id, value)]_vars =>
        []<>((\A slot \in Slots : pending[id][slot] \in {Null, value}) \/ ~running)

PublishSucceeds(id) == \E slot \in Slots : Publish(id, slot)

(* A settled device is read, and the broker accepts its sensor's value,    *)
(* again and again.                                                        *)
PublishesSucceed(c, i, raw, id) ==
    <>[]Settled(c, i, raw) => ~<>[][~PublishSucceeds(id)]_vars

(* What the fairness gives SettledReadingIsPublished, sensor by sensor.    *)
DevicesAnswer ==
    \A c \in SensorConfigs : \A i \in DOMAIN c :
        \A raw \in {r \in RawValues[c[i].address] : ~IsOdd(r)} :
            \A k \in DOMAIN c[i].sensors :
                LET sensor == c[i].sensors[k]
                IN  /\ OldPublishesEnd(sensor.checkerboardID, Reading(Parse(raw), sensor.index))
                    /\ PublishesSucceed(c, i, raw, sensor.checkerboardID)

LEMMA OnlyPublishesStays ==
    ASSUME NEW id, NEW value, [OnlyPublishes(id, value)]_vars,
           \A slot \in Slots : pending[id][slot] \in {Null, value}
    PROVE  \A slot \in Slots : pending'[id][slot] \in {Null, value}
  BY DEF OnlyPublishes, vars

(* What the broker has last accepted changes only by a publish of the      *)
(* sensor.                                                                 *)
LEMMA PublishedBy ==
    ASSUME TypeInv, [Next]_vars, NEW id \in CheckerboardIDs, NEW value,
           \A slot \in Slots : pending[id][slot] \in {Null, value}
    PROVE  /\ PublishSucceeds(id) => published'[id] = value
           /\ published[id] = value => published'[id] = value
<1>1. published \in [CheckerboardIDs -> OptionalReading]
  BY DEF TypeInv, TypeOK
<1>2. ASSUME NEW j \in CheckerboardIDs, NEW slot \in Slots, Publish(j, slot)
      PROVE  published'[id] = IF j = id THEN pending[id][slot] ELSE published[id]
  BY <1>1, <1>2 DEF Publish
<1>3. \A slot \in Slots : Publish(id, slot) => pending[id][slot] # Null
  BY DEF Publish
<1>4. PublishSucceeds(id) => published'[id] = value
  BY <1>2, <1>3 DEF PublishSucceeds
<1>5. \/ UNCHANGED published
      \/ \E j \in CheckerboardIDs, slot \in Slots : Publish(j, slot)
  <2>1. SkipDevice => UNCHANGED published
    BY DEF SkipDevice
  <2>2. Surroundings \/ ReadSensor \/ ReadSensorThrows \/ UNCHANGED vars => UNCHANGED published
    BY DEF Surroundings, Scan, SetConnectionRetry, LoadSensors, ValueChanges, ReadSensor,
           ReadSensorThrows, vars
  <2>3. Round => UNCHANGED published
    BY <2>1 DEF Round, Finish, FindDevice, Connect, ConnectThrows, ExitOnConnect, CannotConnect,
                AccessorThrows, LookUp, LookUpThrows, ReadValue, ReadThrows, StartPublish, DeviceDone
  <2> QED BY <2>2, <2>3 DEF Next, Publishing, PublishFails
<1>6. published[id] = value => published'[id] = value
  BY <1>2, <1>3, <1>5
<1> QED BY <1>4, <1>6

(* SettledReadingIsPublished, without the fairness: from the round on that *)
(* begins after everything has settled, only the sensor's value is         *)
(* published, -1 and the values of other devices and configurations no     *)
(* more, so that publishes that overtake one another do no harm.  That     *)
(* rounds end, that devices answer and that the broker accepts is left to  *)
(* the fairness.                                                           *)
THEOREM SettledReadingWins == Spec /\ RoundEnds /\ DevicesAnswer => SettledReadingIsPublished
<1> SUFFICES ASSUME NEW c \in SensorConfigs, NEW i \in DOMAIN c,
                    NEW raw \in {r \in RawValues[c[i].address] : ~IsOdd(r)},
                    NEW k \in DOMAIN c[i].sensors,
                    ConfiguredOnce(c, c[i].sensors[k].checkerboardID)
             PROVE  LET id == c[i].sensors[k].checkerboardID
                        value == Reading(Parse(raw), c[i].sensors[k].index)
                    IN  Spec /\ RoundEnds /\ OldPublishesEnd(id, value)
                        /\ PublishesSucceed(c, i, raw, id) =>
                           (<>[]Settled(c, i, raw) => <>[](published[id] = value))
  BY DEF SettledReadingIsPublished, DevicesAnswer
<1> DEFINE id == c[i].sensors[k].checkerboardID
           value == Reading(Parse(raw), c[i].sensors[k].index)
           True == \A slot \in Slots : pending[id][slot] \in {Null, value}
           Shown == published[id] = value
<1>1. id \in CheckerboardIDs
  <2>1. c \in Seq(SensorDevice)
    BY ReaderAssumption
  <2>2. c[i] \in SensorDevice
    BY <2>1
  <2>3. c[i].sensors \in Seq(Sensor)
    BY <2>2 DEF SensorDevice
  <2>4. c[i].sensors[k] \in Sensor
    BY <2>3
  <2> QED BY <2>4 DEF Sensor
<1>2. reader.step = "idle" => SettledRound(c, i, raw)
  BY DEF SettledRound
<1>3. IInv /\ IdleInv /\ [Next]_vars /\ Settled(c, i, raw) /\ SettledRound(c, i, raw)
        => SettledRound(c, i, raw)'
  BY RoundSettles DEF IInv
<1>4. IInv /\ [Next]_vars /\ SettledRound(c, i, raw) => [OnlyPublishes(id, value)]_vars
  BY SettledRoundTells DEF IInv
<1>5. [OnlyPublishes(id, value)]_vars /\ True => True'
  BY OnlyPublishesStays
<1>6. IInv /\ [Next]_vars /\ True /\ ~[~PublishSucceeds(id)]_vars => Shown'
  BY <1>1, PublishedBy DEF IInv
<1>7. IInv /\ [Next]_vars /\ True /\ Shown => Shown'
  BY <1>1, PublishedBy DEF IInv
<1>8. /\ Settled(c, i, raw) => running
      /\ (\A slot \in Slots : pending[id][slot] \in {Null, value}) => True
      /\ ~(reader.step = "idle") => reader.step # "idle"
  BY DEF Settled
<1> HIDE DEF id, value, True, Shown
<1>9. Spec /\ RoundEnds /\ OldPublishesEnd(id, value) /\ PublishesSucceed(c, i, raw, id)
        => (<>[]Settled(c, i, raw) => <>[]Shown)
  BY <1>2, <1>3, <1>4, <1>5, <1>6, <1>7, <1>8, Invariance, IdleInvariance, PTL
  DEF Spec, RoundEnds, OldPublishesEnd, PublishesSucceed
<1> QED BY <1>9 DEF id, value, Shown

===============================================================================
