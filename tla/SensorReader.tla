------------------------------ MODULE SensorReader ------------------------------
(***************************************************************************)
(* The sensor reader (GATTReadSensorScheduledTask.readSensor), with the    *)
(* calls it makes to TinybController and SentientController.               *)
(*                                                                         *)
(* The scheduler thread visits the configured devices one after the other: *)
(* it connects, looks the sensor characteristic up, connects again, reads, *)
(* parses, and starts a thread per sensor that publishes the sensor's      *)
(* value.  Most exceptions skip a device; some end the whole round.        *)
(***************************************************************************)
EXTENDS Integers, Sequences, FiniteSets

CONSTANTS
    Null,
    CheckerboardIDs,
    Devices,            \* addresses of GATT devices
    SensorConfigs,      \* sensor configurations: sequences of sensor devices
    RawValues,          \* per device, values of its sensor characteristic
    ConnectionRetries,  \* values GATT_CONNECTION_RETRY may be given
    Slots               \* bound: publish threads alive at one time, per sensor

JByte == -128 .. 127

ShortHalf == 32768

JShort == -ShortHalf .. ShortHalf - 1

Sensor == [index : Int, checkerboardID : CheckerboardIDs]

SensorDevice == [address : Devices, sensors : Seq(Sensor)]

ASSUME ReaderAssumption ==
    /\ SensorConfigs \subseteq Seq(SensorDevice)
    /\ RawValues \in [Devices -> SUBSET Seq(JByte)]
    /\ ConnectionRetries \subseteq Int
    /\ Null \notin Seq(JByte) /\ Null \notin JShort

-------------------------------------------------------------------------------
(* Mutant: both bytes taken for unsigned ones.                             *)
Unsigned(low, high) == 256 * (high % 256) + (low % 256)

(* ByteBuffer.wrap(bytes).order(LITTLE_ENDIAN).short *)
LittleEndian(low, high) == 256 * high + (low % 256)

(* SentientController.parse: bytes[i + 1] throws for an odd number of them. *)
IsOdd(bytes) == Len(bytes) % 2 = 1

Parse(bytes) ==
    [i \in 1 .. Len(bytes) \div 2 |-> LittleEndian(bytes[2 * i - 1], bytes[2 * i])]

(* parsedValues.getOrElse(s.index) { -1 } *)
Reading(parsed, index) ==
    IF index + 1 \in DOMAIN parsed THEN parsed[index + 1] ELSE -1

VARIABLES
    running,            \* FALSE once System.exit has been called
    connectionRetry,    \* SentientProperties.GATT_CONNECTION_RETRY
    sensorsConfig,      \* ConfigurationController.sensorsConfig; <<>> for null
    scannedDevices,     \* TinybController.scannedDevices
    rawValue,           \* per device, the value of its sensor characteristic;
                        \* Null while BlueZ does not list that characteristic
    reader,             \* the scheduler thread inside readSensor
    pending,            \* publish threads: their values, by sensor and slot
    published           \* per sensor, the last value the broker accepted

settings == <<connectionRetry, sensorsConfig, scannedDevices, rawValue>>
vars == <<running, connectionRetry, sensorsConfig, scannedDevices, rawValue, reader,
          pending, published>>

Steps == {"idle", "device", "ensure", "lookup", "ensureAgain", "read", "publish"}

Idle == [step |-> "idle", intended |-> <<>>, pos |-> 1, retries |-> 0,
         parsed |-> <<>>, next |-> 1]

(* The device the round is at.                                             *)
Intended == reader.intended[reader.pos]

Init ==
    /\ running = TRUE
    /\ connectionRetry \in ConnectionRetries
    /\ sensorsConfig \in SensorConfigs
    /\ scannedDevices = {}
    /\ rawValue = [d \in Devices |-> Null]
    /\ reader = Idle
    /\ pending = [id \in CheckerboardIDs |-> [slot \in Slots |-> Null]]
    /\ published = [id \in CheckerboardIDs |-> Null]

-------------------------------------------------------------------------------
(* The surroundings.  The scan runs on the same thread as readSensor, the  *)
(* configuration topic does not; BlueZ resolves the characteristics of a   *)
(* device some time after it has connected.                                *)
Scan(devices) ==
    /\ reader.step = "idle"
    /\ scannedDevices' = devices
    /\ UNCHANGED <<running, connectionRetry, sensorsConfig, rawValue, reader, pending, published>>

SetConnectionRetry(n) ==
    /\ connectionRetry' = n
    /\ UNCHANGED <<running, sensorsConfig, scannedDevices, rawValue, reader, pending, published>>

LoadSensors(c) ==
    /\ sensorsConfig' = c
    /\ UNCHANGED <<running, connectionRetry, scannedDevices, rawValue, reader, pending, published>>

ValueChanges(d, raw) ==
    /\ rawValue' = [rawValue EXCEPT ![d] = raw]
    /\ UNCHANGED <<running, connectionRetry, sensorsConfig, scannedDevices, reader, pending,
                   published>>

-------------------------------------------------------------------------------
(* readSensor reads the configuration once.                                *)
ReadSensor ==
    /\ reader.step = "idle"
    /\ reader' = [Idle EXCEPT !.step = "device", !.intended = sensorsConfig]
    /\ UNCHANGED <<running, settings, pending, published>>

(* The address of a scanned device, read for the log, throws: the call is  *)
(* over before its first device.                                           *)
ReadSensorThrows ==
    /\ reader.step = "idle"
    /\ scannedDevices # {}
    /\ UNCHANGED vars

Finish ==
    /\ reader.step = "device"
    /\ reader.pos > Len(reader.intended)
    /\ reader' = Idle
    /\ UNCHANGED <<running, settings, pending, published>>

(* Mutants: the next device starts with what the last one had parsed; an   *)
(* exception ends the round; the same device is tried again.               *)
SkipDeviceKeeping ==
    /\ reader' = [reader EXCEPT !.step = "device", !.pos = @ + 1, !.next = 1]
    /\ UNCHANGED <<running, settings, pending, published>>

SkipDeviceEnding ==
    /\ reader' = Idle
    /\ UNCHANGED <<running, settings, pending, published>>

SkipDeviceRetrying ==
    /\ reader' = [Idle EXCEPT !.step = "device", !.intended = reader.intended,
                              !.pos = reader.pos]
    /\ UNCHANGED <<running, settings, pending, published>>

(* Caught and logged: on to the next device.                               *)
SkipDevice ==
    /\ reader' = [Idle EXCEPT !.step = "device", !.intended = reader.intended,
                              !.pos = reader.pos + 1]
    /\ UNCHANGED <<running, settings, pending, published>>

(* The start of ensureConnection: repeat(GATT_CONNECTION_RETRY).           *)
Ensure(step) == [reader EXCEPT !.step = step, !.retries = connectionRetry]

(* scannedDevices.first { ... } *)
FindDevice ==
    /\ reader.step = "device"
    /\ reader.pos <= Len(reader.intended)
    /\ \/ /\ Intended.address \in scannedDevices
          /\ reader' = Ensure("ensure")
          /\ UNCHANGED <<running, settings, pending, published>>
       \/ /\ Intended.address \notin scannedDevices     \* NoSuchElementException
          /\ SkipDevice

Ensuring == reader.step \in {"ensure", "ensureAgain"}

Connect ==
    /\ Ensuring /\ reader.retries > 0
    /\ reader' = [reader EXCEPT !.step = IF @ = "ensure" THEN "lookup" ELSE "read"]
    /\ UNCHANGED <<running, settings, pending, published>>

(* connect() throws: sleep, and once more.                                 *)
ConnectThrows ==
    /\ Ensuring /\ reader.retries > 0
    /\ reader' = [reader EXCEPT !.retries = @ - 1]
    /\ UNCHANGED <<running, settings, pending, published>>

(* connect() returns false: System.exit.                                   *)
ExitOnConnect ==
    /\ Ensuring /\ reader.retries > 0
    /\ running' = FALSE
    /\ UNCHANGED <<settings, reader, pending, published>>

(* BluetoothConnectionException *)
CannotConnect ==
    /\ Ensuring /\ reader.retries <= 0
    /\ SkipDevice

(* The address of a scanned device throws while the search compares it, or *)
(* the address or name of the device where connectDevice, outside its try, *)
(* logs them.                                                              *)
AccessorThrows ==
    /\ \/ reader.step = "device" /\ reader.pos <= Len(reader.intended) /\ scannedDevices # {}
       \/ Ensuring /\ reader.retries > 0
    /\ SkipDevice

(* readCharacteristic: without the characteristic it returns no bytes, and *)
(* every sensor of the device will publish -1.                             *)
LookUp ==
    /\ reader.step = "lookup"
    /\ reader' = IF rawValue[Intended.address] # Null THEN Ensure("ensureAgain")
                 ELSE [reader EXCEPT !.step = "publish"]
    /\ UNCHANGED <<running, settings, pending, published>>

LookUpThrows ==
    /\ reader.step = "lookup"
    /\ SkipDevice

(* readValue and parse, which for an odd number of bytes throws out of     *)
(* readSensor.                                                             *)
ReadValue ==
    LET raw == rawValue[Intended.address]
    IN  /\ reader.step = "read"
        /\ raw # Null
        /\ reader' = IF IsOdd(raw) THEN Idle
                     ELSE [reader EXCEPT !.step = "publish", !.parsed = Parse(raw)]
        /\ UNCHANGED <<running, settings, pending, published>>

ReadThrows ==
    /\ reader.step = "read"
    /\ SkipDevice

(* One turn of intendedDevice.sensors.forEach: a thread that publishes.    *)
StartPublish(slot) ==
    LET sensor == Intended.sensors[reader.next]
        id == sensor.checkerboardID
    IN  /\ reader.step = "publish"
        /\ reader.next <= Len(Intended.sensors)
        /\ pending[id][slot] = Null
        /\ pending' = [pending EXCEPT ![id][slot] = Reading(reader.parsed, sensor.index)]
        /\ reader' = [reader EXCEPT !.next = @ + 1]
        /\ UNCHANGED <<running, settings, published>>

DeviceDone ==
    /\ reader.step = "publish"
    /\ reader.next > Len(Intended.sensors)
    /\ SkipDevice

-------------------------------------------------------------------------------
(* Mutant: a publish that is repeated for ever.                            *)
PublishForever(id, slot) ==
    /\ pending[id][slot] # Null
    /\ published' = [published EXCEPT ![id] = pending[id][slot]]
    /\ UNCHANGED <<running, settings, reader, pending>>

(* MQTTPublishAsyncTask, on a thread and an MQTT client of its own ...     *)
Publish(id, slot) ==
    /\ pending[id][slot] # Null
    /\ published' = [published EXCEPT ![id] = pending[id][slot]]
    /\ pending' = [pending EXCEPT ![id][slot] = Null]
    /\ UNCHANGED <<running, settings, reader>>

(* ... and lost when that client cannot connect.                           *)
PublishFails(id, slot) ==
    /\ pending[id][slot] # Null
    /\ pending' = [pending EXCEPT ![id][slot] = Null]
    /\ UNCHANGED <<running, settings, reader, published>>

-------------------------------------------------------------------------------
Round ==
    \/ Finish \/ FindDevice
    \/ Connect \/ ConnectThrows \/ ExitOnConnect \/ CannotConnect \/ AccessorThrows
    \/ LookUp \/ LookUpThrows
    \/ ReadValue \/ ReadThrows
    \/ \E slot \in Slots : StartPublish(slot)
    \/ DeviceDone

Surroundings ==
    \/ \E devices \in SUBSET Devices : Scan(devices)
    \/ \E n \in ConnectionRetries : SetConnectionRetry(n)
    \/ \E c \in SensorConfigs : LoadSensors(c)
    \/ \E d \in Devices : \E raw \in RawValues[d] \cup {Null} : ValueChanges(d, raw)

Publishing(id, slot) == Publish(id, slot) \/ PublishFails(id, slot)

Next ==
    /\ running
    /\ \/ Surroundings
       \/ ReadSensor \/ ReadSensorThrows
       \/ Round
       \/ \E id \in CheckerboardIDs, slot \in Slots : Publishing(id, slot)

Spec == Init /\ [][Next]_vars

SensorDevices == UNION {{c[i] : i \in DOMAIN c} : c \in SensorConfigs}

Sensing == {device.address : device \in {s \in SensorDevices : s.sensors # <<>>}}

(* The scheduler calls readSensor again and again, whatever comes of a     *)
(* call, and threads run.  A device with sensors that is asked infinitely  *)
(* often answers infinitely often, for its address as for its value, and   *)
(* so does the broker.                                                     *)
At(d) == running /\ reader.step # "idle" /\ reader.pos <= Len(reader.intended)
                 /\ Intended.address = d

Fairness ==
    /\ WF_vars(running /\ ReadSensor)
    /\ WF_vars(running /\ Round)
    /\ \A d \in Sensing :
          /\ SF_vars(At(d) /\ FindDevice)
          /\ SF_vars(At(d) /\ reader.step = "ensure" /\ Connect)
          /\ SF_vars(At(d) /\ LookUp)
          /\ SF_vars(At(d) /\ reader.step = "ensureAgain" /\ Connect)
          /\ SF_vars(At(d) /\ ReadValue)
    /\ \A id \in CheckerboardIDs, slot \in Slots :
          SF_vars(running /\ Publish(id, slot))

FairSpec == Spec /\ Fairness

-------------------------------------------------------------------------------
(* Type correctness; in particular, every reading on its way to the broker *)
(* is a signed 16-bit integer (SentientController.parse).                  *)
OptionalReading == JShort \cup {Null}

ReaderType ==
    [step : Steps, intended : SensorConfigs \cup {<<>>}, pos : Nat \ {0},
     retries : Int, parsed : Seq(JShort), next : Nat \ {0}]

TypeOK ==
    /\ running \in BOOLEAN
    /\ connectionRetry \in ConnectionRetries
    /\ sensorsConfig \in SensorConfigs
    /\ scannedDevices \subseteq Devices
    /\ \A d \in Devices : rawValue[d] \in RawValues[d] \cup {Null}
    /\ reader \in ReaderType
    /\ pending \in [CheckerboardIDs -> [Slots -> OptionalReading]]
    /\ published \in [CheckerboardIDs -> OptionalReading]

(* Whatever configurations replace one another while a round is under way, *)
(* what is published for a sensor has been read at the sensor's index, from *)
(* a device that some configuration gives the sensor to - or is the -1 that *)
(* stands for "nothing read" (readSensor and SentientController.parse).    *)
ReadingsOf ==
    [id \in CheckerboardIDs |->
       {-1} \cup {Reading(Parse(rawOf[2]), rawOf[1]) : rawOf \in
         UNION {{device.sensors[i].index : i \in
                   {k \in DOMAIN device.sensors : device.sensors[k].checkerboardID = id}}
                \X {r \in RawValues[device.address] : ~IsOdd(r)} : device \in SensorDevices}}]

ReadingComesFromItsSensor ==
    \A id \in CheckerboardIDs :
        /\ published[id] # Null => published[id] \in ReadingsOf[id]
        /\ \A slot \in Slots :
              pending[id][slot] # Null => pending[id][slot] \in ReadingsOf[id]

(* readSensor always gives the scheduler thread back, which scanning,      *)
(* mapping and LED writing wait for - unless it ends the program.          *)
RoundEnds == reader.step # "idle" ~> (reader.step = "idle" \/ ~running)

(* The promise of the reader: when a sensor's value stops changing, the    *)
(* broker ends up with it for good, although devices fail, publishes       *)
(* overtake one another and BlueZ may list no characteristic for a while - *)
(* provided it is configured once, and no device before it in the          *)
(* configuration delivers an odd number of bytes.                          *)
SensorsOf(c) == UNION {{<<i, k>> : k \in DOMAIN c[i].sensors} : i \in DOMAIN c}

ConfiguredOnce(c, id) ==
    Cardinality({p \in SensorsOf(c) : c[p[1]].sensors[p[2]].checkerboardID = id}) = 1

Settled(c, i, raw) ==
    /\ running
    /\ sensorsConfig = c
    /\ connectionRetry > 0
    /\ c[i].address \in scannedDevices
    /\ rawValue[c[i].address] = raw
    /\ \A j \in 1 .. i - 1 :
          rawValue[c[j].address] # Null => ~IsOdd(rawValue[c[j].address])

SettledReadingIsPublished ==
    \A c \in SensorConfigs : \A i \in DOMAIN c :
        \A raw \in {r \in RawValues[c[i].address] : ~IsOdd(r)} :
            \A k \in DOMAIN c[i].sensors :
                LET sensor == c[i].sensors[k]
                IN  ConfiguredOnce(c, sensor.checkerboardID) /\ <>[]Settled(c, i, raw) =>
                       <>[](published[sensor.checkerboardID]
                              = Reading(Parse(raw), sensor.index))

(* A sensor that is taken out of the configuration falls silent: a round   *)
(* that still works on the old configuration publishes it a last time.     *)
Configured(id) ==
    \E p \in SensorsOf(sensorsConfig) : sensorsConfig[p[1]].sensors[p[2]].checkerboardID = id

RemovedSensorFallsSilent ==
    \A id \in CheckerboardIDs :
        <>[](running /\ ~Configured(id)) => <>[](\A slot \in Slots : pending[id][slot] = Null)
===============================================================================
