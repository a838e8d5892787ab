# A verification of the sentient light hub

The hub (`src/main/kotlin/.../sentientlighthubplayground`) is a Spring application on a
Raspberry Pi. It reads sensors of Bluetooth LE devices, publishes their values over MQTT,
computes averages, evaluates *mappings* (conditions on a sensor with a command for an LED),
publishes the commands, and writes them to LED devices, again over Bluetooth. The Bluetooth
side is `tinyb` (`src/main/java/tinyb`): Java classes over a C++ library, with the JNI functions
that connect them in the same repository. libtinyb itself, BlueZ, Paho's MQTT client, the broker
and the Spring scheduler are outside; where the hub depends on what they do, the modules model
what the hub's code uses them for and the map in `PROJECT.json` marks the definition external.

```
 device -> [tinyb] -> SensorReader -> broker -> SentientMapping -> broker -> LedWriter -> [tinyb] -> device
                          ^                          ^                          ^
                       Discovery             configuration topic            Discovery
```

Every arrow is asynchronous. The scheduled tasks share **one** scheduler thread; each
subscription handles its messages on a callback thread of its own MQTT client; each evaluation,
each publish and each LED write is a thread of its own (`SimpleAsyncTaskExecutor`) that nobody
waits for. The threads share plain `HashMap`s, the mutable fields of `SentientProperties` and of
`ConfigurationController`, and `TinybController.scannedDevices`. There is not one lock.

## Inventory

| component | state | operations | called by, calls |
|---|---|---|---|
| mapping engine (`SentientMappingScheduledTask`, `SentientMappingEvaluationAsyncTask`, `model/mapping`) | `valuesCurrent`, `valuesHistoric`, `valuesAverage` | subscribe, `handleValue`, `map`, evaluate, publish the command | sensor topic; scheduler; LED topics |
| LED writer (`GATTWriteLEDScheduledTask`, `GATTWriteSensorAsyncTask`) | `values`, the running write threads | subscribe, store a message, `map`, `run` | LED topics; scheduler; `TinybController.writeCharacteristic` |
| sensor reader (`GATTReadSensorScheduledTask`, `SentientController`) | none but the round it is in | `readSensor`, `parse`, publish | scheduler; `TinybController.readCharacteristic`; sensor topics |
| device discovery (`GATTScanDevicesScheduledTask`, `TinybController.scanDevices`) | `scannedDevices`, the adapter's discovery | scan | scheduler; `BluetoothManager.startDiscovery`, `stopDiscovery`, `getDevices` |
| GATT access (`TinybController`) | `scannedDevices` | connect with retries, read, write, show | reader, writer |
| tinyb handles and notifications (`BluetoothObject`, `BluetoothNotification`, `JNIMem`, the enable and disable functions of every class) | Java handles, the native heap, installed callbacks | wrap, clone, close, finalize, enable, disable, notify | the hub's controllers; libtinyb |
| tinyb manager and lookup (`BluetoothManager`, `helper.cxx`, the find, get and clone functions of every class) | the singleton, the table of types; native memory while a call lasts | find, getObject, getObjects, the lists of children, the owner, clone | `TinybController` |
| tinyb property accessors (all `Java_tinyb_*` getters, setters and operations) | none but the value in BlueZ | convert the argument, call libtinyb, convert the answer | `TinybController`; libtinyb |
| tinyb nearby discovery (`BluetoothManager.java`) | `nearbyThread` | start, stop, poll | nobody in the hub |
| tinyb events | none | stubs | |
| configuration (`ConfigurationController`, `SentientProperties`) | the three configurations, the settings | load, `getActor` | everyone |
| configuration topic (`SentientPropertiesAsyncTask`) | its client | subscribe, `handleValue`, `connectionLost` | configuration topic |
| MQTT access (`MqttController`, `MQTTPublishAsyncTask`, `MQTTSubscribeAsyncTask`) | a client per call | publish, subscribe | everyone |
| server-sent events (`SseController`, `SSESendAsyncTask`) | the list of emitters | register, remove, send | nobody starts the sender |
| mock-up tasks | maps like those of the mapping engine | | switched off in `application.properties` |
| application, scheduling | the scheduler thread | | |

What is hard in them, and what makes each of them correct:

* **mapping engine**: three maps written one after the other, with exceptions between the writes,
  while evaluation threads read two of them without a lock; evaluations that overlap with one
  another; commands that overtake one another. *Correct* when histories, averages and current
  values belong together, when no command is sent for values that never arrived, and when a demand
  that lasts is what the broker holds in the end.
* **LED writer**: a walk over a map that changes under it, one topic that throws out of the
  walk, old write threads that outlive new ones, writes that fail. *Correct* when an LED ends up
  showing the last value of its topic and never shows one the topic did not carry.
* **sensor reader**: a round that takes minutes and works on the configuration it began with,
  with exceptions that skip a device, end the round or end the program. *Correct* when a sensor is
  only given values read for it, when a settled value arrives, and when rounds end - four
  other tasks wait on the same thread.
* **discovery**: refused starts, a stop that does not stop. *Correct* when what stays visible is
  found.
* **tinyb handles**: explicit `close()`, finalizers, native addresses that are used again,
  callbacks that keep Java objects alive from the native side. *Correct* when there is no use after
  free, no double free, no native object without an owner and no dropped handle that stays.
* **lookup**: numbers that have to mean the same in an enum, a switch and a table; erased and unchecked types; a
  wait during which objects come and go; strings and objects without an owner in the middle of a call. *Correct* when
  what is asked for is what is found, a handle is of the class of its object, a search ends, and no exit leaks.
* **property accessors**: integers of other widths and signs on the other side, texts in another encoding, maps
  that are built again with converted keys, arguments that must be refused. *Correct* when what is set is what is
  stored, and when no two stored values look the same.
* **configuration topic**: a lost connection that leaves one more client behind, each with the
  same callback; a handler whose exception closes the connection. *Correct* when the settings end up as
  the broker's, however many subscriptions work on them.
* **server-sent events**: emitters completing while a message is sent to all. *Correct* when
  one emitter's end does not cost the others their message.
* **nearby discovery**: one field for the thread, no lock. *Correct* when there is at most one
  poller and `stop` stops it.

`PROJECT.json` lists the hazards one by one, each at its line, with the properties that would catch
it going wrong.

## Modules

| module | models | checked by | proofs |
|---|---|---|---|
| `Conditions` | JVM integers, `toIntOrNull`, the threshold conditions | through `SentientMapping` | `Conditions_proofs` (lemmas) |
| `SentientMapping` | mapping engine | `MCSentientMapping.cfg`, `MCSentientMappingLive.cfg` | `SentientMapping_proofs` |
| `LedWriter` | LED writer, `getActor` | `MCLedWriter.cfg` | `LedWriter_proofs` |
| `LatestValue` | abstract: a register written asynchronously with the latest value | refined in `MCLedWriter.cfg` | |
| `LedRegister` | the refinement: one topic of `LedWriter` and its device as a `LatestValue` | `MCLedWriter.cfg` | `LedWriter_proofs` |
| `SensorReader` | reader, `parse`, connecting and reading | `MCSensorReader.cfg`, `MCSensorReaderLive.cfg` | `SensorReader_proofs` |
| `Discovery` | the scan and the adapter's discovery | `MCDiscovery.cfg`, `MCDiscoveryStop.cfg` | through `NearbyDiscovery` |
| `NearbyDiscovery` | the polling thread of nearby discovery, composed with `Discovery` over one adapter | `MCDiscovery.cfg` | `NearbyDiscovery_proofs` |
| `ConfigurationTopic` | configuration topic, `load...Config`, subscribing | `MCConfigurationTopic.cfg` | `ConfigurationTopic_proofs` |
| `TinybHandles` | Java handles, native objects, callbacks | `MCTinybHandles.cfg`, `MCTinybHandlesDisable.cfg` | `TinybHandles_proofs` |
| `TinybObjects` | find, getObject, getObjects, children, owners, clones | `MCTinyb.cfg`, `MCTinybGetObjects.cfg` | `Tinyb_proofs` |
| `TinybProperties` | the accessors: conversions between Java and C++ | `MCTinyb.cfg` | `Tinyb_proofs` |

An `MC...` module gives the constants of a specification values for TLC; operators commented as
*mutants* are the wrong versions of an operation that `PROJECT.json` puts in place of the right one
to see that a property notices.

### How the modules correspond to the code

The grain of an action is the stretch of code between two points where another thread can make a
difference. A read or write of a shared field, a write to a `HashMap` and a call to the outside
are such points; a thread's own computation between them belongs to one action.
Exceptions are actions or disjuncts of their own, named after what throws.

**SentientMapping.** `handleValue` is the sequence `MessageArrived` (the write to
`valuesCurrent`), `AddToHistory`, one `SumNext` per element of the queue, `PutAverage` (the writes
to `valuesHistoric` and `valuesAverage`). In between, `handler` holds the thread's locals. A queue
that is already in the map is changed in place by `AddToHistory`; a new one is in the map only
from `PutAverage` on. What throws - `toInt` on text, division by the length of an empty
queue, `EvictingQueue.create` with a negative size - ends in `HandlerThrows`: the exception leaves
`messageArrived`, Paho closes the connection, `connectionLost` only logs, the automatic reconnect
has a clean session and nobody subscribes again. `Map` starts one thread per mapping and round;
`ReadAverage` and `ReadCurrent` are the reads of an evaluation, at different moments;
`Publish` and `PublishFails` are what becomes of its command. Int addition wraps around,
division truncates towards zero.

**LedWriter.** `StartMap` and one action per entry (`SkipEntry`, `ShortTopic`, `WriteEntry`) are
`map()`. `Connect`, `GiveUp`, `ExitOnConnect`, `Write`, `WriteFails` are the write thread; the
retries of `ensureConnection`, which `SensorReader` models one by one, are taken together here. A
topic is a record of what `split('/')` gives: the number of segments and the two used.

**SensorReader.** One action per call that can fail or be overtaken, in the order of the code:
`FindDevice`, `Connect` (twice: `readCharacteristic` calls `ensureConnection` again), `LookUp`,
`ReadValue`, one `StartPublish` per sensor. `reader` holds the round's locals: the
configuration it began with, the position in it, the retries left, the parsed values. Bytes are
signed and two of them make a little-endian signed 16-bit integer, as `ByteBuffer` does it. Even an address or a name of a scanned device is a call to
libtinyb that may throw: before the first device it ends the call of `readSensor` (`ReadSensorThrows`, outside the `try`), in the search for a device
and before connecting it costs the device its turn (`AccessorThrows`).

**Discovery.** `scanDevices` in five steps over an adapter whose `StartDiscovery` fails while the
same client's discovery is on. `StopDiscovery` calls what the native function calls. `CollectThrows` is the list of devices that throws and ends
the scan with the devices of an earlier one.

**NearbyDiscovery.** Extends `Discovery`: either a step of the scan or one of nearby discovery is taken, and both use `objects` and
`discovering`. `startNearbyDiscovery` is `StartNearby`, `RemoveDevices`, `NearbyStartsDiscovery` and
`SpawnPoller`, the polling thread `Check`, `Visit` (one device), `Rest`, `Wake` and `EndPoller`; `PollerDies` is the exception that the thread does
not catch. `poller[t].interrupted` is the thread's interrupt status, which `Check` and a sleep that throws clear. Start and stop come from one
caller. A start that finds the last thread still alive, although it was told to stop, does nothing; one that comes after it was
stopped removes all devices and then throws, unless BlueZ has ended the discovery in between.

**ConfigurationTopic.** A slot of `client` follows a client from `MQTTSubscribeAsyncTask` (`Connect`,
`Subscribe`, or a failure, after which nobody tries again) to the moment its connection is lost.
`ConnectionLost` is what the callback does then: the slot is that of the new client, and the old
one, which reconnects without a subscription, is remembered in `idle`; when it is lost again it
calls the same callback (`IdleLost`). That is how subscriptions multiply. `HandleValue` and `HandlerThrows` are
`handleValue` with the properties sorted by what its `when` does with them: assign, convert or
parse. The broker is its retained messages; `superseded` says that something came after the retained one.

**TinybHandles.** `handle` is the Java side (valid?, `nativeInstance`, does the program refer to
it?), `allocated` and `slot` the native side. `Close` and `Finalize` share `Release`, the native
`delete`, which is guarded by `isValid`. Freed addresses are used again. `Notifications` is a
table of what each pair of enable and disable functions of the four classes sets and clears; the
code of all of them is alike, so that one action each stands for all. That a program does not use
a handle after `close()` is what the documentation of `close` asks of the program (`Usable`).

**TinybObjects.** One caller and a BlueZ in which objects appear and disappear under it. `Search` is the way from any of the
Java `find` functions to the point where libtinyb waits, with the arguments as the native function gets them: the type as a
number (`Ordinal` on the Java side, `FromIntToBtype` on the other), the timeout in milliseconds, the strings copied to
C++. `EndSearch` is libtinyb's answer, `FoundUnwrapped` and `FindThrows` are the exits after which something is left on the
native heap. `getObject_setter` handles its exceptions itself: when memory is short for a copy, a Java exception is pending and the caller searches
with pointers that nobody has set. What comes of that is undefined (`EndAstray`, `BreakStray`, `LookUpStray`), or a search for whatever they point to
(`Stray`, `EndStray`). `call.failure` says why a call did not return. `Matches` is what libtinyb looks for and external. The functions that list children are rows of one table,
as are those that return an owner and those that clone: their native code is the same but for the classes. A handle
records its class and the class that Java code takes it for, as JNI checks neither; `Misuse` is a call through a handle where the two differ.

**TinybProperties.** Each of the accessors is a row that names the conversion of its answer (`Read`) and of its
argument (`Written`); operations without an argument, such as `connect`, are rows whose answer is read. The state is the
one property the program uses, its value in BlueZ (`stored`), what the program gave and what it got. Setting may be refused by
the native function, fail in libtinyb before or after the change, or be followed by a change by another program. Two kinds of Java texts do not
survive modified UTF-8: those with characters beyond 16 bits (`Wide`), and those with U+0000 (`WithNul`), which becomes two bytes that D-Bus does not
take for a text. BlueZ never has one of the latter, as the strings of D-Bus end at their first zero byte.

### Unsynchronised HashMaps

What a `get` may return while another thread puts is modelled from `java.util.HashMap`: an entry
that is being replaced is seen old or new; when a put makes the table grow, the new table is
installed empty and filled afterwards, so that a `get` in between may miss any entry
(`growCurrent`, `growAverage`, `Get`), and a `forEach` that has begun walks the old table,
whose lists are being split, and may miss entries (`grown`, `SkipEntry`). Steps are otherwise
interleaved sequentially; `GrowthSizes` are the sizes at which a table grows (13, 25, ... in
the JVM, as small as 1 in the runs, so that it happens).

## What the runs check

| run | question | result |
|---|---|---|
| `mapping` | Do the three maps stay consistent whatever evaluations overlap with whatever messages and exceptions? | `HistoryEndsWithCurrent`, `AverageIsMeanOfHistory`, `AverageInReadingRange`, `TriggerNeedsReports` hold. What an exception leaves half done is allowed for only when the subscription is dead - it always is. |
| `mapping_live` | Does a lasting demand win, and what does one payload of text do? | `StableDemandWins` holds in spite of overtaking and failing publishes, because every second repeats the command - for a demand that mappings and averages which no longer change make every time (see below). `GarbageIsFatal`: one payload that is no integer ends the input for good. |
| `led` | Do old writes win over new ones, and what does a malformed topic do? | Not in the end, on a device that the actors keep to: `LedShowsStableValue`, also when the table grows under the walk and hides entries from it; and the LED never shows what its topic did not carry: `ImplementsLatestValue`. `ShortTopicSilencesTheRest`: the entries behind a malformed topic are never written again. |
| `discovery` | The scan and nearby discovery on one adapter: is a visible device found, is it reported, and is there ever a thread that nobody can stop? | `VisibleDeviceIsScanned`: it is scanned, but only because something other than the hub turns the discovery off now and then. `NewDeviceIsReported` holds, since polling needs the devices and not the discovery. `PollerIsReachable` and `InterruptEndsPoller`: one thread at most, and an interrupt ends it wherever it is. |
| `discovery_stop` | Does `stopDiscovery` turn discovery off, as documented? | No, see below. |
| `reader` | Can a sensor get another one's reading, when configurations change during a round? | `ReadingComesFromItsSensor`: no. |
| `reader_live` | Does a round end, does a settled value win over late publishes, does a removed sensor fall silent? | `RoundEnds`, `SettledReadingIsPublished`, `RemovedSensorFallsSilent` hold. A device behind a bad one gets its turn as long as the bad one does not deliver an odd number of bytes, which ends the round. |
| `config_topic` | Do the settings end up as the broker's, with subscriptions that come and go? | `SettledSettingIsRetained`: yes, once everything is handled, although a late subscription may set a property back for a while - provided that no attempt to subscribe has failed. `PoisonNeverRests`: a retained message that the handler throws on keeps every subscription from coming to rest. |
| `handles` | Use after free, double free, orphans, leaks? | `HandlesOwnTheirNatives`, `OwnedUntilFreed` and `DroppedHandleIsFreed` hold; only what `NewObject` fails to wrap is lost. |
| `bindings` | Do the bindings return what was asked for, and mean on either side what the other means? | `FoundIsWhatWasAsked`, `HandleFitsNative` hold with the exceptions they name; `ReturnedCallsCleanUp`: only exceptions leave something behind; `FindEnds`: searches with a timeout of a millisecond or more end. `DescriptorFindIsBlind` states what one function never does. `SettingSurvives`: what fits the C++ type comes back as given. `GottenTellsStored`: no two values look the same, however they are converted. |
| `get_objects` | Does `getObjects` return the objects that match, as documented? | No, see below. |
| `handles_disable` | Does disabling unregister the callback, as documented? | Not for manufacturer data, see below. |

### What a lasting demand needs

An evaluation of a dynamic mapping reads the average and the current value at different moments. While both
rise, it may compare an old average with a new value, a pair that the maps never held together, and publish
a command that no state of the maps demands; and a demand that is always there but made by one mapping now and by
another next may be missed by every evaluation. `StableDemandWins` therefore promises that the command of a
mapping wins whose condition holds for ever, over a configuration and averages (of the dynamic mappings of
its topic) that have stopped changing. `LedShowsStableValue` likewise names the device: an actor's
address that alternates for ever is not followed by every LED. Both limits came out of the attempt to prove the
properties without them; TLC shows the first with readings 0, 1 and 2, a history of one, and mappings of
one topic with a static threshold of -1 and a dynamic one of 1.

### Disagreements between code and documentation

* `BluetoothManager.stopDiscovery` is documented to turn discovery off
  (`BluetoothManager.java:203`); its native function calls `start_discovery`
  (`BluetoothManager.cxx:358`). Run `discovery_stop`.
* `disableManufacturerDataNotifications` is documented to unregister the manufacturer
  data callback (`BluetoothDevice.java:293`); its native function disables those of the service
  data (`BluetoothDevice.cxx:1011`). Run `handles_disable`.
* `BluetoothManager.getObjects` is documented to return a list of the objects that match
  (`BluetoothManager.java:157`). It makes the list's handles of the abstract class `BluetoothObject`
  (`BluetoothManager.cxx:226`) and fails on the first of them, which nobody frees any more, with JNI calls while the
  exception is pending. Run `get_objects`: `GetObjectsReturnsMatches` leaves out the calls in which libtinyb or memory
  failed, so that what is left is this.

Four more are stated by properties that hold, in run `bindings`, because the code's behaviour is what the other
properties have to make an exception for:

* `BluetoothGattCharacteristic.find` is documented to find a descriptor (`BluetoothGattCharacteristic.java:41`). The number
  of descriptors becomes the type of characteristics (`helper.cxx:174`), of which there are none below a
  characteristic: `DescriptorFindIsBlind`. Without a timeout it blocks its thread for ever.
* `clone` of services and descriptors is declared to return a `BluetoothAdapter`: the second disjunct of `HandleFitsNative`.
* The timeouts of `find` are in any unit; below a millisecond they become 0, which is documented to wait
  for ever: `FindEnds` needs a millisecond.
* Timeouts of the adapter are a `long` that is cut to 32 bits, the filter's RSSI and path loss an `int` that is
  cut to 16, without a complaint: `SettingSurvives` needs what fits.

### Bounds, and why they are enough

* `mapping`: two sensors (a fault of one sensor that disturbs the other needs two), a
  negative and a positive reading and one that is no integer, histories of -1 (throws), 0 (divides
  by zero) and 2 (evicts), a mapping of each kind of condition, one round. 2^31 becomes 8 (`IntHalf`):
  sums of two readings fit, averages plus thresholds come near the limits. `mapping_live`: one sensor
  and two rounds of evaluations, which is what overtaking needs; three rounds add nothing a pair does not have.
* `led`: the topic of an LED behind a malformed one, two payloads and two write threads. Either topic may come first,
  and the table grows with each of them, so that a walk misses both an entry that has just come and one that was there. That a
  topic without an actor is passed over and that the first of several actors is taken is only proved: the theorems are about any
  topics and actors, and a third topic takes the liveness properties beyond what TLC can do in minutes.
* `reader`: two devices, two configurations that swap the sensors between devices and
  indices, values with 1, 4 and 4 bytes and negative halves. `reader_live`: two
  devices, the first of them with no usable value for the second's sake, and two publish threads of one sensor.
* `discovery`: one device, as devices do not meet in the code; two polling threads, so that one may be
  started while another has not ended if the code allowed it; `GATT_SCAN_RETRY` -1, 0 and 2.
* `config_topic`: two clients (a late one and a current one), a number with two values and a configuration, and a payload that
  either of them throws on; two messages ahead of a client (`MaxInbox`) are an old one and a new one. The number of clients is bounded here and nowhere in the code.
* `handles`: three handles over three addresses: a chain, a ring and a self-capture all
  exist. One kind of notification per run: two of them only meet in `handles_disable`.
* `bindings`: one object of each type and a second service, so that a child of another parent and another identifier exist;
  identifiers shared by objects of different types; durations of none, half a millisecond and one (`NanosPerMilli` is 2). Integers of 2, 4,
  8 and 18 values for 8, 16, 32 and 64 bits (`ByteHalf`, `ShortHalf`, `IntHalf`, `LongHalf`), which keeps the order of the widths and makes every truncation
  happen; arrays, lists and maps of up to two elements. The proofs do not depend on any of these numbers. The program looks objects up
  or uses a property, as the two share nothing.
* `Rounds` and `Slots` bound the threads alive at one time in every module: a scheduler turn waits
  for a free one. The code has no such limit; the hazard of piling up threads is therefore listed and not checked.

### Fairness, and why the code justifies it

* *The scheduler calls its tasks again and again* (`@Scheduled` with a fixed delay or rate), an exception in one call
  notwithstanding: weak fairness of `Map`, `StartMap`, `ReadSensor`; strong fairness of
  `StartDiscovery`, which a started discovery disables again and again. A call of `readSensor` that throws at its log line is a
  step of the model that changes nothing (`ReadSensorThrows`); the next call is what fairness is about.
* *Started threads run*: weak fairness of their steps (`Poll` among them, whose listener is assumed to return).
* *Who is asked infinitely often answers infinitely often*: strong fairness of `Publish`,
  `FindDevice`, `Connect`, `LookUp`, `ReadValue`, `Write` and `Collect` against the action for the failure of the same call, for the
  reader those of devices with sensors (`Sensing`). This is an assumption on broker, devices and BlueZ. It is what retrying can hope for: a device that never answers never shows a value, whatever
  the hub does.
* *The collector and the finalizers run*: weak fairness of `Finalize`. The Java language does not
  promise it; it is the assumption under which leaving `close()` to the finalizer makes sense at all.
* *libtinyb looks at the objects there are, wakes up for new ones, and keeps the time*: weak fairness of `EndSearch`.
* `ConfigurationTopic` is checked for safety only and assumes no fairness.
* Nothing is assumed of messages, configuration changes, lost connections, appearing devices or notifications.

## What is proved

The proofs are checked for every value of the constants that satisfies the named assumptions.

* **`SentientMapping_proofs`**: `TypeCorrect`, `HistoryConsistent`, `AverageCorrectRange`, `NoPhantomTrigger`, all from
  `Invariance`. The inductive invariant has seven parts: types with the
  handler's locals by step (`TypeInv`); a history never exceeds its capacity and a positive
  capacity is one that `VALUE_HISTORY` had (`QueueInv`); the accumulator is between
  `n * ReadingLow` and `n * ReadingHigh` after `n` readings (`AccInv`), which is why neither addition wraps nor
  an average leaves the range; an average implies a history, and what an evaluation holds in its hands stays
  in the maps (`TaskInv`); and the three properties themselves. None of them is inductive alone:
  the range of the average rests on that of the partial sum, the partial sum on the bound of the queue.
  Assumed: `0` is among the possible readings' range and readings are Ints (`MappingAssumption`).
  `AverageCorrect` adds that averages are the means of their histories, whatever the length, when sums of that many
  readings fit an Int (`HistoryFits`, its only hypothesis): `SumInv` says that the accumulator is the sum of what has been added, and that the
  recursion which defines the partial sums has a solution for every queue (`SumsExist`) is shown by a least counterexample
  (`SmallestOf`), as induction over the queue is not to be had. `GarbageCostsSubscription` is the safety of `GarbageIsFatal` - no
  garbage on a live subscription but the one being handled -, `GarbageEndsInput` the property itself.
  `DemandWins` proves `StableDemandWins` by the argument: once threads from before are gone (`NoneStale`), none that is
  out of date starts, every evaluation publishes the mapping's command, and only that is accepted.
* **`SensorReader_proofs`**: `TypeCorrect` (every reading is a signed 16-bit integer) and `OriginOfReadings`. The invariant adds
  what the round's locals say at each step (`ReaderInv`): the position is within the configuration the round began with, and
  the parsed values are empty or come from a possible value of the device at that position. That
  `SkipDevice` clears them is what the proof hangs on. `RoundsAdvance` orders the positions, attempts and steps of a round and
  shows that each step ends it or moves onward, which is why a round cannot repeat itself.
  `RemovedSensorSilent` and `SettledReadingWins` follow from `RoundEnds` and from publishes that end: a
  round that began before the change is the last one with the old state.
* **`ConfigurationTopic_proofs`**: `TypeCorrect`, `SettledCorrect`, `PoisonStays`, for any number of clients, properties and messages. The
  invariant says why nothing gets lost: as long as nobody has failed, somebody is subscribed or about to be
  (`SomebodyTries`); in the inbox of a subscription an outdated message is followed by the broker's (`OutdatedIsFollowed`); and a setting that is
  not the broker's has a message for it ahead, or a client that will get one when it subscribes (`OutdatedSettingChanges`). The last is what
  `SettledSettingIsRetained` becomes when nothing is ahead any more. Assumed (`ConfigurationAssumption`): the kinds of properties are disjoint and finitely many, an
  empty payload is neither a number nor a configuration.
* **`NearbyDiscovery_proofs`**: `TypeCorrect` and `OnePoller`, for any devices, threads and retries. Types are those of `Discovery` too. That
  the thread alive is the one referred to is inductive only with `StartedAlone`: after the check in
  `startNearbyDiscovery` no thread is alive until the new one starts, which is where the single caller is needed.
  `InterruptReachesEnd` follows an interrupt from each place of the loop to the end of the thread, `EveryDeviceReported` a device into a
  new list and to its turn, `VisibleDeviceFound` one from the adapter to the scan's list. `StopNeverStops` is the extent of
  the first disagreement above: no step of the program turns discovery off.
* **`TinybHandles_proofs`**: `TypeCorrect`, `MemoryDiscipline`, `NoOrphans`, for any
  number of handles, addresses and notifications. The invariant is the property itself together with "an object that has been created has an
  address": the three parts of `HandlesOwnTheirNatives` need one another, as
  a freed object that kept a callback would keep a handle alive. `CollectorNeverStuck`: what the program or a ring of callbacks holds is not
  collected, and as long as there is garbage some of it can be: callbacks are only kept by objects that have an owner
  (`CallbacksOwned`), so that garbage that is captured throughout would be a ring, and held; `GarbageIsFinal`: only a notification
  brings garbage back. `OthersUnregister` is the extent of the second disagreement: every other disable function unregisters.

* **`LedWriter_proofs`**: `TypeCorrect` and `RegisterRefined`, for any topics, actors, payloads, devices and threads. The invariant
  (`ThreadsInv`) says that a thread at work has an address and bytes, and that the register's device is the address of the threads
  of its topic and of no other, because a change of the actors or of the scanned devices does not change where a thread that has
  started writes. With it every step maps to one of the register's or to a stutter, action by action: a message is a `Request`, a
  new thread a write on its way, and a thread that ends without writing is lost. Assumed (`RegisterAssumption`): no other topic leads to the device in any
  configuration. That the first actor of several is found needs a minimum of a set of numbers, which comes from well-founded induction (`WFMin`).
  `MalformedSilences`: once the last topic has come and a walk has ended, no walk passes the malformed topic.
  `StableValueShown`: every walk reaches the topic (`WalkReaches`) and starts a thread with its value, no thread with
  another value or device starts any more (`NoneStale`), so that once the old ones are gone only that value is written.
* **`Tinyb_proofs`**, objects: `TypeCorrect`, `AnswersFit`, `HandlesFit`, `NoLeakOnReturn` and
  `BlindForDescriptors`, for any tree of objects, identifiers and durations. The properties hold each other up: with the added fact that only
  `find` waits and has no result yet (`WaitingIsFind`), their conjunction is inductive. `TypeNumbers` is where the exception for descriptors
  comes from; `BlindForDescriptors` rests on it and on the parents of the tree (`ObjectAssumption`). `SearchesEnd`: nothing
  but its end changes what a search asks for, and a millisecond or more does not become 0.
* **`Tinyb_proofs`**, properties: `PropertiesTypeCorrect`, `SettingsSurvive` and `ReadingsTell`, for any widths and lengths. The
  invariant (`PropertyInv`) says that what was given is written as what is stored, and that what was got was read from it. The rest is about the
  conversions: integers of the same width and back (`SignedAndBack`), a truncated integer that fits (`TruncatedKeeps`), element by element
  for arrays and lists (`ElementsDiffer`), entry by entry for the maps that are built again with other keys (`MapsDiffer`), put together in
  `FittingKept` and `ReadDiffers`. Assumed (`PropertyAssumption`): the order of the widths, and that texts with
  and without wide characters, garbled ones and null differ.

### Liveness: what is proved and what is left to TLC

That weak or strong fairness makes an action happen needs `ENABLED`, which is out of the prover's reach. The theorems about liveness
therefore start from what the fairness gives, stated as hypotheses without `ENABLED` and next to the
theorem, and prove the rest, which is where the code's logic is: what stays true, what each step leads to, what no
longer starts. Each hypothesis holds under the fair specification of the run that checks the property, where TLC has checked it too.

| theorem | of property | hypotheses | they hold because |
|---|---|---|---|
| `GarbageEndsInput` | `GarbageIsFatal` | `handler.sensor # s` again and again | the handler's steps are fair, and it takes one per element of a queue of bounded length |
| `DemandWins` | `StableDemandWins` | `GrowthEnds` | there are finitely many sensors, and an entry is never removed |
| | | `EvaluationsRecur`, `StaleTasksEnd` | the scheduler is fair, and so are the evaluations' and the publishes' ends |
| | | `PublishesSucceed` | strong fairness of `Publish` |
| `RemovedSensorSilent`, `SettledReadingWins` | `RemovedSensorFallsSilent`, `SettledReadingIsPublished` | `RoundEnds` | the round's steps are fair, and it only advances (`RoundsAdvance`) |
| | | `PublishesEnd`, `DevicesAnswer` | publish threads end; strong fairness of `FindDevice`, `Connect`, `LookUp`, `ReadValue` and `Publish` |
| `InterruptReachesEnd`, `EveryDeviceReported` | `InterruptEndsPoller`, `NewDeviceIsReported` | `Moves` | weak fairness of `Poll` |
| `VisibleDeviceFound` | `VisibleDeviceIsScanned` | `ScansComplete` | strong fairness of `StartDiscovery` and of `Collect`, and fair steps of a scan |
| `MalformedSilences`, `StableValueShown` | `ShortTopicSilencesTheRest`, `LedShowsStableValue` | `TopicsSettle` | there are finitely many topics, and an entry is never removed |
| | | `WalksStart`, `WalksEnd`, `WritesEnd`, `ActorsAnswer` | walks and threads are fair, `Write` strongly |
| `SearchesEnd` | `FindEnds` | `EndsWhatItCan` | weak fairness of `EndSearch`, with its enabling condition written out |

**Only model-checked**: that these hypotheses follow from the fairness; `RoundEnds` and `DroppedHandleIsFreed` as a whole, which come down to a
well-founded order under fairness and of which the safety cores are proved (`RoundsAdvance`; `CollectorNeverStuck` and
`GarbageIsFinal`). Nothing that holds as an invariant or an action property is only model-checked.

## What is not modelled

* libtinyb, BlueZ, Paho, the broker: only what the hub's code uses them for. Their
  locking between a notification and `disable` is theirs.
* A parent without a native object (`helper.hpp:52`), for which `getInstance` throws inside `getObject_setter` as a failed copy does (`Stray`): the
  handles of the model have one.
* Callbacks that throw: the JNI calls made with a pending exception are undefined.
* Of tinyb: `BluetoothEvent`, whose native functions are stubs that return null or false; `BluetoothObject.cxx`, whose functions compare and return paths; the
  functions `getBluetoothType` of the classes, which are constants; the construction and deletion of the manager's singleton; the
  UUIDs of a discovery filter, which pass unchanged.
* Server-sent events: `SseController` keeps and removes emitters, but nothing in this version starts `SSESendAsyncTask`, so that
  there is no behaviour to check.
* Mock-up tasks: copies of the mapping engine and the reader with fixed data, switched off.
* The scheduled tasks on their one thread, all together: each module has the thread as a guard or as fairness, but what a long round does
  to the other tasks is not composed.
* Parsing of JSON files, logging, Spring's wiring.

Some hazards of the code are outside of what the modules can tell, and no property covers them:

* `connect()` that returns false ends the program (`TinybController.kt:61`). `ExitOnConnect` is a step of the reader and of the write
  threads, but every liveness property excuses the end of the program.
* A device that delivers an odd number of bytes costs those behind it their turn (`SentientController.kt:29`);
  `SettledReadingIsPublished` excludes the sensors on and behind it.
* The object for which `NewObject` fails in a list is lost (`helper.hpp:103`). It never had an owner, so that `OwnedUntilFreed` does not see it.
* An attempt to subscribe that fails is not repeated (`MqttController.kt:63`); `SettledSettingIsRetained` makes an exception for it.
* A start of nearby discovery that throws has removed the devices already, and nothing polls (`BluetoothManager.java:232`); and a polling
  thread that dies of an exception neither stops the discovery nor tells its listener (line 244). Both are steps of the model, and no property promises more.
* A new thread per topic and second for writes that last up to retries times the idle time: threads pile up (`GATTWriteLEDScheduledTask.kt:75`).
* Clients of lost connections stay behind and reconnect for ever (`MqttController.kt:55`; the model keeps one in `idle`), and a publish
  that throws skips `disconnect` (`MqttController.kt:40`).
* `MQTT_SERVER_URI` and the topics are computed once and do not follow a changed host or base topic (`SentientProperties.kt:25`).
* An emitter that has completed throws `IllegalStateException`, which is not caught (`SseController.kt:38`).
* Two concurrent callers of `startNearbyDiscovery` both pass its check (`BluetoothManager.java:238`); the model has one caller.
* The strings of `find` leak when libtinyb throws (allowed by `ReturnedCallsCleanUp`, which is about calls that return; `BluetoothManager.cxx:127`, `FindThrows` leaves them in the heap); the arrays of
  `writeValue` are never released (`BluetoothGattCharacteristic.cxx:114`, `BluetoothGattDescriptor.cxx:110`).
* `helper.cxx:258` looks for `java/lang/OutOfMemoryException`, a class that Java does not have.

## Plan

1. **Hub**: scan, reader, mapping and LED writer on one scheduler thread, composed from their modules.
2. **Two callers** of nearby discovery, and the threads of the LED writer without a bound.
3. Proofs: that the components' invariants carry over to the composed hub. `GrowthEnds`, `TopicsSettle`, `RoundEnds` and
   `DroppedHandleIsFreed` would need a leads-to by induction over a finite set or a well-founded order, which is induction over
   temporal formulas and stays with TLC.
