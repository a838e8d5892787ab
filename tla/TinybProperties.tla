---------------------------- MODULE TinybProperties ----------------------------
(***************************************************************************)
(* The accessors of the tinyb bindings: the native functions behind the    *)
(* getters, setters and operations of the Java classes.  Each of them      *)
(* converts its argument from Java to C++, makes one call of libtinyb,     *)
(* and converts what that returns from C++ to Java.                        *)
(*                                                                         *)
(* An accessor is a row that names the two conversions.  The state is that *)
(* of one property that the program uses: accessors of different           *)
(* properties share nothing.  Integer types are given by half their size:  *)
(* a byte that is signed goes from -ByteHalf to ByteHalf - 1.              *)
(***************************************************************************)
EXTENDS Integers, SequencesExt

CONSTANTS
    Plain,      \* texts whose characters all have at most 16 bits
    Wide,       \* texts with a character beyond, such as a pictogram
    WithNul,    \* texts with a U+0000: Java has them, strings of D-Bus end at it
    Garbled,    \* any text that is not what it was meant to be
    Adapters,   \* Java handles of adapters
    ByteHalf, ShortHalf, IntHalf, LongHalf,
    Longest,    \* the most elements of an array or list
    Null,       \* the null of Java, the nullptr of C++
    Refused,    \* an argument that the native function throws on
    NoValue

ASSUME PropertyAssumption ==
    /\ {ByteHalf, ShortHalf, IntHalf, LongHalf} \subseteq Nat \ {0}
    /\ Longest \in Nat
    /\ ShortHalf < IntHalf /\ IntHalf < LongHalf
    /\ Garbled \notin Plain /\ Wide \cap Plain = {} /\ WithNul \cap Plain = {}
    /\ Null \notin Plain \cup Wide \cup WithNul \cup {Garbled}

Unsigned(half) == 0 .. 2 * half - 1
Signed(half) == 0 - half .. half - 1

(* The texts of BlueZ, and those of Java.                                  *)
Texts == Plain \cup Wide \cup {Garbled}
JavaTexts == Texts \cup WithNul

(* Mutant: the sign is taken off by one bit too few.                       *)
AsSignedOff(n, half) == IF n < half THEN n ELSE n - half

(* The conversions of C++ between integers of the same size.               *)
AsSigned(n, half) == IF n < half THEN n ELSE n - 2 * half

AsUnsigned(v, half) == IF v < 0 THEN v + 2 * half ELSE v

(* ... and to a shorter one.                                               *)
Truncated(v, half) == v % (2 * half)

(* NewStringUTF expects, and GetStringUTFChars returns, the modified UTF-8 *)
(* of Java: it differs from UTF-8 where a character has more than 16 bits, *)
(* and in U+0000.                                                          *)
FromUTF8(text) == IF text \in Wide THEN Garbled ELSE text
ToUTF8(text) == IF text \in Wide \cup WithNul THEN Garbled ELSE text

(* tinyb.TransportType: its position in Java, its number in C++.           *)
Transports == {"AUTO", "BREDR", "LE"}

TransportOrdinal == [AUTO |-> 0, BREDR |-> 1, LE |-> 2]

FromIntToTransportType(n) ==
    CASE n = 1 -> "BREDR"
      [] n = 2 -> "LE"
      [] OTHER -> "AUTO"

-------------------------------------------------------------------------------
(* The types of C++ that the native functions return, over a set of texts. *)
(* In the maps one byte stands for an array of bytes.                      *)
MapsFrom(keys) == UNION {[ks -> Unsigned(ByteHalf)] : ks \in SUBSET keys}

Natives(texts) ==
    [string |-> texts,
     optional_string |-> texts \cup {Null},
     strings |-> BoundedSeq(texts, Longest),
     bool |-> BOOLEAN,
     uint32 |-> Unsigned(IntHalf),
     uint32_as_int |-> Unsigned(IntHalf),
     int16 |-> Signed(ShortHalf),
     uint16 |-> Unsigned(ShortHalf),
     bytes |-> BoundedSeq(Unsigned(ByteHalf), Longest),
     manufacturer_data |-> MapsFrom(Unsigned(ShortHalf)),
     service_data |-> MapsFrom(texts)]

(* A HashMap with the converted keys: of two keys that become the same,    *)
(* one is lost.                                                            *)
ToHashMap(data, key) ==
    [k \in {key[i] : i \in DOMAIN data} |->
        AsSigned(data[CHOOSE i \in DOMAIN data : key[i] = k], ByteHalf)]

(* What the native functions make of a value of each type.                 *)
StringRead == [t \in Texts |-> FromUTF8(t)]

OptionalStringRead == [t \in Texts \cup {Null} |-> IF t = Null THEN Null ELSE FromUTF8(t)]

StringsRead == [ts \in BoundedSeq(Texts, Longest) |-> [i \in DOMAIN ts |-> FromUTF8(ts[i])]]

BytesRead ==
    [bs \in BoundedSeq(Unsigned(ByteHalf), Longest) |->
        [i \in DOMAIN bs |-> AsSigned(bs[i], ByteHalf)]]

ManufacturerDataRead ==
    LET key == [n \in Unsigned(ShortHalf) |-> AsSigned(n, ShortHalf)]
    IN  [d \in MapsFrom(Unsigned(ShortHalf)) |-> ToHashMap(d, key)]

ServiceDataRead == [d \in MapsFrom(Texts) |-> ToHashMap(d, StringRead)]

Read ==
    [string |-> StringRead,
     optional_string |-> OptionalStringRead,
     strings |-> StringsRead,
     bool |-> [b \in BOOLEAN |-> b],
     uint32 |-> [n \in Unsigned(IntHalf) |-> n],
     uint32_as_int |-> [n \in Unsigned(IntHalf) |-> AsSigned(n, IntHalf)],
     int16 |-> [n \in Signed(ShortHalf) |-> n],
     uint16 |-> [n \in Unsigned(ShortHalf) |-> AsSigned(n, ShortHalf)],
     bytes |-> BytesRead,
     manufacturer_data |-> ManufacturerDataRead,
     service_data |-> ServiceDataRead]

-------------------------------------------------------------------------------
(* What they make of an argument, or Refused when they throw               *)
(* IllegalArgumentException before they call libtinyb.                     *)
StringWritten == [s \in JavaTexts \cup {Null} |-> IF s = Null THEN Refused ELSE ToUTF8(s)]

BytesWritten ==
    [bs \in BoundedSeq(Signed(ByteHalf), Longest) \cup {Null} |->
        IF bs = Null THEN Refused ELSE [i \in DOMAIN bs |-> AsUnsigned(bs[i], ByteHalf)]]

(* Mutant: the timeout passes through a short.                             *)
TimeoutWrittenShort ==
    [v \in Signed(LongHalf) |-> IF v < 0 THEN Refused ELSE Truncated(v, ShortHalf)]

TimeoutWritten ==
    [v \in Signed(LongHalf) |-> IF v < 0 THEN Refused ELSE Truncated(v, IntHalf)]

(* The UUIDs of the filter are left out: they pass as they are.            *)
FilterWritten ==
    [f \in [rssi : Signed(IntHalf), pathloss : Signed(IntHalf), transport : Transports] |->
        [rssi |-> AsSigned(Truncated(f.rssi, ShortHalf), ShortHalf),
         pathloss |-> Truncated(f.pathloss, ShortHalf),
         transport |-> FromIntToTransportType(TransportOrdinal[f.transport])]]

AdapterWritten == [a \in Adapters \cup {Null} |-> IF a = Null THEN Refused ELSE a]

Written ==
    [string |-> StringWritten,
     bool |-> [b \in BOOLEAN |-> b],
     bytes |-> BytesWritten,
     timeout |-> TimeoutWritten,
     filter |-> FilterWritten,
     adapter |-> AdapterWritten]

-------------------------------------------------------------------------------
(* The accessors: what the getter reads and what the setter writes.  An    *)
(* operation without argument is read: its answer is as good as a property *)
(* that changes by itself.  The boolean that writing functions return is   *)
(* passed as it is, and left out.                                          *)
Getter(type) == [reads |-> type, writes |-> "nothing"]
Setter(type) == [reads |-> "nothing", writes |-> type]
Property(type, argument) == [reads |-> type, writes |-> argument]

(* tinyb.BluetoothDevice *)
DeviceDisconnect == Getter("bool")
DeviceConnect == Getter("bool")
DeviceConnectProfile == Setter("string")
DeviceDisconnectProfile == Setter("string")
DevicePair == Getter("bool")
DeviceRemove == Getter("bool")
DeviceCancelPairing == Getter("bool")
DeviceAddress == Getter("string")
DeviceName == Getter("string")
DeviceAlias == Property("string", "string")
DeviceClass == Getter("uint32_as_int")
DeviceAppearance == Getter("uint16")
DeviceIcon == Getter("optional_string")
DevicePaired == Getter("bool")
DeviceTrusted == Property("bool", "bool")
DeviceBlocked == Property("bool", "bool")
DeviceLegacyPairing == Getter("bool")
DeviceRSSI == Getter("int16")
DeviceConnected == Getter("bool")
DeviceUUIDs == Getter("strings")
DeviceModalias == Getter("optional_string")
DeviceManufacturerData == Getter("manufacturer_data")
DeviceServiceData == Getter("service_data")
DeviceTxPower == Getter("int16")
DeviceServicesResolved == Getter("bool")

(* tinyb.BluetoothAdapter and tinyb.BluetoothManager *)
AdapterStartDiscovery == Getter("bool")
AdapterStopDiscovery == Getter("bool")
AdapterAddress == Getter("string")
AdapterName == Getter("string")
AdapterAlias == Property("string", "string")
AdapterClass == Getter("uint32")
AdapterPowered == Property("bool", "bool")
AdapterDiscoverable == Property("bool", "bool")
AdapterDiscoverableTimeout == Property("uint32", "timeout")
AdapterPairable == Getter("bool")
AdapterSetPairable == Setter("bool")
AdapterPairableTimeout == Property("uint32", "timeout")
AdapterDiscovering == Getter("bool")
AdapterUUIDs == Getter("strings")
AdapterModalias == Getter("optional_string")
AdapterDiscoveryFilter == Setter("filter")
ManagerDefaultAdapter == Setter("adapter")
ManagerDiscovering == Getter("bool")
ManagerNativeAPIVersion == Getter("string")

(* tinyb.BluetoothGattService, BluetoothGattCharacteristic and             *)
(* BluetoothGattDescriptor *)
ServiceUUID == Getter("string")
ServicePrimary == Getter("bool")
CharacteristicContents == Property("bytes", "bytes")
CharacteristicUUID == Getter("string")
CharacteristicCachedValue == Getter("bytes")
CharacteristicNotifying == Getter("bool")
CharacteristicFlags == Getter("strings")
DescriptorContents == Property("bytes", "bytes")
DescriptorUUID == Getter("string")
DescriptorCachedValue == Getter("bytes")

(* Accessors with the same conversions behave the same, and are one.       *)
Accessors ==
    {DeviceDisconnect, DeviceConnect, DeviceConnectProfile, DeviceDisconnectProfile,
     DevicePair, DeviceRemove, DeviceCancelPairing, DeviceAddress, DeviceName, DeviceAlias,
     DeviceClass, DeviceAppearance, DeviceIcon, DevicePaired, DeviceTrusted, DeviceBlocked,
     DeviceLegacyPairing, DeviceRSSI, DeviceConnected, DeviceUUIDs, DeviceModalias,
     DeviceManufacturerData, DeviceServiceData, DeviceTxPower, DeviceServicesResolved,
     AdapterStartDiscovery, AdapterStopDiscovery, AdapterAddress, AdapterName, AdapterAlias,
     AdapterClass, AdapterPowered, AdapterDiscoverable, AdapterDiscoverableTimeout,
     AdapterPairable, AdapterSetPairable, AdapterPairableTimeout, AdapterDiscovering,
     AdapterUUIDs, AdapterModalias, AdapterDiscoveryFilter, ManagerDefaultAdapter,
     ManagerDiscovering, ManagerNativeAPIVersion, ServiceUUID, ServicePrimary,
     CharacteristicContents, CharacteristicUUID, CharacteristicCachedValue,
     CharacteristicNotifying, CharacteristicFlags, DescriptorContents, DescriptorUUID,
     DescriptorCachedValue}

HasGetter(p) == p.reads # "nothing"
HasSetter(p) == p.writes # "nothing"

(* The C++ values of a property: what its getter reads, what its setter    *)
(* writes.                                                                 *)
NativeValues(p) ==
    IF HasGetter(p) THEN DOMAIN Read[p.reads]
    ELSE {Written[p.writes][v] : v \in DOMAIN Written[p.writes]} \ {Refused}

VARIABLES
    property,   \* the row of the property in use
    stored,     \* its value in BlueZ, if it has one yet
    given,      \* what the program last set it to, while nobody else has
    got         \* what the program last got, while it has stayed so

propertyVars == <<property, stored, given, got>>

PropertiesInit ==
    /\ property = NoValue
    /\ stored = NoValue
    /\ given = NoValue
    /\ got = NoValue

Use(p) ==
    /\ property = NoValue
    /\ property' = p
    /\ UNCHANGED <<stored, given, got>>

(* The device, or another program, gives it a value.                       *)
PropertyChanges ==
    /\ property # NoValue
    /\ stored' \in NativeValues(property)
    /\ given' = NoValue
    /\ got' = NoValue
    /\ UNCHANGED property

Get ==
    /\ property # NoValue
    /\ HasGetter(property)
    /\ stored # NoValue
    /\ got' = Read[property.reads][stored]
    /\ UNCHANGED <<property, stored, given>>

(* libtinyb throws: the program gets an exception, and no value.           *)
GetFails ==
    /\ property # NoValue
    /\ HasGetter(property)
    /\ got' = NoValue
    /\ UNCHANGED <<property, stored, given>>

(* Mutant: no check of the argument.                                       *)
SetUnchecked(v) ==
    /\ stored' = Written[property.writes][v]
    /\ given' = v
    /\ got' = NoValue
    /\ UNCHANGED property

Set(v) ==
    /\ Written[property.writes][v] # Refused
    /\ stored' = Written[property.writes][v]
    /\ given' = v
    /\ got' = NoValue
    /\ UNCHANGED property

(* An argument that is refused never reaches libtinyb.                     *)
SetRefused(v) ==
    /\ Written[property.writes][v] = Refused
    /\ UNCHANGED propertyVars

(* libtinyb throws, before or after BlueZ has made the change.             *)
SetFails(v) ==
    /\ Written[property.writes][v] # Refused
    /\ stored' \in {stored, Written[property.writes][v]}
    /\ given' = NoValue
    /\ got' = NoValue
    /\ UNCHANGED property

Write ==
    /\ property # NoValue
    /\ HasSetter(property)
    /\ \E v \in DOMAIN Written[property.writes] : Set(v) \/ SetRefused(v) \/ SetFails(v)

PropertiesNext ==
    \/ \E p \in Accessors : Use(p)
    \/ PropertyChanges
    \/ Get
    \/ GetFails
    \/ Write

PropertiesSpec == PropertiesInit /\ [][PropertiesNext]_propertyVars

-------------------------------------------------------------------------------
(* The arguments that fit the C++ type they are converted to.              *)
Fitting ==
    [string |-> Plain,
     bool |-> BOOLEAN,
     bytes |-> BoundedSeq(Signed(ByteHalf), Longest),
     timeout |-> Unsigned(IntHalf),
     filter |-> [rssi : Signed(ShortHalf), pathloss : Unsigned(ShortHalf),
                 transport : Transports],
     adapter |-> Adapters]

(* What a C++ value means to the program: what a getter would answer, or   *)
(* where there is none, the same number, text or object.                   *)
Meaning(p, n) == IF HasGetter(p) THEN Read[p.reads][n] ELSE n

(* A property that the program has set, and nobody else since, means what  *)
(* the program gave - provided that this fits the C++ type: a timeout of   *)
(* 2^32 s is accepted and stored as 0, no timeout at all, and an RSSI of   *)
(* 2^16 as 0, no filter, while a negative timeout is refused; a text must  *)
(* have no character of more than 16 bits, and no U+0000.                  *)
SettingSurvives ==
    given # NoValue /\ given \in Fitting[property.writes] =>
        Meaning(property, stored) = given

(* No two values of a property look the same to the program, empty and     *)
(* missing ones, negative bytes and the keys of the maps included, as long *)
(* as their texts have no characters of more than 16 bits.                 *)
GottenTellsStored ==
    got # NoValue =>
        \A n \in Natives(Plain)[property.reads] : Read[property.reads][n] = got => n = stored

(* The property keeps a value of its C++ type, and what is given and got   *)
(* are Java values of its accessors.                                       *)
PropertiesTypeOK ==
    /\ property \in Accessors \cup {NoValue}
    /\ stored # NoValue => property # NoValue /\ stored \in NativeValues(property)
    /\ given # NoValue => HasSetter(property) /\ given \in DOMAIN Written[property.writes]
    /\ got # NoValue =>
        HasGetter(property) /\ \E n \in NativeValues(property) : got = Read[property.reads][n]
===============================================================================
