-------------------------- MODULE ConfigurationTopic --------------------------
(***************************************************************************)
(* The configuration topic (SentientPropertiesAsyncTask).  One callback    *)
(* object changes the settings for every message.  When its connection is  *)
(* lost it starts another client, which subscribes the topic again, while  *)
(* the old one reconnects by itself, without a subscription, and calls     *)
(* the same callback when it is lost once more.  Subscriptions multiply.   *)
(*                                                                         *)
(* A handler that throws makes Paho close the connection, so that a        *)
(* message the handler does not survive costs the connection as well.      *)
(***************************************************************************)
EXTENDS Naturals, Sequences, FiniteSets, SequencesExt

CONSTANTS
    Clients,           \* slots for clients that connect or are subscribed
    Properties,        \* last segments of topics under TOPIC_CONFIGURATION/
    TextProperties,    \* those that are assigned any payload,
    NumberProperties,  \* those that are assigned payload.toInt() or toLong(),
    ConfigProperties,  \* those that are parsed as JSON; the rest is unknown
    Payloads,
    Numbers,           \* the payloads toInt accepts
    Configs,           \* JSON of the expected shape
    Unusable,          \* what Gson turns into null or refuses with another
                       \* exception than JsonSyntaxException
    Blank,             \* the empty payload
    None,              \* nothing retained, nothing assigned
    MaxInbox           \* bound: messages one client has yet to handle

ASSUME ConfigurationAssumption ==
    /\ TextProperties \cup NumberProperties \cup ConfigProperties \subseteq Properties
    /\ TextProperties \cap NumberProperties = {}
    /\ TextProperties \cap ConfigProperties = {}
    /\ NumberProperties \cap ConfigProperties = {}
    /\ Numbers \subseteq Payloads /\ Configs \subseteq Payloads
    /\ Unusable \subseteq Payloads /\ Configs \cap Unusable = {}
    /\ Blank \in Unusable \ Numbers
    /\ None \notin Payloads
    /\ IsFiniteSet(Properties)
    /\ MaxInbox \in Nat

VARIABLES
    client,      \* what became of the client in each slot
    inbox,       \* messages Paho has received and not handed to the callback
    idle,        \* is a client connected that has no subscription?
    failed,      \* did an attempt to connect or to subscribe throw?
    retained,    \* the broker's retained message of each topic
    superseded,  \* was the last message of the topic another one?
    setting      \* SentientProperties and the three configurations

vars == <<client, inbox, idle, failed, retained, superseded, setting>>

Message == [property : Properties, value : Payloads]

ClientStates == {"none", "starting", "connected", "subscribed", "cut"}

-------------------------------------------------------------------------------
(* handleValue: a number that does not parse throws, JSON of the wrong     *)
(* shape and unknown properties are only logged.                           *)
Throws(p, v) ==
    \/ p \in NumberProperties /\ v \notin Numbers
    \/ p \in ConfigProperties /\ v \in Unusable

(* Mutant: a null from Gson, or any other JSON, becomes the configuration. *)
AppliesAnything(p, v) == TRUE

Applies(p, v) ==
    \/ p \in TextProperties
    \/ p \in NumberProperties /\ v \in Numbers
    \/ p \in ConfigProperties /\ v \in Configs

RetainedMessages == {m \in Message : retained[m.property] = m.value}

Init ==
    /\ \E c \in Clients : client = [d \in Clients |-> IF d = c THEN "starting" ELSE "none"]
    /\ inbox = [c \in Clients |-> <<>>]
    /\ idle = FALSE
    /\ failed = FALSE
    /\ retained \in [Properties -> (Payloads \ {Blank}) \cup {None}]
    /\ superseded = [p \in Properties |-> FALSE]
    /\ setting = [p \in Properties |-> None]

-------------------------------------------------------------------------------
(* MQTTSubscribeAsyncTask on a thread of its own: nothing catches what     *)
(* connect and subscribe throw, and nobody tries again.  A subscription is *)
(* answered with the retained messages, in any order.                      *)
Connect(c) ==
    /\ client[c] = "starting"
    /\ client' = [client EXCEPT ![c] = "connected"]
    /\ UNCHANGED <<inbox, idle, failed, retained, superseded, setting>>

ConnectFails(c) ==
    /\ client[c] = "starting"
    /\ client' = [client EXCEPT ![c] = "none"]
    /\ failed' = TRUE
    /\ UNCHANGED <<inbox, idle, retained, superseded, setting>>

Subscribe(c) ==
    /\ client[c] = "connected"
    /\ client' = [client EXCEPT ![c] = "subscribed"]
    /\ \E s \in SetToSeqs(RetainedMessages) : inbox' = [inbox EXCEPT ![c] = s]
    /\ UNCHANGED <<idle, failed, retained, superseded, setting>>

SubscribeFails(c) ==
    /\ client[c] = "connected"
    /\ client' = [client EXCEPT ![c] = "none"]
    /\ idle' = TRUE
    /\ failed' = TRUE
    /\ UNCHANGED <<inbox, retained, superseded, setting>>

(* Mutant: connectionLost only logs, as it does in the other tasks.        *)
ConnectionLostLogged(c) ==
    /\ client' = [client EXCEPT ![c] = "none"]
    /\ inbox' = [inbox EXCEPT ![c] = <<>>]
    /\ idle' = TRUE

(* connectionLost starts a new client; the old one reconnects on its own.  *)
ConnectionLost(c) ==
    /\ client' = [client EXCEPT ![c] = "starting"]
    /\ inbox' = [inbox EXCEPT ![c] = <<>>]
    /\ idle' = TRUE

(* A broken connection goes unnoticed for a while: messages are missed.    *)
Cut(c) ==
    /\ client[c] = "subscribed"
    /\ client' = [client EXCEPT ![c] = "cut"]
    /\ UNCHANGED <<inbox, idle, failed, retained, superseded, setting>>

Lose(c) ==
    /\ client[c] \in {"connected", "subscribed", "cut"}
    /\ ConnectionLost(c)
    /\ UNCHANGED <<failed, retained, superseded, setting>>

IdleLost(c) ==
    /\ idle
    /\ client[c] = "none"
    /\ ConnectionLost(c)
    /\ UNCHANGED <<failed, retained, superseded, setting>>

(* The callback of a client, for the first message of its inbox.           *)
HandleValue(c) ==
    /\ inbox[c] # <<>>
    /\ LET m == Head(inbox[c])
       IN  /\ ~Throws(m.property, m.value)
           /\ setting' = IF Applies(m.property, m.value)
                         THEN [setting EXCEPT ![m.property] = m.value]
                         ELSE setting
    /\ inbox' = [inbox EXCEPT ![c] = Tail(@)]
    /\ UNCHANGED <<client, idle, failed, retained, superseded>>

(* Mutant: the callback catches what handleValue throws.                   *)
HandlerSwallows(c) ==
    /\ inbox[c] # <<>>
    /\ Throws(Head(inbox[c]).property, Head(inbox[c]).value)
    /\ inbox' = [inbox EXCEPT ![c] = Tail(@)]
    /\ UNCHANGED <<client, idle, failed, retained, superseded, setting>>

HandlerThrows(c) ==
    /\ inbox[c] # <<>>
    /\ Throws(Head(inbox[c]).property, Head(inbox[c]).value)
    /\ ConnectionLost(c)
    /\ UNCHANGED <<failed, retained, superseded, setting>>

(* Somebody publishes.  An empty payload that is to be retained removes    *)
(* the retained message, and reaches the subscriptions nevertheless.       *)
Publish(m, retain) ==
    /\ \A c \in Clients : Len(inbox[c]) < MaxInbox
    /\ inbox' = [c \in Clients |-> IF client[c] = "subscribed"
                                   THEN Append(inbox[c], m) ELSE inbox[c]]
    /\ retained' = IF retain
                   THEN [retained EXCEPT ![m.property] =
                            IF m.value = Blank THEN None ELSE m.value]
                   ELSE retained
    /\ superseded' = [superseded EXCEPT ![m.property] = retained'[m.property] # m.value]
    /\ UNCHANGED <<client, idle, failed, setting>>

Next ==
    \/ \E c \in Clients :
          \/ Connect(c)
          \/ ConnectFails(c)
          \/ Subscribe(c)
          \/ SubscribeFails(c)
          \/ Cut(c)
          \/ Lose(c)
          \/ IdleLost(c)
          \/ HandleValue(c)
          \/ HandlerThrows(c)
    \/ \E m \in Message, retain \in BOOLEAN : Publish(m, retain)

Spec == Init /\ [][Next]_vars

-------------------------------------------------------------------------------
(* Types: numbers are only ever set to numbers and configurations to what  *)
(* Gson has parsed, whatever is published.                                 *)
TypeOK ==
    /\ client \in [Clients -> ClientStates]
    /\ inbox \in [Clients -> Seq(Message)]
    /\ \A c \in Clients : client[c] \notin {"subscribed", "cut"} => inbox[c] = <<>>
    /\ idle \in BOOLEAN
    /\ failed \in BOOLEAN
    /\ retained \in [Properties -> Payloads \cup {None}]
    /\ superseded \in [Properties -> BOOLEAN]
    /\ setting \in [Properties -> Payloads \cup {None}]
    /\ \A p \in NumberProperties : setting[p] \in Numbers \cup {None}
    /\ \A p \in ConfigProperties : setting[p] \in Configs \cup {None}

(* Every client is subscribed and has handled its messages.                *)
Settled ==
    \A c \in Clients : client[c] \in {"none", "subscribed"} /\ inbox[c] = <<>>

(* The broker retains a value for p and nothing else came after it.        *)
Stands(p) == retained[p] # None /\ ~superseded[p]

(* However often connections were lost, cut or closed by the handler, and  *)
(* however many subscriptions have come of it, each with messages of its   *)
(* own to catch up with: as long as no attempt to subscribe has failed,    *)
(* the settings are those of the broker once everything is handled.  A     *)
(* late subscription may set a property back, but never for good.          *)
SettledSettingIsRetained ==
    Settled /\ ~failed =>
        \A p \in Properties :
            Stands(p) /\ Applies(p, retained[p]) => setting[p] = retained[p]

(* A retained message that the handler does not survive never lets a       *)
(* subscription come to rest: each has it still ahead, and will lose its   *)
(* connection over it, start another client and leave an idle one behind.  *)
PoisonNeverRests ==
    \A c \in Clients, p \in Properties :
        client[c] = "subscribed" /\ Throws(p, retained[p]) /\ retained[p] # None =>
            [property |-> p, value |-> retained[p]] \in Range(inbox[c])

===============================================================================
