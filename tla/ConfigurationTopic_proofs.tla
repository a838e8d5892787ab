----------------------- MODULE ConfigurationTopic_proofs -----------------------
(***************************************************************************)
(* The settings follow the broker, and a message that the handler does not *)
(* survive lets no subscription come to rest: for any number of clients,   *)
(* properties and messages.                                                *)
(***************************************************************************)
EXTENDS ConfigurationTopic, TLAPS, FiniteSetTheorems, SequenceTheorems

(* Nobody has failed, so somebody is subscribed or about to be.            *)
SomebodyTries == ~failed => \E c \in Clients : client[c] # "none"

(* Has c a message for p ahead, or will it get one when it subscribes?     *)
OnItsWay(c, p) ==
    \/ client[c] \in {"starting", "connected", "cut"}
    \/ /\ client[c] = "subscribed"
       /\ \E m \in Range(inbox[c]) : m.property = p

(* In the messages q, an outdated one for p is followed by the value v.    *)
Followed(q, p, v) ==
    \A i \in DOMAIN q : q[i].property = p /\ q[i].value # v =>
        \E j \in DOMAIN q : j > i /\ q[j] = [property |-> p, value |-> v]

(* In the inbox of a subscription, an outdated message is followed by the  *)
(* one that the broker retains.                                            *)
OutdatedIsFollowed ==
    \A c \in Clients, p \in Properties : client[c] = "subscribed" /\ Stands(p) =>
        Followed(inbox[c], p, retained[p])

(* A setting that is not the broker's will be replaced.                    *)
OutdatedSettingChanges ==
    ~failed => \A p \in Properties : Stands(p) /\ Applies(p, retained[p]) =>
        setting[p] = retained[p] \/ \E c \in Clients : OnItsWay(c, p)

IInv ==
    /\ TypeOK
    /\ SomebodyTries
    /\ OutdatedIsFollowed
    /\ OutdatedSettingChanges
    /\ PoisonNeverRests

-------------------------------------------------------------------------------
(* The retained messages are finitely many, as there is one per topic, and *)
(* a subscription is sent each of them.                                    *)
LEMMA Delivery ==
    ASSUME NEW s \in SetToSeqs(RetainedMessages)
    PROVE  /\ s \in Seq(Message)
           /\ \A i \in DOMAIN s : s[i] \in RetainedMessages
           /\ \A m \in RetainedMessages : \E i \in DOMAIN s : s[i] = m
<1> DEFINE R == RetainedMessages
           f == [m \in R |-> m.property]
<1>1. f \in Injection(R, Properties)
  <2>1. f \in [R -> Properties]
    BY DEF RetainedMessages, Message
  <2>2. ASSUME NEW m \in R, NEW n \in R, m.property = n.property PROVE m = n
    BY <2>2 DEF RetainedMessages, Message
  <2> QED BY <2>1, <2>2 DEF Injection, IsInjective
<1>2. IsFiniteSet(R) /\ Cardinality(R) \in Nat
  BY <1>1, FS_Injection, FS_CardinalityType, ConfigurationAssumption
<1>3. /\ s \in [1 .. Cardinality(R) -> R]
      /\ \A i, j \in 1 .. Cardinality(R) : i # j => s[i] # s[j]
  BY DEF SetToSeqs
<1>4. s \in Injection(1 .. Cardinality(R), R)
  BY <1>3 DEF Injection, IsInjective
<1>5. Cardinality(1 .. Cardinality(R)) = Cardinality(R)
  BY <1>2, FS_Interval
<1>6. s \in Surjection(1 .. Cardinality(R), R)
  BY <1>2, <1>4, <1>5, FS_Injection
<1>7. \A m \in R : \E i \in DOMAIN s : s[i] = m
  BY <1>3, <1>6 DEF Surjection
<1>8. R \subseteq Message
  BY DEF RetainedMessages
<1>9. s \in Seq(Message)
  BY <1>2, <1>3, <1>8
<1> QED BY <1>3, <1>7, <1>9

LEMMA RangeOfTail ==
    ASSUME NEW q \in Seq(Message), q # <<>>
    PROVE  /\ Head(q) \in Message /\ Tail(q) \in Seq(Message)
           /\ Range(q) = {Head(q)} \cup Range(Tail(q))
<1>1. /\ Head(q) \in Message /\ Tail(q) \in Seq(Message) /\ Head(q) = q[1]
      /\ DOMAIN q = 1 .. Len(q) /\ DOMAIN Tail(q) = 1 .. Len(q) - 1 /\ Len(q) \in Nat \ {0}
      /\ \A i \in 1 .. Len(q) - 1 : Tail(q)[i] = q[i + 1]
  BY HeadTailProperties
<1>2. \A i \in DOMAIN q : i = 1 \/ (i - 1 \in DOMAIN Tail(q) /\ q[i] = Tail(q)[i - 1])
  BY <1>1
<1>3. \A i \in DOMAIN Tail(q) : i + 1 \in DOMAIN q /\ q[i + 1] = Tail(q)[i]
  BY <1>1
<1>4. Range(q) \subseteq {Head(q)} \cup Range(Tail(q))
  <2> SUFFICES ASSUME NEW i \in DOMAIN q PROVE q[i] = q[1] \/ q[i] \in Range(Tail(q))
    BY <1>1 DEF Range
  <2> QED BY <1>2 DEF Range
<1>5. Range(Tail(q)) \subseteq Range(q) /\ Head(q) \in Range(q)
  BY <1>1, <1>3 DEF Range
<1> QED BY <1>1, <1>4, <1>5

LEMMA RangeOfAppend ==
    ASSUME NEW q \in Seq(Message), NEW m \in Message
    PROVE  /\ Append(q, m) \in Seq(Message)
           /\ Range(Append(q, m)) = Range(q) \cup {m}
<1>1. /\ Append(q, m) \in Seq(Message)
      /\ DOMAIN q = 1 .. Len(q) /\ DOMAIN Append(q, m) = 1 .. Len(q) + 1 /\ Len(q) \in Nat
      /\ \A i \in 1 .. Len(q) : Append(q, m)[i] = q[i]
      /\ Append(q, m)[Len(q) + 1] = m
  BY AppendProperties
<1>2. \A i \in DOMAIN Append(q, m) : i = Len(q) + 1 \/ i \in DOMAIN q
  BY <1>1
<1>3. \A i \in DOMAIN q : i \in DOMAIN Append(q, m)
  BY <1>1
<1>4. Range(Append(q, m)) \subseteq Range(q) \cup {m}
  BY <1>1, <1>2 DEF Range
<1>5. Range(q) \subseteq Range(Append(q, m)) /\ m \in Range(Append(q, m))
  BY <1>1, <1>3 DEF Range
<1> QED BY <1>1, <1>4, <1>5

LEMMA FollowedInTail ==
    ASSUME NEW q \in Seq(Message), q # <<>>, NEW p, NEW v, Followed(q, p, v)
    PROVE  /\ Followed(Tail(q), p, v)
           /\ Head(q).property = p /\ Head(q).value # v =>
                  [property |-> p, value |-> v] \in Range(Tail(q))
<1> DEFINE t == Tail(q)
<1>1. /\ Head(q) = q[1]
      /\ DOMAIN q = 1 .. Len(q) /\ DOMAIN t = 1 .. Len(q) - 1 /\ Len(q) \in Nat \ {0}
      /\ \A i \in 1 .. Len(q) - 1 : t[i] = q[i + 1]
  BY HeadTailProperties
<1> HIDE DEF t
<1>2. ASSUME NEW i \in DOMAIN t, t[i].property = p, t[i].value # v
      PROVE  \E j \in DOMAIN t : j > i /\ t[j] = [property |-> p, value |-> v]
  <2>1. i + 1 \in DOMAIN q /\ q[i + 1] = t[i] /\ i \in Nat
    BY <1>1
  <2>2. PICK k \in DOMAIN q : k > i + 1 /\ q[k] = [property |-> p, value |-> v]
    BY <1>2, <2>1 DEF Followed
  <2>3. k - 1 \in DOMAIN t /\ k - 1 > i /\ t[k - 1] = q[(k - 1) + 1] /\ (k - 1) + 1 = k
    BY <1>1, <2>1, <2>2
  <2> QED BY <2>2, <2>3
<1>3. ASSUME q[1].property = p, q[1].value # v
      PROVE  [property |-> p, value |-> v] \in Range(t)
  <2>1. 1 \in DOMAIN q
    BY <1>1
  <2>2. PICK k \in DOMAIN q : k > 1 /\ q[k] = [property |-> p, value |-> v]
    BY <1>3, <2>1 DEF Followed
  <2>3. k - 1 \in DOMAIN t /\ t[k - 1] = q[(k - 1) + 1] /\ (k - 1) + 1 = k
    BY <1>1, <2>2
  <2> QED BY <2>2, <2>3 DEF Range
<1> QED BY <1>1, <1>2, <1>3 DEF Followed, t

LEMMA FollowedInAppend ==
    ASSUME NEW q \in Seq(Message), NEW m \in Message, NEW p, NEW v,
           m = [property |-> p, value |-> v] \/ (m.property # p /\ Followed(q, p, v))
    PROVE  Followed(Append(q, m), p, v)
<1> DEFINE a == Append(q, m)
<1>1. /\ DOMAIN q = 1 .. Len(q) /\ DOMAIN a = 1 .. Len(q) + 1 /\ Len(q) \in Nat
      /\ \A i \in 1 .. Len(q) : a[i] = q[i]
      /\ a[Len(q) + 1] = m
  BY AppendProperties
<1> HIDE DEF a
<1>2. SUFFICES ASSUME NEW i \in DOMAIN a, a[i].property = p, a[i].value # v
               PROVE  \E j \in DOMAIN a : j > i /\ a[j] = [property |-> p, value |-> v]
  BY DEF Followed, a
<1>3. i \in DOMAIN q /\ a[i] = q[i] /\ i < Len(q) + 1
  BY <1>1, <1>2
<1>4. CASE m = [property |-> p, value |-> v]
  BY <1>1, <1>3, <1>4
<1>5. CASE Followed(q, p, v)
  <2>1. PICK j \in DOMAIN q : j > i /\ q[j] = [property |-> p, value |-> v]
    BY <1>2, <1>3, <1>5 DEF Followed
  <2>2. j \in DOMAIN a /\ a[j] = q[j]
    BY <1>1
  <2> QED BY <2>1, <2>2
<1> QED BY <1>4, <1>5

LEMMA InitInv == Init => IInv
<1> SUFFICES ASSUME Init PROVE IInv
  OBVIOUS
<1>1. PICK c \in Clients : client = [d \in Clients |-> IF d = c THEN "starting" ELSE "none"]
  BY DEF Init
<1>2. TypeOK
  <2>1. client \in [Clients -> ClientStates]
    BY <1>1 DEF ClientStates
  <2>2. inbox \in [Clients -> Seq(Message)] /\ \A d \in Clients : inbox[d] = <<>>
    BY DEF Init
  <2>3. retained \in [Properties -> Payloads \cup {None}]
    BY DEF Init
  <2>4. /\ setting \in [Properties -> Payloads \cup {None}]
        /\ \A p \in Properties : setting[p] = None
    BY DEF Init
  <2>5. idle \in BOOLEAN /\ failed \in BOOLEAN /\ superseded \in [Properties -> BOOLEAN]
    BY DEF Init
  <2> QED BY <2>1, <2>2, <2>3, <2>4, <2>5, ConfigurationAssumption DEF TypeOK
<1>3. client[c] = "starting" /\ \A d \in Clients : client[d] # "subscribed"
  BY <1>1
<1>4. \A p \in Properties : OnItsWay(c, p)
  BY <1>3 DEF OnItsWay
<1> QED BY <1>2, <1>3, <1>4 DEF IInv, SomebodyTries, OutdatedIsFollowed,
           OutdatedSettingChanges, PoisonNeverRests

(* A client that leaves the state "subscribed", or does not enter it, and  *)
(* does not go away without a failure, disturbs nothing but the types.     *)
LEMMA MoveInv ==
    ASSUME IInv, TypeOK', NEW c \in Clients,
           \A d \in Clients \ {c} : client'[d] = client[d] /\ inbox'[d] = inbox[d],
           client'[c] \in {"none", "starting", "connected", "cut"},
           failed' \in {failed, TRUE}, client'[c] = "none" => failed',
           UNCHANGED <<retained, superseded, setting>>
    PROVE  IInv'
<1>1. \A p : Stands(p)' = Stands(p)
  BY DEF Stands
<1>2. SomebodyTries'
  BY DEF SomebodyTries
<1>3. OutdatedIsFollowed'
  BY <1>1 DEF IInv, OutdatedIsFollowed
<1>4. OutdatedSettingChanges'
  <2> SUFFICES ASSUME ~failed', NEW p \in Properties, Stands(p), Applies(p, retained[p]),
                      setting[p] # retained[p]
               PROVE  \E d \in Clients : OnItsWay(d, p)'
    BY <1>1 DEF OutdatedSettingChanges
  <2>1. client'[c] \in {"starting", "connected", "cut"}
    OBVIOUS
  <2> QED BY <2>1 DEF OnItsWay
<1>5. PoisonNeverRests'
  BY DEF IInv, PoisonNeverRests
<1> QED BY <1>2, <1>3, <1>4, <1>5 DEF IInv

LEMMA ConnectInv ==
    ASSUME IInv, NEW c \in Clients, Connect(c) PROVE IInv'
<1>1. TypeOK'
  BY DEF Connect, IInv, TypeOK, ClientStates
<1> QED BY <1>1, MoveInv DEF Connect, IInv, TypeOK

LEMMA ConnectFailsInv ==
    ASSUME IInv, NEW c \in Clients, ConnectFails(c) PROVE IInv'
<1>1. TypeOK'
  BY DEF ConnectFails, IInv, TypeOK, ClientStates
<1> QED BY <1>1, MoveInv DEF ConnectFails, IInv, TypeOK

LEMMA SubscribeFailsInv ==
    ASSUME IInv, NEW c \in Clients, SubscribeFails(c) PROVE IInv'
<1>1. TypeOK'
  BY DEF SubscribeFails, IInv, TypeOK, ClientStates
<1> QED BY <1>1, MoveInv DEF SubscribeFails, IInv, TypeOK

LEMMA CutInv ==
    ASSUME IInv, NEW c \in Clients, Cut(c) PROVE IInv'
<1>1. TypeOK'
  BY DEF Cut, IInv, TypeOK, ClientStates
<1> QED BY <1>1, MoveInv DEF Cut, IInv, TypeOK

(* Whatever calls connectionLost: the network or a handler that throws.    *)
LEMMA ConnectionLostInv ==
    ASSUME IInv, NEW c \in Clients, ConnectionLost(c),
           UNCHANGED <<failed, retained, superseded, setting>>
    PROVE  IInv'
<1>1. TypeOK'
  BY DEF ConnectionLost, IInv, TypeOK, ClientStates
<1> QED BY <1>1, MoveInv DEF ConnectionLost, IInv, TypeOK

(* Subscribing brings every retained message and no outdated one.          *)
LEMMA SubscribeInv ==
    ASSUME IInv, NEW c \in Clients, Subscribe(c) PROVE IInv'
<1>1. PICK s \in SetToSeqs(RetainedMessages) : inbox' = [inbox EXCEPT ![c] = s]
  BY DEF Subscribe
<1>2. /\ s \in Seq(Message)
      /\ \A i \in DOMAIN s : s[i] \in RetainedMessages
      /\ \A m \in RetainedMessages : \E i \in DOMAIN s : s[i] = m
  BY Delivery
<1>3. TypeOK'
  BY <1>1, <1>2 DEF Subscribe, IInv, TypeOK, ClientStates
<1>4. /\ client'[c] = "subscribed" /\ inbox'[c] = s
      /\ \A d \in Clients \ {c} : client'[d] = client[d] /\ inbox'[d] = inbox[d]
      /\ UNCHANGED <<idle, failed, retained, superseded, setting>>
  BY <1>1 DEF Subscribe, IInv, TypeOK
<1>5. \A p \in Properties : retained[p] # None =>
          [property |-> p, value |-> retained[p]] \in Range(s)
  <2>1. \A m \in RetainedMessages : m \in Range(s)
    BY <1>2 DEF Range
  <2> QED BY <2>1 DEF IInv, TypeOK, RetainedMessages, Message
<1>6. \A p : Stands(p)' = Stands(p)
  BY <1>4 DEF Stands
<1>7. SomebodyTries'
  BY <1>4 DEF IInv, SomebodyTries
<1>8. OutdatedIsFollowed'
  <2>1. \A i \in DOMAIN s : s[i].value = retained[s[i].property]
    BY <1>2 DEF RetainedMessages
  <2>2. \A p \in Properties : Followed(s, p, retained[p])
    BY <2>1 DEF Followed
  <2> QED BY <1>4, <1>6, <2>2 DEF IInv, OutdatedIsFollowed
<1>9. OutdatedSettingChanges'
  <2> SUFFICES ASSUME ~failed, NEW p \in Properties, Stands(p)
               PROVE  \E d \in Clients : OnItsWay(d, p)'
    BY <1>4, <1>6 DEF OutdatedSettingChanges
  <2>1. [property |-> p, value |-> retained[p]] \in Range(s)
    BY <1>5 DEF Stands
  <2> QED BY <1>4, <2>1 DEF OnItsWay
<1>10. PoisonNeverRests'
  BY <1>4, <1>5 DEF IInv, PoisonNeverRests
<1> QED BY <1>3, <1>7, <1>8, <1>9, <1>10 DEF IInv

(* What is handled was the head of an inbox: what was behind it is still   *)
(* there, and if it was outdated so is the message that replaces it.       *)
LEMMA HandleValueInv ==
    ASSUME IInv, NEW c \in Clients, HandleValue(c) PROVE IInv'
<1> DEFINE m == Head(inbox[c])
           t == Tail(inbox[c])
<1>1. /\ inbox[c] \in Seq(Message) /\ inbox[c] # <<>>
      /\ client[c] \in {"subscribed", "cut"}
  BY DEF HandleValue, IInv, TypeOK
<1>2. m \in Message /\ t \in Seq(Message) /\ Range(inbox[c]) = {m} \cup Range(t)
  BY <1>1, RangeOfTail
<1>3. /\ m.property \in Properties /\ m.value \in Payloads
      /\ ~Throws(m.property, m.value)
      /\ setting' = IF Applies(m.property, m.value)
                    THEN [setting EXCEPT ![m.property] = m.value] ELSE setting
      /\ inbox' = [inbox EXCEPT ![c] = t]
      /\ UNCHANGED <<client, idle, failed, retained, superseded>>
  BY <1>2 DEF HandleValue, Message
<1>4. inbox'[c] = t /\ \A d \in Clients \ {c} : inbox'[d] = inbox[d]
  BY <1>3 DEF IInv, TypeOK
<1> HIDE DEF t
<1>5. TypeOK'
  <2>1. inbox' \in [Clients -> Seq(Message)]
    BY <1>2, <1>3 DEF IInv, TypeOK
  <2>2. setting' \in [Properties -> Payloads \cup {None}]
    BY <1>3 DEF IInv, TypeOK
  <2>3. \A p \in NumberProperties : setting'[p] \in Numbers \cup {None}
    BY <1>3, ConfigurationAssumption DEF IInv, TypeOK, Applies
  <2>4. \A p \in ConfigProperties : setting'[p] \in Configs \cup {None}
    BY <1>3, ConfigurationAssumption DEF IInv, TypeOK, Applies
  <2>5. \A d \in Clients : client'[d] \notin {"subscribed", "cut"} => inbox'[d] = <<>>
    BY <1>1, <1>3, <1>4 DEF IInv, TypeOK
  <2> QED BY <1>3, <2>1, <2>2, <2>3, <2>4, <2>5 DEF IInv, TypeOK
<1>6. SomebodyTries'
  BY <1>3 DEF IInv, SomebodyTries
<1>7. \A p : Stands(p)' = Stands(p)
  BY <1>3 DEF Stands
<1>8. ASSUME NEW p \in Properties, client[c] = "subscribed", Stands(p)
      PROVE  /\ Followed(t, p, retained[p])
             /\ m.property = p /\ m.value # retained[p] =>
                    [property |-> p, value |-> retained[p]] \in Range(t)
  <2>1. Followed(inbox[c], p, retained[p])
    BY <1>8 DEF IInv, OutdatedIsFollowed
  <2> QED BY <1>1, <2>1, FollowedInTail DEF t
<1>9. OutdatedIsFollowed'
  BY <1>3, <1>4, <1>7, <1>8 DEF IInv, OutdatedIsFollowed
<1>10. OutdatedSettingChanges'
  <2> SUFFICES ASSUME ~failed, NEW p \in Properties, Stands(p), Applies(p, retained[p]),
                      setting'[p] # retained[p]
               PROVE  \E d \in Clients : OnItsWay(d, p)'
    BY <1>3, <1>7 DEF OutdatedSettingChanges
  <2>1. CASE client[c] = "cut"
    BY <1>3, <2>1 DEF OnItsWay
  <2>2. CASE client[c] = "subscribed" /\ m.property = p
    <3>1. m.value # retained[p]
      BY <1>3, <2>2 DEF IInv, TypeOK
    <3>2. [property |-> p, value |-> retained[p]] \in Range(t)
      BY <1>8, <2>2, <3>1
    <3> QED BY <1>3, <1>4, <2>2, <3>2 DEF OnItsWay
  <2>3. CASE client[c] = "subscribed" /\ m.property # p
    <3>1. setting[p] # retained[p]
      BY <1>3, <2>3 DEF IInv, TypeOK
    <3>2. PICK d \in Clients : OnItsWay(d, p)
      BY <3>1 DEF IInv, OutdatedSettingChanges
    <3>3. CASE d # c
      BY <1>3, <1>4, <3>2, <3>3 DEF OnItsWay
    <3>4. CASE d = c
      BY <1>2, <1>3, <1>4, <2>3, <3>2, <3>4 DEF OnItsWay
    <3> QED BY <3>3, <3>4
  <2> QED BY <1>1, <2>1, <2>2, <2>3
<1>11. PoisonNeverRests'
  BY <1>2, <1>3, <1>4 DEF IInv, PoisonNeverRests
<1> QED BY <1>5, <1>6, <1>9, <1>10, <1>11 DEF IInv

(* What is published reaches every subscription, behind everything else.   *)
LEMMA PublishInv ==
    ASSUME IInv, NEW m \in Message, NEW retain \in BOOLEAN, Publish(m, retain)
    PROVE  IInv'
<1>1. \A c \in Clients : inbox'[c] = IF client[c] = "subscribed"
                                     THEN Append(inbox[c], m) ELSE inbox[c]
  BY DEF Publish
<1>2. UNCHANGED <<client, idle, failed, setting>>
  BY DEF Publish
<1>3. \A c \in Clients : inbox[c] \in Seq(Message)
  BY DEF IInv, TypeOK
<1>4. \A c \in Clients : /\ Append(inbox[c], m) \in Seq(Message)
                         /\ Range(Append(inbox[c], m)) = Range(inbox[c]) \cup {m}
  BY <1>3, RangeOfAppend
<1>5. m.property \in Properties /\ m.value \in Payloads
      /\ m = [property |-> m.property, value |-> m.value]
  BY DEF Message
<1>6. TypeOK'
  <2>1. inbox' \in [Clients -> Seq(Message)]
    BY <1>3, <1>4 DEF Publish
  <2>2. \A c \in Clients : client[c] \notin {"subscribed", "cut"} => inbox'[c] = <<>>
    BY <1>1 DEF IInv, TypeOK
  <2>3. /\ retained' \in [Properties -> Payloads \cup {None}]
        /\ superseded' \in [Properties -> BOOLEAN]
    BY <1>5 DEF Publish, IInv, TypeOK
  <2> QED BY <1>2, <2>1, <2>2, <2>3 DEF IInv, TypeOK
<1>7. SomebodyTries'
  BY <1>2 DEF IInv, SomebodyTries
<1>8. \A p \in Properties \ {m.property} :
          retained'[p] = retained[p] /\ Stands(p)' = Stands(p)
  BY <1>5 DEF Publish, IInv, TypeOK, Stands
<1>9. Stands(m.property)' => retained'[m.property] = m.value
  BY <1>5 DEF Publish, IInv, TypeOK, Stands
<1>10. OutdatedIsFollowed'
  <2> SUFFICES ASSUME NEW c \in Clients, NEW p \in Properties,
                      client[c] = "subscribed", Stands(p)'
               PROVE  Followed(Append(inbox[c], m), p, retained'[p])
    BY <1>1, <1>2 DEF OutdatedIsFollowed
  <2>1. CASE p = m.property
    <3>1. m = [property |-> p, value |-> retained'[p]]
      BY <1>5, <1>9, <2>1
    <3> QED BY <1>3, <3>1, FollowedInAppend
  <2>2. CASE p # m.property
    <3>1. Followed(inbox[c], p, retained'[p])
      BY <1>8, <2>2 DEF IInv, OutdatedIsFollowed
    <3> QED BY <1>3, <2>2, <3>1, FollowedInAppend
  <2> QED BY <2>1, <2>2
<1>11. \A c \in Clients : client[c] = "subscribed" =>
           Range(inbox'[c]) = Range(inbox[c]) \cup {m}
  BY <1>1, <1>4
<1>12. OutdatedSettingChanges'
  <2> SUFFICES ASSUME ~failed, NEW p \in Properties, Stands(p)', Applies(p, retained'[p]),
                      setting[p] # retained'[p]
               PROVE  \E c \in Clients : OnItsWay(c, p)'
    BY <1>2 DEF OutdatedSettingChanges
  <2>1. ASSUME NEW c \in Clients, OnItsWay(c, p) \/ (client[c] # "none" /\ m.property = p)
        PROVE  OnItsWay(c, p)'
    <3>1. client[c] \in ClientStates
      BY DEF IInv, TypeOK
    <3> QED BY <1>2, <1>11, <2>1, <3>1 DEF OnItsWay, ClientStates
  <2>2. CASE p = m.property
    BY <2>1, <2>2 DEF IInv, SomebodyTries
  <2>3. CASE p # m.property
    <3>1. \E c \in Clients : OnItsWay(c, p)
      BY <1>8, <2>3 DEF IInv, OutdatedSettingChanges
    <3> QED BY <2>1, <3>1
  <2> QED BY <2>2, <2>3
<1>13. PoisonNeverRests'
  <2>1. \A p \in Properties : \/ p = m.property /\ retained'[p] \in {m.value, None}
                              \/ retained'[p] = retained[p]
    BY <1>5, <1>8 DEF Publish, IInv, TypeOK
  <2> QED BY <1>2, <1>5, <1>11, <2>1 DEF IInv, PoisonNeverRests
<1> QED BY <1>6, <1>7, <1>10, <1>12, <1>13 DEF IInv

-------------------------------------------------------------------------------
LEMMA NextInv == IInv /\ [Next]_vars => IInv'
<1> SUFFICES ASSUME IInv, [Next]_vars PROVE IInv'
  OBVIOUS
<1>1. ASSUME NEW c \in Clients, Connect(c) PROVE IInv'
  BY <1>1, ConnectInv
<1>2. ASSUME NEW c \in Clients, ConnectFails(c) PROVE IInv'
  BY <1>2, ConnectFailsInv
<1>3. ASSUME NEW c \in Clients, Subscribe(c) PROVE IInv'
  BY <1>3, SubscribeInv
<1>4. ASSUME NEW c \in Clients, SubscribeFails(c) PROVE IInv'
  BY <1>4, SubscribeFailsInv
<1>5. ASSUME NEW c \in Clients, Cut(c) PROVE IInv'
  BY <1>5, CutInv
<1>6. ASSUME NEW c \in Clients, Lose(c) \/ IdleLost(c) \/ HandlerThrows(c) PROVE IInv'
  BY <1>6, ConnectionLostInv DEF Lose, IdleLost, HandlerThrows
<1>7. ASSUME NEW c \in Clients, HandleValue(c) PROVE IInv'
  BY <1>7, HandleValueInv
<1>8. ASSUME NEW m \in Message, NEW retain \in BOOLEAN, Publish(m, retain) PROVE IInv'
  BY <1>8, PublishInv
<1>9. CASE UNCHANGED vars
  <2>1. /\ UNCHANGED <<client, inbox, idle, failed, retained, superseded, setting>>
        /\ \A p : Stands(p)' = Stands(p)
        /\ \A c, p : OnItsWay(c, p)' = OnItsWay(c, p)
    BY <1>9 DEF vars, Stands, OnItsWay
  <2> QED BY <2>1 DEF IInv, TypeOK, SomebodyTries, OutdatedIsFollowed,
             OutdatedSettingChanges, PoisonNeverRests
<1> QED BY <1>1, <1>2, <1>3, <1>4, <1>5, <1>6, <1>7, <1>8, <1>9 DEF Next

LEMMA Invariance == Spec => []IInv
  BY InitInv, NextInv, PTL DEF Spec

(* Numbers are only ever set to numbers, configurations to what Gson has   *)
(* parsed, whatever SentientPropertiesAsyncTask is sent.                   *)
THEOREM TypeCorrect == Spec => []TypeOK
<1>1. IInv => TypeOK
  BY DEF IInv
<1> QED BY <1>1, Invariance, PTL

(* When all subscriptions have caught up, and no attempt to subscribe has  *)
(* failed, handleValue has left the settings that the broker retains.      *)
THEOREM SettledCorrect == Spec => []SettledSettingIsRetained
<1>1. IInv => SettledSettingIsRetained
  <2> SUFFICES ASSUME IInv, Settled, ~failed, NEW p \in Properties,
                      Stands(p), Applies(p, retained[p])
               PROVE  setting[p] = retained[p]
    BY DEF SettledSettingIsRetained
  <2>1. Range(<<>>) = {}
    BY DEF Range
  <2>2. \A c \in Clients : ~OnItsWay(c, p)
    BY <2>1 DEF Settled, OnItsWay
  <2> QED BY <2>2 DEF IInv, OutdatedSettingChanges
<1> QED BY <1>1, Invariance, PTL

(* A retained message that handleValue throws on is always still ahead of  *)
(* every subscription: connectionLost will be called for it again.         *)
THEOREM PoisonStays == Spec => []PoisonNeverRests
<1>1. IInv => PoisonNeverRests
  BY DEF IInv
<1> QED BY <1>1, Invariance, PTL
===============================================================================
