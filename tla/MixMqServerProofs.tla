------------------------- MODULE MixMqServerProofs -------------------------
(***************************************************************************)
(* The broker uses its topic only through the operations of the topic, so  *)
(* what MixTopicProofs proves of the topic holds inside the broker; and    *)
(* what becomes of the messages it takes from the topic, for any number of *)
(* clients, calls and messages.                                            *)
(***************************************************************************)
EXTENDS MixMqServer, MixTopicProofs, SequenceTheorems

\* What a loop does besides polling and writing: it turns to something else, or it settles
\* what it has in hand, in a pending list or nowhere.
Turn(x) == ResendFailed(x) \/ WriteFailed(x) \/ LookUp(x) \/ Remove(x)
Settle(x) == TryAdd(x) \/ LookUpThrows(x) \/ AddRange(x) \/ AddRangeUndone(x)

LEMMA BrokerSteps ==
    ASSUME NEW x, BrokerStep(x)
    PROVE  Poll(x) \/ Resent(x) \/ Written(x) \/ Turn(x) \/ Settle(x)
BY DEF BrokerStep, AddToPending, Turn, Settle

LEMMA Turned ==
    ASSUME NEW x, Turn(x)
    PROVE  /\ UNCHANGED <<client, calls, link, batch, held, reply, list, pending, received, lost>>
           /\ UNCHANGED topicVars \/ (stage[x] = "remove" /\ RemoveSubscription(x[1]))
BY DEF Turn, ResendFailed, WriteFailed, LookUp, Remove

LEMMA Settled ==
    ASSUME NEW x, Settle(x)
    PROVE  UNCHANGED <<topicVars, client, calls, link, received, resendFailed>>
BY DEF Settle, TryAdd, LookUpThrows, AddRange, AddRangeUndone, Leave

\* Every step of the broker and of its clients is a step of the topic or leaves
\* the topic alone.
LEMMA ServerStepIsTopicStep ==
    Leavers = Subs /\ [ServerNext]_vars => [Next]_topicVars
<1> SUFFICES ASSUME Leavers = Subs, [ServerNext]_vars
             PROVE  [Next]_topicVars
  OBVIOUS
<1>1. CASE \E m \in Msgs : Publish(m)
  BY <1>1 DEF Publish, Next
<1>2. CASE \E s \in Subs : Subscribe(s) \/ Break(s) \/ Disconnect(s)
  BY <1>2 DEF Subscribe, Break, Disconnect, Next
<1>3. CASE \E x \in Calls : BrokerStep(x) \/ Notice(x)
  <2>1. PICK x \in Calls : BrokerStep(x) \/ Notice(x)
    BY <1>3
  <2>2. x[1] \in Subs
    BY DEF Calls
  <2> QED
    BY <2>1, <2>2, BrokerSteps, Turned, Settled DEF Poll, Resent, Written, Notice, Next
<1>4. CASE UNCHANGED vars
  BY <1>4 DEF vars
<1> QED
  BY <1>1, <1>2, <1>3, <1>4 DEF ServerNext

\* The broker implements the topic, with every subscription free to leave.
THEOREM ServerImplementsTopic == Leavers = Subs => (ServerSpec => Spec)
<1> SUFFICES ASSUME Leavers = Subs
             PROVE  ServerSpec => Spec
  OBVIOUS
<1>1. ServerInit => Init
  BY DEF ServerInit
<1>2. [ServerNext]_vars => [Next]_topicVars
  BY ServerStepIsTopicStep
<1> QED
  BY <1>1, <1>2, PTL DEF ServerSpec, Spec

\* However calls break, resume and overlap, the topic never hands a message to
\* the loops of one client twice.
THEOREM ServerNeverTwice == Leavers = Subs => (ServerSpec => []AtMostOnce)
BY ServerImplementsTopic, NeverTwice

-----------------------------------------------------------------------------
(* Lists of messages                                                        *)

Distinct(q) == \A k, l \in DOMAIN q : k # l => q[k] # q[l]
Ascending(q) == \A k, l \in DOMAIN q : k < l => q[k] < q[l]

LEMMA Concats ==
    ASSUME NEW q \in Seq(Objects), NEW r \in Seq(Objects)
    PROVE  /\ q \o r \in Seq(Objects)
           /\ Elements(q \o r) = Elements(q) \cup Elements(r)
           /\ Distinct(q) /\ Distinct(r) /\ Elements(q) \cap Elements(r) = {} => Distinct(q \o r)
           /\ Ascending(q) /\ Ascending(r) /\ (\A i \in Elements(q), j \in Elements(r) : i < j)
                => Ascending(q \o r)
<1> DEFINE c == q \o r
           m == Len(q)
           n == Len(r)
<1>1. m \in Nat /\ n \in Nat /\ DOMAIN q = 1..m /\ DOMAIN r = 1..n
  OBVIOUS
<1>2. /\ c \in Seq(Objects) /\ Len(c) = m + n /\ DOMAIN c = 1 .. m + n
      /\ \A k \in 1 .. m + n : c[k] = IF k <= m THEN q[k] ELSE r[k - m]
  BY ConcatProperties
<1> HIDE DEF c, m, n
<1>3. ASSUME NEW k \in 1 .. m + n
      PROVE  \/ k \in 1..m /\ c[k] = q[k]
             \/ k \notin 1..m /\ k > m /\ k - m \in 1..n /\ c[k] = r[k - m]
  BY <1>1, <1>2
<1>4. /\ \A k \in 1..m : k \in 1 .. m + n /\ c[k] = q[k] /\ q[k] \in Elements(q)
      /\ \A k \in 1..n : m + k \in 1 .. m + n /\ c[m + k] = r[k] /\ r[k] \in Elements(r)
  <2>1. \A k \in 1..m : k \in 1 .. m + n /\ k <= m
    BY <1>1
  <2>2. \A k \in 1..n : m + k \in 1 .. m + n /\ ~(m + k <= m) /\ m + k - m = k
    BY <1>1
  <2>3. /\ \A k \in 1..m : q[k] \in Elements(q)
        /\ \A k \in 1..n : r[k] \in Elements(r)
    BY <1>1 DEF Elements
  <2>4. ASSUME NEW k \in 1..n, NEW o, o = m + k
        PROVE  c[o] = r[k]
    <3>1. o \in 1 .. m + n /\ ~(o <= m) /\ o - m = k
      BY <1>1, <2>2, <2>4
    <3> QED
      BY <1>2, <3>1
  <2> QED
    BY <1>2, <2>1, <2>2, <2>3, <2>4
<1>5. Elements(c) = Elements(q) \cup Elements(r)
  <2>1. Elements(c) \subseteq Elements(q) \cup Elements(r)
    BY <1>2, <1>3, <1>4 DEF Elements
  <2>2. /\ \A k \in 1..m : q[k] \in Elements(c)
        /\ \A k \in 1..n : r[k] \in Elements(c)
    <3>1. \A k \in 1 .. m + n : c[k] \in Elements(c)
      BY <1>2 DEF Elements
    <3> QED
      BY <1>4, <3>1
  <2>3. Elements(q) \cup Elements(r) \subseteq Elements(c)
    BY <1>1, <2>2 DEF Elements
  <2> QED
    BY <2>1, <2>3
<1>6. ASSUME Distinct(q), Distinct(r), Elements(q) \cap Elements(r) = {},
             NEW k \in 1 .. m + n, NEW l \in 1 .. m + n, k # l
      PROVE  c[k] # c[l]
  <2>1. k - m # l - m
    BY <1>1, <1>6
  <2>2. /\ \A i \in 1..m : q[i] \in Elements(q)
        /\ \A i \in 1..n : r[i] \in Elements(r)
    BY <1>4
  <2>3. CASE k \in 1..m /\ l \in 1..m
    BY <1>1, <1>3, <1>6, <2>3 DEF Distinct
  <2>4. CASE k \notin 1..m /\ l \notin 1..m
    <3>1. k - m \in 1..n /\ l - m \in 1..n /\ c[k] = r[k - m] /\ c[l] = r[l - m]
      BY <1>3, <2>4
    <3> QED
      BY <1>1, <1>6, <2>1, <3>1 DEF Distinct
  <2>5. CASE k \in 1..m /\ l \notin 1..m
    <3>1. c[k] \in Elements(q) /\ c[l] \in Elements(r)
      BY <1>3, <2>2, <2>5
    <3> QED
      BY <1>6, <3>1
  <2>6. CASE k \notin 1..m /\ l \in 1..m
    <3>1. c[l] \in Elements(q) /\ c[k] \in Elements(r)
      BY <1>3, <2>2, <2>6
    <3> QED
      BY <1>6, <3>1
  <2> QED
    BY <2>3, <2>4, <2>5, <2>6
<1>7. ASSUME Ascending(q), Ascending(r), \A i \in Elements(q), j \in Elements(r) : i < j,
             NEW k \in 1 .. m + n, NEW l \in 1 .. m + n, k < l
      PROVE  c[k] < c[l]
  <2>1. CASE l \in 1..m
    <3>1. k \in 1..m
      BY <1>1, <1>7, <2>1
    <3> QED
      BY <1>1, <1>3, <1>7, <2>1, <3>1 DEF Ascending
  <2>2. CASE l \notin 1..m /\ k \in 1..m
    BY <1>3, <1>4, <1>7, <2>2
  <2>3. CASE l \notin 1..m /\ k \notin 1..m
    <3>1. k - m < l - m
      BY <1>1, <1>7
    <3> QED
      BY <1>1, <1>3, <1>7, <2>3, <3>1 DEF Ascending
  <2> QED
    BY <2>1, <2>2, <2>3
<1> QED
  BY <1>2, <1>5, <1>6, <1>7 DEF Distinct, Ascending, c

\* The sequence of a finite set of messages, in the order of the queue: the one at k has k
\* messages of the set up to itself.
LEMMA QueueOrder ==
    ASSUME NEW S \in SUBSET Objects
    PROVE  LET q == InQueueOrder(S) IN
           q \in Seq(Objects) /\ Elements(q) = S /\ Ascending(q) /\ Distinct(q)
<1> DEFINE n == Cardinality(S)
           upTo(i) == {j \in S : j <= i}
           rank == [i \in S |-> Cardinality(upTo(i))]
<1>1. IsFiniteSet(S) /\ n \in Nat /\ S \subseteq Int
  <2>1. IsFiniteSet(Objects)
    BY FS_Interval, TopicAssumption DEF Objects
  <2>2. IsFiniteSet(S)
    BY <2>1, FS_Subset
  <2>3. n \in Nat
    BY <2>2, FS_CardinalityType
  <2> QED
    BY <2>2, <2>3 DEF Objects
<1>2. ASSUME NEW i \in S
      PROVE  rank[i] \in 1..n /\ IsFiniteSet(upTo(i))
  <2>1. upTo(i) \in SUBSET S /\ i \in upTo(i)
    BY <1>1
  <2>2. IsFiniteSet(upTo(i)) /\ Cardinality(upTo(i)) <= n /\ Cardinality(upTo(i)) \in Nat
    BY <1>1, <2>1, FS_Subset, FS_CardinalityType
  <2>3. Cardinality(upTo(i)) # 0
    BY <2>1, <2>2, FS_EmptySet
  <2> QED
    BY <1>1, <2>2, <2>3
<1>3. ASSUME NEW i \in S, NEW j \in S, i < j
      PROVE  rank[i] < rank[j]
  <2>a. i \in Int /\ j \in Int /\ \A k \in S : k \in Int
    BY <1>1
  <2>b. j \in upTo(j) /\ j \notin upTo(i)
    BY <1>3, <2>a
  <2>c. \A k \in S : k <= i => k <= j
    BY <1>3, <2>a
  <2>d. upTo(i) \subseteq upTo(j)
    BY <2>c
  <2>1. upTo(i) \in SUBSET upTo(j) /\ upTo(i) # upTo(j)
    BY <2>b, <2>d
  <2>2. Cardinality(upTo(i)) <= Cardinality(upTo(j)) /\ Cardinality(upTo(i)) # Cardinality(upTo(j))
    BY <1>2, <2>1, FS_Subset
  <2> QED
    BY <1>2, <2>2
<1>4. rank \in Injection(S, 1..n)
  <2>1. rank \in [S -> 1..n]
    BY <1>2
  <2>2. \A i, j \in S : rank[i] = rank[j] => i = j
    BY <1>1, <1>2, <1>3
  <2> QED
    BY <2>1, <2>2 DEF Injection, IsInjective
<1>5. IsFiniteSet(1..n) /\ Cardinality(1..n) = n
  BY <1>1, FS_Interval
<1>6. \A k \in 1..n : \E i \in S : rank[i] = k
  <2>1. rank \in Surjection(S, 1..n)
    BY <1>1, <1>4, <1>5, FS_Injection
  <2> QED
    BY <2>1 DEF Surjection
<1> DEFINE w == [k \in 1..n |-> CHOOSE i \in S : rank[i] = k]
<1>7. /\ w \in [1..n -> S] /\ \A k \in 1..n : rank[w[k]] = k
  BY <1>6
<1>8. \A k, l \in 1..n : k < l => w[k] < w[l]
  <2> SUFFICES ASSUME NEW k \in 1..n, NEW l \in 1..n, k < l
               PROVE  w[k] < w[l]
    OBVIOUS
  <2>1. w[k] \in S /\ w[l] \in S /\ w[k] \in Int /\ w[l] \in Int
    BY <1>1, <1>7
  <2>2. rank[w[k]] = k /\ rank[w[l]] = l
    BY <1>7
  <2>3. w[l] < w[k] => l < k
    BY <1>3, <2>1, <2>2
  <2>4. w[k] # w[l]
    <3> HIDE DEF w, rank
    <3> QED
      BY <1>1, <2>2
  <2> HIDE DEF w
  <2> QED
    BY <2>1, <2>3, <2>4
<1> DEFINE q == InQueueOrder(S)
<1>9. q \in [1..n -> S] /\ \A k, l \in 1..n : k < l => q[k] < q[l]
  <2>1. \E v \in [1..n -> S] : \A k, l \in DOMAIN v : k < l => v[k] < v[l]
    BY <1>7, <1>8
  <2>2. q \in [1..n -> S] /\ \A k, l \in DOMAIN q : k < l => q[k] < q[l]
    BY <2>1 DEF InQueueOrder
  <2> QED
    BY <2>2
<1> HIDE DEF q, n, w, rank
<1>10. DOMAIN q = 1..n
  BY <1>9
<1>11. \A k, l \in 1..n : k # l => q[k] # q[l]
  <2> SUFFICES ASSUME NEW k \in 1..n, NEW l \in 1..n, k # l
               PROVE  q[k] # q[l]
    OBVIOUS
  <2>1. k < l \/ l < k
    BY <1>1
  <2>2. q[k] \in Int /\ q[l] \in Int
    BY <1>1, <1>9
  <2> QED
    BY <1>9, <2>1, <2>2
<1>12. q \in Injection(1..n, S)
  BY <1>9, <1>11 DEF Injection, IsInjective
<1>13. \A i \in S : \E k \in 1..n : q[k] = i
  <2>1. q \in Surjection(1..n, S)
    BY <1>1, <1>5, <1>12, FS_Injection DEF n
  <2> QED
    BY <2>1 DEF Surjection
<1>14. q \in Seq(Objects)
  <2>1. q \in [1..n -> Objects]
    BY <1>9
  <2> QED
    BY <1>1, <2>1 DEF n
<1>15. Elements(q) = S
  BY <1>9, <1>10, <1>13 DEF Elements
<1> QED
  BY <1>9, <1>10, <1>11, <1>14, <1>15 DEF Ascending, Distinct, q

-----------------------------------------------------------------------------
(* The calls and what they hold                                             *)

\* Calls are numbered in the order they were made, and only the last is read.
Numbered ==
    \A s \in Subs, n \in 1..MaxCalls :
       /\ stage[<<s, n>>] = "none" <=> n > calls[s]
       /\ stage[<<s, n>>] # "none" /\ link[<<s, n>>] = "up" =>
            client[s] = "reading" /\ n = calls[s]

\* A loop that is not writing has no batch, and one that has not taken up a pending list has
\* no reply.  The pending lists, also those taken up or looked up, are of calls of the same
\* client, and those of calls that have ended unless they are only looked up.
Owned ==
    /\ \A x \in Calls :
         /\ stage[x] \in {"none", "poll", "ended"} => batch[x] = <<>>
         /\ held[x] = NoList => reply[x] = <<>>
         /\ stage[x] = "resend" => held[x] # NoList
         /\ held[x] # NoList =>
              /\ stage[x] \in {"resend", "keep", "append"}
              /\ held[x] \in CallsOf(x[1]) /\ stage[held[x]] = "ended"
              /\ Elements(reply[x]) \subseteq Elements(list[held[x]])
         /\ into[x] # NoList => into[x] \in CallsOf(x[1])
         /\ stage[x] = "append" => into[x] # NoList
    /\ \A s \in Subs : pending[s] # NoList =>
         pending[s] \in CallsOf(s) /\ stage[pending[s]] = "ended"

BInv == TopicInv /\ ServerTypeOK /\ Numbered /\ Owned

LEMMA EmptyList == <<>> \in Seq(Objects) /\ Elements(<<>>) = {} /\ Distinct(<<>>) /\ Ascending(<<>>)
BY DEF Elements, Distinct, Ascending

LEMMA ListElements == \A q \in Seq(Objects) : Elements(q) \subseteq Objects
BY DEF Elements

LEMMA CallsAre ==
    /\ \A x \in Calls : x[1] \in Subs /\ x[2] \in 1..MaxCalls /\ x = <<x[1], x[2]>>
    /\ \A s \in Subs, n \in 1..MaxCalls : <<s, n>> \in Calls
    /\ \A s \in Subs : \A x : x \in CallsOf(s) <=> x \in Calls /\ x[1] = s
    /\ NoList \notin Calls /\ MaxCalls \in Nat \ {0}
BY ServerAssumption DEF Calls, CallsOf

LEMMA RemoveKeeps ==
    ASSUME TopicInv, NEW s \in Subs, RemoveSubscription(s)
    PROVE  TopicInv'
BY TopicAssumption
   DEF TopicInv, RemoveSubscription, TypeOK, Counted, Unpushed, Nested, Objects, Queued

LEMMA TopicStep == TopicInv /\ [ServerNext]_vars => TopicInv'
<1> SUFFICES ASSUME TopicInv, [ServerNext]_vars
             PROVE  TopicInv'
  OBVIOUS
<1>u. CASE UNCHANGED topicVars
  BY <1>u DEF topicVars, TopicInv, TypeOK, Counted, Unpushed, Nested, Objects, Queued
<1>1. CASE \E m \in Msgs : Publish(m)
  BY <1>1, PushInv DEF Publish
<1>2. CASE \E s \in Subs : Subscribe(s) \/ Break(s) \/ Disconnect(s)
  BY <1>2, <1>u, CreateInv, RemoveKeeps DEF Subscribe, Break, Disconnect
<1>3. ASSUME NEW x \in Calls, BrokerStep(x) \/ Notice(x)
      PROVE  TopicInv'
  <2>1. x[1] \in Subs
    BY CallsAre
  <2> QED
    BY <1>3, <1>u, <2>1, BrokerSteps, Turned, Settled, ConsumeInv, RemoveKeeps
       DEF Poll, Resent, Written, Notice
<1>4. CASE UNCHANGED vars
  BY <1>4, <1>u DEF vars
<1> QED
  BY <1>1, <1>2, <1>3, <1>4 DEF ServerNext

\* What a loop that turns to something else has changed.
LEMMA Turning ==
    ASSUME BInv, NEW x \in Calls, Turn(x)
    PROVE  /\ stage' \in [Calls -> Stages] /\ into' \in [Calls -> Calls \cup {NoList}]
           /\ stage[x] \in {"resend", "write", "failed", "keep", "remove"}
           /\ stage'[x] \in {"keep", "append", "write"}
           /\ stage[x] = "remove" <=> stage'[x] = "write"
           /\ stage'[x] = "append" => into'[x] # NoList
           /\ into'[x] \in {into[x], pending[x[1]]}
           /\ \A z \in Calls \ {x} : stage'[z] = stage[z] /\ into'[z] = into[z]
           /\ UNCHANGED <<log, head, seenBy, taken>>
           /\ resendFailed' \in {resendFailed, resendFailed \cup {x[1]}}
           /\ stage[x] = "resend" => resendFailed' = resendFailed \cup {x[1]}
           /\ stage[x] # "resend" => resendFailed' = resendFailed
<1>1. /\ x[1] \in Subs /\ stage \in [Calls -> Stages] /\ into \in [Calls -> Calls \cup {NoList}]
      /\ pending[x[1]] \in Calls \cup {NoList} /\ {"keep", "append", "write"} \subseteq Stages
  BY CallsAre DEF BInv, ServerTypeOK, Stages
<1>2. CASE ResendFailed(x)
  BY <1>1, <1>2 DEF ResendFailed, LookForPending, topicVars
<1>3. CASE WriteFailed(x)
  BY <1>1, <1>3 DEF WriteFailed, CannotWrite, LookForPending, topicVars
<1>4. CASE LookUp(x)
  BY <1>1, <1>4 DEF LookUp, topicVars
<1>5. CASE Remove(x)
  BY <1>1, <1>5 DEF Remove, RemoveSubscription
<1> QED
  BY <1>2, <1>3, <1>4, <1>5 DEF Turn

\* What the loop of x has left behind after settling what it had in hand.
LEMMA Leaving ==
    ASSUME ServerTypeOK, NEW x \in Calls, Settle(x)
    PROVE  /\ stage[x] \in {"keep", "append"}
           /\ stage' \in [Calls -> Stages] /\ batch' \in [Calls -> Seq(Objects)]
           /\ held' \in [Calls -> Calls \cup {NoList}] /\ reply' \in [Calls -> Seq(Objects)]
           /\ into' \in [Calls -> Calls \cup {NoList}]
           /\ held[x] = NoList => stage'[x] = "ended" /\ batch'[x] = <<>>
           /\ held[x] # NoList => stage'[x] \in {"remove", "failed"} /\ batch'[x] = batch[x]
           /\ held'[x] = NoList /\ reply'[x] = <<>> /\ into'[x] = NoList
           /\ \A z \in Calls \ {x} : UNCHANGED <<stage[z], batch[z], held[z], reply[z], into[z]>>
<1>1. PICK next \in {"remove", "failed"} : Leave(x, next)
  BY DEF Settle, TryAdd, LookUpThrows, AddRange, AddRangeUndone
<1>2. stage[x] \in {"keep", "append"}
  BY DEF Settle, TryAdd, LookUpThrows, AddRange, AddRangeUndone
<1>3. /\ stage \in [Calls -> Stages] /\ batch \in [Calls -> Seq(Objects)]
      /\ held \in [Calls -> Calls \cup {NoList}] /\ reply \in [Calls -> Seq(Objects)]
      /\ into \in [Calls -> Calls \cup {NoList}] /\ <<>> \in Seq(Objects)
      /\ {"remove", "failed", "ended"} \subseteq Stages
  BY DEF ServerTypeOK, Stages
<1> QED
  BY <1>1, <1>2, <1>3 DEF Leave

\* Where what it had in hand has gone: to the end of the pending list, or nowhere.
LEMMA Settling ==
    ASSUME BInv, NEW x \in Calls, NEW s \in Subs, s = x[1], Settle(x)
    PROVE  /\ pending' \in [Subs -> Calls \cup {NoList}] /\ list' \in [Calls -> Seq(Objects)]
           /\ Kept(x) \in Seq(Objects) /\ Elements(InHand(x)) \subseteq Elements(Kept(x))
           /\ Own(x) \in CallsOf(s)
           /\ \A t \in Subs \ {s} : pending'[t] = pending[t] /\ PendingOf(t)' = PendingOf(t)
           /\ pending'[s] \in {pending[s], Own(x)}
           /\ \A z \in Calls : \/ list'[z] = list[z]
                               \/ z \in CallsOf(s) /\ list'[z] = list[z] \o Kept(x)
                               \/ z = Own(x) /\ list'[z] = Kept(x)
           /\ \/ PendingOf(s)' = PendingOf(s) \o Kept(x) /\ lost' = lost
              \/ /\ PendingOf(s)' = PendingOf(s)
                 /\ lost' = lost \cup {<<s, i>> : i \in Elements(InHand(x)) \ Elements(PendingOf(s))}
<1>1. /\ pending \in [Subs -> Calls \cup {NoList}] /\ list \in [Calls -> Seq(Objects)]
      /\ batch \in [Calls -> Seq(Objects)] /\ x \in CallsOf(s) /\ NoList \notin Calls
      /\ CallsOf(s) \subseteq Calls
  BY CallsAre DEF BInv, ServerTypeOK
<1>2. /\ held[x] # NoList => held[x] \in CallsOf(s) /\ Elements(reply[x]) \subseteq Elements(list[held[x]])
      /\ into[x] # NoList => into[x] \in CallsOf(s)
      /\ stage[x] = "append" => into[x] # NoList
      /\ \A t \in Subs : pending[t] # NoList => pending[t] \in CallsOf(t)
  BY DEF BInv, Owned
<1>3. Kept(x) \in Seq(Objects) /\ Elements(InHand(x)) \subseteq Elements(Kept(x)) /\ Own(x) \in CallsOf(s)
  BY <1>1, <1>2 DEF Kept, InHand, Own
<1>4. \A t \in Subs \ {s} : \A z \in CallsOf(s) : pending[t] # z
  BY <1>1, <1>2, CallsAre
<1> DEFINE D == {<<s, i>> : i \in Elements(InHand(x)) \ Elements(PendingOf(s))}
<1>n. CASE UNCHANGED <<pending, list>> /\ lost' = lost \cup D
  <2>1. \A t \in Subs : PendingOf(t)' = PendingOf(t)
    BY <1>n DEF PendingOf
  <2> QED
    BY <1>1, <1>3, <1>n, <2>1
<1>5. ASSUME Drop(x)
      PROVE  lost' = lost \cup D
  BY <1>5 DEF Drop
<1> HIDE DEF D
<1>6. CASE TryAdd(x)
  <2>1. CASE pending[s] = NoList
    <3>1. /\ pending' = [pending EXCEPT ![s] = Own(x)] /\ list' = [list EXCEPT ![Own(x)] = Kept(x)]
          /\ lost' = lost
      BY <1>6, <2>1 DEF TryAdd
    <3>2. /\ \A t \in Subs \ {s} : pending'[t] = pending[t]
          /\ \A z \in Calls : list'[z] = IF z = Own(x) THEN Kept(x) ELSE list[z]
          /\ pending'[s] = Own(x)
      BY <1>1, <1>3, <3>1
    <3>3. \A t \in Subs \ {s} : PendingOf(t)' = PendingOf(t)
      BY <1>1, <1>3, <1>4, <3>2 DEF PendingOf
    <3>4. PendingOf(s) = <<>> /\ PendingOf(s)' = Kept(x)
      BY <1>1, <1>3, <2>1, <3>2 DEF PendingOf
    <3>5. <<>> \o Kept(x) = Kept(x)
      BY <1>3, ConcatEmptySeq
    <3>6. pending' \in [Subs -> Calls \cup {NoList}] /\ list' \in [Calls -> Seq(Objects)]
      BY <1>1, <1>3, <3>1
    <3> QED
      BY <1>3, <3>1, <3>2, <3>3, <3>4, <3>5, <3>6
  <2>2. CASE pending[s] # NoList
    <3>1. Drop(x) /\ UNCHANGED <<pending, list>>
      BY <1>6, <2>2 DEF TryAdd
    <3> QED
      BY <1>5, <1>n, <3>1
  <2> QED
    BY <2>1, <2>2
<1>7. CASE LookUpThrows(x) \/ AddRangeUndone(x)
  <2>1. Drop(x) /\ UNCHANGED <<pending, list>>
    BY <1>7 DEF LookUpThrows, AddRangeUndone
  <2> QED
    BY <1>5, <1>n, <2>1
<1>8. CASE AddRange(x)
  <2> DEFINE p == into[x]
  <2>1. /\ pending' = pending /\ list' = [list EXCEPT ![p] = list[p] \o Kept(x)]
        /\ p \in CallsOf(s) /\ p \in Calls /\ list[p] \in Seq(Objects)
    BY <1>1, <1>2, <1>8 DEF AddRange, Extended
  <2>2. list[p] \o Kept(x) \in Seq(Objects)
    BY <1>3, <2>1, Concats
  <2>3. list' \in [Calls -> Seq(Objects)]
    BY <1>1, <2>1, <2>2
  <2>4. \A z \in Calls : list'[z] = IF z = p THEN list[z] \o Kept(x) ELSE list[z]
    BY <1>1, <2>1
  <2>5. \A t \in Subs \ {s} : PendingOf(t)' = PendingOf(t)
    BY <1>1, <1>4, <2>1, <2>4 DEF PendingOf
  <2>6. CASE p = pending[s]
    <3>1. lost' = lost
      BY <1>8, <2>6 DEF AddRange
    <3>2. PendingOf(s)' = PendingOf(s) \o Kept(x)
      BY <1>1, <2>1, <2>4, <2>6 DEF PendingOf
    <3> QED
      BY <1>1, <1>3, <2>1, <2>3, <2>4, <2>5, <3>1, <3>2
  <2>7. CASE p # pending[s]
    <3>1. lost' = lost \cup D
      BY <1>5, <1>8, <2>7 DEF AddRange
    <3>2. PendingOf(s)' = PendingOf(s)
      BY <1>1, <2>1, <2>4, <2>7 DEF PendingOf
    <3> QED
      BY <1>1, <1>3, <2>1, <2>3, <2>4, <2>5, <3>1, <3>2 DEF D
  <2> QED
    BY <2>6, <2>7
<1> QED
  BY <1>6, <1>7, <1>8 DEF Settle

\* What a write that does not throw does.
LEMMA Delivering ==
    ASSUME ServerTypeOK, NEW x \in Calls, NEW q \in Seq(Objects), NEW d \in SUBSET Objects,
           Deliver(x, q, d)
    PROVE  /\ received' \in [Subs -> Seq(Objects)] /\ lost' \subseteq Subs \X Objects
           /\ lost \subseteq lost' /\ \A i \in d : <<x[1], i>> \in lost'
           /\ \A t \in Subs \ {x[1]} : received'[t] = received[t]
           /\ \/ link[x] = "up" /\ received'[x[1]] = received[x[1]] \o q
              \/ link[x] # "up" /\ received' = received /\ \A i \in Elements(q) : <<x[1], i>> \in lost'
<1>1. /\ x[1] \in Subs /\ received \in [Subs -> Seq(Objects)] /\ lost \subseteq Subs \X Objects
  BY CallsAre DEF ServerTypeOK
<1>2. received[x[1]] \o q \in Seq(Objects) /\ Elements(q) \subseteq Objects
  BY <1>1, Concats, ListElements
<1> QED
  BY <1>1, <1>2 DEF Deliver

-----------------------------------------------------------------------------
(* Types                                                                    *)

LEMMA PendingLists ==
    ASSUME BInv
    PROVE  \A s \in Subs : PendingOf(s) \in Seq(Objects)
<1>1. \A s \in Subs : pending[s] # NoList => pending[s] \in Calls
  BY DEF BInv, ServerTypeOK
<1> QED
  BY <1>1, EmptyList DEF PendingOf, BInv, ServerTypeOK

LEMMA ServerTypeStep == BInv /\ [ServerNext]_vars => ServerTypeOK'
<1> SUFFICES ASSUME BInv, [ServerNext]_vars
             PROVE  ServerTypeOK'
  OBVIOUS
<1>t. TypeOK'
  BY TopicStep DEF BInv, TopicInv
<1>s. ServerTypeOK
  BY DEF BInv
<1>1. ASSUME NEW m \in Msgs, Publish(m)
      PROVE  ServerTypeOK'
  BY <1>1, <1>s, <1>t DEF Publish, serverVars, ServerTypeOK, Objects
<1>2. ASSUME NEW s \in Subs, Subscribe(s)
      PROVE  ServerTypeOK'
  <2>1. calls[s] + 1 \in 0..MaxCalls
    BY <1>2, <1>s, CallsAre DEF Subscribe, ServerTypeOK
  <2> QED
    BY <1>2, <1>s, <1>t, <2>1 DEF Subscribe, ServerTypeOK, Objects, Stages
<1>3. ASSUME NEW s \in Subs, Break(s)
      PROVE  ServerTypeOK'
  BY <1>3, <1>s, <1>t DEF Break, ServerTypeOK, Objects
<1>4. ASSUME NEW s \in Subs, Disconnect(s)
      PROVE  ServerTypeOK'
  BY <1>4, <1>s, <1>t DEF Disconnect, ServerTypeOK, Objects
<1>5. ASSUME NEW x \in Calls, Notice(x)
      PROVE  ServerTypeOK'
  BY <1>5, <1>s, <1>t DEF Notice, ServerTypeOK, Objects
<1>6. ASSUME NEW x \in Calls, Poll(x)
      PROVE  ServerTypeOK'
  <2>1. x[1] \in Subs /\ PendingOf(x[1]) \in Seq(Objects) /\ Consumable(x[1]) \subseteq Objects
    BY CallsAre, PendingLists, QueuedObjects DEF BInv, TopicInv, Consumable
  <2>2. InQueueOrder(Consumable(x[1])) \in Seq(Objects)
    BY <2>1, QueueOrder
  <2>3. pending[x[1]] \in Calls \cup {NoList}
    BY <1>s, <2>1 DEF ServerTypeOK
  <2>4. batch' \in [Calls -> Seq(Objects)]
    BY <1>6, <1>s, <2>2 DEF Poll, ServerTypeOK
  <2>5. /\ stage' \in [Calls -> Stages]
        /\ held' \in [Calls -> Calls \cup {NoList}] /\ reply' \in [Calls -> Seq(Objects)]
    BY <1>6, <1>s, <2>1, <2>3 DEF Poll, ServerTypeOK, Stages
  <2>6. UNCHANGED <<client, calls, link, into, list, pending, received, lost, resendFailed>>
    BY <1>6 DEF Poll
  <2> QED
    BY <1>s, <1>t, <2>4, <2>5, <2>6 DEF ServerTypeOK, Objects
<1>7. ASSUME NEW x \in Calls, Resent(x)
      PROVE  ServerTypeOK'
  <2>1. x[1] \in Subs /\ PendingOf(x[1]) \in Seq(Objects) /\ reply[x] \in Seq(Objects)
    BY <1>s, CallsAre, PendingLists DEF ServerTypeOK
  <2>2. Elements(PendingOf(x[1])) \ Elements(reply[x]) \in SUBSET Objects
    BY <2>1, ListElements
  <2>3. received' \in [Subs -> Seq(Objects)] /\ lost' \subseteq Subs \X Objects
    BY <1>7, <1>s, <2>1, <2>2, Delivering DEF Resent
  <2> QED
    BY <1>7, <1>s, <1>t, <2>3, EmptyList DEF Resent, ServerTypeOK, Objects, Stages
<1>8. ASSUME NEW x \in Calls, Turn(x)
      PROVE  ServerTypeOK'
  <2>1. resendFailed' = resendFailed \/ resendFailed' = resendFailed \cup {x[1]}
    BY <1>8, Turning
  <2>2. resendFailed \subseteq Subs /\ x[1] \in Subs
    BY <1>s, CallsAre DEF ServerTypeOK
  <2>3. resendFailed' \subseteq Subs
    BY <2>1, <2>2
  <2> QED
    BY <1>8, <1>s, <1>t, <2>3, Turned, Turning DEF ServerTypeOK, Objects
<1>9. ASSUME NEW x \in Calls, Written(x)
      PROVE  ServerTypeOK'
  <2>1. received' \in [Subs -> Seq(Objects)] /\ lost' \subseteq Subs \X Objects
    BY <1>9, <1>s, Delivering DEF Written, ServerTypeOK
  <2> QED
    BY <1>9, <1>s, <1>t, <2>1, EmptyList DEF Written, ServerTypeOK, Objects, Stages
<1>10. ASSUME NEW x \in Calls, Settle(x)
       PROVE  ServerTypeOK'
  <2>1. PICK s \in Subs : s = x[1]
    BY CallsAre
  <2>2. Elements(InHand(x)) \subseteq Objects
    BY <1>10, <2>1, Settling, ListElements
  <2> DEFINE D == {<<s, i>> : i \in Elements(InHand(x)) \ Elements(PendingOf(s))}
  <2>a. lost' = lost \/ lost' = lost \cup D
    BY <1>10, <2>1, Settling
  <2>b. D \subseteq Subs \X Objects /\ lost \subseteq Subs \X Objects
    BY <1>s, <2>2 DEF ServerTypeOK
  <2> HIDE DEF D
  <2>3. lost' \subseteq Subs \X Objects
    BY <2>a, <2>b
  <2>4. pending' \in [Subs -> Calls \cup {NoList}] /\ list' \in [Calls -> Seq(Objects)]
    BY <1>10, <2>1, Settling
  <2> QED
    BY <1>10, <1>s, <1>t, <2>3, <2>4, Settled, Leaving DEF ServerTypeOK, Objects
<1>11. CASE UNCHANGED vars
  BY <1>11, <1>s, <1>t DEF vars, serverVars, ServerTypeOK, Objects
<1> QED
  BY <1>1, <1>2, <1>3, <1>4, <1>5, <1>6, <1>7, <1>8, <1>9, <1>10, <1>11, BrokerSteps DEF ServerNext

-----------------------------------------------------------------------------
(* Which call is read, and who holds what                                   *)

LEMMA NumberedStep == BInv /\ [ServerNext]_vars => Numbered'
<1> SUFFICES ASSUME BInv, [ServerNext]_vars
             PROVE  Numbered'
  OBVIOUS
<1>t. /\ client \in [Subs -> {"away", "reading", "failed"}] /\ calls \in [Subs -> 0..MaxCalls]
      /\ link \in [Calls -> {"up", "cut", "dead"}]
      /\ stage \in [Calls -> Stages]
  BY DEF BInv, ServerTypeOK
<1>n. Numbered
  BY DEF BInv
<1>f. ASSUME UNCHANGED <<client, calls>>,
             \A z \in Calls : /\ stage'[z] = "none" <=> stage[z] = "none"
                              /\ link'[z] = "up" => link[z] = "up"
      PROVE  Numbered'
  BY <1>f, <1>n, CallsAre DEF Numbered
<1>1. ASSUME NEW m \in Msgs, Publish(m)
      PROVE  Numbered'
  BY <1>1, <1>f DEF Publish, serverVars
<1>2. ASSUME NEW s \in Subs, Subscribe(s)
      PROVE  Numbered'
  <2>1. /\ client' = [client EXCEPT ![s] = "reading"] /\ calls' = [calls EXCEPT ![s] = @ + 1]
        /\ stage' = [stage EXCEPT ![<<s, calls[s] + 1>>] = "poll"] /\ link' = link
        /\ client[s] = "away" /\ calls[s] \in 0..MaxCalls
    BY <1>2, <1>t DEF Subscribe
  <2>2. ASSUME NEW t \in Subs, NEW n \in 1..MaxCalls
        PROVE  /\ stage'[<<t, n>>] = "none" <=> n > calls'[t]
               /\ stage'[<<t, n>>] # "none" /\ link'[<<t, n>>] = "up" =>
                    client'[t] = "reading" /\ n = calls'[t]
    <3>1. <<t, n>> \in Calls
      BY CallsAre
    <3>2. CASE t # s
      BY <1>n, <1>t, <2>1, <3>1, <3>2 DEF Numbered
    <3>3. CASE t = s /\ n = calls[s] + 1
      BY <1>t, <2>1, <3>1, <3>3
    <3>4. CASE t = s /\ n # calls[s] + 1
      <4>1. stage'[<<t, n>>] = stage[<<t, n>>] /\ calls'[t] = calls[s] + 1
        BY <1>t, <2>1, <3>1, <3>4
      <4>2. /\ stage[<<t, n>>] = "none" <=> n > calls[s]
            /\ stage[<<t, n>>] # "none" => link[<<t, n>>] # "up"
        BY <1>n, <2>1, <3>4 DEF Numbered
      <4>3. n > calls[s] <=> n > calls[s] + 1
        BY <2>1, <3>4
      <4> QED
        BY <2>1, <4>1, <4>2, <4>3
    <3> QED
      BY <3>2, <3>3, <3>4
  <2> QED
    BY <2>2 DEF Numbered
<1>3. ASSUME NEW s \in Subs, Break(s)
      PROVE  Numbered'
  <2>1. /\ client' = [client EXCEPT ![s] = "failed"] /\ UNCHANGED <<calls, stage>>
        /\ link' = [link EXCEPT ![<<s, calls[s]>>] = "cut"]
    BY <1>3 DEF Break, Current
  <2>2. ASSUME NEW t \in Subs, NEW n \in 1..MaxCalls
        PROVE  /\ stage'[<<t, n>>] = "none" <=> n > calls'[t]
               /\ stage'[<<t, n>>] # "none" /\ link'[<<t, n>>] = "up" =>
                    client'[t] = "reading" /\ n = calls'[t]
    <3>1. <<t, n>> \in Calls
      BY CallsAre
    <3>2. CASE t = s /\ n = calls[s]
      BY <1>n, <1>t, <2>1, <3>1, <3>2 DEF Numbered
    <3>3. CASE ~(t = s /\ n = calls[s])
      BY <1>n, <1>t, <2>1, <3>1, <3>3 DEF Numbered
    <3> QED
      BY <3>2, <3>3
  <2> QED
    BY <2>2 DEF Numbered
<1>4. ASSUME NEW s \in Subs, Disconnect(s)
      PROVE  Numbered'
  BY <1>4, <1>n, <1>t DEF Disconnect, Numbered
<1>5. ASSUME NEW x \in Calls, BrokerStep(x)
      PROVE  Numbered'
  <2>1. CASE Poll(x) \/ Resent(x) \/ Written(x)
    BY <1>f, <1>t, <2>1 DEF Poll, Resent, Written
  <2>2. CASE Turn(x)
    <3>1. \A z \in Calls : stage'[z] = "none" <=> stage[z] = "none"
      BY <2>2, Turning
    <3> QED
      BY <1>f, <2>2, <3>1, Turned
  <2>3. CASE Settle(x)
    <3>1. \A z \in Calls : stage'[z] = "none" <=> stage[z] = "none"
      BY <2>3, Leaving DEF BInv
    <3> QED
      BY <1>f, <2>3, <3>1, Settled
  <2> QED
    BY <1>5, <2>1, <2>2, <2>3, BrokerSteps
<1>6. ASSUME NEW x \in Calls, Notice(x)
      PROVE  Numbered'
  BY <1>6, <1>f, <1>t DEF Notice
<1>7. CASE UNCHANGED vars
  BY <1>7, <1>f DEF vars, serverVars
<1> QED
  BY <1>1, <1>2, <1>3, <1>4, <1>5, <1>6, <1>7 DEF ServerNext

LEMMA OwnedStep == BInv /\ [ServerNext]_vars => Owned'
<1> SUFFICES ASSUME BInv, [ServerNext]_vars
             PROVE  Owned'
  OBVIOUS
<1>t. /\ stage \in [Calls -> Stages]
      /\ batch \in [Calls -> Seq(Objects)] /\ reply \in [Calls -> Seq(Objects)]
      /\ held \in [Calls -> Calls \cup {NoList}] /\ list \in [Calls -> Seq(Objects)]
      /\ into \in [Calls -> Calls \cup {NoList}] /\ pending \in [Subs -> Calls \cup {NoList}]
  BY DEF BInv, ServerTypeOK
<1>o. Owned /\ Numbered /\ ServerTypeOK
  BY DEF BInv
<1>f. ASSUME UNCHANGED <<batch, held, into, reply, list, pending>>,
             \A z \in Calls : stage'[z] = stage[z] \/ (stage[z] = "none" /\ stage'[z] = "poll")
      PROVE  Owned'
  <2>1. \A z \in Calls : stage[z] = "ended" => stage'[z] = "ended"
    BY <1>f
  <2> QED
    BY <1>f, <1>o, <2>1, CallsAre DEF Owned, CallsOf
<1>1. ASSUME NEW m \in Msgs, Publish(m)
      PROVE  Owned'
  BY <1>1, <1>f DEF Publish, serverVars
<1>2. ASSUME NEW s \in Subs, Subscribe(s)
      PROVE  Owned'
  <2>1. /\ stage' = [stage EXCEPT ![<<s, calls[s] + 1>>] = "poll"] /\ calls[s] + 1 \in 1..MaxCalls
        /\ calls[s] + 1 > calls[s]
    BY <1>2, CallsAre DEF Subscribe, BInv, ServerTypeOK
  <2>2. stage[<<s, calls[s] + 1>>] = "none"
    BY <1>o, <2>1 DEF Numbered
  <2> QED
    BY <1>2, <1>f, <1>t, <2>1, <2>2 DEF Subscribe
<1>3. ASSUME NEW s \in Subs, Break(s) \/ Disconnect(s)
      PROVE  Owned'
  BY <1>3, <1>f DEF Break, Disconnect
<1>4. ASSUME NEW x \in Calls, Notice(x)
      PROVE  Owned'
  BY <1>4, <1>f DEF Notice
\* A step of the loop of x, which was not over.
<1>g. ASSUME NEW x \in Calls, stage[x] # "ended",
             \A z \in Calls \ {x} : UNCHANGED <<stage[z], batch[z], held[z], reply[z], into[z]>>,
             \A z \in Calls : stage[z] = "ended" => Elements(list[z]) \subseteq Elements(list'[z]),
             \A s \in Subs : \/ pending'[s] \in {pending[s], NoList}
                             \/ pending'[s] \in CallsOf(s) /\ stage'[pending'[s]] = "ended",
             stage'[x] \in {"none", "poll", "ended"} => batch'[x] = <<>>,
             held'[x] = NoList => reply'[x] = <<>> /\ stage'[x] # "resend",
             held'[x] # NoList =>
               /\ stage'[x] \in {"resend", "keep", "append"}
               /\ held'[x] \in CallsOf(x[1]) /\ stage[held'[x]] = "ended"
               /\ Elements(reply'[x]) \subseteq Elements(list'[held'[x]]),
             into'[x] # NoList => into'[x] \in CallsOf(x[1]),
             stage'[x] = "append" => into'[x] # NoList
      PROVE  Owned'
  <2>1. \A z \in Calls : stage[z] = "ended" => stage'[z] = "ended"
    BY <1>g
  <2>2. ASSUME NEW z \in Calls
        PROVE  /\ stage'[z] \in {"none", "poll", "ended"} => batch'[z] = <<>>
               /\ held'[z] = NoList => reply'[z] = <<>>
               /\ stage'[z] = "resend" => held'[z] # NoList
               /\ held'[z] # NoList =>
                    /\ stage'[z] \in {"resend", "keep", "append"}
                    /\ held'[z] \in CallsOf(z[1]) /\ stage'[held'[z]] = "ended"
                    /\ Elements(reply'[z]) \subseteq Elements(list'[held'[z]])
               /\ into'[z] # NoList => into'[z] \in CallsOf(z[1])
               /\ stage'[z] = "append" => into'[z] # NoList
    <3>c. CallsOf(z[1]) \subseteq Calls
      BY CallsAre
    <3>1. CASE z = x
      BY <1>g, <2>1, <3>1, <3>c
    <3>2. CASE z # x
      <4>1. /\ stage'[z] = stage[z] /\ batch'[z] = batch[z] /\ held'[z] = held[z]
            /\ reply'[z] = reply[z] /\ into'[z] = into[z]
        BY <1>g, <3>2
      <4>2. held[z] # NoList =>
              /\ held[z] \in CallsOf(z[1]) /\ held[z] \in Calls /\ stage[held[z]] = "ended"
              /\ Elements(reply[z]) \subseteq Elements(list[held[z]])
        BY <1>o, <3>c DEF Owned
      <4>3. held[z] # NoList => Elements(list[held[z]]) \subseteq Elements(list'[held[z]])
        BY <1>g, <4>2
      <4> QED
        BY <1>o, <2>1, <4>1, <4>2, <4>3 DEF Owned
    <3> QED
      BY <3>1, <3>2
  <2>3. ASSUME NEW s \in Subs, pending'[s] # NoList
        PROVE  pending'[s] \in CallsOf(s) /\ stage'[pending'[s]] = "ended"
    <3>1. CASE pending'[s] = pending[s]
      BY <1>o, <2>1, <2>3, <3>1, CallsAre DEF Owned
    <3>2. CASE pending'[s] # pending[s]
      BY <1>g, <2>3, <3>2
    <3> QED
      BY <3>1, <3>2
  <2>4. ASSUME NEW z \in Calls, held'[z] # NoList
        PROVE  Elements(reply[z])' \subseteq Elements(list[held[z]])'
    BY <2>2, <2>4 DEF Elements
  <2> QED
    BY <2>2, <2>3, <2>4 DEF Owned, CallsOf
<1>5. ASSUME NEW x \in Calls, Poll(x)
      PROVE  Owned'
  <2>1. x[1] \in Subs
    BY CallsAre
  <2>2. stage[x] = "poll" /\ held[x] = NoList /\ reply[x] = <<>>
    BY <1>5, <1>o DEF Poll, Owned
  <2>3. /\ UNCHANGED <<into, list, pending>>
        /\ \A z \in Calls \ {x} : UNCHANGED <<stage[z], batch[z], held[z], reply[z]>>
    BY <1>5, <1>t DEF Poll
  <2>i. into'[x] # NoList => into'[x] \in CallsOf(x[1])
    BY <1>o, <2>3 DEF Owned
  <2>4. CASE HasPending(x[1])
    <3>1. pending[x[1]] # NoList /\ PendingOf(x[1]) = list[pending[x[1]]]
      BY <2>4 DEF HasPending, PendingOf
    <3>2. /\ stage'[x] = "resend"
          /\ held'[x] = pending[x[1]] /\ reply'[x] = list[pending[x[1]]]
      BY <1>5, <1>t, <2>4, <3>1 DEF Poll
    <3>3. pending[x[1]] \in CallsOf(x[1]) /\ stage[pending[x[1]]] = "ended"
      BY <1>o, <2>1, <3>1 DEF Owned
    <3> QED
      BY <1>g, <2>2, <2>3, <2>i, <3>1, <3>2, <3>3
  <2>5. CASE ~HasPending(x[1])
    <3>1. stage'[x] = "write" /\ UNCHANGED <<held, reply>>
      BY <1>5, <1>t, <2>5 DEF Poll
    <3> QED
      BY <1>g, <2>2, <2>3, <2>i, <3>1
  <2> QED
    BY <2>4, <2>5
<1>6. ASSUME NEW x \in Calls, Resent(x)
      PROVE  Owned'
  <2>1. /\ stage'[x] = "write" /\ stage[x] = "resend" /\ reply'[x] = <<>> /\ held'[x] = NoList
        /\ UNCHANGED <<into, list>> /\ pending' = [pending EXCEPT ![x[1]] = NoList]
        /\ \A z \in Calls \ {x} : UNCHANGED <<stage[z], batch[z], held[z], reply[z]>>
    BY <1>6, <1>t DEF Resent
  <2>2. \A s \in Subs : pending'[s] \in {pending[s], NoList}
    BY <1>t, <2>1
  <2>3. into[x] # NoList => into[x] \in CallsOf(x[1])
    BY <1>o DEF Owned
  <2> QED
    BY <1>g, <2>1, <2>2, <2>3
<1>7. ASSUME NEW x \in Calls, Written(x)
      PROVE  Owned'
  <2>1. /\ stage'[x] = "poll" /\ stage[x] = "write" /\ batch'[x] = <<>>
        /\ UNCHANGED <<into, list, pending, held, reply>>
        /\ \A z \in Calls \ {x} : UNCHANGED <<stage[z], batch[z]>>
    BY <1>7, <1>t DEF Written
  <2>2. held[x] = NoList /\ reply[x] = <<>> /\ (into[x] # NoList => into[x] \in CallsOf(x[1]))
    BY <1>o, <2>1 DEF Owned
  <2> QED
    BY <1>g, <2>1, <2>2
<1>8. ASSUME NEW x \in Calls, Turn(x)
      PROVE  Owned'
  <2>1. x[1] \in Subs /\ UNCHANGED <<batch, held, reply, list, pending>>
    BY <1>8, Turned, CallsAre
  <2>2. /\ stage[x] \in {"resend", "write", "failed", "keep", "remove"}
        /\ stage'[x] \in {"keep", "append", "write"}
        /\ stage[x] = "remove" <=> stage'[x] = "write"
        /\ stage'[x] = "append" => into'[x] # NoList
        /\ into'[x] \in {into[x], pending[x[1]]}
        /\ \A z \in Calls \ {x} : stage'[z] = stage[z] /\ into'[z] = into[z]
    BY <1>8, Turning
  <2>3. into'[x] # NoList => into'[x] \in CallsOf(x[1])
    BY <1>o, <2>1, <2>2 DEF Owned
  <2>4. /\ held[x] = NoList => reply[x] = <<>>
        /\ held[x] # NoList =>
              /\ stage[x] # "remove" /\ held[x] \in CallsOf(x[1]) /\ stage[held[x]] = "ended"
              /\ Elements(reply[x]) \subseteq Elements(list[held[x]])
    BY <1>o DEF Owned
  <2> QED
    BY <1>g, <2>1, <2>2, <2>3, <2>4
<1>9. ASSUME NEW x \in Calls, Settle(x)
      PROVE  Owned'
  <2>1. /\ stage[x] \in {"keep", "append"}
        /\ stage'[x] \in {"ended", "remove", "failed"} /\ (stage'[x] = "ended" => batch'[x] = <<>>)
        /\ held'[x] = NoList /\ reply'[x] = <<>> /\ into'[x] = NoList
        /\ \A z \in Calls \ {x} : UNCHANGED <<stage[z], batch[z], held[z], reply[z], into[z]>>
    BY <1>9, <1>o, Leaving
  <2>2. PICK s \in Subs : s = x[1]
    BY CallsAre
  <2>3. /\ Kept(x) \in Seq(Objects) /\ Own(x) \in CallsOf(s)
        /\ \A t \in Subs \ {s} : pending'[t] = pending[t]
        /\ pending'[s] \in {pending[s], Own(x)}
        /\ \A z \in Calls : \/ list'[z] = list[z] \/ list'[z] = list[z] \o Kept(x)
                            \/ z = Own(x) /\ list'[z] = Kept(x)
    BY <1>9, <2>2, Settling
  <2>4. \/ held[x] = NoList /\ Own(x) = x /\ stage'[x] = "ended"
        \/ held[x] # NoList /\ Own(x) = held[x] /\ Kept(x) = list[held[x]] /\ stage[Own(x)] = "ended"
    BY <1>9, <1>o, Leaving DEF Own, Kept, Owned
  <2>5. ASSUME NEW z \in Calls, stage[z] = "ended"
        PROVE  Elements(list[z]) \subseteq Elements(list'[z])
    <3>1. list[z] \in Seq(Objects) /\ z # x
      BY <1>t, <2>1, <2>5
    <3>2. Elements(list[z] \o Kept(x)) = Elements(list[z]) \cup Elements(Kept(x))
      BY <2>3, <3>1, Concats
    <3> QED
      BY <2>3, <2>4, <3>1, <3>2
  <2>6. stage'[Own(x)] = "ended"
    <3>1. Own(x) \in Calls
      BY <2>3, CallsAre
    <3> QED
      BY <2>1, <2>4, <3>1
  <2>7. \A t \in Subs : \/ pending'[t] \in {pending[t], NoList}
                        \/ pending'[t] \in CallsOf(t) /\ stage'[pending'[t]] = "ended"
    BY <2>3, <2>6
  <2> QED
    BY <1>g, <2>1, <2>5, <2>7
<1>10. CASE UNCHANGED vars
  BY <1>10, <1>f DEF vars, serverVars
<1> QED
  BY <1>1, <1>2, <1>3, <1>4, <1>5, <1>6, <1>7, <1>8, <1>9, <1>10, BrokerSteps DEF ServerNext

LEMMA BrokerInit == ServerInit => BInv
<1> SUFFICES ASSUME ServerInit
             PROVE  BInv
  OBVIOUS
<1>1. Init
  BY DEF ServerInit
<1>2. TopicInv
  BY <1>1, InitInv
<1>3. ServerTypeOK
  BY <1>2, EmptyList, CallsAre DEF ServerInit, ServerTypeOK, TopicInv, Stages
<1>4. Numbered
  <2>1. \A s \in Subs : calls[s] = 0
    BY DEF ServerInit
  <2>2. \A s \in Subs, n \in 1..MaxCalls : stage[<<s, n>>] = "none"
    BY CallsAre DEF ServerInit
  <2>3. \A n \in 1..MaxCalls : n > 0
    BY CallsAre
  <2> QED
    BY <2>1, <2>2, <2>3 DEF Numbered
<1>5. Owned
  BY CallsAre DEF ServerInit, Owned
<1> QED
  BY <1>2, <1>3, <1>4, <1>5 DEF BInv

LEMMA BrokerInv == ServerSpec => []BInv
<1>1. BInv /\ [ServerNext]_vars => BInv'
  BY TopicStep, ServerTypeStep, NumberedStep, OwnedStep DEF BInv
<1> QED
  BY <1>1, BrokerInit, PTL DEF ServerSpec

\* The messages, calls and lists of the broker are what they are declared to be,
\* whatever the interleaving of its loops: in particular a pending list is always a
\* list that some call has made, and a reply only ever holds messages of the topic.
THEOREM ServerTypeCorrect == ServerSpec => []ServerTypeOK
<1>1. BInv => ServerTypeOK
  BY DEF BInv
<1> QED
  BY <1>1, BrokerInv, PTL

-----------------------------------------------------------------------------
(* Who is registered                                                        *)

\* A loop that is about to remove its subscription has failed to send a pending list.
Retrying ==
    \A x \in Calls :
       stage[x] = "remove" \/ (stage[x] \in {"keep", "append"} /\ held[x] # NoList)
         => x[1] \in resendFailed

LEMMA RetryingStep == BInv /\ Retrying /\ [ServerNext]_vars => Retrying'
<1> SUFFICES ASSUME BInv, Retrying, [ServerNext]_vars
             PROVE  Retrying'
  OBVIOUS
<1>t. /\ stage \in [Calls -> Stages] /\ held \in [Calls -> Calls \cup {NoList}]
      /\ Owned /\ ServerTypeOK
  BY DEF BInv, ServerTypeOK
<1>f. ASSUME UNCHANGED held, resendFailed \subseteq resendFailed',
             \A z \in Calls : stage'[z] = stage[z] \/ stage'[z] = "poll"
      PROVE  Retrying'
  BY <1>f DEF Retrying
<1>1. ASSUME NEW m \in Msgs, Publish(m)
      PROVE  Retrying'
  BY <1>1, <1>f DEF Publish, serverVars
<1>2. ASSUME NEW s \in Subs, Subscribe(s) \/ Break(s) \/ Disconnect(s)
      PROVE  Retrying'
  BY <1>2, <1>f, <1>t DEF Subscribe, Break, Disconnect
<1>3. ASSUME NEW x \in Calls, Poll(x) \/ Resent(x) \/ Written(x) \/ Notice(x)
      PROVE  Retrying'
  <2>1. /\ resendFailed' = resendFailed
        /\ \A z \in Calls \ {x} : stage'[z] = stage[z] /\ held'[z] = held[z]
        /\ stage'[x] \in {"resend", "write", "poll"} \/ (stage'[x] = stage[x] /\ held'[x] = held[x])
    BY <1>3, <1>t DEF Poll, Resent, Written, Notice
  <2> QED
    BY <2>1 DEF Retrying
<1>4. ASSUME NEW x \in Calls, Turn(x)
      PROVE  Retrying'
  <2>1. UNCHANGED held /\ resendFailed \subseteq resendFailed'
    BY <1>4, Turned, Turning
  <2>2. /\ stage'[x] \in {"keep", "append", "write"}
        /\ \A z \in Calls \ {x} : stage'[z] = stage[z]
        /\ stage[x] = "resend" => x[1] \in resendFailed'
        /\ stage[x] \in {"resend", "write", "failed", "keep", "remove"}
        /\ stage[x] = "remove" <=> stage'[x] = "write"
    BY <1>4, Turning
  <2>3. held[x] # NoList => stage[x] \in {"resend", "keep", "append"}
    BY <1>t DEF Owned
  <2> QED
    BY <2>1, <2>2, <2>3 DEF Retrying
<1>5. ASSUME NEW x \in Calls, Settle(x)
      PROVE  Retrying'
  <2>1. /\ resendFailed' = resendFailed /\ held'[x] = NoList
        /\ \A z \in Calls \ {x} : stage'[z] = stage[z] /\ held'[z] = held[z]
        /\ stage[x] \in {"keep", "append"} /\ (held[x] = NoList => stage'[x] = "ended")
    BY <1>5, <1>t, Leaving, Settled
  <2> QED
    BY <2>1 DEF Retrying
<1>6. CASE UNCHANGED vars
  BY <1>6, <1>f DEF vars, serverVars
<1> QED
  BY <1>1, <1>2, <1>3, <1>4, <1>5, <1>6, BrokerSteps DEF ServerNext

LEMMA RetryingInit == ServerInit => Retrying
BY DEF ServerInit, Retrying

LEMMA ReaderStep == BInv /\ Retrying /\ ReaderRegistered /\ [ServerNext]_vars => ReaderRegistered'
<1> SUFFICES ASSUME BInv, Retrying, ReaderRegistered, [ServerNext]_vars
             PROVE  ReaderRegistered'
  OBVIOUS
<1>t. client \in [Subs -> {"away", "reading", "failed"}]
  BY DEF BInv, ServerTypeOK
<1>f. ASSUME UNCHANGED <<client, subscriptions>>, resendFailed \subseteq resendFailed'
      PROVE  ReaderRegistered'
  BY <1>f DEF ReaderRegistered
<1>1. ASSUME NEW m \in Msgs, Publish(m)
      PROVE  ReaderRegistered'
  BY <1>1, <1>f DEF Publish, PushQueue, serverVars
<1>2. ASSUME NEW s \in Subs, Subscribe(s)
      PROVE  ReaderRegistered'
  BY <1>2, <1>t DEF Subscribe, CreateSubscription, ReaderRegistered
<1>3. ASSUME NEW s \in Subs, Break(s) \/ Disconnect(s)
      PROVE  ReaderRegistered'
  BY <1>3, <1>t DEF Break, Disconnect, RemoveSubscription, topicVars, ReaderRegistered
<1>4. ASSUME NEW x \in Calls, Poll(x) \/ Resent(x) \/ Written(x) \/ Notice(x)
      PROVE  ReaderRegistered'
  BY <1>4, <1>f DEF Poll, ConsumeQueue, Resent, Written, Notice, topicVars
<1>5. ASSUME NEW x \in Calls, Turn(x)
      PROVE  ReaderRegistered'
  <2>1. UNCHANGED client /\ resendFailed \subseteq resendFailed'
    BY <1>5, Turned, Turning
  <2>2. CASE UNCHANGED topicVars
    BY <1>f, <2>1, <2>2 DEF topicVars
  <2>3. CASE stage[x] = "remove" /\ RemoveSubscription(x[1])
    <3>1. x[1] \in resendFailed
      BY <2>3 DEF Retrying
    <3> QED
      BY <2>1, <2>3, <3>1 DEF RemoveSubscription, ReaderRegistered
  <2> QED
    BY <1>5, <2>2, <2>3, Turned
<1>6. ASSUME NEW x \in Calls, Settle(x)
      PROVE  ReaderRegistered'
  BY <1>6, <1>f, Settled DEF topicVars
<1>7. CASE UNCHANGED vars
  BY <1>7, <1>f DEF vars, topicVars, serverVars
<1> QED
  BY <1>1, <1>2, <1>3, <1>4, <1>5, <1>6, <1>7, BrokerSteps DEF ServerNext

\* A client that reads a call is registered with the topic, for any number of
\* clients and calls, unless a call of its own failed to resend pending messages.
THEOREM ReadersRegistered == ServerSpec => []ReaderRegistered
<1>1. ServerInit => Retrying /\ ReaderRegistered
  BY RetryingInit DEF ServerInit, ReaderRegistered
<1>2. /\ BInv /\ Retrying /\ [ServerNext]_vars => Retrying'
      /\ BInv /\ Retrying /\ ReaderRegistered /\ [ServerNext]_vars => ReaderRegistered'
  BY RetryingStep, ReaderStep
<1> QED
  BY <1>1, <1>2, BrokerInv, PTL DEF ServerSpec

-----------------------------------------------------------------------------
(* Nothing falls between the queue, the loops and the pending lists         *)

Safe(s, i) == i \in Elements(received[s]) \cup InTransit(s) \/ <<s, i>> \in lost

LEMMA SafeBy ==
    ASSUME NEW s \in Subs
    PROVE  \A i : Safe(s, i) <=> \/ i \in Elements(received[s]) \/ i \in Elements(PendingOf(s))
                                 \/ \E x \in CallsOf(s) : \/ i \in Elements(batch[x])
                                                          \/ i \in Elements(reply[x])
                                 \/ <<s, i>> \in lost
BY DEF Safe, InTransit

LEMMA SafeByNext ==
    ASSUME NEW s \in Subs
    PROVE  \A i : Safe(s, i)' <=> \/ i \in Elements(received'[s]) \/ i \in Elements(PendingOf(s)')
                                  \/ \E x \in CallsOf(s) : \/ i \in Elements(batch'[x])
                                                           \/ i \in Elements(reply'[x])
                                  \/ <<s, i>> \in lost'
BY DEF Safe, InTransit, CallsOf, Elements

\* No step of the broker makes it forget a message.
LEMMA SafeStep ==
    BInv /\ [ServerNext]_vars => \A s \in Subs : \A i : Safe(s, i) => Safe(s, i)'
<1> SUFFICES ASSUME BInv, [ServerNext]_vars
             PROVE  \A s \in Subs : \A i : Safe(s, i) => Safe(s, i)'
  OBVIOUS
<1>t. /\ batch \in [Calls -> Seq(Objects)] /\ reply \in [Calls -> Seq(Objects)]
      /\ list \in [Calls -> Seq(Objects)] /\ pending \in [Subs -> Calls \cup {NoList}]
      /\ received \in [Subs -> Seq(Objects)]
  BY DEF BInv, ServerTypeOK
<1>o. Owned /\ ServerTypeOK
  BY DEF BInv
<1>f. ASSUME UNCHANGED <<batch, reply, list, pending, received, lost>>
      PROVE  \A s \in Subs : \A i : Safe(s, i) => Safe(s, i)'
  BY <1>f DEF Safe, InTransit, PendingOf
<1>g. ASSUME NEW x \in Calls, lost \subseteq lost',
             \A z \in Calls \ {x} : batch'[z] = batch[z] /\ reply'[z] = reply[z],
             \A t \in Subs \ {x[1]} : received'[t] = received[t] /\ PendingOf(t)' = PendingOf(t),
             Elements(received[x[1]]) \subseteq Elements(received'[x[1]]),
             \A i \in Elements(batch[x]) \cup Elements(reply[x]) \cup Elements(PendingOf(x[1])) :
                Safe(x[1], i)'
      PROVE  \A s \in Subs : \A i : Safe(s, i) => Safe(s, i)'
  <2> SUFFICES ASSUME NEW s \in Subs, NEW i, Safe(s, i)
               PROVE  Safe(s, i)'
    OBVIOUS
  <2>1. \/ i \in Elements(received[s]) \/ i \in Elements(PendingOf(s)) \/ <<s, i>> \in lost
        \/ \E y \in CallsOf(s) : i \in Elements(batch[y]) \/ i \in Elements(reply[y])
    BY SafeBy
  <2>2. CASE i \in Elements(received[s])
    BY <1>g, <2>2, SafeByNext
  <2>3. CASE i \in Elements(PendingOf(s))
    BY <1>g, <2>3, SafeByNext
  <2>4. CASE <<s, i>> \in lost
    BY <1>g, <2>4, SafeByNext
  <2>5. ASSUME NEW y \in CallsOf(s), i \in Elements(batch[y]) \/ i \in Elements(reply[y])
        PROVE  Safe(s, i)'
    <3>1. y \in Calls /\ y[1] = s
      BY CallsAre
    <3>2. CASE y = x
      BY <1>g, <2>5, <3>1, <3>2
    <3>3. CASE y # x
      BY <1>g, <2>5, <3>1, <3>3, SafeByNext
    <3> QED
      BY <3>2, <3>3
  <2> QED
    BY <2>1, <2>2, <2>3, <2>4, <2>5
<1>1. ASSUME NEW m \in Msgs, Publish(m)
      PROVE  \A s \in Subs : \A i : Safe(s, i) => Safe(s, i)'
  BY <1>1, <1>f DEF Publish, serverVars
<1>2. ASSUME NEW s \in Subs, Subscribe(s) \/ Break(s) \/ Disconnect(s)
      PROVE  \A t \in Subs : \A i : Safe(t, i) => Safe(t, i)'
  BY <1>2, <1>f DEF Subscribe, Break, Disconnect
<1>3. ASSUME NEW x \in Calls, Notice(x)
      PROVE  \A s \in Subs : \A i : Safe(s, i) => Safe(s, i)'
  BY <1>3, <1>f DEF Notice
<1>4. ASSUME NEW x \in Calls, Poll(x)
      PROVE  \A s \in Subs : \A i : Safe(s, i) => Safe(s, i)'
  <2>1. /\ batch[x] = <<>> /\ reply[x] = <<>> /\ UNCHANGED <<list, pending, received, lost>>
        /\ \A z \in Calls \ {x} : batch'[z] = batch[z] /\ reply'[z] = reply[z]
    BY <1>4, <1>t, <1>o DEF Poll, Owned
  <2>2. x[1] \in Subs /\ \A t \in Subs : PendingOf(t)' = PendingOf(t)
    BY <2>1, CallsAre DEF PendingOf
  <2>3. \A i \in Elements(PendingOf(x[1])) : Safe(x[1], i)'
    BY <2>2, SafeByNext
  <2> QED
    BY <1>g, <2>1, <2>2, <2>3, EmptyList
<1>5. ASSUME NEW x \in Calls, Resent(x)
      PROVE  \A s \in Subs : \A i : Safe(s, i) => Safe(s, i)'
  <2> DEFINE d == Elements(PendingOf(x[1])) \ Elements(reply[x])
  <2>1. /\ x[1] \in Subs /\ reply[x] \in Seq(Objects) /\ d \in SUBSET Objects
        /\ x \in CallsOf(x[1]) /\ received[x[1]] \in Seq(Objects)
    BY <1>t, CallsAre, PendingLists, ListElements
  <2>2. /\ Deliver(x, reply[x], d) /\ UNCHANGED batch /\ pending' = [pending EXCEPT ![x[1]] = NoList]
        /\ UNCHANGED list /\ \A z \in Calls \ {x} : reply'[z] = reply[z]
    BY <1>5, <1>t DEF Resent
  <2>3. \A t \in Subs \ {x[1]} : PendingOf(t)' = PendingOf(t)
    BY <1>t, <2>2 DEF PendingOf
  <2> HIDE DEF d
  <2>4. /\ lost \subseteq lost' /\ \A i \in d : <<x[1], i>> \in lost'
        /\ \A t \in Subs \ {x[1]} : received'[t] = received[t]
        /\ \/ received'[x[1]] = received[x[1]] \o reply[x]
           \/ received' = received /\ \A i \in Elements(reply[x]) : <<x[1], i>> \in lost'
    BY <1>o, <2>1, <2>2, Delivering
  <2>5. Elements(received[x[1]] \o reply[x]) = Elements(received[x[1]]) \cup Elements(reply[x])
    BY <2>1, Concats
  <2>6. /\ Elements(received[x[1]]) \subseteq Elements(received'[x[1]])
        /\ \A i \in Elements(reply[x]) : i \in Elements(received'[x[1]]) \/ <<x[1], i>> \in lost'
    BY <2>4, <2>5
  <2>7. \A i \in Elements(batch[x]) \cup Elements(reply[x]) \cup d : Safe(x[1], i)'
    BY <2>1, <2>2, <2>4, <2>6, SafeByNext
  <2>8. Elements(PendingOf(x[1])) \subseteq d \cup Elements(reply[x])
    BY DEF d
  <2> QED
    BY <1>g, <2>2, <2>3, <2>4, <2>6, <2>7, <2>8
<1>6. ASSUME NEW x \in Calls, Turn(x)
      PROVE  \A s \in Subs : \A i : Safe(s, i) => Safe(s, i)'
  BY <1>6, <1>f, Turned
<1>7. ASSUME NEW x \in Calls, Written(x)
      PROVE  \A s \in Subs : \A i : Safe(s, i) => Safe(s, i)'
  <2>1. /\ x[1] \in Subs /\ batch[x] \in Seq(Objects) /\ {} \in SUBSET Objects /\ reply[x] = <<>>
        /\ x \in CallsOf(x[1]) /\ received[x[1]] \in Seq(Objects)
    <3>1. stage[x] = "write"
      BY <1>7 DEF Written
    <3> QED
      BY <1>t, <1>o, <3>1, CallsAre DEF Owned
  <2>2. /\ Deliver(x, batch[x], {}) /\ UNCHANGED <<reply, pending, list>>
        /\ \A z \in Calls \ {x} : batch'[z] = batch[z]
    BY <1>7, <1>t DEF Written
  <2>3. \A t \in Subs : PendingOf(t)' = PendingOf(t)
    BY <2>2 DEF PendingOf
  <2>4. /\ lost \subseteq lost'
        /\ \A t \in Subs \ {x[1]} : received'[t] = received[t]
        /\ \/ received'[x[1]] = received[x[1]] \o batch[x]
           \/ received' = received /\ \A i \in Elements(batch[x]) : <<x[1], i>> \in lost'
    BY <1>o, <2>1, <2>2, Delivering
  <2>5. Elements(received[x[1]] \o batch[x]) = Elements(received[x[1]]) \cup Elements(batch[x])
    BY <2>1, Concats
  <2>6. /\ Elements(received[x[1]]) \subseteq Elements(received'[x[1]])
        /\ \A i \in Elements(batch[x]) : i \in Elements(received'[x[1]]) \/ <<x[1], i>> \in lost'
    BY <2>4, <2>5
  <2>7. \A i \in Elements(batch[x]) \cup Elements(PendingOf(x[1])) : Safe(x[1], i)'
    BY <2>1, <2>3, <2>6, SafeByNext
  <2> QED
    BY <1>g, <2>1, <2>2, <2>3, <2>4, <2>6, <2>7, EmptyList
<1>8. ASSUME NEW x \in Calls, Settle(x)
      PROVE  \A s \in Subs : \A i : Safe(s, i) => Safe(s, i)'
  <2>1. PICK s \in Subs : s = x[1]
    BY CallsAre
  <2>2. /\ Kept(x) \in Seq(Objects) /\ Elements(InHand(x)) \subseteq Elements(Kept(x))
        /\ \A t \in Subs \ {s} : PendingOf(t)' = PendingOf(t)
        /\ \/ PendingOf(s)' = PendingOf(s) \o Kept(x) /\ lost' = lost
           \/ /\ PendingOf(s)' = PendingOf(s)
              /\ lost' = lost \cup {<<s, i>> : i \in Elements(InHand(x)) \ Elements(PendingOf(s))}
    BY <1>8, <2>1, Settling
  <2>3. PendingOf(s) \in Seq(Objects) /\ x \in CallsOf(s) /\ UNCHANGED received
    BY <1>8, <2>1, CallsAre, PendingLists, Settled
  <2>4. Elements(PendingOf(s) \o Kept(x)) = Elements(PendingOf(s)) \cup Elements(Kept(x))
    BY <2>2, <2>3, Concats
  <2>5. /\ lost \subseteq lost' /\ Elements(PendingOf(s)) \subseteq Elements(PendingOf(s)')
        /\ \A i \in Elements(InHand(x)) : i \in Elements(PendingOf(s)') \/ <<s, i>> \in lost'
    BY <2>2, <2>4
  <2>6. /\ \A z \in Calls \ {x} : batch'[z] = batch[z] /\ reply'[z] = reply[z]
        /\ held[x] # NoList => batch'[x] = batch[x]
    BY <1>8, <1>o, Leaving
  <2>7. /\ \A i \in Elements(reply[x]) : i \in Elements(InHand(x))
        /\ \A i \in Elements(batch[x]) : i \in Elements(InHand(x)) \/ batch'[x] = batch[x]
    <3>1. held[x] = NoList => reply[x] = <<>>
      BY <1>o DEF Owned
    <3> QED
      BY <2>6, <3>1, EmptyList DEF InHand
  <2>8. \A i \in Elements(batch[x]) \cup Elements(reply[x]) \cup Elements(PendingOf(s)) : Safe(s, i)'
    BY <2>3, <2>5, <2>7, SafeByNext
  <2> QED
    BY <1>g, <2>1, <2>2, <2>3, <2>5, <2>6, <2>8
<1>9. CASE UNCHANGED vars
  BY <1>9, <1>f DEF vars, serverVars
<1> QED
  BY <1>1, <1>2, <1>3, <1>4, <1>5, <1>6, <1>7, <1>8, <1>9, BrokerSteps DEF ServerNext

\* Only a poll takes messages from the topic, and it has them in its batch.
LEMMA TakenStep ==
    ASSUME BInv, [ServerNext]_vars, NEW s \in Subs, NEW i \in Objects, taken'[i][s] # taken[i][s]
    PROVE  Safe(s, i)'
<1>1. \A m \in Msgs : ~Publish(m)
  BY DEF Publish, PushQueue
<1>2. \A t \in Subs : ~Subscribe(t) /\ ~Break(t) /\ ~Disconnect(t)
  BY DEF Subscribe, Break, Disconnect, CreateSubscription, RemoveSubscription, topicVars
<1>3. PICK x \in Calls : Poll(x)
  BY <1>1, <1>2, BrokerSteps, Turned, Settled
     DEF ServerNext, Notice, Resent, Written, RemoveSubscription, topicVars, vars
<1> DEFINE C == Consumable(x[1])
<1>4. x[1] \in Subs /\ C \in SUBSET Objects /\ taken \in [Objects -> [Subs -> Nat]]
  BY CallsAre, QueuedObjects DEF BInv, TopicInv, TypeOK, Consumable
<1>5. taken' = [j \in Objects |-> IF j \in C THEN [taken[j] EXCEPT ![x[1]] = @ + 1] ELSE taken[j]]
  BY <1>3 DEF Poll, ConsumeQueue
<1>6. i \in C /\ s = x[1]
  BY <1>4, <1>5
<1>7. batch'[x] = InQueueOrder(C)
  BY <1>3 DEF Poll, BInv, ServerTypeOK
<1>8. i \in Elements(batch'[x]) /\ x \in CallsOf(s)
  BY <1>4, <1>6, <1>7, QueueOrder, CallsAre
<1> QED
  BY <1>8, SafeByNext

\* Every message that the topic counts as consumed by a subscription is on its way to
\* the subscription's client, or was received, or was lost in one of the ways recorded:
\* no order in which polls, resends, failed writes, looks into the pending lists and new
\* calls of any number of clients overlap makes the broker drop one otherwise.
THEOREM ServerAccounts == ServerSpec => []Accounted
<1>1. ServerInit => Accounted
  BY DEF ServerInit, Init, Accounted
<1>2. BInv /\ Accounted /\ [ServerNext]_vars => Accounted'
  <2> SUFFICES ASSUME BInv, Accounted, [ServerNext]_vars,
                      NEW s \in Subs, NEW i \in Objects, (taken[i][s] > 0)'
               PROVE  Safe(s, i)'
    BY DEF Accounted, Safe, Objects
  <2>1. CASE taken'[i][s] # taken[i][s]
    BY <2>1, TakenStep
  <2>2. CASE taken'[i][s] = taken[i][s]
    <3>1. Safe(s, i)
      BY <2>2 DEF Accounted, Safe
    <3> QED
      BY <3>1, SafeStep
  <2> QED
    BY <2>1, <2>2
<1> QED
  BY <1>1, <1>2, BrokerInv, PTL DEF ServerSpec

-----------------------------------------------------------------------------
(* What has been seen                                                       *)

\* Whatever a client has received, and whatever its calls hold or have held, the topic
\* has marked as seen by it.
Seen ==
    \A s \in Subs : \A i \in Objects :
       (\/ i \in Elements(received[s])
        \/ \E x \in CallsOf(s) : \/ i \in Elements(batch[x]) \/ i \in Elements(reply[x])
                                 \/ i \in Elements(list[x]))
       => s \in seenBy[i]

LEMMA SeenNext ==
    ASSUME \A s \in Subs : \A i \in Objects :
             (\/ i \in Elements(received'[s])
              \/ \E x \in CallsOf(s) : \/ i \in Elements(batch'[x]) \/ i \in Elements(reply'[x])
                                       \/ i \in Elements(list'[x]))
             => s \in seenBy'[i]
    PROVE  Seen'
BY DEF Seen, CallsOf, Elements, Objects

LEMMA PendingSeen ==
    ASSUME BInv, Seen, NEW s \in Subs
    PROVE  \A i \in Elements(PendingOf(s)) : i \in Objects /\ s \in seenBy[i]
<1>1. CASE pending[s] = NoList
  BY <1>1, EmptyList DEF PendingOf
<1>2. CASE pending[s] # NoList
  <2>1. pending[s] \in CallsOf(s) /\ PendingOf(s) = list[pending[s]]
    BY <1>2 DEF BInv, Owned, PendingOf
  <2>2. Elements(PendingOf(s)) \subseteq Objects
    BY PendingLists, ListElements
  <2> QED
    BY <2>1, <2>2 DEF Seen
<1> QED
  BY <1>1, <1>2

\* The lists of the messages only grow.
LEMMA SeenGrows ==
    BInv /\ [ServerNext]_vars => \A i \in Objects : seenBy[i] \subseteq seenBy'[i]
<1> SUFFICES ASSUME BInv, [ServerNext]_vars
             PROVE  \A i \in Objects : seenBy[i] \subseteq seenBy'[i]
  OBVIOUS
<1>1. ASSUME NEW x \in Calls, Poll(x)
      PROVE  \A i \in Objects : seenBy[i] \subseteq seenBy'[i]
  <2>1. x[1] \in Subs /\ ConsumeQueue(x[1]) /\ TopicInv
    BY <1>1, CallsAre DEF Poll, BInv
  <2> QED
    BY <2>1, ConsumeMarks
<1>2. CASE \A x \in Calls : ~Poll(x)
  <2>1. seenBy' = seenBy
    BY <1>2, BrokerSteps, Turned, Settled
       DEF ServerNext, Notice, Resent, Written, Publish, PushQueue, Subscribe, Break, Disconnect,
           CreateSubscription, RemoveSubscription, topicVars, vars
  <2> QED
    BY <2>1
<1> QED
  BY <1>1, <1>2

LEMMA SeenStep == BInv /\ Seen /\ [ServerNext]_vars => Seen'
<1> SUFFICES ASSUME BInv, Seen, [ServerNext]_vars
             PROVE  Seen'
  OBVIOUS
<1>t. /\ batch \in [Calls -> Seq(Objects)] /\ reply \in [Calls -> Seq(Objects)]
      /\ list \in [Calls -> Seq(Objects)] /\ received \in [Subs -> Seq(Objects)]
  BY DEF BInv, ServerTypeOK
<1>o. Owned /\ ServerTypeOK /\ TopicInv
  BY DEF BInv
<1>m. \A s \in Subs : \A i \in Objects : s \in seenBy[i] => s \in seenBy'[i]
  BY SeenGrows
<1>f. ASSUME UNCHANGED <<batch, reply, list, received>>
      PROVE  Seen'
  BY <1>f, <1>m, SeenNext DEF Seen
<1>g. ASSUME NEW x \in Calls,
             \A t \in Subs \ {x[1]} : received'[t] = received[t],
             \A z \in Calls \ {x} : batch'[z] = batch[z] /\ reply'[z] = reply[z],
             \A z \in Calls : z \notin CallsOf(x[1]) => list'[z] = list[z],
             \A i \in Objects : i \in Elements(received'[x[1]]) => x[1] \in seenBy'[i],
             \A i \in Objects : i \in Elements(batch'[x]) => x[1] \in seenBy'[i],
             \A i \in Objects : i \in Elements(reply'[x]) => x[1] \in seenBy'[i],
             \A z \in CallsOf(x[1]) : \A i \in Objects : i \in Elements(list'[z]) => x[1] \in seenBy'[i]
      PROVE  Seen'
  <2>1. ASSUME NEW s \in Subs, NEW i \in Objects,
               \/ i \in Elements(received'[s])
               \/ \E y \in CallsOf(s) : \/ i \in Elements(batch'[y]) \/ i \in Elements(reply'[y])
                                        \/ i \in Elements(list'[y])
        PROVE  s \in seenBy'[i]
    <3>1. CASE i \in Elements(received'[s])
      BY <1>g, <1>m, <3>1 DEF Seen
    <3>2. ASSUME NEW y \in CallsOf(s),
                 i \in Elements(batch'[y]) \/ i \in Elements(reply'[y]) \/ i \in Elements(list'[y])
          PROVE  s \in seenBy'[i]
      <4>1. y \in Calls /\ y[1] = s /\ (y \in CallsOf(x[1]) <=> s = x[1])
        BY CallsAre
      <4>2. CASE i \in Elements(list'[y])
        BY <1>g, <1>m, <4>1, <4>2 DEF Seen
      <4>3. CASE i \in Elements(batch'[y]) \/ i \in Elements(reply'[y])
        BY <1>g, <1>m, <4>1, <4>3 DEF Seen
      <4> QED
        BY <3>2, <4>2, <4>3
    <3> QED
      BY <2>1, <3>1, <3>2
  <2> QED
    BY <2>1, SeenNext
<1>1. ASSUME NEW m \in Msgs, Publish(m)
      PROVE  Seen'
  BY <1>1, <1>f DEF Publish, serverVars
<1>2. ASSUME NEW s \in Subs, Subscribe(s) \/ Break(s) \/ Disconnect(s)
      PROVE  Seen'
  BY <1>2, <1>f DEF Subscribe, Break, Disconnect
<1>3. ASSUME NEW x \in Calls, Notice(x)
      PROVE  Seen'
  BY <1>3, <1>f DEF Notice
<1>4. ASSUME NEW x \in Calls, Poll(x)
      PROVE  Seen'
  <2> DEFINE C == Consumable(x[1])
  <2>1. x[1] \in Subs /\ C \in SUBSET Objects /\ x \in CallsOf(x[1])
    BY <1>o, CallsAre, QueuedObjects DEF TopicInv, Consumable
  <2>2. /\ batch'[x] = InQueueOrder(C) /\ UNCHANGED <<list, received>>
        /\ \A z \in Calls \ {x} : batch'[z] = batch[z] /\ reply'[z] = reply[z]
        /\ reply'[x] = PendingOf(x[1]) \/ reply'[x] = reply[x]
    BY <1>4, <1>t DEF Poll
  <2>3. \A i \in C : x[1] \in seenBy'[i]
    BY <1>4, <1>o, <2>1 DEF Poll, ConsumeQueue
  <2>4. Elements(batch'[x]) = C
    BY <2>1, <2>2, QueueOrder
  <2>5. \A i \in Objects : i \in Elements(reply'[x]) => x[1] \in seenBy'[i]
    BY <1>m, <2>1, <2>2, PendingSeen DEF Seen
  <2>6. \A i \in Objects : i \in Elements(received'[x[1]]) => x[1] \in seenBy'[i]
    BY <1>m, <2>1, <2>2 DEF Seen
  <2>7. \A z \in CallsOf(x[1]) : \A i \in Objects : i \in Elements(list'[z]) => x[1] \in seenBy'[i]
    BY <1>m, <2>1, <2>2 DEF Seen
  <2> HIDE DEF C
  <2> QED
    BY <1>g, <2>2, <2>3, <2>4, <2>5, <2>6, <2>7
<1>w. ASSUME NEW x \in Calls, NEW q \in Seq(Objects), NEW d \in SUBSET Objects,
             q \in {batch[x], reply[x]}, Deliver(x, q, d)
      PROVE  /\ \A t \in Subs \ {x[1]} : received'[t] = received[t]
             /\ \A i \in Objects : i \in Elements(received'[x[1]]) => x[1] \in seenBy'[i]
  <2>1. x[1] \in Subs /\ x \in CallsOf(x[1]) /\ received[x[1]] \in Seq(Objects)
    BY <1>t, CallsAre
  <2>2. /\ \A t \in Subs \ {x[1]} : received'[t] = received[t]
        /\ received'[x[1]] = received[x[1]] \o q \/ received'[x[1]] = received[x[1]]
    BY <1>o, <1>w, Delivering
  <2>3. Elements(received[x[1]] \o q) = Elements(received[x[1]]) \cup Elements(q)
    BY <2>1, Concats
  <2>4. \A i \in Objects : i \in Elements(received'[x[1]]) =>
          i \in Elements(received[x[1]]) \/ i \in Elements(q)
    BY <2>2, <2>3
  <2>5. \A i \in Objects : i \in Elements(received[x[1]]) \/ i \in Elements(q) => x[1] \in seenBy[i]
    BY <1>w, <2>1 DEF Seen
  <2> QED
    BY <1>m, <2>1, <2>2, <2>4, <2>5
<1>5. ASSUME NEW x \in Calls, Resent(x)
      PROVE  Seen'
  <2> DEFINE d == Elements(PendingOf(x[1])) \ Elements(reply[x])
  <2>1. x[1] \in Subs /\ reply[x] \in Seq(Objects) /\ d \in SUBSET Objects /\ x \in CallsOf(x[1])
    BY <1>t, CallsAre, PendingLists, ListElements DEF BInv
  <2>2. /\ Deliver(x, reply[x], d) /\ UNCHANGED <<batch, list>> /\ reply'[x] = <<>>
        /\ \A z \in Calls \ {x} : reply'[z] = reply[z]
    BY <1>5, <1>t DEF Resent
  <2> HIDE DEF d
  <2>3. /\ \A t \in Subs \ {x[1]} : received'[t] = received[t]
        /\ \A i \in Objects : i \in Elements(received'[x[1]]) => x[1] \in seenBy'[i]
    BY <1>w, <2>1, <2>2
  <2>4. /\ \A i \in Objects : i \in Elements(batch'[x]) => x[1] \in seenBy'[i]
        /\ \A z \in CallsOf(x[1]) : \A i \in Objects : i \in Elements(list'[z]) => x[1] \in seenBy'[i]
    BY <1>m, <2>1, <2>2 DEF Seen
  <2> QED
    BY <1>g, <2>2, <2>3, <2>4, EmptyList
<1>6. ASSUME NEW x \in Calls, Turn(x)
      PROVE  Seen'
  BY <1>6, <1>f, Turned
<1>7. ASSUME NEW x \in Calls, Written(x)
      PROVE  Seen'
  <2>1. x[1] \in Subs /\ batch[x] \in Seq(Objects) /\ {} \in SUBSET Objects /\ x \in CallsOf(x[1])
    BY <1>t, CallsAre
  <2>2. /\ Deliver(x, batch[x], {}) /\ UNCHANGED <<reply, list>> /\ batch'[x] = <<>>
        /\ \A z \in Calls \ {x} : batch'[z] = batch[z]
    BY <1>7, <1>t DEF Written
  <2>3. /\ \A t \in Subs \ {x[1]} : received'[t] = received[t]
        /\ \A i \in Objects : i \in Elements(received'[x[1]]) => x[1] \in seenBy'[i]
    BY <1>w, <2>1, <2>2
  <2>4. /\ \A i \in Objects : i \in Elements(reply'[x]) => x[1] \in seenBy'[i]
        /\ \A z \in CallsOf(x[1]) : \A i \in Objects : i \in Elements(list'[z]) => x[1] \in seenBy'[i]
    BY <1>m, <2>1, <2>2 DEF Seen
  <2> QED
    BY <1>g, <2>2, <2>3, <2>4, EmptyList
<1>8. ASSUME NEW x \in Calls, Settle(x)
      PROVE  Seen'
  <2>1. PICK s \in Subs : s = x[1]
    BY CallsAre
  <2>2. /\ x \in CallsOf(s) /\ UNCHANGED received /\ reply'[x] = <<>>
        /\ \A z \in Calls \ {x} : batch'[z] = batch[z] /\ reply'[z] = reply[z]
        /\ batch'[x] \in {batch[x], <<>>}
    BY <1>8, <1>o, <2>1, Settled, Leaving, CallsAre
  <2>3. /\ Kept(x) \in Seq(Objects) /\ Own(x) \in CallsOf(s)
        /\ \A z \in Calls : \/ list'[z] = list[z]
                            \/ z \in CallsOf(s) /\ list'[z] = list[z] \o Kept(x)
                            \/ z = Own(x) /\ list'[z] = Kept(x)
    BY <1>8, <2>1, Settling
  <2>4. \A i \in Objects : i \in Elements(Kept(x)) => s \in seenBy[i]
    <3>1. held[x] # NoList => held[x] \in CallsOf(s)
      BY <1>o, <2>1 DEF Owned
    <3> QED
      BY <2>2, <3>1 DEF Kept, Seen
  <2>5. ASSUME NEW z \in CallsOf(s), NEW i \in Objects, i \in Elements(list'[z])
        PROVE  s \in seenBy'[i]
    <3>1. z \in Calls /\ list[z] \in Seq(Objects)
      BY <1>t, CallsAre
    <3>2. Elements(list[z] \o Kept(x)) = Elements(list[z]) \cup Elements(Kept(x))
      BY <2>3, <3>1, Concats
    <3>3. i \in Elements(list[z]) \/ i \in Elements(Kept(x))
      BY <2>3, <2>5, <3>1, <3>2
    <3>4. i \in Elements(list[z]) => s \in seenBy[i]
      BY DEF Seen
    <3> QED
      BY <1>m, <2>4, <3>3, <3>4
  <2>6. /\ \A i \in Objects : i \in Elements(received'[s]) => s \in seenBy'[i]
        /\ \A i \in Objects : i \in Elements(batch'[x]) => s \in seenBy'[i]
    BY <1>m, <2>2, EmptyList DEF Seen
  <2> QED
    BY <1>g, <2>1, <2>2, <2>3, <2>5, <2>6, EmptyList
<1>9. CASE UNCHANGED vars
  BY <1>9, <1>f DEF vars, serverVars
<1> QED
  BY <1>1, <1>2, <1>3, <1>4, <1>5, <1>6, <1>7, <1>8, <1>9, BrokerSteps DEF ServerNext

LEMMA SeenInit == ServerInit => Seen
<1> SUFFICES ASSUME ServerInit
             PROVE  Seen
  OBVIOUS
<1>1. /\ \A s \in Subs : received[s] = <<>>
      /\ \A x \in Calls : batch[x] = <<>> /\ reply[x] = <<>> /\ list[x] = <<>>
  BY DEF ServerInit
<1> QED
  BY <1>1, EmptyList, CallsAre DEF Seen

\* What a poll returns is newer than anything the client has been given.
LEMMA NewerThanSeen ==
    ASSUME TopicInv, NEW s \in Subs, NEW i \in Objects, s \in seenBy[i], NEW j \in Consumable(s)
    PROVE  i < j
<1>1. j \in Queued /\ s \notin seenBy[j]
  BY DEF Consumable
<1>2. i <= Len(log)
  BY DEF TopicInv, Unpushed, TypeOK, Objects
<1>3. CASE i \in Queued
  <2>1. ~(j < i) /\ i # j
    BY <1>1, <1>3 DEF TopicInv, Nested
  <2> QED
    BY <1>1, <1>3, <2>1 DEF Queued, TopicInv, TypeOK
<1>4. CASE i \notin Queued
  BY <1>1, <1>2, <1>4 DEF Queued, TopicInv, TypeOK, Objects
<1> QED
  BY <1>3, <1>4

-----------------------------------------------------------------------------
(* No message twice                                                         *)

Disjoint(q, r) == Elements(q) \cap Elements(r) = {}

\* The messages of s are in one place each, and in it once: rec is what the client has
\* received, pen the pending messages, bat and rep the batches and replies of the loops.
\* A reply repeats the pending messages; it counts only while somebody reads it.
UniqueIn(s, rec, pen, bat, rep, live) ==
    /\ Distinct(rec) /\ Distinct(pen) /\ Disjoint(rec, pen)
    /\ \A x \in CallsOf(s) : Distinct(bat[x]) /\ Disjoint(bat[x], rec) /\ Disjoint(bat[x], pen)
    /\ \A x, y \in CallsOf(s) : x # y => Disjoint(bat[x], bat[y])
    /\ \A x \in live : /\ Distinct(rep[x]) /\ Disjoint(rep[x], rec)
                       /\ \A y \in CallsOf(s) : Disjoint(rep[x], bat[y])

\* The calls of s that resend pending messages to a client that reads them.
Live(s) == {x \in CallsOf(s) : stage[x] = "resend" /\ link[x] = "up"}

Unique ==
    \A s \in Subs \ resendFailed :
       UniqueIn(s, received[s], PendingOf(s), batch, reply, Live(s))

LEMMA UniqueNext ==
    ASSUME \A s \in Subs : s \notin resendFailed' =>
             UniqueIn(s, received'[s], PendingOf(s)', batch', reply', Live(s)')
    PROVE  Unique'
BY DEF Unique, UniqueIn, Distinct, Disjoint, Elements, CallsOf

LEMMA UniquePolled ==
    ASSUME NEW s, NEW rec, NEW pen, NEW bat, NEW rep, NEW live,
           UniqueIn(s, rec, pen, bat, rep, live), live \subseteq CallsOf(s),
           NEW x \in CallsOf(s), NEW bat2, NEW rep2, NEW live2,
           Distinct(bat2[x]), Disjoint(bat2[x], rec), Disjoint(bat2[x], pen),
           \A y \in CallsOf(s) \ {x} :
              bat2[y] = bat[y] /\ rep2[y] = rep[y] /\ Disjoint(bat2[x], bat[y]),
           \A y \in live : Disjoint(bat2[x], rep[y]),
           live2 \subseteq live \cup {x}, x \in live2 => rep2[x] = pen
    PROVE  UniqueIn(s, rec, pen, bat2, rep2, live2)
<1>1. \A y, z \in CallsOf(s) : y # z => Disjoint(bat2[y], bat2[z])
  BY DEF UniqueIn, Disjoint
<1>2. \A y \in CallsOf(s) : Distinct(bat2[y]) /\ Disjoint(bat2[y], rec) /\ Disjoint(bat2[y], pen)
  BY DEF UniqueIn
<1>3. ASSUME NEW y \in live2
      PROVE  /\ Distinct(rep2[y]) /\ Disjoint(rep2[y], rec)
             /\ \A z \in CallsOf(s) : Disjoint(rep2[y], bat2[z])
  <2>1. CASE y = x
    BY <1>2, <1>3, <2>1 DEF UniqueIn, Disjoint
  <2>2. CASE y # x
    BY <1>3, <2>2 DEF UniqueIn, Disjoint
  <2> QED
    BY <2>1, <2>2
<1> QED
  BY <1>1, <1>2, <1>3 DEF UniqueIn

\* A batch leaves its loop: it is lost, or received by a client no loop is resending to,
\* or it joins the pending messages.
LEMMA UniqueWritten ==
    ASSUME NEW s, NEW rec \in Seq(Objects), NEW pen \in Seq(Objects), NEW bat, NEW rep, NEW live,
           UniqueIn(s, rec, pen, bat, rep, live), live \subseteq CallsOf(s),
           NEW x \in CallsOf(s), bat[x] \in Seq(Objects), NEW bat2, NEW live2,
           bat2[x] = <<>>, \A y \in CallsOf(s) \ {x} : bat2[y] = bat[y],
           live2 \subseteq live, NEW rec2, NEW pen2,
           \/ rec2 = rec /\ pen2 = pen
           \/ rec2 = rec \o bat[x] /\ pen2 = pen /\ live2 = {}
           \/ rec2 = rec /\ pen2 \in {bat[x], pen \o bat[x]}
    PROVE  UniqueIn(s, rec2, pen2, bat2, rep, live2)
<1>1. /\ Elements(rec \o bat[x]) = Elements(rec) \cup Elements(bat[x])
      /\ Elements(pen \o bat[x]) = Elements(pen) \cup Elements(bat[x])
  BY Concats
<1>2. Distinct(rec \o bat[x]) /\ Distinct(pen \o bat[x])
  <2>1. /\ Distinct(rec) /\ Distinct(pen) /\ Distinct(bat[x])
        /\ Elements(rec) \cap Elements(bat[x]) = {} /\ Elements(pen) \cap Elements(bat[x]) = {}
    BY DEF UniqueIn, Disjoint
  <2> QED
    BY <2>1, Concats
<1>3. Distinct(rec2) /\ Distinct(pen2) /\ Disjoint(rec2, pen2)
  BY <1>1, <1>2 DEF UniqueIn, Disjoint
<1>4. \A y, z \in CallsOf(s) : y # z => Disjoint(bat2[y], bat2[z])
  BY EmptyList DEF UniqueIn, Disjoint
<1>5. \A y \in CallsOf(s) : Distinct(bat2[y]) /\ Disjoint(bat2[y], rec2) /\ Disjoint(bat2[y], pen2)
  <2>1. \A y \in CallsOf(s) \ {x} :
          Disjoint(bat[y], bat[x]) /\ Disjoint(bat[y], rec) /\ Disjoint(bat[y], pen) /\ Distinct(bat[y])
    BY DEF UniqueIn
  <2>2. \A y \in CallsOf(s) \ {x} :
          Distinct(bat2[y]) /\ Disjoint(bat2[y], rec2) /\ Disjoint(bat2[y], pen2)
    BY <1>1, <2>1 DEF Disjoint
  <2>3. Distinct(bat2[x]) /\ Disjoint(bat2[x], rec2) /\ Disjoint(bat2[x], pen2)
    BY EmptyList DEF Disjoint
  <2> QED
    BY <2>2, <2>3
<1>6. \A y \in live2 : /\ Distinct(rep[y]) /\ Disjoint(rep[y], rec2)
                       /\ \A z \in CallsOf(s) : Disjoint(rep[y], bat2[z])
  <2>1. live2 # {} => rec2 = rec
    OBVIOUS
  <2> QED
    BY <2>1, EmptyList DEF UniqueIn, Disjoint
<1> QED
  BY <1>3, <1>4, <1>5, <1>6 DEF UniqueIn

\* The pending messages leave theirs: received by the client, or lost.
LEMMA UniqueResent ==
    ASSUME NEW s, NEW rec \in Seq(Objects), NEW pen, NEW bat, NEW rep, NEW live,
           UniqueIn(s, rec, pen, bat, rep, live), live \subseteq CallsOf(s),
           NEW x \in CallsOf(s), rep[x] \in Seq(Objects), NEW rep2,
           \A y \in CallsOf(s) \ {x} : rep2[y] = rep[y],
           NEW live2, live2 \subseteq live \ {x}, NEW rec2,
           rec2 = rec \/ (rec2 = rec \o rep[x] /\ x \in live /\ live2 = {})
    PROVE  UniqueIn(s, rec2, <<>>, bat, rep2, live2)
<1>1. Elements(rec \o rep[x]) = Elements(rec) \cup Elements(rep[x])
  BY Concats
<1>2. CASE rec2 = rec
  BY <1>2, EmptyList DEF UniqueIn, Disjoint
<1>3. CASE rec2 = rec \o rep[x] /\ x \in live /\ live2 = {}
  <2>1. /\ Distinct(rec) /\ Distinct(rep[x]) /\ Elements(rec) \cap Elements(rep[x]) = {}
        /\ \A y \in CallsOf(s) : Disjoint(rep[x], bat[y]) /\ Disjoint(bat[y], rec)
    BY <1>3 DEF UniqueIn, Disjoint
  <2>2. Distinct(rec2)
    BY <1>3, <2>1, Concats
  <2>3. \A y \in CallsOf(s) : Disjoint(bat[y], rec2)
    BY <1>1, <1>3, <2>1 DEF Disjoint
  <2> QED
    BY <1>3, <2>2, <2>3, EmptyList DEF UniqueIn, Disjoint
<1> QED
  BY <1>2, <1>3

\* Only one call of a client is read.
LEMMA OneRead ==
    ASSUME BInv, NEW x \in Calls, link[x] = "up", stage[x] # "none", NEW y \in Live(x[1])
    PROVE  y = x
<1>1. /\ y \in Calls /\ y[1] = x[1] /\ stage[y] # "none" /\ link[y] = "up"
      /\ x[1] \in Subs /\ x[2] \in 1..MaxCalls /\ x = <<x[1], x[2]>>
      /\ y[2] \in 1..MaxCalls /\ y = <<y[1], y[2]>>
  BY CallsAre DEF Live
<1>2. x[2] = calls[x[1]]
  BY <1>1 DEF BInv, Numbered
<1>3. y[2] = calls[x[1]]
  BY <1>1 DEF BInv, Numbered
<1> QED
  BY <1>1, <1>2, <1>3

LEMMA UniqueStep == BInv /\ Retrying /\ Seen /\ Unique /\ [ServerNext]_vars => Unique'
<1> SUFFICES ASSUME BInv, Retrying, Seen, Unique, [ServerNext]_vars
             PROVE  Unique'
  OBVIOUS
<1>t. /\ batch \in [Calls -> Seq(Objects)] /\ reply \in [Calls -> Seq(Objects)]
      /\ list \in [Calls -> Seq(Objects)] /\ received \in [Subs -> Seq(Objects)]
      /\ pending \in [Subs -> Calls \cup {NoList}]
      /\ link \in [Calls -> {"up", "cut", "dead"}]
      /\ stage \in [Calls -> Stages]
  BY DEF BInv, ServerTypeOK
<1>o. Owned /\ ServerTypeOK /\ TopicInv /\ Numbered
  BY DEF BInv
<1>l. \A s \in Subs : Live(s) \subseteq CallsOf(s) /\ CallsOf(s) \subseteq Calls
  BY CallsAre DEF Live
<1>f. ASSUME UNCHANGED <<batch, reply, list, pending, received, resendFailed>>,
             \A z \in Calls : stage'[z] = "resend" /\ link'[z] = "up" =>
                              stage[z] = "resend" /\ link[z] = "up"
      PROVE  Unique'
  <2>1. ASSUME NEW s \in Subs, s \notin resendFailed'
        PROVE  UniqueIn(s, received'[s], PendingOf(s)', batch', reply', Live(s)')
    <3>1. Live(s)' \subseteq Live(s)
      BY <1>f, <1>l DEF Live, CallsOf
    <3>2. PendingOf(s)' = PendingOf(s)
      BY <1>f DEF PendingOf
    <3>3. UniqueIn(s, received[s], PendingOf(s), batch, reply, Live(s))
      BY <1>f, <2>1 DEF Unique
    <3> QED
      BY <1>f, <3>1, <3>2, <3>3 DEF UniqueIn
  <2> QED
    BY <2>1, UniqueNext
<1>g. ASSUME NEW x \in Calls, resendFailed \subseteq resendFailed', link' = link,
             \A t \in Subs \ {x[1]} : received'[t] = received[t] /\ PendingOf(t)' = PendingOf(t),
             \A z \in Calls \ {x} : batch'[z] = batch[z] /\ reply'[z] = reply[z] /\ stage'[z] = stage[z],
             x[1] \notin resendFailed' =>
                UniqueIn(x[1], received'[x[1]], PendingOf(x[1])', batch', reply', Live(x[1])')
      PROVE  Unique'
  <2>1. ASSUME NEW s \in Subs, s \notin resendFailed', s # x[1]
        PROVE  UniqueIn(s, received'[s], PendingOf(s)', batch', reply', Live(s)')
    <3>1. \A z \in CallsOf(s) : z \in Calls \ {x}
      BY <2>1, CallsAre
    <3>2. Live(s)' = Live(s)
      BY <1>g, <3>1 DEF Live, CallsOf
    <3>3. UniqueIn(s, received[s], PendingOf(s), batch, reply, Live(s))
      BY <1>g, <2>1 DEF Unique
    <3>4. /\ received'[s] = received[s] /\ PendingOf(s)' = PendingOf(s)
          /\ \A z \in CallsOf(s) : batch'[z] = batch[z] /\ reply'[z] = reply[z]
      BY <1>g, <2>1, <3>1
    <3> QED
      BY <1>l, <3>2, <3>3, <3>4 DEF UniqueIn
  <2> QED
    BY <1>g, <2>1, UniqueNext
\* The calls still being resent to after a step of x.
<1>v. ASSUME NEW x \in Calls, link' = link, \A z \in Calls \ {x} : stage'[z] = stage[z]
      PROVE  /\ Live(x[1])' \subseteq Live(x[1]) \cup {x}
             /\ x \in Live(x[1])' => stage'[x] = "resend"
             /\ stage'[x] # "resend" => Live(x[1])' \subseteq Live(x[1]) \ {x}
             /\ stage'[x] # "resend" /\ stage[x] # "none" /\ link[x] = "up" => Live(x[1])' = {}
  <2>1. Live(x[1])' \subseteq CallsOf(x[1])
    BY DEF Live, CallsOf
  <2>2. \A y \in CallsOf(x[1]) : y \in Live(x[1])' <=> stage'[y] = "resend" /\ link'[y] = "up"
    BY DEF Live, CallsOf
  <2>3. \A y \in CallsOf(x[1]) : y \in Live(x[1]) <=> stage[y] = "resend" /\ link[y] = "up"
    BY DEF Live
  <2>4. CallsOf(x[1]) \subseteq Calls
    BY CallsAre
  <2>5. link[x] = "up" /\ stage[x] # "none" => Live(x[1]) \subseteq {x}
    BY OneRead
  <2> QED
    BY <1>v, <2>1, <2>2, <2>3, <2>4, <2>5
<1>1. ASSUME NEW m \in Msgs, Publish(m)
      PROVE  Unique'
  BY <1>1, <1>f DEF Publish, serverVars
<1>2. ASSUME NEW s \in Subs, Subscribe(s)
      PROVE  Unique'
  <2>1. \A z \in Calls : stage'[z] = "resend" => stage[z] = "resend"
    BY <1>2, <1>t DEF Subscribe
  <2> QED
    BY <1>2, <1>f, <2>1 DEF Subscribe
<1>3. ASSUME NEW s \in Subs, Break(s) \/ Disconnect(s)
      PROVE  Unique'
  <2>1. \A z \in Calls : link'[z] = "up" => link[z] = "up"
    BY <1>3, <1>t DEF Break, Disconnect
  <2> QED
    BY <1>3, <1>f, <2>1 DEF Break, Disconnect
<1>4. ASSUME NEW x \in Calls, Notice(x)
      PROVE  Unique'
  <2>1. \A z \in Calls : link'[z] = "up" => link[z] = "up"
    BY <1>4, <1>t DEF Notice
  <2> QED
    BY <1>4, <1>f, <2>1 DEF Notice
<1>5. ASSUME NEW x \in Calls, Poll(x)
      PROVE  Unique'
  <2> DEFINE s == x[1]
             C == Consumable(s)
  <2>1. s \in Subs /\ C \in SUBSET Objects /\ x \in CallsOf(s)
    BY <1>o, CallsAre, QueuedObjects DEF TopicInv, Consumable
  <2>2. /\ batch'[x] = InQueueOrder(C) /\ UNCHANGED <<link, list, pending, received, resendFailed>>
        /\ \A z \in Calls \ {x} : batch'[z] = batch[z] /\ reply'[z] = reply[z] /\ stage'[z] = stage[z]
        /\ stage'[x] = "resend" => reply'[x] = PendingOf(s)
    BY <1>5, <1>t DEF Poll
  <2>3. \A t \in Subs : PendingOf(t)' = PendingOf(t)
    BY <2>2 DEF PendingOf
  <2>4. Elements(batch'[x]) = C /\ Distinct(batch'[x])
    BY <2>1, <2>2, QueueOrder
  <2>5. \A i \in C : i \in Objects /\ s \notin seenBy[i]
    BY <2>1 DEF Consumable
  <2>6. /\ Disjoint(batch'[x], received[s]) /\ Disjoint(batch'[x], PendingOf(s))
        /\ \A y \in CallsOf(s) : Disjoint(batch'[x], batch[y]) /\ Disjoint(batch'[x], reply[y])
    <3>1. \A i \in C : i \notin Elements(received[s])
      BY <2>1, <2>5 DEF Seen
    <3>2. \A i \in C : i \notin Elements(PendingOf(s))
      BY <2>1, <2>5, PendingSeen
    <3>3. \A y \in CallsOf(s) : \A i \in C : i \notin Elements(batch[y]) /\ i \notin Elements(reply[y])
      BY <2>1, <2>5 DEF Seen
    <3> HIDE DEF C
    <3> QED
      BY <2>4, <3>1, <3>2, <3>3 DEF Disjoint
  <2>7. ASSUME s \notin resendFailed'
        PROVE  UniqueIn(s, received'[s], PendingOf(s)', batch', reply', Live(s)')
    <3>1. UniqueIn(s, received[s], PendingOf(s), batch, reply, Live(s))
      BY <2>1, <2>2, <2>7 DEF Unique
    <3>2. Live(s)' \subseteq Live(s) \cup {x} /\ (x \in Live(s)' => stage'[x] = "resend")
      BY <1>v, <2>2
    <3>3. Live(s) \subseteq CallsOf(s) /\ CallsOf(s) \subseteq Calls
      BY <1>l, <2>1
    <3>4. \A y \in CallsOf(s) \ {x} :
            batch'[y] = batch[y] /\ reply'[y] = reply[y] /\ Disjoint(batch'[x], batch[y])
      BY <2>2, <2>6, <3>3
    <3>5. \A y \in Live(s) : Disjoint(batch'[x], reply[y])
      BY <2>6, <3>3
    <3>6. x \in Live(s)' => reply'[x] = PendingOf(s)
      BY <2>2, <3>2
    <3>7. UniqueIn(s, received[s], PendingOf(s), batch', reply', Live(s)')
      <4> HIDE DEF s, C
      <4> QED
        BY <2>1, <2>4, <2>6, <3>1, <3>2, <3>3, <3>4, <3>5, <3>6, UniquePolled
    <3> QED
      BY <2>1, <2>2, <2>3, <3>7
  <2> HIDE DEF C
  <2> QED
    BY <1>g, <2>2, <2>3, <2>7
<1>6. ASSUME NEW x \in Calls, Resent(x)
      PROVE  Unique'
  <2> DEFINE s == x[1]
             d == Elements(PendingOf(s)) \ Elements(reply[x])
  <2>1. /\ s \in Subs /\ reply[x] \in Seq(Objects) /\ d \in SUBSET Objects /\ x \in CallsOf(s)
        /\ received[s] \in Seq(Objects)
    BY <1>t, CallsAre, PendingLists, ListElements DEF BInv
  <2>2. /\ Deliver(x, reply[x], d) /\ UNCHANGED <<batch, link, resendFailed>>
        /\ pending'[s] = NoList /\ stage[x] = "resend" /\ stage'[x] = "write"
        /\ \A z \in Calls \ {x} : reply'[z] = reply[z] /\ stage'[z] = stage[z]
    BY <1>6, <1>t, <2>1 DEF Resent
  <2>3. PendingOf(s)' = <<>> /\ \A t \in Subs \ {s} : PendingOf(t)' = PendingOf(t)
    <3>1. UNCHANGED list /\ pending' = [pending EXCEPT ![s] = NoList]
      BY <1>6 DEF Resent
    <3> QED
      BY <1>t, <2>1, <2>2, <3>1 DEF PendingOf
  <2> HIDE DEF d
  <2>4. /\ \A t \in Subs \ {s} : received'[t] = received[t]
        /\ \/ link[x] = "up" /\ received'[s] = received[s] \o reply[x]
           \/ received'[s] = received[s]
    BY <1>o, <2>1, <2>2, Delivering
  <2>5. ASSUME s \notin resendFailed'
        PROVE  UniqueIn(s, received'[s], PendingOf(s)', batch', reply', Live(s)')
    <3>1. UniqueIn(s, received[s], PendingOf(s), batch, reply, Live(s))
      BY <2>1, <2>2, <2>5 DEF Unique
    <3>2. Live(s)' \subseteq Live(s) \ {x} /\ (link[x] = "up" => Live(s)' = {})
      BY <1>v, <2>2
    <3>3. Live(s) \subseteq CallsOf(s) /\ CallsOf(s) \subseteq Calls
      BY <1>l, <2>1
    <3>4. link[x] = "up" => x \in Live(s)
      BY <2>1, <2>2 DEF Live
    <3>5. \A y \in CallsOf(s) \ {x} : reply'[y] = reply[y]
      BY <2>2, <3>3
    <3>6. \/ received'[s] = received[s]
          \/ received'[s] = received[s] \o reply[x] /\ x \in Live(s) /\ Live(s)' = {}
      BY <2>4, <3>2, <3>4
    <3>7. UniqueIn(s, received'[s], <<>>, batch, reply', Live(s)')
      <4> DEFINE r == received[s]
                 p == PendingOf(s)
                 r2 == received'[s]
                 v == Live(s)
                 v2 == Live(s)'
      <4>1. /\ r \in Seq(Objects) /\ UniqueIn(s, r, p, batch, reply, v)
            /\ v \subseteq CallsOf(s) /\ v2 \subseteq v \ {x}
            /\ r2 = r \/ (r2 = r \o reply[x] /\ x \in v /\ v2 = {})
        BY <2>1, <3>1, <3>2, <3>3, <3>6
      <4> HIDE DEF s, r, p, r2, v, v2
      <4>2. UniqueIn(s, r2, <<>>, batch, reply', v2)
        BY <2>1, <3>5, <4>1, UniqueResent
      <4> QED
        BY <4>2 DEF r, p, r2, v, v2
    <3> QED
      BY <2>2, <2>3, <3>7
  <2> QED
    BY <1>g, <2>2, <2>3, <2>4, <2>5
<1>7. ASSUME NEW x \in Calls, Turn(x)
      PROVE  Unique'
  <2>1. UNCHANGED <<batch, reply, list, pending, received, link>> /\ resendFailed \subseteq resendFailed'
    BY <1>7, Turned, Turning
  <2>2. \A z \in Calls : stage'[z] = "resend" => stage[z] = "resend"
    BY <1>7, Turning
  <2>3. CASE UNCHANGED resendFailed
    BY <1>f, <2>1, <2>2, <2>3
  <2>4. CASE x[1] \in resendFailed'
    <3>1. /\ \A t \in Subs : PendingOf(t)' = PendingOf(t)
          /\ \A z \in Calls \ {x} : stage'[z] = stage[z]
      BY <1>7, <2>1, Turning DEF PendingOf
    <3> QED
      BY <1>g, <2>1, <2>4, <3>1
  <2> QED
    BY <1>7, <2>3, <2>4, Turning
<1>8. ASSUME NEW x \in Calls, Written(x)
      PROVE  Unique'
  <2> DEFINE s == x[1]
  <2>1. /\ s \in Subs /\ batch[x] \in Seq(Objects) /\ {} \in SUBSET Objects /\ x \in CallsOf(s)
        /\ received[s] \in Seq(Objects) /\ PendingOf(s) \in Seq(Objects)
    BY <1>t, CallsAre, PendingLists
  <2>2. /\ Deliver(x, batch[x], {}) /\ UNCHANGED <<reply, list, pending, link, resendFailed>>
        /\ batch'[x] = <<>> /\ stage[x] = "write" /\ stage'[x] = "poll"
        /\ \A z \in Calls \ {x} : batch'[z] = batch[z] /\ stage'[z] = stage[z]
    BY <1>8, <1>t DEF Written
  <2>3. \A t \in Subs : PendingOf(t)' = PendingOf(t)
    BY <2>2 DEF PendingOf
  <2>4. /\ \A t \in Subs \ {s} : received'[t] = received[t]
        /\ \/ link[x] = "up" /\ received'[s] = received[s] \o batch[x]
           \/ received'[s] = received[s]
    BY <1>o, <2>1, <2>2, Delivering
  <2>5. ASSUME s \notin resendFailed'
        PROVE  UniqueIn(s, received'[s], PendingOf(s)', batch', reply', Live(s)')
    <3>1. UniqueIn(s, received[s], PendingOf(s), batch, reply, Live(s))
      BY <2>1, <2>2, <2>5 DEF Unique
    <3>2. Live(s)' \subseteq Live(s) \ {x} /\ (link[x] = "up" => Live(s)' = {})
      BY <1>v, <2>2
    <3>3. Live(s) \subseteq CallsOf(s) /\ CallsOf(s) \subseteq Calls
      BY <1>l, <2>1
    <3>4. \A y \in CallsOf(s) \ {x} : batch'[y] = batch[y]
      BY <2>2, <3>3
    <3>5. \/ received'[s] = received[s]
          \/ received'[s] = received[s] \o batch[x] /\ Live(s)' = {}
      BY <2>4, <3>2
    <3>6. Live(s)' \subseteq Live(s) /\ batch'[x] = <<>>
      BY <2>2, <3>2
    <3>7. UniqueIn(s, received'[s], PendingOf(s), batch', reply, Live(s)')
      <4> DEFINE r == received[s]
                 p == PendingOf(s)
                 r2 == received'[s]
                 v == Live(s)
                 v2 == Live(s)'
      <4>1. /\ r \in Seq(Objects) /\ p \in Seq(Objects) /\ UniqueIn(s, r, p, batch, reply, v)
            /\ v \subseteq CallsOf(s) /\ v2 \subseteq v
            /\ r2 = r \/ (r2 = r \o batch[x] /\ v2 = {})
        BY <2>1, <3>1, <3>3, <3>5, <3>6
      <4> HIDE DEF s, r, p, r2, v, v2
      <4>2. UniqueIn(s, r2, p, batch', reply, v2)
        BY <2>1, <3>4, <3>6, <4>1, UniqueWritten
      <4> QED
        BY <4>2 DEF r, p, r2, v, v2
    <3> QED
      BY <2>1, <2>2, <2>3, <3>7
  <2> QED
    BY <1>g, <2>2, <2>3, <2>4, <2>5
<1>9. ASSUME NEW x \in Calls, Settle(x)
      PROVE  Unique'
  <2>1. PICK s \in Subs : s = x[1]
    BY CallsAre
  <2>2. /\ batch[x] \in Seq(Objects) /\ x \in CallsOf(s)
        /\ received[s] \in Seq(Objects) /\ PendingOf(s) \in Seq(Objects)
    BY <1>t, <2>1, CallsAre, PendingLists
  <2>3. UNCHANGED <<received, link, resendFailed>>
    BY <1>9, Settled
  <2>4. /\ held[x] = NoList => batch'[x] = <<>>
        /\ reply'[x] = <<>> /\ stage[x] # "resend" /\ stage'[x] # "resend"
        /\ \A z \in Calls \ {x} : batch'[z] = batch[z] /\ reply'[z] = reply[z] /\ stage'[z] = stage[z]
    BY <1>9, <1>o, Leaving
  <2>5. /\ \A t \in Subs \ {s} : PendingOf(t)' = PendingOf(t)
        /\ PendingOf(s)' \in {PendingOf(s), PendingOf(s) \o Kept(x)}
    BY <1>9, <2>1, Settling
  <2>6. ASSUME s \notin resendFailed'
        PROVE  UniqueIn(s, received'[s], PendingOf(s)', batch', reply', Live(s)')
    <3>0. held[x] = NoList /\ Kept(x) = batch[x] /\ reply[x] = <<>>
      BY <1>9, <1>o, <2>1, <2>3, <2>6, Leaving DEF Retrying, Kept, Owned
    <3>1. UniqueIn(s, received[s], PendingOf(s), batch, reply, Live(s))
      BY <2>3, <2>6 DEF Unique
    <3>2. Live(s)' \subseteq Live(s)
      BY <1>v, <2>1, <2>3, <2>4
    <3>3. Live(s) \subseteq CallsOf(s) /\ CallsOf(s) \subseteq Calls
      BY <1>l
    <3>4. \A y \in CallsOf(s) \ {x} : batch'[y] = batch[y]
      BY <2>4, <3>3
    <3>5. reply' = reply
      BY <1>t, <1>9, <1>o, <2>4, <3>0, Leaving
    <3>6. UniqueIn(s, received[s], PendingOf(s)', batch', reply, Live(s)')
      <4> DEFINE r == received[s]
                 p == PendingOf(s)
                 p2 == PendingOf(s)'
                 v == Live(s)
                 v2 == Live(s)'
      <4>1. /\ r \in Seq(Objects) /\ p \in Seq(Objects) /\ UniqueIn(s, r, p, batch, reply, v)
            /\ v \subseteq CallsOf(s) /\ v2 \subseteq v /\ batch'[x] = <<>>
            /\ p2 = p \/ p2 = p \o batch[x]
        BY <2>2, <2>4, <2>5, <3>0, <3>1, <3>2, <3>3
      <4> HIDE DEF r, p, p2, v, v2
      <4>2. UniqueIn(s, r, p2, batch', reply, v2)
        BY <2>2, <3>4, <4>1, UniqueWritten
      <4> QED
        BY <4>2 DEF r, p2, v2
    <3> QED
      BY <2>3, <3>5, <3>6
  <2> QED
    BY <1>g, <2>1, <2>3, <2>4, <2>5, <2>6
<1>10. CASE UNCHANGED vars
  BY <1>10, <1>f DEF vars, serverVars
<1> QED
  BY <1>1, <1>2, <1>3, <1>4, <1>5, <1>6, <1>7, <1>8, <1>9, <1>10, BrokerSteps DEF ServerNext

LEMMA UniqueInit == ServerInit => Unique
<1> SUFFICES ASSUME ServerInit
             PROVE  Unique
  OBVIOUS
<1>1. /\ \A s \in Subs : received[s] = <<>> /\ PendingOf(s) = <<>>
      /\ \A x \in Calls : batch[x] = <<>> /\ stage[x] = "none"
  BY DEF ServerInit, PendingOf
<1>2. \A s \in Subs : Live(s) = {} /\ CallsOf(s) \subseteq Calls
  BY <1>1, CallsAre DEF Live
<1> QED
  BY <1>1, <1>2, EmptyList DEF Unique, UniqueIn, Disjoint

\* A client is sent a message twice only when a write of its pending messages has failed
\* before: the loops of its calls, old and new, never hold the same message.
THEOREM ServerOnceEach == ServerSpec => []NoDuplicate
<1>1. ServerInit => Unique
  BY UniqueInit
<1>2. Unique => NoDuplicate
  BY DEF Unique, UniqueIn, Distinct, NoDuplicate
<1>3. /\ BInv /\ Retrying /\ [ServerNext]_vars => Retrying'
      /\ BInv /\ Seen /\ [ServerNext]_vars => Seen'
      /\ BInv /\ Retrying /\ Seen /\ Unique /\ [ServerNext]_vars => Unique'
  BY RetryingStep, SeenStep, UniqueStep
<1> QED
  BY <1>1, <1>2, <1>3, RetryingInit, SeenInit, BrokerInv, PTL DEF ServerSpec

-----------------------------------------------------------------------------
(* In order                                                                 *)

\* While a client has made one call, its loop has nothing to resend, and its batch is
\* newer than what the client has received.
FirstCall ==
    \A s \in Subs : calls[s] <= 1 =>
       /\ Ascending(received[s])
       /\ \A x \in CallsOf(s) :
            /\ Ascending(batch[x]) /\ held[x] = NoList
            /\ \A i \in Elements(received[s]), j \in Elements(batch[x]) : i < j

LEMMA FirstNext ==
    ASSUME \A s \in Subs : calls'[s] <= 1 =>
             /\ Ascending(received'[s])
             /\ \A x \in CallsOf(s) :
                  /\ Ascending(batch'[x]) /\ held'[x] = NoList
                  /\ \A i \in Elements(received'[s]), j \in Elements(batch'[x]) : i < j
    PROVE  FirstCall'
BY DEF FirstCall, CallsOf, Ascending, Elements

\* The calls a client has not made hold nothing, and one that has made a single call has
\* no other.
LEMMA FirstIsOnly ==
    ASSUME BInv, NEW s \in Subs, calls[s] <= 1, NEW x \in CallsOf(s), stage[x] # "none",
           NEW y \in CallsOf(s), stage[y] # "none"
    PROVE  y = x
<1>1. /\ x = <<s, x[2]>> /\ y = <<s, y[2]>> /\ x[2] \in 1..MaxCalls /\ y[2] \in 1..MaxCalls
      /\ MaxCalls \in Nat
  BY CallsAre
<1>2. calls[s] \in Nat
  BY <1>1 DEF BInv, ServerTypeOK
<1>3. ~(x[2] > calls[s]) /\ ~(y[2] > calls[s])
  BY <1>1 DEF BInv, Numbered
<1>4. x[2] = 1 /\ y[2] = 1
  BY <1>1, <1>2, <1>3
<1> QED
  BY <1>1, <1>4

LEMMA FirstStep == BInv /\ Seen /\ FirstCall /\ [ServerNext]_vars => FirstCall'
<1> SUFFICES ASSUME BInv, Seen, FirstCall, [ServerNext]_vars
             PROVE  FirstCall'
  OBVIOUS
<1>t. /\ batch \in [Calls -> Seq(Objects)] /\ received \in [Subs -> Seq(Objects)]
      /\ calls \in [Subs -> Nat]
      /\ held \in [Calls -> Calls \cup {NoList}]
  <2>1. \A n \in 0..MaxCalls : n \in Nat
    BY CallsAre
  <2> QED
    BY <2>1 DEF BInv, ServerTypeOK
<1>o. Owned /\ ServerTypeOK /\ TopicInv /\ Numbered
  BY DEF BInv
<1>f. ASSUME UNCHANGED <<batch, held, received>>,
             \A s \in Subs : calls[s] <= calls'[s] /\ calls'[s] \in Nat
      PROVE  FirstCall'
  BY <1>f, <1>t, CallsAre, FirstNext DEF FirstCall
<1>g. ASSUME NEW x \in Calls, UNCHANGED calls,
             \A t \in Subs \ {x[1]} : received'[t] = received[t],
             \A z \in Calls \ {x} : batch'[z] = batch[z] /\ held'[z] = held[z],
             calls[x[1]] <= 1 =>
               /\ Ascending(received'[x[1]]) /\ Ascending(batch'[x]) /\ held'[x] = NoList
               /\ \A y \in CallsOf(x[1]) \ {x} : batch[y] = <<>>
               /\ \A i \in Elements(received'[x[1]]), j \in Elements(batch'[x]) : i < j
      PROVE  FirstCall'
  <2>1. ASSUME NEW s \in Subs, calls'[s] <= 1
        PROVE  /\ Ascending(received'[s])
               /\ \A y \in CallsOf(s) :
                    /\ Ascending(batch'[y]) /\ held'[y] = NoList
                    /\ \A i \in Elements(received'[s]), j \in Elements(batch'[y]) : i < j
    <3>1. calls[s] <= 1 /\ \A y \in CallsOf(s) : y \in Calls /\ y[1] = s
      BY <1>g, <2>1, CallsAre
    <3>2. CASE s = x[1]
      <4>1. ASSUME NEW y \in CallsOf(s), y # x
            PROVE  batch'[y] = <<>> /\ held'[y] = NoList
        BY <1>g, <3>1, <3>2, <4>1 DEF FirstCall
      <4> QED
        BY <1>g, <3>1, <3>2, <4>1, EmptyList
    <3>3. CASE s # x[1]
      BY <1>g, <3>1, <3>3 DEF FirstCall
    <3> QED
      BY <3>2, <3>3
  <2> QED
    BY <2>1, FirstNext
\* Beside the call at work there is no other with a batch.
<1>e. ASSUME NEW x \in Calls, stage[x] # "none", calls[x[1]] <= 1, NEW y \in CallsOf(x[1]), y # x
      PROVE  batch[y] = <<>> /\ stage[y] = "none"
  <2>1. x[1] \in Subs /\ x \in CallsOf(x[1]) /\ y \in Calls
    BY CallsAre
  <2>2. stage[y] = "none"
    BY <1>e, <2>1, FirstIsOnly
  <2> QED
    BY <1>o, <2>1, <2>2 DEF Owned
<1>1. ASSUME NEW m \in Msgs, Publish(m)
      PROVE  FirstCall'
  BY <1>1, <1>f, <1>t DEF Publish, serverVars
<1>2. ASSUME NEW s \in Subs, Subscribe(s)
      PROVE  FirstCall'
  <2>1. \A t \in Subs : calls[t] <= calls'[t] /\ calls'[t] \in Nat
    BY <1>2, <1>t DEF Subscribe
  <2> QED
    BY <1>2, <1>f, <2>1 DEF Subscribe
<1>3. ASSUME NEW s \in Subs, Break(s) \/ Disconnect(s)
      PROVE  FirstCall'
  BY <1>3, <1>f, <1>t DEF Break, Disconnect
<1>4. ASSUME NEW x \in Calls, Notice(x)
      PROVE  FirstCall'
  BY <1>4, <1>f, <1>t DEF Notice
<1>5. ASSUME NEW x \in Calls, Poll(x)
      PROVE  FirstCall'
  <2> DEFINE C == Consumable(x[1])
  <2>1. x[1] \in Subs /\ C \in SUBSET Objects /\ x \in CallsOf(x[1])
    BY <1>o, CallsAre, QueuedObjects DEF TopicInv, Consumable
  <2>2. /\ batch'[x] = InQueueOrder(C) /\ UNCHANGED <<calls, received>> /\ stage[x] = "poll"
        /\ \A z \in Calls \ {x} : batch'[z] = batch[z] /\ held'[z] = held[z]
        /\ ~HasPending(x[1]) => held'[x] = held[x]
    BY <1>5, <1>t DEF Poll
  <2>3. Elements(batch'[x]) = C /\ Ascending(batch'[x])
    BY <2>1, <2>2, QueueOrder
  <2>4. ASSUME calls[x[1]] <= 1
        PROVE  ~HasPending(x[1])
    <3>1. pending[x[1]] # NoList => pending[x[1]] \in CallsOf(x[1]) /\ stage[pending[x[1]]] = "ended"
      BY <1>o, <2>1 DEF Owned
    <3>2. pending[x[1]] = NoList
      BY <2>1, <2>2, <2>4, <3>1, FirstIsOnly
    <3> QED
      BY <3>2 DEF HasPending, PendingOf
  <2>5. \A i \in Elements(received[x[1]]) : i \in Objects /\ x[1] \in seenBy[i]
    BY <1>t, <2>1, ListElements DEF Seen
  <2>6. \A i \in Elements(received[x[1]]), j \in C : i < j
    BY <1>o, <2>1, <2>5, NewerThanSeen
  <2>7. calls[x[1]] <= 1 =>
          /\ Ascending(received'[x[1]]) /\ Ascending(batch'[x]) /\ held'[x] = NoList
          /\ \A y \in CallsOf(x[1]) \ {x} : batch[y] = <<>>
          /\ \A i \in Elements(received'[x[1]]), j \in Elements(batch'[x]) : i < j
    BY <1>e, <2>1, <2>2, <2>3, <2>4, <2>6 DEF FirstCall
  <2> HIDE DEF C
  <2> QED
    BY <1>g, <2>2, <2>7
<1>6. ASSUME NEW x \in Calls, Resent(x)
      PROVE  FirstCall'
  <2>1. x[1] \in Subs /\ x \in CallsOf(x[1]) /\ stage[x] = "resend" /\ held[x] # NoList
    BY <1>6, <1>o, CallsAre DEF Resent, Owned
  <2>2. ~(calls[x[1]] <= 1)
    BY <2>1 DEF FirstCall
  <2>3. /\ UNCHANGED <<calls, batch>> /\ \A z \in Calls \ {x} : held'[z] = held[z]
        /\ \A t \in Subs \ {x[1]} : received'[t] = received[t]
    BY <1>6, <1>t DEF Resent, Deliver
  <2> QED
    BY <1>g, <2>2, <2>3
<1>7. ASSUME NEW x \in Calls, Written(x)
      PROVE  FirstCall'
  <2>1. /\ x[1] \in Subs /\ x \in CallsOf(x[1]) /\ stage[x] = "write" /\ {} \in SUBSET Objects
        /\ received[x[1]] \in Seq(Objects) /\ batch[x] \in Seq(Objects)
    BY <1>7, <1>t, CallsAre DEF Written
  <2>2. /\ UNCHANGED <<calls, held>> /\ batch'[x] = <<>>
        /\ \A z \in Calls \ {x} : batch'[z] = batch[z]
    BY <1>7, <1>t DEF Written
  <2>3. /\ \A t \in Subs \ {x[1]} : received'[t] = received[t]
        /\ received'[x[1]] = received[x[1]] \/ received'[x[1]] = received[x[1]] \o batch[x]
    BY <1>7, <1>o, <2>1, Delivering DEF Written
  <2>4. ASSUME calls[x[1]] <= 1
        PROVE  Ascending(received'[x[1]]) /\ held[x] = NoList
    <3>1. /\ Ascending(received[x[1]]) /\ Ascending(batch[x]) /\ held[x] = NoList
          /\ \A i \in Elements(received[x[1]]), j \in Elements(batch[x]) : i < j
      BY <2>1, <2>4 DEF FirstCall
    <3>2. Ascending(received[x[1]] \o batch[x])
      BY <2>1, <3>1, Concats
    <3> QED
      BY <2>3, <3>1, <3>2
  <2> QED
    BY <1>g, <1>e, <2>1, <2>2, <2>3, <2>4, EmptyList
<1>9. ASSUME NEW x \in Calls, Turn(x)
      PROVE  FirstCall'
  BY <1>9, <1>f, <1>t, Turned
<1>10. ASSUME NEW x \in Calls, Settle(x)
       PROVE  FirstCall'
  <2>1. /\ x[1] \in Subs /\ x \in CallsOf(x[1]) /\ UNCHANGED <<calls, received>>
    BY <1>10, CallsAre, Settled
  <2>2. /\ held'[x] = NoList /\ (held[x] = NoList => batch'[x] = <<>>) /\ stage[x] # "none"
        /\ \A z \in Calls \ {x} : batch'[z] = batch[z] /\ held'[z] = held[z]
    BY <1>10, <1>o, Leaving
  <2>3. calls[x[1]] <= 1 => batch'[x] = <<>> /\ Ascending(received[x[1]])
    BY <2>1, <2>2 DEF FirstCall
  <2> QED
    BY <1>g, <1>e, <2>1, <2>2, <2>3, EmptyList
<1>8. CASE UNCHANGED vars
  BY <1>8, <1>f, <1>t DEF vars, serverVars
<1> QED
  BY <1>1, <1>2, <1>3, <1>4, <1>5, <1>6, <1>7, <1>8, <1>9, <1>10, BrokerSteps DEF ServerNext

LEMMA FirstInit == ServerInit => FirstCall
<1> SUFFICES ASSUME ServerInit
             PROVE  FirstCall
  OBVIOUS
<1>1. /\ \A s \in Subs : received[s] = <<>>
      /\ \A x \in Calls : batch[x] = <<>> /\ held[x] = NoList
  BY DEF ServerInit
<1> QED
  BY <1>1, EmptyList, CallsAre DEF FirstCall

\* A client that has made one call receives the messages in the order of the queue, however
\* the loop, the publishers and other clients interleave.
THEOREM ServerInOrder == ServerSpec => []FirstCallOrdered
<1>1. ServerInit => FirstCall
  BY FirstInit
<1>2. FirstCall => FirstCallOrdered
  BY DEF FirstCall, Ascending, FirstCallOrdered
<1>3. BInv /\ Seen /\ FirstCall /\ [ServerNext]_vars => Seen' /\ FirstCall'
  BY SeenStep, FirstStep
<1> QED
  BY <1>1, <1>2, <1>3, SeenInit, BrokerInv, PTL DEF ServerSpec

-----------------------------------------------------------------------------
(* What broken connections explain                                          *)

\* Only a client whose connection broke has pending messages, or a loop that failed to write.
Cut ==
    /\ \A x \in Calls :
         stage[x] \in {"failed", "keep", "append"} \/ held[x] # NoList => x[1] \in Broken
    /\ \A s \in Subs : pending[s] # NoList => s \in Broken

LEMMA BrokenBy ==
    /\ \A s : s \in Broken <=> s \in Subs /\ \E x \in CallsOf(s) : link[x] # "up"
    /\ \A s : s \in Broken' <=> s \in Subs /\ \E x \in CallsOf(s) : link'[x] # "up"
BY DEF Broken, CallsOf

LEMMA BrokenSame ==
    ASSUME UNCHANGED link
    PROVE  Broken' = Broken
BY BrokenBy

LEMMA CutInit == ServerInit => Cut
BY DEF ServerInit, Cut

LEMMA CutStep == BInv /\ Cut /\ [ServerNext]_vars => Cut'
<1> SUFFICES ASSUME BInv, Cut, [ServerNext]_vars
             PROVE  Cut'
  OBVIOUS
<1>t. /\ stage \in [Calls -> Stages] /\ held \in [Calls -> Calls \cup {NoList}]
      /\ pending \in [Subs -> Calls \cup {NoList}] /\ link \in [Calls -> {"up", "cut", "dead"}]
      /\ Owned /\ ServerTypeOK
  BY DEF BInv, ServerTypeOK
<1>n. ASSUME \A z \in Calls : stage'[z] \in {"failed", "keep", "append"} \/ held'[z] # NoList
                                 => z[1] \in Broken',
             \A s \in Subs : pending'[s] # NoList => s \in Broken'
      PROVE  Cut'
  BY <1>n DEF Cut
<1>f. ASSUME UNCHANGED <<held, pending>>,
             \A z \in Calls : stage'[z] = stage[z] \/ stage'[z] = "poll",
             \A z \in Calls : link[z] # "up" => link'[z] # "up"
      PROVE  Cut'
  <2>1. \A s \in Subs : s \in Broken => s \in Broken'
    BY <1>f, BrokenBy, CallsAre
  <2>2. ASSUME NEW z \in Calls, stage'[z] \in {"failed", "keep", "append"} \/ held'[z] # NoList
        PROVE  z[1] \in Broken'
    BY <1>f, <2>1, <2>2, CallsAre DEF Cut
  <2>3. \A s \in Subs : pending'[s] # NoList => s \in Broken'
    BY <1>f, <2>1 DEF Cut
  <2> QED
    BY <1>n, <2>2, <2>3
\* A step of the loop of x that takes no connection away.
<1>g. ASSUME NEW x \in Calls, UNCHANGED link,
             \A z \in Calls \ {x} : stage'[z] = stage[z] /\ held'[z] = held[z],
             stage'[x] \in {"failed", "keep", "append"} \/ held'[x] # NoList => x[1] \in Broken,
             \A s \in Subs : pending'[s] # NoList => pending[s] # NoList \/ s \in Broken
      PROVE  Cut'
  <2>1. Broken' = Broken
    BY <1>g, BrokenSame
  <2>2. ASSUME NEW z \in Calls, stage'[z] \in {"failed", "keep", "append"} \/ held'[z] # NoList
        PROVE  z[1] \in Broken'
    BY <1>g, <2>1, <2>2 DEF Cut
  <2>3. \A s \in Subs : pending'[s] # NoList => s \in Broken'
    BY <1>g, <2>1 DEF Cut
  <2> QED
    BY <1>n, <2>2, <2>3
<1>1. ASSUME NEW m \in Msgs, Publish(m)
      PROVE  Cut'
  BY <1>1, <1>f DEF Publish, serverVars
<1>2. ASSUME NEW s \in Subs, Subscribe(s) \/ Break(s) \/ Disconnect(s)
      PROVE  Cut'
  BY <1>2, <1>f, <1>t DEF Subscribe, Break, Disconnect
<1>3. ASSUME NEW x \in Calls, Notice(x)
      PROVE  Cut'
  BY <1>3, <1>f, <1>t DEF Notice
<1>4. ASSUME NEW x \in Calls, Poll(x)
      PROVE  Cut'
  <2>1. UNCHANGED <<link, pending>> /\ \A z \in Calls \ {x} : stage'[z] = stage[z] /\ held'[z] = held[z]
    BY <1>4, <1>t DEF Poll
  <2>2. stage'[x] \in {"resend", "write"} /\ held'[x] \in {held[x], pending[x[1]]} /\ x[1] \in Subs
    BY <1>4, <1>t, CallsAre DEF Poll
  <2> QED
    BY <1>g, <2>1, <2>2 DEF Cut
<1>5. ASSUME NEW x \in Calls, Resent(x) \/ Written(x)
      PROVE  Cut'
  <2>1. UNCHANGED link /\ \A z \in Calls \ {x} : stage'[z] = stage[z] /\ held'[z] = held[z]
    BY <1>5, <1>t DEF Resent, Written
  <2>2. stage'[x] \in {"write", "poll"} /\ held'[x] \in {held[x], NoList}
    BY <1>5, <1>t DEF Resent, Written
  <2>3. \A s \in Subs : pending'[s] \in {pending[s], NoList}
    BY <1>5, <1>t DEF Resent, Written
  <2> QED
    BY <1>g, <2>1, <2>2, <2>3 DEF Cut
<1>6. ASSUME NEW x \in Calls, Turn(x)
      PROVE  Cut'
  <2>1. UNCHANGED <<link, held, pending>> /\ \A z \in Calls \ {x} : stage'[z] = stage[z]
    BY <1>6, Turned, Turning
  <2>2. x[1] \in Subs /\ x \in CallsOf(x[1])
    BY CallsAre
  <2>3. stage'[x] \in {"failed", "keep", "append"} => x[1] \in Broken
    <3>1. CASE ResendFailed(x)
      BY <1>t, <3>1 DEF ResendFailed, Owned, Cut
    <3>2. CASE WriteFailed(x)
      <4>1. stage[x] = "failed" \/ link[x] # "up"
        BY <3>2 DEF WriteFailed, CannotWrite
      <4> QED
        BY <2>2, <4>1, BrokenBy DEF Cut
    <3>3. CASE LookUp(x)
      BY <3>3 DEF LookUp, Cut
    <3>4. CASE Remove(x)
      BY <1>t, <3>4 DEF Remove
    <3> QED
      BY <1>6, <3>1, <3>2, <3>3, <3>4 DEF Turn
  <2> QED
    BY <1>g, <2>1, <2>3 DEF Cut
<1>7. ASSUME NEW x \in Calls, Settle(x)
      PROVE  Cut'
  <2>1. PICK s \in Subs : s = x[1]
    BY CallsAre
  <2>2. /\ UNCHANGED link /\ held'[x] = NoList /\ stage[x] \in {"keep", "append"}
        /\ \A z \in Calls \ {x} : stage'[z] = stage[z] /\ held'[z] = held[z]
    BY <1>7, <1>t, Leaving, Settled
  <2>3. \A t \in Subs \ {s} : pending'[t] = pending[t]
    BY <1>7, <2>1, Settling
  <2>4. s \in Broken
    BY <2>1, <2>2 DEF Cut
  <2> QED
    BY <1>g, <2>1, <2>2, <2>3, <2>4
<1>8. CASE UNCHANGED vars
  BY <1>8, <1>f DEF vars, serverVars
<1> QED
  BY <1>1, <1>2, <1>3, <1>4, <1>5, <1>6, <1>7, <1>8, BrokerSteps DEF ServerNext

-----------------------------------------------------------------------------
(* What the broker promises its clients                                     *)

LEMMA TransitBy ==
    ASSUME NEW s \in Subs
    PROVE  \A i : i \in InTransit(s) <=>
                    \/ i \in Elements(PendingOf(s))
                    \/ \E x \in CallsOf(s) : i \in Elements(batch[x]) \/ i \in Elements(reply[x])
BY DEF InTransit

LEMMA TransitByNext ==
    ASSUME NEW s \in Subs
    PROVE  \A i : i \in InTransit(s)' <=>
                    \/ i \in Elements(PendingOf(s)')
                    \/ \E x \in CallsOf(s) : i \in Elements(batch'[x]) \/ i \in Elements(reply'[x])
BY DEF InTransit, CallsOf, Elements

\* What is on its way to a client has been given to it.
LEMMA TransitGiven ==
    ASSUME BInv, Seen, NEW s \in Subs
    PROVE  \A i \in InTransit(s) : i \in Objects /\ s \in seenBy[i] /\ taken[i][s] > 0
<1>1. \A x \in CallsOf(s) : Elements(batch[x]) \subseteq Objects /\ Elements(reply[x]) \subseteq Objects
  BY CallsAre, ListElements DEF BInv, ServerTypeOK
<1>2. \A i \in InTransit(s) : i \in Objects /\ s \in seenBy[i]
  BY <1>1, TransitBy, PendingSeen DEF Seen
<1> QED
  BY <1>2 DEF BInv, TopicInv, Counted

\* What the end of a list is after something has been appended to it.
LEMMA Appended ==
    ASSUME NEW r \in Seq(Objects), NEW q \in Seq(Objects)
    PROVE  /\ Len(r) <= Len(r \o q)
           /\ \A k \in 1 .. Len(r) : (r \o q)[k] = r[k]
           /\ \A k \in Len(r) + 1 .. Len(r \o q) : (r \o q)[k] \in Elements(q)
           /\ \A i \in Elements(q) : \E k \in Len(r) + 1 .. Len(r \o q) : (r \o q)[k] = i
<1>1. /\ Len(r) \in Nat /\ Len(q) \in Nat /\ Len(r \o q) = Len(r) + Len(q) /\ DOMAIN q = 1 .. Len(q)
      /\ \A k \in 1 .. Len(r) + Len(q) : (r \o q)[k] = IF k <= Len(r) THEN r[k] ELSE q[k - Len(r)]
  OBVIOUS
<1>2. ASSUME NEW k \in Len(r) + 1 .. Len(r \o q)
      PROVE  (r \o q)[k] \in Elements(q)
  <2>1. k - Len(r) \in DOMAIN q /\ (r \o q)[k] = q[k - Len(r)]
    BY <1>1
  <2> QED
    BY <2>1 DEF Elements
<1>3. ASSUME NEW k \in DOMAIN q
      PROVE  \E l \in Len(r) + 1 .. Len(r \o q) : (r \o q)[l] = q[k]
  <2>1. k + Len(r) \in Len(r) + 1 .. Len(r \o q) /\ (r \o q)[k + Len(r)] = q[k]
    BY <1>1
  <2> QED
    BY <2>1
<1> QED
  BY <1>1, <1>2, <1>3 DEF Elements

\* Some of what is on its way to a client is received by it, or lost, and nothing else is.
LEMMA Writes ==
    ASSUME ServerTypeOK, NEW s \in Subs, NEW p \in Seq(Objects),
           UNCHANGED <<log, taken, calls, link, resendFailed>>, Unique', FirstCall',
           received'[s] = received[s] \o p, \A t \in Subs \ {s} : received'[t] = received[t],
           \A i \in Elements(p) : i \in InTransit(s),
           lost \subseteq lost',
           \A t \in Subs \ {s} : \A i : <<t, i>> \in lost' => <<t, i>> \in lost,
           \A i : <<s, i>> \in lost' => <<s, i>> \in lost \/ (i \in InTransit(s) /\ s \in Broken),
           \A t \in Subs \ {s} : InTransit(t)' = InTransit(t),
           \A i \in InTransit(s)' : i \in InTransit(s),
           \A i \in InTransit(s) : /\ i \in Objects
                                   /\ i \in InTransit(s)' \/ i \in Elements(p) \/ <<s, i>> \in lost'
    PROVE  Mail!Write(s)
<1>1. received \in [Subs -> Seq(Objects)] /\ lost \subseteq Subs \X Objects
  BY DEF ServerTypeOK
<1>3. \A t \in Subs \ {s} : \A i : <<t, i>> \in lost' <=> <<t, i>> \in lost
  OBVIOUS
<1>5. s \notin resendFailed => Distinct(received'[s])
  BY DEF Unique, UniqueIn, Distinct
<1>6. s \notin {t \in Subs : calls[t] > 1} => Ascending(received'[s])
  <2>1. calls[s] \in Int
    BY DEF ServerTypeOK
  <2> QED
    BY <2>1 DEF FirstCall, Ascending
<1>7. /\ Len(received[s]) <= Len(received'[s])
      /\ \A k \in 1 .. Len(received[s]) : received'[s][k] = received[s][k]
      /\ \A k \in Len(received[s]) + 1 .. Len(received'[s]) : received'[s][k] \in Elements(p)
      /\ \A i \in Elements(p) : \E k \in Len(received[s]) + 1 .. Len(received'[s]) : received'[s][k] = i
  <2>1. PICK r \in Seq(Objects) : r = received[s] /\ received'[s] = r \o p
    BY <1>1
  <2>2. /\ Len(r) <= Len(r \o p) /\ \A k \in 1 .. Len(r) : (r \o p)[k] = r[k]
        /\ \A k \in Len(r) + 1 .. Len(r \o p) : (r \o p)[k] \in Elements(p)
        /\ \A i \in Elements(p) : \E k \in Len(r) + 1 .. Len(r \o p) : (r \o p)[k] = i
    BY Appended
  <2> QED
    BY <2>1, <2>2
<1>8. Broken' = Broken
  BY BrokenSame
<1> DEFINE W == [t \in Subs |-> InTransit(t)]
           L == [t \in Subs |-> {i \in Objects : <<t, i>> \in lost}]
<1>9. \A t \in Subs : W[t] = InTransit(t) /\ W'[t] = InTransit(t)'
  OBVIOUS
<1>10. /\ \A t \in Subs : L[t] = {i \in Objects : <<t, i>> \in lost}
       /\ \A t \in Subs : L'[t] = {i \in Objects : <<t, i>> \in lost'}
  BY DEF Objects
<1>11. /\ \A t \in Subs \ {s} : W'[t] = W[t] /\ received'[t] = received[t] /\ L'[t] = L[t]
       /\ W'[s] \subseteq W[s]
  <2>1. \A t \in Subs \ {s} : InTransit(t)' = InTransit(t)
    OBVIOUS
  <2>2. InTransit(s)' \subseteq InTransit(s)
    OBVIOUS
  <2>3. \A t \in Subs \ {s} : L'[t] = L[t]
    BY <1>3, <1>10
  <2> QED
    BY <1>9, <2>1, <2>2, <2>3
<1>12. /\ L[s] \subseteq L'[s] /\ L'[s] \subseteq L[s] \cup W[s]
       /\ W[s] \ W'[s] \subseteq Elements(p) \cup L'[s]
       /\ s \notin Broken => L'[s] = L[s]
  <2>3. L[s] = {i \in Objects : <<s, i>> \in lost} /\ L'[s] = {i \in Objects : <<s, i>> \in lost'}
    BY <1>10
  <2>4. W[s] = InTransit(s) /\ W'[s] = InTransit(s)'
    BY <1>9
  <2> HIDE DEF W, L
  <2> QED
    BY <2>3, <2>4
<1>13. \A k \in Len(received[s]) + 1 .. Len(received'[s]) : received'[s][k] \in W[s]
  BY <1>7, <1>9
<1> HIDE DEF W, L
<1>14. /\ s \notin resendFailed => Mail!Once(received'[s])
       /\ s \notin {t \in Subs : calls[t] > 1} => Mail!Rising(received'[s])
  BY <1>5, <1>6 DEF Mail!Once, Mail!Rising, Distinct, Ascending
<1>15. UNCHANGED <<log, [t \in Subs |-> {i \in Objects : taken[i][t] > 0}], resendFailed,
                   {t \in Subs : calls[t] > 1}, Broken>>
  BY <1>8 DEF Objects
<1>16. W[s] \ W'[s] \subseteq
         {received'[s][k] : k \in Len(received[s]) + 1 .. Len(received'[s])} \cup L'[s]
  BY <1>7, <1>12
<1>17. /\ \A k \in 1 .. Len(received[s]) : received'[s][k] = received[s][k]
       /\ Len(received[s]) <= Len(received'[s])
  BY <1>7
<1> QED
  BY <1>11, <1>12, <1>13, <1>14, <1>15, <1>16, <1>17, Zenon DEF Mail!Write, Mail!New, W, L

\* A write keeps the promise, whether its client reads it or not.
LEMMA WriteKeeps ==
    ASSUME BInv, NEW x \in Calls, NEW q \in Seq(Objects), NEW d \in SUBSET Objects,
           Deliver(x, q, d), UNCHANGED <<topicVars, calls, link, resendFailed>>, Unique', FirstCall',
           d # {} => x[1] \in Broken,
           \A i \in Elements(q) \cup d : i \in InTransit(x[1]),
           \A t \in Subs \ {x[1]} : InTransit(t)' = InTransit(t),
           \A i \in InTransit(x[1])' : i \in InTransit(x[1]),
           \A i \in InTransit(x[1]) :
              i \in Objects /\ (i \in InTransit(x[1])' \/ i \in Elements(q) \/ i \in d)
    PROVE  Mail!Write(x[1])
<1>1. PICK s \in Subs : s = x[1]
  BY CallsAre
<1>2. /\ ServerTypeOK /\ received \in [Subs -> Seq(Objects)] /\ x \in CallsOf(s)
  BY <1>1, CallsAre DEF BInv, ServerTypeOK
<1>3. PICK p \in Seq(Objects) :
        /\ received'[s] = received[s] \o p /\ Elements(p) \subseteq Elements(q)
        /\ \A i \in Elements(q) \cup d : i \in Elements(p) \/ <<s, i>> \in lost'
  <2>1. received[s] \o <<>> = received[s]
    BY <1>2, ConcatEmptySeq
  <2> QED
    BY <1>1, <1>2, <2>1, Delivering, EmptyList
<1>4. \A t \in Subs \ {s} : received'[t] = received[t]
  BY <1>1, <1>2, Delivering
<1>5. /\ lost \subseteq lost' /\ \A t \in Subs \ {s} : \A i : <<t, i>> \in lost' => <<t, i>> \in lost
      /\ \A i : <<s, i>> \in lost' => \/ <<s, i>> \in lost \/ i \in d
                                     \/ (i \in Elements(q) /\ link[x] # "up")
  BY <1>1 DEF Deliver
<1>6. link[x] # "up" => s \in Broken
  BY <1>1, <1>2, BrokenBy
<1>7. UNCHANGED <<log, taken>>
  BY DEF topicVars
<1> QED
  BY <1>1, <1>2, <1>3, <1>4, <1>5, <1>6, <1>7, Writes

Resumed == {t \in Subs : calls[t] > 1}
GivenTo == [t \in Subs |-> {i \in Objects : taken[i][t] > 0}]
Waiting == [t \in Subs |-> InTransit(t)]

\* A step that the promise does not see.
LEMMA MailStutters ==
    ASSUME UNCHANGED <<log, taken, received, lost, resendFailed, Resumed, Broken>>,
           \A t \in Subs : InTransit(t)' = InTransit(t)
    PROVE  UNCHANGED Mail!vars
<1>1. UNCHANGED [t \in Subs |-> InTransit(t)]
  OBVIOUS
<1>2. UNCHANGED [t \in Subs |-> {i \in Objects : taken[i][t] > 0}]
  BY DEF Objects
<1>3. UNCHANGED [t \in Subs |-> {i \in Objects : <<t, i>> \in lost}]
  BY DEF Objects
<1> QED
  BY <1>1, <1>2, <1>3 DEF Mail!vars, Mail!mail, Resumed

LEMMA TransitSame ==
    ASSUME NEW s \in Subs, UNCHANGED <<batch, reply>>, PendingOf(s)' = PendingOf(s)
    PROVE  InTransit(s)' = InTransit(s)
<1>1. \A i : i \in InTransit(s)' <=> i \in InTransit(s)
  BY TransitBy, TransitByNext
<1> QED
  BY <1>1

\* The calls of one client say nothing of what is on its way to another.
LEMMA TransitOther ==
    ASSUME NEW x \in Calls, NEW s \in Subs \ {x[1]}, PendingOf(s)' = PendingOf(s),
           \A z \in Calls \ {x} : batch'[z] = batch[z] /\ reply'[z] = reply[z]
    PROVE  InTransit(s)' = InTransit(s)
<1>1. \A z \in CallsOf(s) : batch'[z] = batch[z] /\ reply'[z] = reply[z]
  BY CallsAre
<1>2. \A i : i \in InTransit(s)' <=> i \in InTransit(s)
  BY <1>1, TransitBy, TransitByNext
<1> QED
  BY <1>2

\* What a step of call x can change of what is on its way to its client.
LEMMA TransitMoves ==
    ASSUME NEW x \in Calls, NEW s \in Subs, s = x[1],
           \A z \in Calls \ {x} : batch'[z] = batch[z] /\ reply'[z] = reply[z]
    PROVE  /\ \A i \in InTransit(s)' : \/ i \in InTransit(s) \/ i \in Elements(PendingOf(s)')
                                       \/ i \in Elements(batch'[x]) \/ i \in Elements(reply'[x])
           /\ \A i \in InTransit(s) : \/ i \in InTransit(s)' \/ i \in Elements(PendingOf(s))
                                      \/ i \in Elements(batch[x]) \/ i \in Elements(reply[x])
           /\ \A i : \/ i \in Elements(PendingOf(s)) \/ i \in Elements(batch[x])
                     \/ i \in Elements(reply[x])
                  => i \in InTransit(s)
           /\ \A i : \/ i \in Elements(PendingOf(s)') \/ i \in Elements(batch'[x])
                     \/ i \in Elements(reply'[x])
                  => i \in InTransit(s)'
<1>1. x \in CallsOf(s) /\ \A z \in CallsOf(s) : z \in Calls
  BY CallsAre
<1>2. ASSUME NEW i \in InTransit(s)'
      PROVE  \/ i \in InTransit(s) \/ i \in Elements(PendingOf(s)')
             \/ i \in Elements(batch'[x]) \/ i \in Elements(reply'[x])
  <2>1. \/ i \in Elements(PendingOf(s)')
        \/ \E z \in CallsOf(s) : i \in Elements(batch'[z]) \/ i \in Elements(reply'[z])
    BY TransitByNext
  <2> QED
    BY <1>1, <2>1, TransitBy
<1>3. ASSUME NEW i \in InTransit(s)
      PROVE  \/ i \in InTransit(s)' \/ i \in Elements(PendingOf(s))
             \/ i \in Elements(batch[x]) \/ i \in Elements(reply[x])
  <2>1. \/ i \in Elements(PendingOf(s))
        \/ \E z \in CallsOf(s) : i \in Elements(batch[z]) \/ i \in Elements(reply[z])
    BY TransitBy
  <2>2. CASE \E z \in CallsOf(s) \ {x} : i \in Elements(batch[z]) \/ i \in Elements(reply[z])
    BY <1>1, <2>2, TransitByNext
  <2> QED
    BY <2>1, <2>2
<1> QED
  BY <1>1, <1>2, <1>3, TransitBy, TransitByNext

\* A poll takes the messages from some point on.
LEMMA PollGives ==
    ASSUME BInv, Seen, NEW x \in Calls, Poll(x)
    PROVE  Mail!Give(x[1])
<1>0. Broken' = Broken
  BY BrokenSame DEF Poll
<1> DEFINE s == x[1]
           C == Consumable(s)
<1>1. /\ s \in Subs /\ C \in SUBSET Objects /\ Len(log) \in Nat /\ x \in CallsOf(s)
      /\ taken \in [Objects -> [Subs -> Nat]] /\ TopicInv /\ Len(log) <= MaxPush /\ head \in Nat
  BY CallsAre, QueuedObjects DEF BInv, TopicInv, TypeOK, Consumable
<1>2. \A i \in Objects, t \in Subs :
        taken'[i][t] = IF i \in C /\ t = s THEN taken[i][t] + 1 ELSE taken[i][t]
  BY <1>1 DEF Poll, ConsumeQueue
<1>3. \A i \in C : i \in Queued /\ \A j \in Queued : i <= j => j \in C
  <2>1. ASSUME NEW i \in C, NEW j \in Queued, i < j
        PROVE  j \in C
    BY <1>1, <2>1 DEF TopicInv, Nested, Consumable
  <2>2. \A i, j \in Queued : i <= j => i < j \/ i = j
    BY <1>1 DEF Queued
  <2> QED
    BY <2>1, <2>2 DEF Consumable
<1>4. PICK n \in 1 .. Len(log) + 1 : C = n .. Len(log)
  <2>1. CASE C = {}
    BY <1>1, <2>1
  <2>2. CASE C # {}
    <3> DEFINE q == InQueueOrder(C)
    <3>1. q \in Seq(Objects) /\ Elements(q) = C /\ Ascending(q)
      BY <1>1, QueueOrder
    <3> HIDE DEF q
    <3>2. 1 \in DOMAIN q /\ \A k \in DOMAIN q : k = 1 \/ 1 < k
      BY <2>2, <3>1 DEF Elements
    <3> HIDE DEF C
    <3>3. /\ q[1] \in C /\ q[1] \in Int /\ \A i \in C : i \in Int
          /\ \A k \in DOMAIN q : q[k] \in C
      <4>1. \A k \in DOMAIN q : q[k] \in C
        BY <3>1 DEF Elements
      <4>2. \A i \in Objects : i \in Int
        BY DEF Objects
      <4> QED
        BY <1>1, <3>2, <4>1, <4>2
    <3>4. ASSUME NEW i \in C
          PROVE  q[1] <= i
      <4>1. PICK k \in DOMAIN q : i = q[k]
        BY <3>1 DEF Elements
      <4>2. k = 1 \/ q[1] < q[k]
        BY <3>1, <3>2 DEF Ascending
      <4> QED
        BY <3>3, <4>1, <4>2
    <3> DEFINE n == q[1]
    <3>5. n \in Queued /\ \A j \in Queued : n <= j => j \in C
      BY <1>3, <3>3
    <3>6. \A i \in C : i \in Queued /\ n <= i
      BY <1>3, <3>4
    <3> HIDE DEF n
    <3>7. C = n .. Len(log) /\ n \in 1 .. Len(log) + 1
      <4>1. n \in Int /\ n >= head + 1 /\ n <= Len(log)
        BY <1>1, <3>5 DEF Queued
      <4>2. \A i : i \in n .. Len(log) => i \in Queued /\ n <= i
        BY <1>1, <4>1 DEF Queued
      <4>3. \A i \in Queued : i \in Int /\ i <= Len(log)
        BY <1>1 DEF Queued
      <4>4. C \subseteq n .. Len(log)
        <5> SUFFICES ASSUME NEW i \in C
                     PROVE  i \in n .. Len(log)
          OBVIOUS
        <5>1. i \in Int /\ i <= Len(log) /\ n <= i
          BY <3>6, <4>3
        <5> QED
          BY <1>1, <4>1, <5>1
      <4>5. n .. Len(log) \subseteq C
        BY <3>5, <4>2
      <4>6. C = n .. Len(log)
        BY <4>4, <4>5
      <4>7. n \in 1 .. Len(log) + 1
        BY <1>1, <4>1
      <4> QED
        BY <4>6, <4>7
    <3> QED
      BY <3>7
  <2> QED
    BY <2>1, <2>2
<1>5. \A i \in GivenTo[s] : i < n
  <2>1. ASSUME NEW i \in GivenTo[s]
        PROVE  i < n
    <3>1. i \in Objects /\ taken[i][s] > 0
      BY <1>1 DEF GivenTo
    <3>2. s \in seenBy[i] /\ i <= Len(log)
      BY <1>1, <3>1 DEF TopicInv, Counted, Unpushed, Objects
    <3>3. CASE n \in C
      BY <1>1, <3>1, <3>2, <3>3, NewerThanSeen
    <3>4. CASE n \notin C
      BY <1>1, <1>4, <3>1, <3>2, <3>4 DEF Objects
    <3> QED
      BY <3>3, <3>4
  <2> QED
    BY <2>1
<1>6. GivenTo' = [GivenTo EXCEPT ![s] = @ \cup n .. Len(log)]
  <2>1. \A t \in Subs : GivenTo'[t] = {i \in Objects : taken'[i][t] > 0}
    BY DEF GivenTo, Objects
  <2>2. \A t \in Subs : GivenTo[t] = {i \in Objects : taken[i][t] > 0}
    BY DEF GivenTo
  <2>3. ASSUME NEW t \in Subs
        PROVE  GivenTo'[t] = IF t = s THEN GivenTo[t] \cup C ELSE GivenTo[t]
    <3> HIDE DEF C, s
    <3>1. \A i \in Objects : taken'[i][t] > 0 <=> taken[i][t] > 0 \/ (i \in C /\ t = s)
      BY <1>1, <1>2
    <3>2. C \subseteq Objects
      BY <1>1
    <3> QED
      BY <2>1, <2>2, <3>1, <3>2
  <2> QED
    BY <1>4, <2>3 DEF GivenTo
<1>7. Waiting' = [Waiting EXCEPT ![s] = @ \cup n .. Len(log)]
  <2>1. /\ batch[x] = <<>> /\ reply[x] = <<>> /\ UNCHANGED <<list, pending>>
        /\ batch'[x] = InQueueOrder(C) /\ reply'[x] \in {<<>>, PendingOf(s)}
        /\ \A z \in Calls \ {x} : batch'[z] = batch[z] /\ reply'[z] = reply[z]
    <3>1. stage[x] = "poll" /\ batch \in [Calls -> Seq(Objects)] /\ reply \in [Calls -> Seq(Objects)]
      BY DEF Poll, BInv, ServerTypeOK
    <3>2. batch[x] = <<>> /\ reply[x] = <<>>
      BY <3>1 DEF BInv, Owned
    <3> QED
      BY <3>1, <3>2 DEF Poll
  <2>2. Elements(batch'[x]) = C
    BY <1>1, <2>1, QueueOrder
  <2>3. \A t \in Subs : PendingOf(t)' = PendingOf(t)
    BY <2>1 DEF PendingOf
  <2>4. \A t \in Subs \ {s} : InTransit(t)' = InTransit(t)
    BY <2>1, <2>3, TransitOther
  <2>5. \A z \in CallsOf(s) : z \in Calls
    BY <1>1, CallsAre
  <2>6. \A i : i \in InTransit(s)' <=> i \in InTransit(s) \/ i \in C
    BY <1>1, <2>1, <2>2, <2>3, <2>5, TransitBy, TransitByNext, EmptyList
  <2>7. \A t \in Subs : Waiting'[t] = IF t = s THEN Waiting[t] \cup C ELSE Waiting[t]
    BY <2>4, <2>6 DEF Waiting
  <2> QED
    BY <1>4, <2>7 DEF Waiting
<1>8. UNCHANGED <<log, received, [t \in Subs |-> {i \in Objects : <<t, i>> \in lost}],
                  resendFailed, {t \in Subs : calls[t] > 1}, Broken>>
  BY <1>0 DEF Poll, ConsumeQueue, Objects
<1> QED
  BY <1>4, <1>5, <1>6, <1>7, <1>8 DEF Mail!Give, GivenTo, Waiting
LEMMA WrittenKeeps ==
    ASSUME BInv, Seen, NEW x \in Calls, Written(x), Unique', FirstCall'
    PROVE  Mail!Write(x[1])
<1> DEFINE q == batch[x]
<1>1. /\ x[1] \in Subs /\ x \in CallsOf(x[1]) /\ batch \in [Calls -> Seq(Objects)]
      /\ reply \in [Calls -> Seq(Objects)] /\ q \in Seq(Objects) /\ {} \in SUBSET Objects
  BY CallsAre DEF BInv, ServerTypeOK
<1>2. /\ Deliver(x, q, {}) /\ UNCHANGED <<topicVars, calls, link, resendFailed, reply, list, pending>>
      /\ batch'[x] = <<>> /\ \A z \in Calls \ {x} : batch'[z] = batch[z] /\ reply'[z] = reply[z]
  BY <1>1 DEF Written
<1>3. \A t \in Subs : PendingOf(t)' = PendingOf(t)
  BY <1>2 DEF PendingOf
<1>4. \A t \in Subs \ {x[1]} : InTransit(t)' = InTransit(t)
  BY <1>2, <1>3, TransitOther
<1>5. PICK s \in Subs : s = x[1]
  BY <1>1
<1>6. /\ \A i \in InTransit(s)' : i \in InTransit(s)
      /\ \A i \in InTransit(s) : i \in InTransit(s)' \/ i \in Elements(q)
      /\ \A i \in Elements(q) : i \in InTransit(s)
  BY <1>1, <1>2, <1>3, <1>5, TransitMoves, EmptyList
<1>7. \A i \in InTransit(s) : i \in Objects
  BY TransitGiven
<1> HIDE DEF q
<1> QED
  BY <1>1, <1>2, <1>4, <1>5, <1>6, <1>7, WriteKeeps

LEMMA ResentKeeps ==
    ASSUME BInv, Seen, Cut, NEW x \in Calls, Resent(x), Unique', FirstCall'
    PROVE  Mail!Write(x[1])
<1> DEFINE q == reply[x]
           d == Elements(PendingOf(x[1])) \ Elements(reply[x])
<1>1. /\ x[1] \in Subs /\ x \in CallsOf(x[1]) /\ batch \in [Calls -> Seq(Objects)]
      /\ reply \in [Calls -> Seq(Objects)] /\ q \in Seq(Objects) /\ d \in SUBSET Objects
      /\ pending \in [Subs -> Calls \cup {NoList}]
  BY CallsAre, PendingLists, ListElements DEF BInv, ServerTypeOK
<1>2. /\ Deliver(x, q, d) /\ UNCHANGED <<topicVars, calls, link, resendFailed, batch, list>>
      /\ pending' = [pending EXCEPT ![x[1]] = NoList]
      /\ reply'[x] = <<>> /\ \A z \in Calls \ {x} : batch'[z] = batch[z] /\ reply'[z] = reply[z]
  BY <1>1 DEF Resent
<1>3. (\A t \in Subs \ {x[1]} : PendingOf(t)' = PendingOf(t)) /\ PendingOf(x[1])' = <<>>
  BY <1>1, <1>2 DEF PendingOf
<1>4. \A t \in Subs \ {x[1]} : InTransit(t)' = InTransit(t)
  BY <1>2, <1>3, TransitOther
<1>5. PICK s \in Subs : s = x[1]
  BY <1>1
<1>6. \A i : i \in Elements(PendingOf(s)) \/ i \in Elements(reply[x]) <=> i \in Elements(q) \cup d
  BY <1>5
<1> HIDE DEF q, d
<1>7. \A i \in InTransit(s)' : i \in InTransit(s)
  BY <1>2, <1>3, <1>5, TransitMoves, EmptyList
<1>8. \A i \in InTransit(s) : i \in InTransit(s)' \/ i \in Elements(q) \/ i \in d
  BY <1>2, <1>5, <1>6, TransitMoves
<1>9. \A i \in Elements(q) \cup d : i \in InTransit(s)
  BY <1>2, <1>5, <1>6, TransitMoves
<1>10. \A i \in InTransit(s) : i \in Objects
  BY TransitGiven
<1>11. s \in Broken
  BY <1>5 DEF BInv, Owned, Resent, Cut
<1> QED
  BY <1>1, <1>2, <1>4, <1>5, <1>7, <1>8, <1>9, <1>10, <1>11, WriteKeeps

\* A loop that turns to something else moves nothing, but one that failed to send a pending
\* list may write its messages again.
LEMMA TurnKeeps ==
    ASSUME BInv, Seen, NEW x \in Calls, Turn(x)
    PROVE  Mail!Retry(x[1]) \/ UNCHANGED Mail!vars
<1>1. PICK s \in Subs : s = x[1]
  BY CallsAre
<1>2. /\ UNCHANGED <<calls, link, batch, reply, list, pending, received, lost, log, taken>>
      /\ resendFailed' \in {resendFailed, resendFailed \cup {s}}
  BY <1>1, Turned, Turning
<1>3. Broken' = Broken /\ Resumed' = Resumed
  BY <1>2, BrokenSame DEF Resumed
<1>4. \A t \in Subs : InTransit(t)' = InTransit(t)
  BY <1>2, TransitSame DEF PendingOf
<1>5. CASE resendFailed' = resendFailed
  BY <1>2, <1>3, <1>4, <1>5, MailStutters
<1>6. CASE resendFailed' = resendFailed \cup {s}
  <2>1. Waiting' = [Waiting EXCEPT ![s] = InTransit(s)] /\ Waiting[s] = InTransit(s)
    <3>1. \A t \in Subs : Waiting'[t] = InTransit(t)
      BY <1>4 DEF Waiting
    <3> QED
      BY <3>1 DEF Waiting
  <2>2. InTransit(s) \in SUBSET GivenTo[s]
    BY TransitGiven DEF GivenTo
  <2>3. UNCHANGED <<log, GivenTo, received, [t \in Subs |-> {i \in Objects : <<t, i>> \in lost}],
                    {t \in Subs : calls[t] > 1}, Broken>>
    BY <1>2, <1>3 DEF GivenTo, Objects
  <2> QED
    BY <1>1, <1>6, <2>1, <2>2, <2>3 DEF Mail!Retry, Waiting, GivenTo
<1> QED
  BY <1>2, <1>5, <1>6

\* What a loop could not write waits among the pending messages instead, with all of the
\* list that it could not send, or is lost.
LEMMA SettleKeeps ==
    ASSUME BInv, Seen, Cut, Retrying, NEW x \in Calls, Settle(x), Unique', FirstCall'
    PROVE  Mail!Write(x[1]) \/ Mail!Retry(x[1]) \/ UNCHANGED Mail!vars
<1>1. PICK s \in Subs : s = x[1]
  BY CallsAre
<1>2. /\ UNCHANGED <<log, taken, calls, link, received, resendFailed>>
      /\ Broken' = Broken /\ Resumed' = Resumed
  BY Settled, BrokenSame DEF topicVars, Resumed
<1>3. /\ \A z \in Calls \ {x} : batch'[z] = batch[z] /\ reply'[z] = reply[z]
      /\ reply'[x] = <<>> /\ batch'[x] = IF held[x] = NoList THEN <<>> ELSE batch[x]
      /\ stage[x] \in {"keep", "append"}
  BY Leaving DEF BInv
<1>4. /\ Kept(x) \in Seq(Objects) /\ Elements(InHand(x)) \subseteq Elements(Kept(x))
      /\ \A t \in Subs \ {s} : PendingOf(t)' = PendingOf(t)
      /\ \/ PendingOf(s)' = PendingOf(s) \o Kept(x) /\ lost' = lost
         \/ /\ PendingOf(s)' = PendingOf(s)
            /\ lost' = lost \cup {<<s, i>> : i \in Elements(InHand(x)) \ Elements(PendingOf(s))}
  BY <1>1, Settling
<1>5. /\ PendingOf(s) \in Seq(Objects) /\ x \in CallsOf(s) /\ s \in Broken
      /\ \A i \in InTransit(s) : i \in Objects /\ taken[i][s] > 0
      /\ received[s] \in Seq(Objects) /\ ServerTypeOK
  BY <1>1, <1>3, CallsAre, PendingLists, TransitGiven DEF Cut, BInv, ServerTypeOK
<1>6. \A t \in Subs \ {s} : InTransit(t)' = InTransit(t)
  BY <1>1, <1>3, <1>4, TransitOther
<1>7. /\ \A i \in InTransit(s)' : \/ i \in InTransit(s) \/ i \in Elements(PendingOf(s)')
                                  \/ i \in Elements(batch'[x]) \/ i \in Elements(reply'[x])
      /\ \A i \in InTransit(s) : \/ i \in InTransit(s)' \/ i \in Elements(PendingOf(s))
                                 \/ i \in Elements(batch[x]) \/ i \in Elements(reply[x])
      /\ \A i : \/ i \in Elements(PendingOf(s)) \/ i \in Elements(batch[x])
                \/ i \in Elements(reply[x])
             => i \in InTransit(s)
      /\ \A i : \/ i \in Elements(PendingOf(s)') \/ i \in Elements(batch'[x])
                \/ i \in Elements(reply'[x])
             => i \in InTransit(s)'
  BY <1>1, <1>3, TransitMoves
<1>8. held[x] = NoList => reply[x] = <<>>
  BY DEF BInv, Owned
\* What x had in hand is the only thing that may no longer be on its way.
<1>9. /\ \A i \in Elements(InHand(x)) : i \in InTransit(s)
      /\ \A i \in Elements(PendingOf(s)) : i \in Elements(PendingOf(s)') => i \in InTransit(s)'
      /\ \A i \in InTransit(s) : \/ i \in InTransit(s)' \/ i \in Elements(PendingOf(s))
                                 \/ i \in Elements(InHand(x))
  BY <1>3, <1>7, <1>8, EmptyList DEF InHand
<1>10. CASE /\ PendingOf(s)' = PendingOf(s)
            /\ lost' = lost \cup {<<s, i>> : i \in Elements(InHand(x)) \ Elements(PendingOf(s))}
  <2>1. \A i \in InTransit(s)' : i \in InTransit(s)
    BY <1>3, <1>7, <1>10, EmptyList
  <2>2. \A i \in InTransit(s) : i \in InTransit(s)' \/ <<s, i>> \in lost'
    BY <1>7, <1>9, <1>10
  <2>3. /\ lost \subseteq lost'
        /\ \A t \in Subs \ {s} : \A i : <<t, i>> \in lost' => <<t, i>> \in lost
        /\ \A i : <<s, i>> \in lost' => <<s, i>> \in lost \/ i \in InTransit(s)
    BY <1>9, <1>10
  <2>4. received'[s] = received[s] \o <<>>
    BY <1>2, <1>5, ConcatEmptySeq
  <2>5. Mail!Write(s)
    BY <1>2, <1>5, <1>6, <2>1, <2>2, <2>3, <2>4, EmptyList, Writes
  <2> QED
    BY <1>1, <2>5
<1>11. CASE PendingOf(s)' = PendingOf(s) \o Kept(x) /\ lost' = lost
  <2>1. Elements(PendingOf(s)') = Elements(PendingOf(s)) \cup Elements(Kept(x))
    BY <1>4, <1>5, <1>11, Concats
  <2>2. \A i \in InTransit(s) : i \in InTransit(s)'
    BY <1>4, <1>7, <1>9, <2>1
  <2>3. \A i \in InTransit(s)' : i \in InTransit(s) \/ i \in Elements(Kept(x))
    BY <1>3, <1>7, <2>1, EmptyList
  <2>4. CASE held[x] = NoList
    <3>1. \A i \in Elements(Kept(x)) : i \in InTransit(s)
      BY <1>7, <2>4 DEF Kept
    <3>2. InTransit(s)' = InTransit(s)
      BY <2>2, <2>3, <3>1
    <3> QED
      BY <1>2, <1>6, <1>11, <3>2, MailStutters
  <2>5. CASE held[x] # NoList
    <3>1. s \in resendFailed /\ held[x] \in CallsOf(s) /\ Kept(x) = list[held[x]]
      BY <1>1, <1>3, <2>5 DEF Retrying, BInv, Owned, Kept
    <3>2. \A i \in Elements(Kept(x)) : i \in Objects /\ s \in seenBy[i]
      BY <1>4, <3>1, ListElements DEF Seen
    <3>3. \A i \in Elements(Kept(x)) : taken[i][s] > 0
      BY <3>2 DEF BInv, TopicInv, Counted
    <3> DEFINE W == InTransit(s)'
    <3>4. W \in SUBSET GivenTo[s]
      BY <1>5, <2>3, <3>2, <3>3 DEF GivenTo
    <3>5. Waiting' = [Waiting EXCEPT ![s] = W] /\ Waiting[s] = InTransit(s)
      <4>1. \A t \in Subs : Waiting'[t] = IF t = s THEN W ELSE Waiting[t]
        BY <1>6 DEF Waiting
      <4> QED
        BY <4>1 DEF Waiting
    <3>6. /\ resendFailed' = resendFailed \cup {s}
          /\ UNCHANGED <<log, GivenTo, received, [t \in Subs |-> {i \in Objects : <<t, i>> \in lost}],
                         {t \in Subs : calls[t] > 1}, Broken>>
      BY <1>2, <1>11, <3>1 DEF GivenTo, Objects
    <3>7. Waiting[s] \subseteq W
      BY <2>2, <3>5
    <3> HIDE DEF W
    <3>8. Mail!Retry(s)
      BY <3>4, <3>5, <3>6, <3>7 DEF Mail!Retry, Waiting, GivenTo
    <3> QED
      BY <1>1, <3>8
  <2> QED
    BY <2>4, <2>5
<1> QED
  BY <1>4, <1>10, <1>11

\* Every step of the broker, its clients and the network is a step of the promise, or
\* one it does not see.
LEMMA MailStep ==
    ASSUME BInv, Retrying, Seen, Cut, [ServerNext]_vars, Unique', FirstCall'
    PROVE  [Mail!Next]_Mail!vars
<1>0. ASSUME UNCHANGED <<log, taken, batch, reply, list, pending, received, lost, resendFailed>>,
             Resumed' = Resumed, Broken' = Broken
      PROVE  UNCHANGED Mail!vars
  <2>1. \A t \in Subs : InTransit(t)' = InTransit(t)
    BY <1>0, TransitSame DEF PendingOf
  <2> QED
    BY <1>0, <2>1, MailStutters
<1>1. ASSUME NEW m \in Msgs, Publish(m)
      PROVE  [Mail!Next]_Mail!vars
  <2>1. CASE log' = log
    BY <1>0, <1>1, <2>1, BrokenSame DEF Publish, PushQueue, serverVars, Resumed
  <2>2. CASE log' = Append(log, m)
    <3>1. /\ UNCHANGED <<taken, received, resendFailed, lost, calls, Broken>>
          /\ \A t \in Subs : InTransit(t)' = InTransit(t)
      BY <1>1, TransitSame, BrokenSame DEF Publish, PushQueue, serverVars, PendingOf
    <3>2. Mail!Publish
      BY <2>2, <3>1 DEF Mail!Publish, Mail!mail, Objects
    <3> QED
      BY <3>2 DEF Mail!Next
  <2> QED
    BY <1>1, <2>1, <2>2 DEF Publish, PushQueue
<1>2. ASSUME NEW s \in Subs, Subscribe(s)
      PROVE  [Mail!Next]_Mail!vars
  <2>1. /\ calls' = [calls EXCEPT ![s] = @ + 1] /\ calls \in [Subs -> Nat]
        /\ UNCHANGED <<log, taken, batch, reply, list, pending, received, lost, resendFailed, Broken>>
    <3>1. \A n \in 0..MaxCalls : n \in Nat
      BY CallsAre
    <3> QED
      BY <1>2, <3>1, BrokenSame DEF Subscribe, CreateSubscription, BInv, ServerTypeOK
  <2>2. CASE calls[s] = 0
    <3>1. Resumed' = Resumed
      BY <2>1, <2>2 DEF Resumed
    <3> QED
      BY <1>0, <2>1, <3>1
  <2>3. CASE calls[s] # 0
    <3>1. Resumed' = Resumed \cup {s}
      BY <2>1, <2>3 DEF Resumed
    <3>2. \A t \in Subs : InTransit(t)' = InTransit(t)
      BY <2>1, TransitSame DEF PendingOf
    <3>3. Mail!Resume(s)
      BY <2>1, <3>1, <3>2 DEF Mail!Resume, Mail!mail, Resumed, Objects
    <3> QED
      BY <3>3 DEF Mail!Next
  <2> QED
    BY <2>2, <2>3
<1>3. ASSUME NEW s \in Subs, Disconnect(s)
      PROVE  [Mail!Next]_Mail!vars
  BY <1>0, <1>3, BrokenSame DEF Disconnect, RemoveSubscription, topicVars, Resumed
<1>7. ASSUME NEW s \in Subs, Break(s)
      PROVE  [Mail!Next]_Mail!vars
  <2>1. /\ UNCHANGED <<log, taken, calls, batch, reply, list, pending, received, lost, resendFailed>>
        /\ link' = [link EXCEPT ![Current(s)] = "cut"] /\ link \in [Calls -> {"up", "cut", "dead"}]
    BY <1>7 DEF Break, topicVars, BInv, ServerTypeOK
  <2>2. Resumed' = Resumed
    BY <2>1 DEF Resumed
  <2>3. \A t \in Subs : InTransit(t)' = InTransit(t)
    BY <2>1, TransitSame DEF PendingOf
  <2>4. Current(s) \in Calls => Current(s) \in CallsOf(s)
    BY CallsAre DEF Current
  <2>5. Broken' \in {Broken, Broken \cup {s}}
    <3>1. \A z \in Calls : link'[z] # "up" <=> link[z] # "up" \/ z = Current(s)
      BY <2>1
    <3>2. \A t \in Subs \ {s} : t \in Broken' <=> t \in Broken
      BY <2>4, <3>1, BrokenBy, CallsAre DEF Current
    <3>3. s \in Broken => s \in Broken'
      BY <3>1, BrokenBy, CallsAre
    <3>4. Broken \subseteq Subs /\ Broken' \subseteq Subs
      BY BrokenBy
    <3> QED
      BY <3>2, <3>3, <3>4
  <2>6. CASE Broken' = Broken
    BY <1>0, <2>1, <2>2, <2>6
  <2>7. CASE Broken' = Broken \cup {s}
    <3>1. Mail!Break(s)
      BY <2>1, <2>2, <2>3, <2>7 DEF Mail!Break, Mail!mail, Resumed, Objects
    <3> QED
      BY <3>1 DEF Mail!Next
  <2> QED
    BY <2>5, <2>6, <2>7
<1>4. ASSUME NEW x \in Calls, Notice(x)
      PROVE  [Mail!Next]_Mail!vars
  <2>1. Broken' = Broken
    <3>1. \A z \in Calls : link'[z] # "up" <=> link[z] # "up"
      BY <1>4 DEF Notice, BInv, ServerTypeOK
    <3> QED
      BY <3>1, BrokenBy, CallsAre
  <2> QED
    BY <1>0, <1>4, <2>1 DEF Notice, topicVars, Resumed
<1>5. ASSUME NEW x \in Calls, BrokerStep(x)
      PROVE  [Mail!Next]_Mail!vars
  <2>1. x[1] \in Subs
    BY CallsAre
  <2> QED
    BY <1>5, <2>1, BrokerSteps, PollGives, ResentKeeps, WrittenKeeps, TurnKeeps, SettleKeeps
       DEF Mail!Next
<1>6. CASE UNCHANGED vars
  BY <1>0, <1>6, BrokenSame DEF vars, serverVars, topicVars, Resumed
<1> QED
  BY <1>1, <1>2, <1>3, <1>4, <1>5, <1>6, <1>7 DEF ServerNext

LEMMA MailInit == ServerInit => Mail!Init
<1> SUFFICES ASSUME ServerInit
             PROVE  Mail!Init
  OBVIOUS
<1>1. /\ \A s \in Subs : received[s] = <<>> /\ PendingOf(s) = <<>> /\ calls[s] = 0
      /\ \A x \in Calls : batch[x] = <<>> /\ reply[x] = <<>>
      /\ log = <<>> /\ lost = {} /\ resendFailed = {} /\ received = [s \in Subs |-> <<>>]
      /\ \A i \in Objects, s \in Subs : taken[i][s] = 0
  BY DEF ServerInit, Init, PendingOf
<1>2. \A s \in Subs : InTransit(s) = {}
  <2> SUFFICES ASSUME NEW s \in Subs
               PROVE  \A i : i \notin InTransit(s)
    OBVIOUS
  <2> QED
    BY <1>1, TransitBy, CallsAre, EmptyList
<1>3. Broken = {}
  <2>1. \A z \in Calls : link[z] = "up"
    BY DEF ServerInit
  <2> QED
    BY <2>1, BrokenBy, CallsAre
<1> QED
  BY <1>1, <1>2, <1>3 DEF Mail!Init

\* Whatever connections do, the broker keeps its promise to its clients: what the topic
\* gives out for a client waits until it is written or lost, is not lost before a connection
\* of the client breaks, and is written once, and in order, until a resend fails or the
\* client calls again.
THEOREM ServerKeepsMail == ServerSpec => KeepsMail
<1> DEFINE Inv == BInv /\ Retrying /\ Seen /\ Unique /\ FirstCall /\ Cut
<1>1. ServerInit /\ BInv => Inv
  BY RetryingInit, SeenInit, UniqueInit, FirstInit, CutInit
<1>2. Inv /\ [ServerNext]_vars => Retrying' /\ Seen' /\ Unique' /\ FirstCall' /\ Cut'
  BY RetryingStep, SeenStep, UniqueStep, FirstStep, CutStep
<1>3. Inv /\ Unique' /\ FirstCall' /\ [ServerNext]_vars => [Mail!Next]_Mail!vars
  BY MailStep
<1> QED
  BY <1>1, <1>2, <1>3, BrokerInv, MailInit, PTL DEF ServerSpec, KeepsMail, Mail!Spec
=============================================================================
