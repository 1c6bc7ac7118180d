--------------------------- MODULE MixTopicProofs ---------------------------
(***************************************************************************)
(* Proofs about MixTopic, for any set of message ids and any finite set of *)
(* subscriptions.                                                          *)
(***************************************************************************)
EXTENDS MixTopic, FiniteSetTheorems, TLAPS

\* What is counted is what is listed: a subscription is in the list of a
\* message exactly when one call, and no other, has returned the message to it.
Counted ==
    \A i \in Objects, s \in Subs : taken[i][s] = IF s \in seenBy[i] THEN 1 ELSE 0

\* Nobody has seen a message that has not been enqueued.
Unpushed == \A i \in Objects : i > Len(log) => seenBy[i] = {}

\* In the queue, whoever has seen a message has seen every older one.
Nested == \A i, j \in Queued : i < j => seenBy[j] \subseteq seenBy[i]

TopicInv == TypeOK /\ Counted /\ Unpushed /\ Nested

\* Every consumer of a message is still registered.
Stayed == \A i \in Objects : seenBy[i] \subseteq subscriptions

StayInv == TopicInv /\ Stayed /\ NoMissed

-----------------------------------------------------------------------------
(* Steps *)

LEMMA InitInv == Init => TopicInv
BY TopicAssumption DEF Init, TopicInv, TypeOK, Counted, Unpushed, Nested, Objects, Queued

\* Positions of the queue are positions of messages.
LEMMA QueuedObjects == TypeOK => Queued \subseteq Objects
BY TopicAssumption DEF TypeOK, Queued, Objects

LEMMA PushInv ==
    ASSUME TopicInv, NEW m \in Msgs, PushQueue(m)
    PROVE  TopicInv'
<1> USE TopicAssumption
<1>1. CASE log' = log
  BY <1>1 DEF TopicInv, PushQueue, TypeOK, Counted, Unpushed, Nested, Objects, Queued
<1>2. CASE log' = Append(log, m)
  <2>1. Len(log') = Len(log) + 1 /\ log' \in Seq(Msgs)
    BY <1>2 DEF TopicInv, TypeOK
  <2>2. TypeOK'
    BY <2>1 DEF TopicInv, PushQueue, TypeOK, Objects
  <2>3. Counted' /\ Unpushed'
    BY <2>1 DEF TopicInv, PushQueue, TypeOK, Counted, Unpushed, Objects
  <2>4. Nested'
    <3> SUFFICES ASSUME NEW i \in Queued', NEW j \in Queued', i < j
                 PROVE  seenBy[j] \subseteq seenBy[i]
      BY DEF Nested, PushQueue
    <3>1. i \in Queued
      BY <2>1 DEF Queued, PushQueue, TopicInv, TypeOK
    <3>2. CASE j \in Queued
      BY <3>1, <3>2 DEF TopicInv, Nested
    <3>3. CASE j \notin Queued
      <4>1. j > Len(log) /\ j \in Objects
        BY <2>1, <2>2, <3>3 DEF Queued, PushQueue, TopicInv, TypeOK, Objects
      <4> QED
        BY <4>1 DEF TopicInv, Unpushed
    <3> QED
      BY <3>2, <3>3
  <2> QED
    BY <2>2, <2>3, <2>4 DEF TopicInv
<1> QED
  BY <1>1, <1>2 DEF PushQueue

LEMMA CreateInv ==
    ASSUME TopicInv, NEW s \in Subs, CreateSubscription(s)
    PROVE  TopicInv'
<1> USE TopicAssumption
<1>1. joined' \in [Subs -> 0..MaxPush]
  <2>1. head \in 0..MaxPush
    BY DEF TopicInv, TypeOK
  <2> QED
    BY <2>1 DEF TopicInv, TypeOK, CreateSubscription
<1> QED
  BY <1>1 DEF TopicInv, CreateSubscription, TypeOK, Counted, Unpushed, Nested, Objects, Queued

LEMMA RemoveInv ==
    ASSUME TopicInv, NEW s \in Leavers, RemoveSubscription(s)
    PROVE  TopicInv'
BY TopicAssumption
   DEF TopicInv, RemoveSubscription, TypeOK, Counted, Unpushed, Nested, Objects, Queued

\* What a call of ConsumeQueue does to the lists: it adds its subscription to
\* every message in the queue, and touches no other message or subscription.
LEMMA ConsumeMarks ==
    ASSUME TopicInv, NEW s \in Subs, ConsumeQueue(s)
    PROVE  /\ seenBy' \in [Objects -> SUBSET Subs]
           /\ s \in subscriptions =>
                \A i \in Objects : seenBy'[i] = IF i \in Queued THEN seenBy[i] \cup {s}
                                                                ELSE seenBy[i]
           /\ s \notin subscriptions => seenBy' = seenBy
BY QueuedObjects DEF TopicInv, TypeOK, ConsumeQueue, Consumable

LEMMA ConsumeInv ==
    ASSUME TopicInv, NEW s \in Subs, ConsumeQueue(s)
    PROVE  TopicInv'
<1> USE TopicAssumption
<1>1. Len(log) \in Nat /\ head \in 0..Len(log) /\ log' = log
  BY DEF TopicInv, TypeOK, ConsumeQueue
<1>2. head' \in head..Len(log)
  BY <1>1 DEF ConsumeQueue, Trimmed
<1>3. taken' \in [Objects -> [Subs -> Nat]]
  BY DEF TopicInv, TypeOK, ConsumeQueue
<1>4. TypeOK'
  BY <1>1, <1>2, <1>3, ConsumeMarks DEF TopicInv, TypeOK, ConsumeQueue
<1>5. Counted'
  <2> SUFFICES ASSUME NEW i \in Objects, NEW t \in Subs
               PROVE  taken'[i][t] = IF t \in seenBy'[i] THEN 1 ELSE 0
    BY DEF Counted
  <2>1. taken[i][t] = IF t \in seenBy[i] THEN 1 ELSE 0
    BY DEF TopicInv, Counted
  <2>2. CASE i \in Consumable(s)
    <3>1. s \notin seenBy[i] /\ taken[i][s] = 0
      BY <2>2 DEF Consumable, TopicInv, Counted
    <3>2. taken'[i] = [taken[i] EXCEPT ![s] = @ + 1] /\ seenBy'[i] = seenBy[i] \cup {s}
      BY <2>2 DEF ConsumeQueue
    <3> QED
      BY <2>1, <3>1, <3>2 DEF TopicInv, TypeOK
  <2>3. CASE i \notin Consumable(s)
    BY <2>1, <2>3 DEF ConsumeQueue
  <2> QED
    BY <2>2, <2>3
<1>6. Unpushed'
  <2> SUFFICES ASSUME NEW i \in Objects, i > Len(log)
               PROVE  seenBy'[i] = {}
    BY <1>1 DEF Unpushed
  <2>1. i \notin Queued /\ seenBy[i] = {}
    BY <1>1 DEF Queued, Objects, TopicInv, Unpushed
  <2> QED
    BY <2>1, ConsumeMarks
<1>7. Nested'
  <2> SUFFICES ASSUME NEW i \in Queued', NEW j \in Queued', i < j
               PROVE  seenBy'[j] \subseteq seenBy'[i]
    BY DEF Nested
  <2>1. Queued' \subseteq Queued
    <3>1. Queued' = head' + 1 .. Len(log)
      BY <1>1 DEF Queued
    <3>2. head' + 1 .. Len(log) \subseteq head + 1 .. Len(log)
      BY <1>1, <1>2
    <3> QED
      BY <3>1, <3>2 DEF Queued
  <2>2. i \in Objects /\ j \in Objects /\ seenBy[j] \subseteq seenBy[i]
    BY <2>1, QueuedObjects DEF TopicInv, Nested
  <2> QED
    BY <2>1, <2>2, ConsumeMarks
<1> QED
  BY <1>4, <1>5, <1>6, <1>7 DEF TopicInv

LEMMA NextInv == TopicInv /\ [Next]_topicVars => TopicInv'
<1> SUFFICES ASSUME TopicInv, [Next]_topicVars
             PROVE  TopicInv'
  OBVIOUS
<1>1. CASE \E m \in Msgs : PushQueue(m)
  BY <1>1, PushInv
<1>2. CASE \E s \in Subs : CreateSubscription(s)
  BY <1>2, CreateInv
<1>3. CASE \E s \in Leavers : RemoveSubscription(s)
  BY <1>3, RemoveInv
<1>4. CASE \E s \in Subs : ConsumeQueue(s)
  BY <1>4, ConsumeInv
<1>5. CASE UNCHANGED topicVars
  BY <1>5 DEF topicVars, TopicInv, TypeOK, Counted, Unpushed, Nested, Objects, Queued
<1> QED
  BY <1>1, <1>2, <1>3, <1>4, <1>5 DEF Next

\* The inductive invariant holds of every behaviour of the topic.
THEOREM TopicInvariant == Spec => []TopicInv
BY InitInv, NextInv, PTL DEF Spec

-----------------------------------------------------------------------------
(* What holds whoever leaves *)

\* The state of the topic is well formed.
THEOREM TypeCorrect == Spec => []TypeOK
<1>1. TopicInv => TypeOK
  BY DEF TopicInv
<1> QED
  BY <1>1, TopicInvariant, PTL

\* ConsumeQueue never returns a message twice to one subscription, for any
\* number of subscriptions that come, go and return.
THEOREM NeverTwice == Spec => []AtMostOnce
<1>1. TopicInv => AtMostOnce
  BY DEF TopicInv, Counted, AtMostOnce
<1> QED
  BY <1>1, TopicInvariant, PTL

LEMMA InOrderStep ==
    ASSUME TopicInv, [Next]_topicVars, NEW s \in Subs, NEW i \in Objects,
           taken'[i][s] # taken[i][s], NEW j \in Objects, j > i
    PROVE  taken[j][s] = 0
<1> USE TopicAssumption
<1>1. PICK t \in Subs : ConsumeQueue(t)
  BY DEF Next, topicVars, PushQueue, CreateSubscription, RemoveSubscription
<1>2. t = s /\ i \in Consumable(s)
  BY <1>1 DEF ConsumeQueue, TopicInv, TypeOK
<1>3. i \in Queued /\ s \notin seenBy[i]
  BY <1>2 DEF Consumable
<1>4. s \notin seenBy[j]
  <2>1. CASE j \in Queued
    BY <1>3, <2>1 DEF TopicInv, Nested
  <2>2. CASE j \notin Queued
    <3>1. Len(log) \in Nat /\ head \in 0..Len(log)
      BY DEF TopicInv, TypeOK
    <3>2. j > Len(log)
      BY <1>3, <2>2, <3>1 DEF Queued, Objects
    <3> QED
      BY <3>2 DEF TopicInv, Unpushed
  <2> QED
    BY <2>1, <2>2
<1> QED
  BY <1>4 DEF TopicInv, Counted

\* A subscription consumes the messages in the order they were enqueued.
THEOREM Ordered == Spec => InOrder
<1>1. TopicInv /\ [Next]_topicVars =>
         [\A s \in Subs : \A i \in Objects :
            taken'[i][s] # taken[i][s] =>
               \A j \in Objects : j > i => taken[j][s] = 0]_topicVars
  BY InOrderStep
<1> QED
  BY <1>1, TopicInvariant, PTL DEF Spec, InOrder

\* A message is dequeued in a call of ConsumeQueue whose counts agree on it.
LEMMA TrimCounts ==
    ASSUME TopicInv, [Next]_topicVars, NEW i \in head + 1 .. head'
    PROVE  /\ i \in Objects
           /\ subscriptions' = subscriptions
           /\ Cardinality(seenBy'[i]) = Cardinality(subscriptions)
<1> USE TopicAssumption
<1>0. head' # head
  BY DEF TopicInv, TypeOK
<1>1. PICK t \in Subs : ConsumeQueue(t)
  BY <1>0 DEF Next, topicVars, PushQueue, CreateSubscription, RemoveSubscription
<1>2. head' \in Trimmed(seenBy')
  BY <1>0, <1>1 DEF ConsumeQueue
<1>3. head \in Nat /\ Len(log) \in 0..MaxPush /\ head' \in head .. Len(log)
  BY <1>2 DEF Trimmed, TopicInv, TypeOK
<1>4. Cardinality(seenBy'[i]) = Cardinality(subscriptions)
  BY <1>2 DEF Trimmed, Done
<1> QED
  BY <1>1, <1>3, <1>4 DEF ConsumeQueue, Objects

\* Two finite sets of one size, one inside the other, are one set: while every
\* consumer of a message is registered, equal counts mean that all have it.
LEMMA TrimExactStep ==
    ASSUME TopicInv, [Next]_topicVars, NEW i \in head + 1 .. head',
           seenBy'[i] \subseteq subscriptions
    PROVE  subscriptions = seenBy'[i]
<1>1. subscriptions \subseteq Subs /\ IsFiniteSet(subscriptions)
  BY TopicAssumption, FS_Subset DEF TopicInv, TypeOK
<1> QED
  BY <1>1, TrimCounts, FS_Subset

LEMMA MissedStep ==
    ASSUME TopicInv, MissedExplained, [Next]_topicVars
    PROVE  MissedExplained'
<1> USE TopicAssumption
<1> DEFINE Away(t, i) == taken[i][t] > 0 /\ (t \notin subscriptions \/ joined[t] >= i)
<1>1. TopicInv'
  BY NextInv
<1> SUFFICES ASSUME NEW s \in subscriptions', NEW i \in joined'[s] + 1 .. head',
                    taken'[i][s] = 0
             PROVE  \E t \in Subs \ {s} : Away(t, i)'
  BY DEF MissedExplained
<1>2. s \in Subs /\ i \in Objects /\ joined'[s] \in Nat /\ head' \in Nat /\ head \in Nat
  BY <1>1 DEF TopicInv, TypeOK, Objects
<1>3. CASE i \in head + 1 .. head'
  <2>1. s \notin seenBy'[i] /\ subscriptions' = subscriptions
    BY <1>1, <1>2, <1>3, TrimCounts DEF TopicInv, Counted
  <2>2. PICK t \in seenBy'[i] : t \notin subscriptions
    BY <1>3, <2>1, TrimExactStep
  <2>3. t \in Subs /\ taken'[i][t] = 1
    BY <1>1, <1>2, <2>2 DEF TopicInv, TypeOK, Counted
  <2> QED BY <2>1, <2>2, <2>3
<1>4. CASE i \notin head + 1 .. head'
  <2>1. i <= head /\ i \notin Queued
    BY <1>2, <1>4 DEF Queued
  <2>2. s \in subscriptions /\ joined'[s] = joined[s]
    <3>1. CASE \E t \in Subs : CreateSubscription(t)
      <4>1. PICK t \in Subs : CreateSubscription(t)
        BY <3>1
      <4>2. joined'[s] # head
        BY <1>2, <2>1
      <4> QED BY <1>2, <4>1, <4>2 DEF CreateSubscription, TopicInv, TypeOK
    <3>2. CASE subscriptions' \subseteq subscriptions /\ joined' = joined
      BY <3>2
    <3> QED BY <3>1, <3>2 DEF Next, topicVars, PushQueue, ConsumeQueue, RemoveSubscription
  <2>3. \A t \in Subs : taken'[i][t] = taken[i][t]
    <3>1. CASE \E t \in Subs : ConsumeQueue(t)
      BY <1>2, <2>1, <3>1 DEF ConsumeQueue, Consumable
    <3>2. CASE taken' = taken
      BY <3>2
    <3> QED BY <3>1, <3>2 DEF Next, topicVars, PushQueue, CreateSubscription, RemoveSubscription
  <2>4. PICK t \in Subs \ {s} : Away(t, i)
    BY <1>2, <2>1, <2>2, <2>3 DEF MissedExplained
  <2>5. t \notin subscriptions' \/ joined'[t] >= i
    <3>1. CASE \E u \in Subs : CreateSubscription(u)
      <4>1. PICK u \in Subs : CreateSubscription(u)
        BY <3>1
      <4>2. joined'[t] = joined[t] \/ (u = t /\ joined'[t] = head)
        BY <4>1, <2>4 DEF CreateSubscription, TopicInv, TypeOK
      <4>3. t # u => (t \in subscriptions' => t \in subscriptions) /\ joined'[t] = joined[t]
        BY <4>1, <2>4 DEF CreateSubscription, TopicInv, TypeOK
      <4>4. t = u /\ t \in subscriptions => joined'[t] = joined[t]
        BY <4>1 DEF CreateSubscription
      <4>5. t = u /\ t \notin subscriptions => joined'[t] = head
        BY <4>1 DEF CreateSubscription, TopicInv, TypeOK
      <4> QED BY <2>1, <2>4, <4>3, <4>4, <4>5
    <3>2. CASE subscriptions' \subseteq subscriptions /\ joined' = joined
      BY <2>4, <3>2
    <3> QED BY <3>1, <3>2 DEF Next, topicVars, PushQueue, ConsumeQueue, RemoveSubscription
  <2> QED BY <2>3, <2>4, <2>5
<1> QED BY <1>3, <1>4

\* A registered subscription misses a message that was in the queue only where one that
\* had been given the message was away when it was dequeued, for any subscriptions that
\* come, go and return.
THEOREM MissedIsExplained == Spec => []MissedExplained
<1>1. Init => MissedExplained
  BY TopicAssumption DEF Init, MissedExplained
<1>2. TopicInv /\ MissedExplained /\ [Next]_topicVars => MissedExplained'
  BY MissedStep
<1> QED
  BY <1>1, <1>2, TopicInvariant, PTL DEF Spec

-----------------------------------------------------------------------------
(* What holds while nobody leaves *)

LEMMA StayStep ==
    ASSUME Leavers = {}, StayInv, [Next]_topicVars
    PROVE  StayInv'
<1> USE TopicAssumption
<1>1. TopicInv'
  BY NextInv DEF StayInv
<1>2. subscriptions \subseteq subscriptions'
  BY DEF Next, topicVars, PushQueue, CreateSubscription, ConsumeQueue
<1>3. Stayed'
  <2> SUFFICES ASSUME NEW i \in Objects
               PROVE  seenBy'[i] \subseteq subscriptions'
    BY DEF Stayed
  <2>1. seenBy[i] \subseteq subscriptions
    BY DEF StayInv, Stayed
  <2>2. CASE \E s \in Subs : ConsumeQueue(s)
    <3>1. PICK s \in Subs : ConsumeQueue(s)
      BY <2>2
    <3> QED
      BY <1>2, <2>1, <3>1, ConsumeMarks DEF StayInv
  <2>3. CASE seenBy' = seenBy
    BY <1>2, <2>1, <2>3
  <2> QED
    BY <2>2, <2>3 DEF Next, topicVars, PushQueue, CreateSubscription
<1>4. NoMissed'
  <2> SUFFICES ASSUME NEW s \in subscriptions', NEW i \in joined'[s] + 1 .. head'
               PROVE  taken'[i][s] = 1
    BY DEF NoMissed
  <2>1. s \in Subs /\ joined'[s] \in Nat /\ head' \in 0 .. Len(log') /\ i \in Objects
    BY <1>1 DEF TopicInv, TypeOK, Objects
  <2>2. s \in seenBy'[i]
    <3>1. CASE i \in head + 1 .. head'
      BY <1>2, <1>3, <2>1, <3>1, TrimExactStep, TrimCounts DEF StayInv, Stayed
    <3>2. CASE i \notin head + 1 .. head'
      <4>1. i <= head
        BY <2>1, <3>2 DEF StayInv, TopicInv, TypeOK
      <4>2. s \in subscriptions /\ joined'[s] = joined[s]
        <5>1. CASE \E t \in Subs : CreateSubscription(t)
          <6>1. PICK t \in Subs : CreateSubscription(t)
            BY <5>1
          <6>2. joined'[s] # head
            BY <2>1, <4>1 DEF StayInv, TopicInv, TypeOK
          <6> QED
            BY <2>1, <6>1, <6>2 DEF CreateSubscription, StayInv, TopicInv, TypeOK
        <5>2. CASE UNCHANGED <<subscriptions, joined>>
          BY <5>2
        <5> QED
          BY <5>1, <5>2 DEF Next, topicVars, PushQueue, ConsumeQueue
      <4>3. s \in seenBy[i]
        BY <2>1, <4>1, <4>2 DEF StayInv, TopicInv, TypeOK, NoMissed, Counted
      <4>4. CASE \E t \in Subs : ConsumeQueue(t)
        BY <2>1, <4>3, <4>4, ConsumeMarks DEF StayInv
      <4>5. CASE seenBy' = seenBy
        BY <4>3, <4>5
      <4> QED
        BY <4>4, <4>5 DEF Next, topicVars, PushQueue, CreateSubscription
    <3> QED
      BY <3>1, <3>2
  <2> QED
    BY <1>1, <2>1, <2>2 DEF TopicInv, Counted
<1> QED
  BY <1>1, <1>3, <1>4 DEF StayInv

\* As long as no subscription is ever removed, none of them misses a message.
THEOREM NothingMissed == Leavers = {} => (Spec => []NoMissed)
<1> SUFFICES ASSUME Leavers = {}
             PROVE  Spec => []NoMissed
  OBVIOUS
<1>1. Init => StayInv
  BY InitInv DEF Init, StayInv, Stayed, NoMissed, Objects
<1>2. StayInv /\ [Next]_topicVars => StayInv'
  BY StayStep
<1>3. StayInv => NoMissed
  BY DEF StayInv
<1> QED
  BY <1>1, <1>2, <1>3, PTL DEF Spec

\* A message stays in the queue only while somebody has yet to get it.
Wanted == subscriptions # {} => \A i \in Queued : ~(subscriptions \subseteq seenBy[i])

LEMMA WantedStep ==
    ASSUME Leavers = {}, StayInv, StayInv', Wanted, [Next]_topicVars
    PROVE  Wanted'
<1> SUFFICES ASSUME subscriptions' # {}, NEW i \in Queued', subscriptions' \subseteq seenBy'[i]
             PROVE  FALSE
  BY DEF Wanted
<1>1. PICK h \in Nat, n \in Nat : h = head' /\ n = Len(log') /\ n <= MaxPush /\ MaxPush \in Nat
  <2>1. TypeOK'
    BY DEF StayInv, TopicInv
  <2>2. log' \in Seq(Msgs) /\ Len(log') <= MaxPush /\ head' \in 0 .. Len(log')
    BY <2>1 DEF TypeOK
  <2>3. Len(log') \in Nat
    BY <2>2
  <2>4. head' \in Nat
    BY <2>2, <2>3
  <2> QED
    BY <2>2, <2>3, <2>4, TopicAssumption
<1>i. i \in h + 1 .. n
  BY <1>1 DEF Queued
<1>q. Queued' = h + 1 .. n
  BY <1>1 DEF Queued
<1>o. i \in Objects /\ h < n /\ h + 1 \in Queued' /\ h + 1 \in Objects /\ (i = h + 1 \/ h + 1 < i)
  <2>1. h < n /\ i \in 1 .. n /\ h + 1 \in 1 .. n /\ h + 1 \in h + 1 .. n
    BY <1>i
  <2>2. i = h + 1 \/ h + 1 < i
    BY <1>i
  <2>3. 1 .. n \subseteq Objects
    BY <1>1 DEF Objects
  <2> QED
    BY <1>q, <2>1, <2>2, <2>3
<1>2. ASSUME NEW m \in Msgs, PushQueue(m) PROVE FALSE
  <2>1. i \notin Queued
    BY <1>2 DEF Wanted, PushQueue
  <2>2. i > Len(log)
    BY <1>1, <1>i, <1>o, <1>2, <2>1 DEF PushQueue, Queued, StayInv, TopicInv, TypeOK, Objects
  <2> QED
    BY <1>1, <1>i, <1>o, <1>2, <2>2 DEF PushQueue, StayInv, TopicInv, Unpushed
<1>3. ASSUME NEW s \in Subs, CreateSubscription(s) PROVE FALSE
  <2>1. i \in Queued /\ s \in seenBy[i] /\ subscriptions \subseteq seenBy[i]
    BY <1>3 DEF CreateSubscription, Queued
  <2> QED
    BY <1>o, <2>1 DEF Wanted, StayInv, Stayed
<1>4. ASSUME NEW s \in Subs, ConsumeQueue(s) PROVE FALSE
  <2>1. seenBy'[i] = subscriptions' /\ subscriptions' = subscriptions /\ log' = log
    BY <1>o, <1>4 DEF StayInv, Stayed, ConsumeQueue
  <2>2. CASE s \in subscriptions
    <3>1. head' \in Trimmed(seenBy')
      BY <1>4, <2>2 DEF ConsumeQueue
    <3>2. head' < Len(log)
      BY <1>1, <1>o, <2>1
    <3>3. Cardinality(seenBy'[head' + 1]) # Cardinality(subscriptions)
      BY <3>1, <3>2 DEF Trimmed, Done
    <3>4. head' + 1 \in Queued' /\ head' + 1 \in Objects
      BY <1>1, <1>o
    <3>5. seenBy'[i] \subseteq seenBy'[head' + 1]
      <4>1. i = head' + 1 \/ head' + 1 < i
        BY <1>1, <1>o
      <4> QED
        BY <3>4, <4>1 DEF StayInv, TopicInv, Nested
    <3>6. seenBy'[head' + 1] \subseteq subscriptions'
      BY <3>4 DEF StayInv, Stayed
    <3> QED
      BY <2>1, <3>3, <3>5, <3>6
  <2>3. CASE s \notin subscriptions
    <3>1. head' = head /\ \A j \in Objects : seenBy'[j] = seenBy[j]
      BY <1>4, <2>3 DEF ConsumeQueue, Consumable
    <3> QED
      BY <1>o, <2>1, <3>1 DEF Wanted, Queued
  <2> QED
    BY <2>2, <2>3
<1>5. CASE UNCHANGED topicVars
  BY <1>5 DEF topicVars, Queued, Wanted
<1> QED
  BY <1>2, <1>3, <1>4, <1>5 DEF Next

\* As long as no subscription is ever removed, the loop at the end of ConsumeQueue leaves no
\* message behind that everybody has: what is in the queue is wanted by somebody who is
\* registered, so no count passes the number of subscriptions and holds up the queue.
THEOREM NothingLingers == Leavers = {} => (Spec => []Wanted)
<1> SUFFICES ASSUME Leavers = {}
             PROVE  Spec => []Wanted
  OBVIOUS
<1>1. Init => StayInv /\ Wanted
  BY InitInv DEF Init, StayInv, Stayed, NoMissed, Objects, Wanted
<1>2. StayInv /\ [Next]_topicVars => StayInv'
  BY StayStep
<1>3. StayInv /\ StayInv' /\ Wanted /\ [Next]_topicVars => Wanted'
  BY WantedStep
<1> QED
  BY <1>1, <1>2, <1>3, PTL DEF Spec
-----------------------------------------------------------------------------
(* The promise, while nobody leaves *)

\* What a subscription has seen came after it registered, which it did before the
\* head of the queue got where it is.
Since ==
    \A s \in subscriptions :
       joined[s] <= head /\ \A i \in Objects : s \in seenBy[i] => i > joined[s]

LEMMA SinceStep ==
    ASSUME Leavers = {}, StayInv, Since, [Next]_topicVars
    PROVE  Since'
<1> USE TopicAssumption
<1>1. CASE \E m \in Msgs : PushQueue(m)
  BY <1>1 DEF Since, PushQueue, Objects
<1>2. ASSUME NEW s \in Subs, CreateSubscription(s)
      PROVE  Since'
  <2> SUFFICES ASSUME NEW t \in subscriptions'
               PROVE  joined'[t] <= head /\ \A i \in Objects : t \in seenBy[i] => i > joined'[t]
    BY <1>2 DEF Since, CreateSubscription, Objects
  <2>1. CASE t \in subscriptions
    BY <1>2, <2>1 DEF CreateSubscription, Since, StayInv, TopicInv, TypeOK
  <2>2. CASE t \notin subscriptions
    <3>1. t = s /\ joined'[t] = head /\ head \in Nat
      BY <1>2, <2>2 DEF CreateSubscription, StayInv, TopicInv, TypeOK
    <3>2. \A i \in Objects : t \notin seenBy[i]
      BY <2>2 DEF StayInv, Stayed
    <3> QED
      BY <3>1, <3>2
  <2> QED
    BY <2>1, <2>2
<1>3. ASSUME NEW s \in Subs, ConsumeQueue(s)
      PROVE  Since'
  <2> SUFFICES ASSUME NEW t \in subscriptions
               PROVE  joined[t] <= head' /\ \A i \in Objects : t \in seenBy'[i] => i > joined[t]
    BY <1>3 DEF Since, ConsumeQueue, Objects
  <2>1. head \in Nat /\ Len(log) \in Nat /\ head' \in Nat /\ head <= head' /\ joined[t] \in Nat
    BY <1>3 DEF ConsumeQueue, Trimmed, StayInv, TopicInv, TypeOK
  <2>2. joined[t] <= head
    BY DEF Since
  <2>3. ASSUME NEW i \in Objects, t \in seenBy'[i]
        PROVE  i > joined[t]
    <3>1. CASE t \in seenBy[i]
      BY <3>1 DEF Since
    <3>2. CASE i \in Queued
      BY <2>1, <2>2, <3>2 DEF Queued
    <3> QED
      BY <1>3, <2>3, <3>1, <3>2, ConsumeMarks DEF StayInv
  <2> QED
    BY <2>1, <2>2, <2>3
<1>4. CASE UNCHANGED topicVars
  BY <1>4 DEF topicVars, Since, Objects
<1> QED
  BY <1>1, <1>2, <1>3, <1>4 DEF Next

\* A call of ConsumeQueue completes what its subscription has been given to all
\* that has come since it registered.
LEMMA ConsumeDelivers ==
    ASSUME StayInv, Since, NEW s \in Subs, ConsumeQueue(s), s \in subscriptions
    PROVE  {i \in Objects : taken'[i][s] > 0} = joined[s] + 1 .. Len(log)
<1>1. head \in Nat /\ Len(log) \in Nat /\ head <= Len(log) /\ joined[s] \in Nat
      /\ Len(log) <= MaxPush /\ MaxPush \in Nat
  BY TopicAssumption DEF StayInv, TopicInv, TypeOK
<1>2. \A i \in Objects : taken'[i][s] > 0 <=> s \in seenBy'[i]
  BY ConsumeInv DEF StayInv, TopicInv, Counted
<1>3. ASSUME NEW i \in Objects
      PROVE  s \in seenBy'[i] <=> i \in joined[s] + 1 .. Len(log)
  <2>1. i \in Nat
    BY DEF Objects
  <2>2. joined[s] <= head /\ (s \in seenBy[i] => i > joined[s])
    BY DEF Since
  <2>3. s \in seenBy[i] => i <= Len(log)
    BY <1>1, <2>1 DEF StayInv, TopicInv, Unpushed
  <2>4. i \in joined[s] + 1 .. head => s \in seenBy[i]
    <3> SUFFICES ASSUME i \in joined[s] + 1 .. head
                 PROVE  s \in seenBy[i]
      OBVIOUS
    <3>1. taken[i][s] = 1
      BY DEF StayInv, NoMissed
    <3> QED
      BY <3>1 DEF StayInv, TopicInv, Counted
  <2>5. s \in seenBy'[i] <=> (s \in seenBy[i] \/ i \in Queued)
    BY ConsumeMarks DEF StayInv
  <2> QED
    BY <1>1, <2>1, <2>2, <2>3, <2>4, <2>5 DEF Queued
<1>4. joined[s] + 1 .. Len(log) \subseteq Objects
  BY <1>1 DEF Objects
<1> QED
  BY <1>2, <1>3, <1>4

LEMMA PromiseInit == Init => Promise!Init
BY DEF Init, Promise!Init, Objects

LEMMA PromiseStep ==
    ASSUME Leavers = {}, StayInv, Since, [Next]_topicVars
    PROVE  [Promise!Next]_Promise!vars
<1> USE TopicAssumption
<1>1. ASSUME NEW m \in Msgs, PushQueue(m)
      PROVE  [Promise!Next]_Promise!vars
  <2>1. CASE log' = log
    BY <1>1, <2>1 DEF PushQueue, Promise!vars, Objects
  <2>2. CASE log' = Append(log, m)
    <3>1. Promise!Publish
      BY <1>1, <2>2 DEF PushQueue, Promise!Publish, Objects
    <3> QED
      BY <3>1 DEF Promise!Next
  <2> QED
    BY <1>1, <2>1, <2>2 DEF PushQueue
<1>2. ASSUME NEW s \in Subs, CreateSubscription(s)
      PROVE  [Promise!Next]_Promise!vars
  <2>1. CASE s \in subscriptions
    <3>1. UNCHANGED topicVars
      BY <1>2, <2>1 DEF CreateSubscription, topicVars
    <3> QED
      BY <3>1 DEF topicVars, Promise!vars, Objects
  <2>2. CASE s \notin subscriptions
    <3>1. head \in 0 .. Len(log)
      BY DEF StayInv, TopicInv, TypeOK
    <3>2. subscriptions' = subscriptions \cup {s} /\ joined' = [joined EXCEPT ![s] = head]
      BY <1>2, <2>2 DEF CreateSubscription
    <3>3. joined \in [Subs -> 0..MaxPush]
      BY DEF StayInv, TopicInv, TypeOK
    <3> DEFINE From == [t \in Subs |-> IF t \in subscriptions THEN joined[t] ELSE MaxPush + 1]
    <3>4. From' = [From EXCEPT ![s] = head]
      <4>1. \A t \in Subs : From'[t] = IF t = s THEN head ELSE From[t]
        BY <3>2, <3>3
      <4> QED
        BY <4>1
    <3>5. From[s] = MaxPush + 1
      BY <2>2
    <3>6. Promise!Join(s)
      BY <1>2, <3>1, <3>4, <3>5 DEF Promise!Join, CreateSubscription, Objects
    <3> QED
      BY <3>6 DEF Promise!Next
  <2> QED
    BY <2>1, <2>2
<1>3. ASSUME NEW s \in Subs, ConsumeQueue(s)
      PROVE  [Promise!Next]_Promise!vars
  <2> DEFINE Given == [t \in Subs |-> {i \in Objects : taken[i][t] > 0}]
  <2>1. CASE s \notin subscriptions
    <3>1. taken' = taken
      BY <1>3, <2>1 DEF ConsumeQueue, Consumable, StayInv, TopicInv, TypeOK
    <3> QED
      BY <1>3, <3>1 DEF ConsumeQueue, Promise!vars, Objects
  <2>2. CASE s \in subscriptions
    <3>1. Given'[s] = joined[s] + 1 .. Len(log)
      <4>1. {i \in Objects : taken'[i][s] > 0} = joined[s] + 1 .. Len(log)
        BY <1>3, <2>2, ConsumeDelivers
      <4> QED
        BY <4>1 DEF Objects
    <3>2. \A t \in Subs : t # s => Given'[t] = Given[t]
      <4> SUFFICES ASSUME NEW t \in Subs, t # s
                   PROVE  Given'[t] = Given[t]
        OBVIOUS
      <4>1. \A i \in Objects : taken'[i][t] = taken[i][t]
        BY <1>3 DEF ConsumeQueue, StayInv, TopicInv, TypeOK
      <4> QED
        BY <4>1 DEF Objects
    <3>3. Given' = [Given EXCEPT ![s] = joined[s] + 1 .. Len(log)]
      BY <3>1, <3>2
    <3>4. joined[s] # MaxPush + 1
      BY DEF StayInv, TopicInv, TypeOK
    <3>5. Promise!Deliver(s)
      BY <1>3, <2>2, <3>3, <3>4 DEF ConsumeQueue, Promise!Deliver
    <3> QED
      BY <3>5 DEF Promise!Next
  <2> QED
    BY <2>1, <2>2
<1>4. CASE UNCHANGED topicVars
  BY <1>4 DEF topicVars, Promise!vars, Objects
<1> QED
  BY <1>1, <1>2, <1>3, <1>4 DEF Next

\* As long as no subscription is ever removed, every step of the topic is one of the
\* abstract topic or none: a subscription is given all that came since it registered,
\* each message once, in batches without a gap.
THEOREM ImplementsPromise == Leavers = {} => (Spec => Promise!Spec)
<1> SUFFICES ASSUME Leavers = {}
             PROVE  Spec => Promise!Spec
  OBVIOUS
<1>1. Init => StayInv /\ Since
  BY InitInv DEF Init, StayInv, Stayed, NoMissed, Since, Objects
<1>2. StayInv /\ Since /\ [Next]_topicVars => (StayInv /\ Since)'
  BY StayStep, SinceStep
<1>3. StayInv /\ Since /\ [Next]_topicVars => [Promise!Next]_Promise!vars
  BY PromiseStep
<1> QED
  BY <1>1, <1>2, <1>3, PromiseInit, PTL DEF Spec, Promise!Spec
=============================================================================
