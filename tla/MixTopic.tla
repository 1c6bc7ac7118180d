------------------------------ MODULE MixTopic ------------------------------
(***************************************************************************)
(* One topic of the Mixcore message broker: the class MixTopicModel of     *)
(* src/platform/mix.queue/Models, which keeps the messages of the topic,   *)
(* the subscriptions of the topic, and in every message the list of the    *)
(* subscriptions that have consumed it.                                    *)
(*                                                                         *)
(* A call on the topic is one step here.  The calls take no lock; what the *)
(* interleaving of their lines can do is the subject of MixTopicRaces.     *)
(*                                                                         *)
(* Messages is a ConcurrentQueue.  The model keeps the whole history of    *)
(* the queue: log[i] is the i-th message ever enqueued, the first `head'   *)
(* of them have been dequeued, and the others are in the queue.            *)
(***************************************************************************)
EXTENDS Integers, Sequences, FiniteSets

CONSTANTS Msgs,     \* the ids a published message can carry
          Subs,     \* the subscription ids
          Leavers,  \* the subscriptions that may be removed from the topic
          MaxPush   \* bound: how many messages are ever enqueued

ASSUME TopicAssumption ==
    /\ IsFiniteSet(Subs)
    /\ Leavers \subseteq Subs
    /\ MaxPush \in Nat

VARIABLES log,            \* ids of the messages ever enqueued, oldest first
          head,           \* how many of them have been dequeued
          seenBy,         \* seenBy[i]: the Subscriptions list of message i
          subscriptions,  \* the Subscriptions dictionary of the topic
          joined,         \* history: joined[s] is head when s last registered
          taken           \* history: taken[i][s] counts the calls that gave i to s

topicVars == <<log, head, seenBy, subscriptions, joined, taken>>

Objects == 1..MaxPush

\* The messages in the queue, as positions of the log.
Queued == head + 1 .. Len(log)

TypeOK ==
    /\ log \in Seq(Msgs)
    /\ Len(log) <= MaxPush
    /\ head \in 0..Len(log)
    /\ seenBy \in [Objects -> SUBSET Subs]
    /\ subscriptions \subseteq Subs
    /\ joined \in [Subs -> 0..MaxPush]
    /\ taken \in [Objects -> [Subs -> Nat]]

Init ==
    /\ log = <<>>
    /\ head = 0
    /\ seenBy = [i \in Objects |-> {}]
    /\ subscriptions = {}
    /\ joined = [s \in Subs |-> 0]
    /\ taken = [i \in Objects |-> [s \in Subs |-> 0]]

-----------------------------------------------------------------------------
(* The operations *)

\* A message whose id is already in the queue is not enqueued again.  One
\* that was dequeued meanwhile is: the topic does not remember it.
PushQueue(m) ==
    /\ Len(log) < MaxPush
    /\ log' = IF \E i \in Queued : log[i] = m THEN log ELSE Append(log, m)
    /\ UNCHANGED <<head, seenBy, subscriptions, joined, taken>>

\* Registering again is a lookup.
CreateSubscription(s) ==
    /\ subscriptions' = subscriptions \cup {s}
    /\ joined' = IF s \in subscriptions THEN joined ELSE [joined EXCEPT ![s] = head]
    /\ UNCHANGED <<log, head, seenBy, taken>>

\* The messages s has consumed keep s in their lists.
RemoveSubscription(s) ==
    /\ subscriptions' = subscriptions \ {s}
    /\ UNCHANGED <<log, head, seenBy, joined, taken>>

\* What a call of ConsumeQueue returns to s.  The counter that should stop
\* the loop at `length' messages is never advanced, so all of them are taken.
\* (The three definitions before Consumable are mistakes the scan could make,
\* kept to see that the properties below notice them; so are those before Done.)
AllQueued(s) == IF s \in subscriptions THEN Queued ELSE {}
OldestSkipped(s) ==
    IF s \in subscriptions THEN {i \in Queued : i > head + 1 /\ s \notin seenBy[i]} ELSE {}
NewestOnly(s) ==
    IF s \in subscriptions
    THEN {i \in Queued : s \notin seenBy[i] /\ \A j \in i + 1 .. Len(log) : s \in seenBy[j]}
    ELSE {}
Consumable(s) ==
    IF s \in subscriptions THEN {i \in Queued : s \notin seenBy[i]} ELSE {}

\* The loop at the end of ConsumeQueue dequeues a message that has been consumed
\* by as many subscriptions as the topic has.
SeenByOne(seen, i)   == seen[i] # {}
SeenByMore(seen, i)  == Cardinality(seen[i]) > Cardinality(subscriptions)
AllButOne(seen, i)   == Cardinality(seen[i]) + 1 >= Cardinality(subscriptions)
Done(seen, i) == Cardinality(seen[i]) = Cardinality(subscriptions)

\* Where the loop stops: at the end of the queue or at a message not done with.
Trimmed(seen) ==
    {h \in head .. Len(log) :
        /\ \A i \in head + 1 .. h : Done(seen, i)
        /\ h < Len(log) => ~Done(seen, h + 1)}

ConsumeQueue(s) ==
    LET batch == Consumable(s)
        seen  == [i \in Objects |-> IF i \in batch THEN seenBy[i] \cup {s} ELSE seenBy[i]]
    IN  /\ seenBy' = seen
        /\ taken' = [i \in Objects |-> IF i \in batch
                                       THEN [taken[i] EXCEPT ![s] = @ + 1]
                                       ELSE taken[i]]
        /\ head' \in IF s \in subscriptions THEN Trimmed(seen) ELSE {head}
        /\ UNCHANGED <<log, subscriptions, joined>>

Next ==
    \/ \E m \in Msgs : PushQueue(m)
    \/ \E s \in Subs : CreateSubscription(s)
    \/ \E s \in Leavers : RemoveSubscription(s)
    \/ \E s \in Subs : ConsumeQueue(s)

Spec == Init /\ [][Next]_topicVars

\* The stream of every subscription polls the topic once a second for as long
\* as it lives (GrpcStreamingService.CreateSubscription).
Fairness == \A s \in Subs : WF_topicVars(ConsumeQueue(s))

FairSpec == Spec /\ Fairness

-----------------------------------------------------------------------------
(* What the topic has to guarantee *)

\* No message is handed to the same subscription twice, whatever other
\* subscriptions do, leave or come back between the calls of ConsumeQueue.
AtMostOnce == \A i \in Objects, s \in Subs : taken[i][s] <= 1

\* A subscription that stays gets every message that was in the queue when it
\* registered or came later: none is dequeued before it has consumed it.
NoMissed ==
    \A s \in subscriptions : \A i \in joined[s] + 1 .. head : taken[i][s] = 1

\* The messages of a subscription come in the order of the queue: no call
\* returns a message older than one an earlier call returned.
InOrder ==
    [][ \A s \in Subs : \A i \in Objects :
          taken'[i][s] # taken[i][s] =>
             \A j \in Objects : j > i => taken[j][s] = 0 ]_topicVars

\* Where subscriptions leave and come back, the counts ConsumeQueue compares can
\* agree on a message somebody registered has never been given.  Who has missed a
\* message for that reason can name another subscription that was given it, and had
\* left when it was dequeued: it is away still, or has registered again since.
\* Joining, polling and pushing cost nobody a message.
MissedExplained ==
    \A s \in subscriptions : \A i \in joined[s] + 1 .. head :
       taken[i][s] = 0 =>
          \E t \in Subs \ {s} : taken[i][t] > 0 /\ (t \notin subscriptions \/ joined[t] >= i)

\* Every message is eventually dequeued once somebody is registered: the
\* counts meet, whoever joins while the message is in the queue.
Drains ==
    \A i \in Objects : (i <= Len(log) /\ subscriptions # {}) ~> (head >= i)

-----------------------------------------------------------------------------
(* What it implements *)

\* The promise of the topic, read off its state: a subscription joins where
\* the queue began when it registered, and has been given what was taken for it.
Promise == INSTANCE TopicPromise WITH
    published <- log,
    Nobody    <- MaxPush + 1,
    from      <- [s \in Subs |-> IF s \in subscriptions THEN joined[s] ELSE MaxPush + 1],
    given     <- [s \in Subs |-> {i \in Objects : taken[i][s] > 0}]

\* While no subscription is removed, the topic keeps its promise: batches
\* without a gap, and every subscription is eventually given every message.
KeepsPromise == Promise!FairSpec
=============================================================================
