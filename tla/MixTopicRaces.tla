--------------------------- MODULE MixTopicRaces ---------------------------
(***************************************************************************)
(* The calls PushQueue and ConsumeQueue of MixTopicModel line by line, as  *)
(* two loops of the broker and the gRPC calls of publishers execute them   *)
(* at the same time.  The queue of messages is a ConcurrentQueue and each  *)
(* single operation on it is atomic; nothing else is: between a look at    *)
(* the head of the queue and the TryDequeue that follows, another call may *)
(* enqueue or dequeue, and the list of consumers inside a message is a     *)
(* plain List.  Which subscription each loop polls for is fixed from the   *)
(* start: loops may poll for different subscriptions, or several for one,  *)
(* which is the case of a client that has reconnected.                     *)
(*                                                                         *)
(* List.Add reads the size of the list and then writes the slot and the    *)
(* new size, so of two calls that overlap one can undo the other.  (While  *)
(* an array grows, or between the writing of the size and of the slot, a   *)
(* search of the list can meet an empty slot and fail; that is left out.)  *)
(***************************************************************************)
EXTENDS Integers, Sequences, FiniteSets

CONSTANTS Msgs, Publishers, Consumers,
          Subs,         \* the subscription ids
          Assignments,  \* the ways in which some consumers may poll for subscriptions
          Limit,        \* bound: how many messages are enqueued under each of them
          Idle,         \* a publisher that is not in a call
          MaxPush       \* the largest of these bounds

ASSUME RacesAssumption ==
    /\ IsFiniteSet(Subs)
    /\ \A f \in Assignments : \E C \in SUBSET Consumers : f \in [C -> Subs]
    /\ Limit \in [Assignments -> 0..MaxPush]
    /\ Idle \notin Msgs
    /\ MaxPush \in Nat

VARIABLES subOf,         \* subOf[c]: the subscription consumer c polls for
          log, head,     \* the queue, as in MixTopic
          items, count,  \* the Subscriptions list of each message: its slots, and its size
          pushing,       \* pushing[p]: the id p has found to be new
          pc,            \* pc[c]: the line consumer c is at
          at,            \* at[c]: the message it has looked up, or 0
          size,          \* size[c]: the list size its List.Add has read
          taken,         \* history: how often i has been returned to s
          unchecked,     \* history: dequeued by a TryDequeue that looked at another
          undone,        \* history: <<i, s>> where the list of i lost its entry of s
          beside,        \* history: <<i, s>> where two loops of s were adding to i at once
          skipped,       \* history: messages whose list was written behind its end
          together       \* history: ids that two publishers found to be new at once

queue == <<log, head>>
lists == <<items, count>>
accidents == <<undone, beside, skipped>>
vars == <<subOf, queue, lists, pushing, pc, at, size, taken, unchecked, accidents, together>>

Objects == 1..MaxPush
Queued == head + 1 .. Len(log)

\* What a search of the Subscriptions list of message i finds.
Entries(i) == {items[i][k] : k \in 1 .. count[i]}

\* The consumers that poll, and the subscriptions of the topic.
Loops == DOMAIN subOf
Registered == {subOf[c] : c \in Loops}

TypeOK ==
    /\ subOf \in Assignments
    /\ log \in Seq(Msgs)
    /\ head \in 0..Len(log)
    /\ items \in [Objects -> Seq(Subs)]
    /\ count \in [Objects -> Nat]
    /\ pushing \in [Publishers -> Msgs \cup {Idle}]
    /\ pc \in [Consumers -> {"start", "purge", "enter", "scan", "mark", "read", "add", "trim", "dequeue"}]
    /\ at \in [Consumers -> 0..MaxPush]
    /\ size \in [Consumers -> Nat]
    /\ taken \in [Objects -> [Subs -> Nat]]
    /\ unchecked \subseteq Objects
    /\ undone \subseteq Objects \X Subs
    /\ beside \subseteq Objects \X Subs
    /\ skipped \subseteq Objects
    /\ together \subseteq Msgs

Init ==
    /\ subOf \in Assignments
    /\ log = <<>>
    /\ head = 0
    /\ items = [i \in Objects |-> <<>>]
    /\ count = [i \in Objects |-> 0]
    /\ pushing = [p \in Publishers |-> Idle]
    /\ pc = [c \in Consumers |-> "start"]
    /\ at = [c \in Consumers |-> 0]
    /\ size = [c \in Consumers |-> 0]
    /\ taken = [i \in Objects |-> [s \in Subs |-> 0]]
    /\ unchecked = {}
    /\ undone = {}
    /\ beside = {}
    /\ skipped = {}
    /\ together = {}

-----------------------------------------------------------------------------
(* PushQueue *)

InQueueUnread(m) == \E i \in Queued : log[i] = m /\ count[i] = 0 \* (a mistake)
InQueue(m) == \E i \in Queued : log[i] = m

\* The id is not in the queue.  (When it is, the call returns.)
PushCheck(p, m) ==
    /\ pushing[p] = Idle
    /\ ~InQueue(m)
    /\ pushing' = [pushing EXCEPT ![p] = m]
    /\ together' = IF \E o \in Publishers : pushing[o] = m THEN together \cup {m} ELSE together
    /\ UNCHANGED <<subOf, queue, lists, pc, at, size, taken, unchecked, accidents>>

PushEnqueue(p) ==
    /\ pushing[p] # Idle
    /\ Len(log) < Limit[subOf]
    /\ log' = Append(log, pushing[p])
    /\ pushing' = [pushing EXCEPT ![p] = Idle]
    /\ UNCHANGED <<subOf, head, lists, pc, at, size, taken, unchecked, accidents, together>>

-----------------------------------------------------------------------------
(* ConsumeQueue *)

Goto(c, l) == pc' = [pc EXCEPT ![c] = l]

\* (A mistake: the queue is taken not to be empty.)
DequeueBlindly(c) == head' = head + 1 /\ UNCHANGED unchecked

\* TryDequeue on behalf of c, which has looked at the message at[c], or at an
\* empty queue when at[c] is 0.
TryDequeue(c) ==
    /\ head' = IF Queued = {} THEN head ELSE head + 1
    /\ unchecked' = IF Queued # {} /\ head + 1 # at[c]
                    THEN unchecked \cup {head + 1} ELSE unchecked

\* Is there a message at all?  If not, a TryDequeue that should find nothing.
Start(c) ==
    /\ pc[c] = "start"
    /\ Goto(c, IF Queued = {} THEN "purge" ELSE "enter")
    /\ UNCHANGED <<subOf, queue, lists, pushing, at, size, taken, unchecked, accidents, together>>

Purge(c) ==
    /\ pc[c] = "purge"
    /\ TryDequeue(c)
    /\ Goto(c, "enter")
    /\ UNCHANGED <<subOf, log, lists, pushing, at, size, taken, accidents, together>>

Enter(c) ==
    /\ pc[c] = "enter"
    /\ Goto(c, IF Queued = {} THEN "start" ELSE "scan")
    /\ UNCHANGED <<subOf, queue, lists, pushing, at, size, taken, unchecked, accidents, together>>

\* The first message in the queue whose list does not have the subscription.
Unseen(c) == {i \in Queued : subOf[c] \notin Entries(i)}

Scan(c) ==
    /\ pc[c] = "scan"
    /\ \/ Unseen(c) = {} /\ Goto(c, "trim") /\ UNCHANGED at
       \/ \E i \in Unseen(c) :
            /\ \A j \in Unseen(c) : i <= j
            /\ Goto(c, "mark")
            /\ at' = [at EXCEPT ![c] = i]
    /\ UNCHANGED <<subOf, queue, lists, pushing, size, taken, unchecked, accidents, together>>

\* The loops that are between the second search and the end of List.Add.
Adding(c) == pc[c] \in {"read", "add"}

\* The list is searched again.
NeverListed(c) == FALSE \* (a mistake: no second search)
Listed(c) == subOf[c] \in Entries(at[c])

Mark(c) ==
    /\ pc[c] = "mark"
    /\ IF Listed(c)
       THEN Goto(c, "scan") /\ at' = [at EXCEPT ![c] = 0] /\ UNCHANGED beside
       ELSE /\ Goto(c, "read")
            /\ UNCHANGED at
            /\ beside' = IF \E d \in Loops : Adding(d) /\ at[d] = at[c] /\ subOf[d] = subOf[c]
                         THEN beside \cup {<<at[c], subOf[c]>>} ELSE beside
    /\ UNCHANGED <<subOf, queue, lists, pushing, size, taken, unchecked, undone, skipped, together>>

\* List.Add begins.
ReadSize(c) ==
    /\ pc[c] = "read"
    /\ Goto(c, "add")
    /\ size' = [size EXCEPT ![c] = count[at[c]]]
    /\ UNCHANGED <<subOf, queue, lists, pushing, at, taken, unchecked, accidents, together>>

\* The slots q after an Add that read the size n.
Added(q, n, s) == IF n < Len(q) THEN [q EXCEPT ![n + 1] = s] ELSE Append(q, s)

\* The entries of message i that an Add undoes when it has read the size n.
Undone(i, n) == {items[i][k] : k \in n + 1 .. count[i]}

Add(c) ==
    LET i == at[c]
        n == size[c]
    IN  /\ pc[c] = "add"
        /\ items' = [items EXCEPT ![i] = Added(@, n, subOf[c])]
        /\ count' = [count EXCEPT ![i] = n + 1]
        /\ undone' = undone \cup {<<i, s>> : s \in Undone(i, n)}
        /\ skipped' = IF n > count[i] THEN skipped \cup {i} ELSE skipped
        /\ taken' = [taken EXCEPT ![i][subOf[c]] = @ + 1]
        /\ Goto(c, "scan")
        /\ at' = [at EXCEPT ![c] = 0]
        /\ size' = [size EXCEPT ![c] = 0]
        /\ UNCHANGED <<subOf, queue, pushing, unchecked, beside, together>>

\* Has the oldest message been consumed by as many as there are subscriptions?
\* (OneShort and OneMore are mistakes of this comparison.)
OneShort(i) == count[i] >= Cardinality(Registered) - 1
OneMore(i)  == count[i] = Cardinality(Registered) + 1
Full(i) == count[i] = Cardinality(Registered)

Trim(c) ==
    /\ pc[c] = "trim"
    /\ IF Queued # {} /\ Full(head + 1)
       THEN Goto(c, "dequeue") /\ at' = [at EXCEPT ![c] = head + 1]
       ELSE Goto(c, "start") /\ UNCHANGED at
    /\ UNCHANGED <<subOf, queue, lists, pushing, size, taken, unchecked, accidents, together>>

Dequeue(c) ==
    /\ pc[c] = "dequeue"
    /\ TryDequeue(c)
    /\ Goto(c, "trim")
    /\ at' = [at EXCEPT ![c] = 0]
    /\ UNCHANGED <<subOf, log, lists, pushing, size, taken, accidents, together>>

Consume(c) ==
    /\ c \in Loops
    /\ \/ Start(c) \/ Purge(c) \/ Enter(c)
       \/ Scan(c) \/ Mark(c) \/ ReadSize(c) \/ Add(c)
       \/ Trim(c) \/ Dequeue(c)

Next ==
    \/ \E p \in Publishers : PushEnqueue(p) \/ \E m \in Msgs : PushCheck(p, m)
    \/ \E c \in Consumers : Consume(c)

Spec == Init /\ [][Next]_vars

\* Every loop polls again and again, and a call once begun is executed to its end.
FairSpec == Spec /\ \A c \in Consumers : WF_vars(Consume(c))

-----------------------------------------------------------------------------

\* Two loops of one subscription that both find it missing enter it twice, and a
\* count that includes it twice says nothing any more; nor does one that includes
\* slots behind the end of a list.
Miscounted(i) == i \in skipped \/ \E s \in Subs : <<i, s>> \in beside

\* A message leaves the queue before a subscription has consumed it only through
\* a TryDequeue that hit another message than the one looked at (the one that
\* follows a look at an empty queue, or the one of two loops that both saw the same
\* message done), or when its list was miscounted.  An entry that is undone by
\* another subscription's does no harm of this kind.
GoneWhenTaken ==
    \A i \in 1 .. head :
       i \in unchecked \/ Miscounted(i) \/ \A s \in Registered : taken[i][s] > 0

\* The queue never holds two messages with one id, unless two publishers found the
\* id to be new at the same time: then both enqueue it.
TwinsPushedTogether ==
    \A i, j \in Queued : (i # j /\ log[i] = log[j]) => log[i] \in together

\* A subscription gets a message twice only if its own entry in the list of the
\* message was undone, or if two loops of its own were adding it at the same time.
TwiceOnlyIfUndone ==
    \A i \in Objects, s \in Subs : taken[i][s] > 1 => <<i, s>> \in undone \cup beside

\* No race leaves a message in the queue for ever, since the lists fill up again,
\* but for one: a list with a subscription in it twice may get longer than there
\* are subscriptions, and blocks the queue behind its message.
Drains ==
    \A i \in Objects : (i <= Len(log)) ~> (head >= i \/ \E j \in 1 .. i : Miscounted(j))
=============================================================================
