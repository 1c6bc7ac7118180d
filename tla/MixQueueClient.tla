--------------------------- MODULE MixQueueClient ---------------------------
(***************************************************************************)
(* What happens to a message in the processes that use the broker: the     *)
(* memory queues it is pushed to (MemoryQueueService), the loops that take *)
(* batches from them and publish them (PublisherBase, MixQueuePublisher),  *)
(* the subscribers that acknowledge and handle it (MixQueueSubscriber,     *)
(* SubscriberBase), and the queue log, whose subscriber (MixLogSubscriber) *)
(* keeps a row per message with the state the reports give it              *)
(* (MixQueueLogService).  The reports travel through the same machinery,   *)
(* on a topic of their own.                                                *)
(*                                                                         *)
(* The broker is what TopicPromise says of it: each subscription of the    *)
(* topic gets what is published, once and in order.  Its own failures are  *)
(* in MixMqServer; here a call of Publish can fail, and a process can stop *)
(* and start again.                                                        *)
(***************************************************************************)
EXTENDS Integers, Sequences, FiniteSets

CONSTANTS Procs,       \* processes: one MemoryQueueService each
          Subs,        \* the subscriptions of the application's topic
          Msgs,        \* messages of the application
          Home,        \* Home[m]: the process that pushes m
          ProcOf,      \* ProcOf[s]: the process the subscriber s runs in
          MaxBatch,    \* MaxConsumeLength
          MaxFailures, \* bound: failed calls of Publish, and failed row updates
          MaxCrashes     \* bound: how often a process crashes and starts again

Logger == "MixLogSubscriber"
Idle == "idle"

ASSUME ClientAssumption ==
    /\ IsFiniteSet(Subs) /\ Logger \notin Subs
    /\ Home \in [Msgs -> Procs]
    /\ ProcOf \in [Subs -> Procs]
    /\ MaxBatch \in Nat \ {0}
    /\ MaxFailures \in Nat /\ MaxCrashes \in Nat

VARIABLES memory,    \* memory[q]: the queue of q = <<process, topic>>
          sending,   \* sending[q]: what is left of the batch being published
          unlogged,  \* pushed, but EnqueueLog has not been called
          inbox,     \* inbox[s]: published and not yet read by s
          handling,  \* handling[s]: the message s has acknowledged
          row,       \* row[m]: the State of the row of m in the queue log
          failures, crashes,
          pushed,    \* history: the messages in the order of the pushes
          got,       \* history: got[s]: the messages s has read
          dropped,   \* history: items that were lost
          late,      \* history: <<m, s>>: s has read m before EnqueueLog
          unmatched  \* history: <<m, s>>: a report of s has found no row of m

vars == <<memory, sending, unlogged, inbox, handling, row, failures, crashes,
          pushed, got, dropped, late, unmatched>>

Queues == Procs \X {"app", "log"}

\* What the queues hold: a message (of its process) or a report on it (of the
\* process that pushed it or of a subscriber).
Item(action, m, from) == [action |-> action, msg |-> m, from |-> from]
Items == [action : {"work", "enqueue", "ack", "deadletter", "failed"},
          msg : Msgs, from : Procs \cup Subs]

Elements(q) == {q[k] : k \in DOMAIN q}

TypeOK ==
    /\ memory \in [Queues -> Seq(Items)]
    /\ sending \in [Queues -> Seq(Items)]
    /\ \A q \in Queues : Len(sending[q]) <= MaxBatch
    /\ unlogged \subseteq Msgs
    /\ inbox \in [Subs \cup {Logger} -> Seq(Items)]
    /\ handling \in [Subs -> Msgs \cup {Idle}]
    /\ row \in [Msgs -> {"none", "NACK", "ACK", "DEADLETTER"}]
    /\ failures \in 0..MaxFailures /\ crashes \in 0..MaxCrashes
    /\ pushed \in Seq(Msgs)
    /\ got \in [Subs -> SUBSET Msgs]
    /\ dropped \subseteq Items
    /\ late \subseteq Msgs \X Subs /\ unmatched \subseteq Msgs \X (Procs \cup Subs)

Init ==
    /\ memory = [q \in Queues |-> <<>>]
    /\ sending = [q \in Queues |-> <<>>]
    /\ unlogged = {}
    /\ inbox = [s \in Subs \cup {Logger} |-> <<>>]
    /\ handling = [s \in Subs |-> Idle]
    /\ row = [m \in Msgs |-> "none"]
    /\ failures = 0 /\ crashes = 0
    /\ pushed = <<>>
    /\ got = [s \in Subs |-> {}]
    /\ dropped = {} /\ late = {} /\ unmatched = {}

-----------------------------------------------------------------------------
(* Pushing and publishing *)

\* PushMemoryQueue: the message is in its queue before EnqueueLog reports it.
Push(m) ==
    /\ m \notin Elements(pushed)
    /\ memory' = [memory EXCEPT ![<<Home[m], "app">>] = Append(@, Item("work", m, Home[m]))]
    /\ unlogged' = unlogged \cup {m}
    /\ pushed' = Append(pushed, m)
    /\ UNCHANGED <<sending, inbox, handling, row, failures, crashes, got, dropped, late, unmatched>>

EnqueueLog(m) ==
    /\ m \in unlogged
    /\ unlogged' = unlogged \ {m}
    /\ memory' = [memory EXCEPT ![<<Home[m], "log">>] = Append(@, Item("enqueue", m, Home[m]))]
    /\ UNCHANGED <<sending, inbox, handling, row, failures, crashes, pushed, got, dropped, late, unmatched>>

\* ConsumeMemoryQueue.  (NewestBatch and OneTooMany are mistakes.)
NewestBatch(q) == [k \in 1..Len(q) |-> q[Len(q) + 1 - k]]
Oldest(q) == SubSeq(q, 1, IF Len(q) < MaxBatch THEN Len(q) ELSE MaxBatch)
OneTooMany(q) == SubSeq(q, Len(Oldest(q)) + 2, Len(q))
Rest(q) == SubSeq(q, Len(Oldest(q)) + 1, Len(q))

Take(q) ==
    /\ sending[q] = <<>>
    /\ memory[q] # <<>>
    /\ sending' = [sending EXCEPT ![q] = Oldest(memory[q])]
    /\ memory' = [memory EXCEPT ![q] = Rest(@)]
    /\ UNCHANGED <<unlogged, inbox, handling, row, failures, crashes, pushed, got, dropped, late, unmatched>>

SubscriptionsOf(t) == IF t = "app" THEN Subs ELSE {Logger}

\* One call of SendMessage: SendMessages makes them one after the other, since
\* Publish blocks and each task is completed when the next is created.
Send(q) ==
    /\ sending[q] # <<>>
    /\ inbox' = [s \in DOMAIN inbox |-> IF s \in SubscriptionsOf(q[2])
                                        THEN Append(inbox[s], Head(sending[q]))
                                        ELSE inbox[s]]
    /\ sending' = [sending EXCEPT ![q] = Tail(@)]
    /\ UNCHANGED <<memory, unlogged, handling, row, failures, crashes, pushed, got, dropped, late, unmatched>>

\* Publish throws: SendMessage catches the exception and writes it to the
\* console, so the loop that would try again never sees it.
SendFails(q) ==
    /\ sending[q] # <<>>
    /\ failures < MaxFailures
    /\ failures' = failures + 1
    /\ dropped' = dropped \cup {Head(sending[q])}
    /\ sending' = [sending EXCEPT ![q] = Tail(@)]
    /\ UNCHANGED <<memory, unlogged, inbox, handling, row, crashes, pushed, got, late, unmatched>>

-----------------------------------------------------------------------------
(* Subscribing *)

\* AckQueueMessage reports the message before the handler is called.
Receive(s) ==
    LET m == Head(inbox[s]).msg IN
    /\ handling[s] = Idle
    /\ inbox[s] # <<>>
    /\ inbox' = [inbox EXCEPT ![s] = Tail(@)]
    /\ handling' = [handling EXCEPT ![s] = m]
    /\ memory' = [memory EXCEPT ![<<ProcOf[s], "log">>] = Append(@, Item("ack", m, s))]
    /\ got' = [got EXCEPT ![s] = @ \cup {m}]
    /\ late' = IF m \in unlogged THEN late \cup {<<m, s>>} ELSE late
    /\ UNCHANGED <<sending, unlogged, row, failures, crashes, pushed, dropped, unmatched>>

\* The handler returns, throws, or is cancelled after its timeout: MessageHandler
\* returns with the reports r.
Return(s, r) ==
    /\ handling[s] # Idle
    /\ handling' = [handling EXCEPT ![s] = Idle]
    /\ memory' = [memory EXCEPT ![<<ProcOf[s], "log">>] = @ \o r]
    /\ UNCHANGED <<sending, unlogged, inbox, row, failures, crashes, pushed, got, dropped, late, unmatched>>

Handled(s) == Return(s, <<>>)
HandlerThrows(s) == Return(s, <<Item("failed", handling[s], s)>>)
HandlerTimesOut(s) ==
    Return(s, <<Item("deadletter", handling[s], s), Item("failed", handling[s], s)>>)

-----------------------------------------------------------------------------
(* The queue log *)

\* The row of a message whose state was st, after a report.  The broker that fills
\* the rows' lists of subscriptions is not the one the subscriptions are at, so
\* the lists are empty: the first acknowledgment completes them, and a
\* dead letter is entered for the whole message.  A failure is not one of the
\* allowActions of the subscriber.  (AckIgnored is a mistake.)
AckIgnored(st, action) ==
    CASE action = "enqueue" /\ st = "none"    -> "NACK"
      [] action = "deadletter" /\ st # "none" -> "DEADLETTER"
      [] OTHER                                -> st
StateAfter(st, action) ==
    CASE action = "enqueue" /\ st = "none"    -> "NACK"
      [] action = "ack" /\ st # "none"        -> "ACK"
      [] action = "deadletter" /\ st # "none" -> "DEADLETTER"
      [] OTHER                                -> st

Log ==
    LET i == Head(inbox[Logger]) IN
    /\ inbox[Logger] # <<>>
    /\ inbox' = [inbox EXCEPT ![Logger] = Tail(@)]
    /\ row' = [row EXCEPT ![i.msg] = StateAfter(@, i.action)]
    /\ unmatched' = IF i.action \in {"ack", "deadletter"} /\ row[i.msg] = "none"
                    THEN unmatched \cup {<<i.msg, i.from>>} ELSE unmatched
    /\ UNCHANGED <<memory, sending, unlogged, handling, failures, crashes, pushed, got, dropped, late>>

\* The database refuses: the exception is logged and the report forgotten.
LogFails ==
    /\ inbox[Logger] # <<>>
    /\ failures < MaxFailures
    /\ failures' = failures + 1
    /\ dropped' = dropped \cup {Head(inbox[Logger])}
    /\ inbox' = [inbox EXCEPT ![Logger] = Tail(@)]
    /\ UNCHANGED <<memory, sending, unlogged, handling, row, crashes, pushed, got, late, unmatched>>

-----------------------------------------------------------------------------
(* Processes *)

\* The process p crashes and starts again.  What was in its memory is gone, and so
\* are the first read[s] messages of the broker for s, which were on their way.
Crash(p) ==
    LET own == {p} \X {"app", "log"}
    IN  /\ crashes < MaxCrashes
        /\ crashes' = crashes + 1
        /\ memory' = [q \in Queues |-> IF q \in own THEN <<>> ELSE memory[q]]
        /\ sending' = [q \in Queues |-> IF q \in own THEN <<>> ELSE sending[q]]
        /\ unlogged' = {m \in unlogged : Home[m] # p}
        /\ handling' = [s \in Subs |-> IF ProcOf[s] = p THEN Idle ELSE handling[s]]
        /\ \E read \in [Subs -> 0..Cardinality(Msgs)] :
             /\ \A s \in Subs : read[s] <= IF ProcOf[s] = p THEN Len(inbox[s]) ELSE 0
             /\ inbox' = [s \in DOMAIN inbox |-> IF s \in Subs
                            THEN SubSeq(inbox[s], read[s] + 1, Len(inbox[s])) ELSE inbox[s]]
             /\ dropped' = dropped
                  \cup (UNION {Elements(memory[q]) \cup Elements(sending[q]) : q \in own})
                  \cup {Item("enqueue", m, Home[m]) : m \in unlogged \ unlogged'}
                  \cup (UNION {Elements(SubSeq(inbox[s], 1, read[s])) : s \in Subs})
        /\ UNCHANGED <<row, failures, pushed, got, late, unmatched>>

Publisher(q) == Take(q) \/ Send(q) \/ SendFails(q)
Subscriber(s) == Receive(s) \/ Handled(s) \/ HandlerThrows(s) \/ HandlerTimesOut(s)

Next ==
    \/ \E m \in Msgs : Push(m) \/ EnqueueLog(m)
    \/ \E q \in Queues : Publisher(q)
    \/ \E s \in Subs : Subscriber(s)
    \/ Log \/ LogFails
    \/ \E p \in Procs : Crash(p)

Spec == Init /\ [][Next]_vars

\* The loops of the publishers come back every 100 ms, a process that has begun a
\* push ends it, the streams are read, and the handlers return.
Fairness ==
    /\ \A m \in Msgs : WF_vars(EnqueueLog(m))
    /\ \A q \in Queues : WF_vars(Publisher(q))
    /\ \A s \in Subs : WF_vars(Subscriber(s))
    /\ WF_vars(Log \/ LogFails)

FairSpec == Spec /\ Fairness

-----------------------------------------------------------------------------
(* What the processes have to guarantee *)

\* What s has yet to read, with all that waits in the process p, nearest first.
Pipe(p, s) == inbox[s] \o sending[<<p, "app">>] \o memory[<<p, "app">>]

\* The message m was pushed before n.
Before(m, n) == \E k, l \in DOMAIN pushed : k < l /\ pushed[k] = m /\ pushed[l] = n

\* The message m, pushed and yet to be read by s, is somewhere on its way.
Waiting(m, s) ==
    Item("work", m, Home[m]) \in
        Elements(inbox[s]) \cup Elements(sending[<<Home[m], "app">>])
          \cup Elements(memory[<<Home[m], "app">>])

\* The messages of a process reach every subscriber in the order they were pushed,
\* each of them once, whatever the batches they are cut into: what is on its way is
\* in that order and unread, and what is older than a message s has read has been
\* read by s as well, unless it was lost.
InPushOrder ==
    /\ \A p \in Procs, s \in Subs :
          LET pipe == Pipe(p, s) IN
          \A k \in DOMAIN pipe : Home[pipe[k].msg] = p =>
             /\ pipe[k].msg \notin got[s]
             /\ \A l \in k + 1 .. Len(pipe) :
                  Home[pipe[l].msg] = p => Before(pipe[k].msg, pipe[l].msg)
    /\ \A s \in Subs : \A m \in got[s], n \in Msgs : (Home[n] = Home[m] /\ Before(n, m)) =>
          n \in got[s] \/ Item("work", n, Home[n]) \in dropped

\* Between the memory queue, the batch and the broker no message disappears,
\* except by a call that failed or in a process that crashed.
NothingForgotten ==
    \A k \in DOMAIN pushed, s \in Subs :
       \/ pushed[k] \in got[s]
       \/ Waiting(pushed[k], s)
       \/ Item("work", pushed[k], Home[pushed[k]]) \in dropped

\* What PublisherBase says of its loop, "If cannot send msg, try to wait 1s then
\* retry": a message that has been pushed is received or still being sent.
RetriedUntilSent ==
    \A k \in DOMAIN pushed, s \in Subs :
       pushed[k] \in got[s] \/ Waiting(pushed[k], s)

\* A report finds no row only if the row could not be there yet or was never to
\* be: the report on the push was lost, or it left from another process than the
\* acknowledgment, or the message was read before it was made.
RowBeforeReport ==
    \A m \in Msgs, s \in Subs : <<m, s>> \in unmatched =>
       \/ Item("enqueue", m, Home[m]) \in dropped
       \/ <<m, s>> \in late
       \/ ProcOf[s] # Home[m]

\* With one subscriber the dead letter of a message is the last word on it: no
\* acknowledgment that was made before the handler ran comes after it.
DeadLetterStays ==
    [][ Cardinality(Subs) = 1 =>
          \A m \in Msgs : row[m] = "DEADLETTER" => row'[m] = "DEADLETTER" ]_vars

\* What has been pushed reaches every subscriber, unless it is lost on the way.
EventuallyGot ==
    \A m \in Msgs, s \in Subs :
       (m \in Elements(pushed)) ~> (m \in got[s] \/ Item("work", m, Home[m]) \in dropped)

\* The row of a message that was received does not stay NACK, unless a report on
\* it was lost or came too early.
EventuallyReported ==
    \A m \in Msgs, s \in Subs :
       (m \in got[s]) ~>
          \/ row[m] \in {"ACK", "DEADLETTER"}
          \/ <<m, s>> \in unmatched
          \/ \E i \in dropped : i.msg = m
=============================================================================
