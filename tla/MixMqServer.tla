---------------------------- MODULE MixMqServer ----------------------------
(***************************************************************************)
(* The broker process around one topic: MixMqService (the gRPC calls       *)
(* Subscribe, Disconnect and Publish) and GrpcStreamingService (a loop per *)
(* Subscribe call that polls the topic and writes what it gets to the      *)
(* client, and the lists of messages it could not write), in               *)
(* src/services/core/mix-message-queue/mix.mq.server/Domain/Services; and  *)
(* the clients (SubscriberBase and MixQueueSubscriber of mix.queue) as far *)
(* as the broker can tell: they read a call until it breaks, disconnect,   *)
(* and call Subscribe again with the same subscription id.                 *)
(*                                                                         *)
(* A loop is not told when its client goes away: it finds out when a write *)
(* fails, and meanwhile it keeps polling beside the loop of the client's   *)
(* next call.  The loops share the pending lists.  The dictionary of these *)
(* is concurrent but AddToPendingMessages looks into it, decides, and goes *)
(* to it again, and each of these is a step of its own.  A list itself is  *)
(* not concurrent: of two calls of AddRange at once one may be undone, and *)
(* a loop that is reading a list while another adds to it fails.  (The     *)
(* empty slots that two AddRange can leave in a list are left out.)        *)
(***************************************************************************)
EXTENDS MixTopic

CONSTANTS MaxCalls,  \* bound: how many times a client calls Subscribe
          NoList     \* no list of pending messages

ASSUME ServerAssumption ==
    /\ MaxCalls \in Nat \ {0}
    /\ NoList \notin Subs \X (1..MaxCalls)

VARIABLES client,     \* client[s]: what the client of s is doing
          calls,      \* calls[s]: how many Subscribe calls it has made
          link,       \* link[x]: the connection under call x
          stage,      \* stage[x]: where the loop of call x is
          batch,      \* batch[x]: its inQueueItems
          held,       \* held[x]: the pending list it is sending, or has failed to send
          into,       \* into[x]: the pending list AddToPendingMessages has found
          reply,      \* reply[x]: the contents it put in the reply
          list,       \* list[x]: the List object that call x created
          pending,    \* pending[s]: the PendingMessages dictionary
          received,   \* history: what the client of s has received, in order
          lost,       \* history: <<s, i>> that nothing holds for s any more
          resendFailed  \* history: clients a pending list could not be sent to

serverVars == <<client, calls, link, stage, batch, held, into, reply, list, pending,
                received, lost, resendFailed>>

vars == <<topicVars, serverVars>>

\* The n-th Subscribe call of the client of s.
Calls == Subs \X (1..MaxCalls)
Current(s) == <<s, calls[s]>>

\* The messages of a set, in the order of the queue (and, as a mistake, not).
NewestFirst(S) ==
    CHOOSE q \in [1..Cardinality(S) -> S] : \A k, l \in DOMAIN q : k < l => q[k] > q[l]
InQueueOrder(S) ==
    CHOOSE q \in [1..Cardinality(S) -> S] : \A k, l \in DOMAIN q : k < l => q[k] < q[l]

Elements(q) == {q[k] : k \in DOMAIN q}

\* The messages waiting to be written to the client of s.
PendingOf(s) == IF pending[s] = NoList THEN <<>> ELSE list[pending[s]]

\* A loop polls, resends the pending messages, and writes its batch.  One that failed to
\* write (at "failed") looks for a pending list, and then keeps what it had in hand or
\* appends it; at "remove" it has failed to resend and is removing the subscription.
Stages == {"none", "poll", "resend", "write", "failed", "keep", "append", "remove", "ended"}

ServerTypeOK ==
    /\ TypeOK
    /\ client \in [Subs -> {"away", "reading", "failed"}]
    /\ calls \in [Subs -> 0..MaxCalls]
    /\ link \in [Calls -> {"up", "cut", "dead"}]
    /\ stage \in [Calls -> Stages]
    /\ batch \in [Calls -> Seq(Objects)]
    /\ held \in [Calls -> Calls \cup {NoList}]
    /\ into \in [Calls -> Calls \cup {NoList}]
    /\ reply \in [Calls -> Seq(Objects)]
    /\ list \in [Calls -> Seq(Objects)]
    /\ pending \in [Subs -> Calls \cup {NoList}]
    /\ received \in [Subs -> Seq(Objects)]
    /\ lost \subseteq Subs \X Objects
    /\ resendFailed \subseteq Subs

ServerInit ==
    /\ Init
    /\ client = [s \in Subs |-> "away"]
    /\ calls = [s \in Subs |-> 0]
    /\ link = [x \in Calls |-> "up"]
    /\ stage = [x \in Calls |-> "none"]
    /\ batch = [x \in Calls |-> <<>>]
    /\ held = [x \in Calls |-> NoList]
    /\ into = [x \in Calls |-> NoList]
    /\ reply = [x \in Calls |-> <<>>]
    /\ list = [x \in Calls |-> <<>>]
    /\ pending = [s \in Subs |-> NoList]
    /\ received = [s \in Subs |-> <<>>]
    /\ lost = {}
    /\ resendFailed = {}

-----------------------------------------------------------------------------
(* The broker *)

Publish(m) == PushQueue(m) /\ UNCHANGED serverVars

\* AddSubscription and the start of CreateSubscription.  Nothing stops the loop
\* of an earlier call of the same client.
Subscribe(s) ==
    /\ client[s] = "away"
    /\ calls[s] < MaxCalls
    /\ calls' = [calls EXCEPT ![s] = @ + 1]
    /\ client' = [client EXCEPT ![s] = "reading"]
    /\ stage' = [stage EXCEPT ![<<s, calls[s] + 1>>] = "poll"]
    /\ CreateSubscription(s)
    /\ UNCHANGED <<link, batch, held, into, reply, list, pending, received, lost, resendFailed>>

\* (A mistake: the reply is written without its messages.)
DeliverEmpty(x, q, dropped) == link[x] # "dead" /\ UNCHANGED <<received, lost>>

\* A write of q to the client of call x that does not throw: the client gets q,
\* or q is gone with a connection not yet known to be lost.  What is in `dropped'
\* is forgotten in the same step without having been written.
Deliver(x, q, dropped) ==
    /\ link[x] # "dead"
    /\ received' = IF link[x] = "up" THEN [received EXCEPT ![x[1]] = @ \o q] ELSE received
    /\ lost' = lost \cup {<<x[1], i>> : i \in IF link[x] = "up" THEN dropped
                                              ELSE dropped \cup Elements(q)}

\* (PendingWithNews is the mistake of looking at it only when there are new messages.)
PendingWithNews(s) == PendingOf(s) # <<>> /\ Consumable(s) # {}
HasPending(s) == PendingOf(s) # <<>>

\* A round of the loop up to its first await: take what the topic has, and if
\* there is a pending list make it the first thing to write.
Poll(x) ==
    /\ stage[x] = "poll"
    /\ ConsumeQueue(x[1])
    /\ batch' = [batch EXCEPT ![x] = InQueueOrder(Consumable(x[1]))]
    /\ IF HasPending(x[1])
       THEN /\ stage' = [stage EXCEPT ![x] = "resend"]
            /\ held' = [held EXCEPT ![x] = pending[x[1]]]
            /\ reply' = [reply EXCEPT ![x] = PendingOf(x[1])]
       ELSE /\ stage' = [stage EXCEPT ![x] = "write"]
            /\ UNCHANGED <<held, reply>>
    /\ UNCHANGED <<client, calls, link, into, list, pending, received, lost, resendFailed>>

\* The pending list has been written: it is removed, with whatever another call
\* of the client added to it during the write.
\* (ResentAndKept is the mistake of not removing it.)
ResentAndKept(x) ==
    /\ stage[x] = "resend"
    /\ Deliver(x, reply[x], {})
    /\ stage' = [stage EXCEPT ![x] = "write"]
    /\ held' = [held EXCEPT ![x] = NoList]
    /\ reply' = [reply EXCEPT ![x] = <<>>]
    /\ UNCHANGED <<topicVars, client, calls, link, batch, into, list, pending, resendFailed>>
Resent(x) ==
    /\ stage[x] = "resend"
    /\ Deliver(x, reply[x], Elements(PendingOf(x[1])) \ Elements(reply[x]))
    /\ pending' = [pending EXCEPT ![x[1]] = NoList]
    /\ stage' = [stage EXCEPT ![x] = "write"]
    /\ held' = [held EXCEPT ![x] = NoList]
    /\ reply' = [reply EXCEPT ![x] = <<>>]
    /\ UNCHANGED <<topicVars, client, calls, link, batch, into, list, resendFailed>>

\* AddToPendingMessages begins with a look for the pending list.
LookForPending(x) ==
    /\ into' = [into EXCEPT ![x] = pending[x[1]]]
    /\ stage' = [stage EXCEPT ![x] = "keep"]

\* The write of the pending list throws, or the list was added to while the reply
\* was made from it.
ResendFailed(x) ==
    /\ stage[x] = "resend"
    /\ link[x] = "dead" \/ list[held[x]] # reply[x]
    /\ LookForPending(x)
    /\ resendFailed' = resendFailed \cup {x[1]}
    /\ UNCHANGED <<topicVars, client, calls, link, batch, held, reply, list, pending, received, lost>>

Written(x) ==
    /\ stage[x] = "write"
    /\ Deliver(x, batch[x], {})
    /\ stage' = [stage EXCEPT ![x] = "poll"]
    /\ batch' = [batch EXCEPT ![x] = <<>>]
    /\ UNCHANGED <<topicVars, client, calls, link, held, into, reply, list, pending, resendFailed>>

\* The write throws, or what followed the failure of a resend did: the batch is to
\* be added to the pending messages, the loop to end, and the subscription stays.
\* (The source has the call that would remove it, as WriteFailedAndRemoved does,
\* commented out.)
CannotWrite(x) == stage[x] = "failed" \/ (stage[x] = "write" /\ link[x] = "dead")

WriteFailedAndRemoved(x) ==
    /\ CannotWrite(x)
    /\ LookForPending(x)
    /\ RemoveSubscription(x[1])
    /\ UNCHANGED <<client, calls, link, batch, held, reply, list, pending, received, lost, resendFailed>>
WriteFailed(x) ==
    /\ CannotWrite(x)
    /\ LookForPending(x)
    /\ UNCHANGED <<topicVars, client, calls, link, batch, held, reply, list, pending, received, lost,
                   resendFailed>>

-----------------------------------------------------------------------------
(* AddToPendingMessages, after its look: for a loop that failed to send a pending
   list, which is then added again (to itself, if it is still there), or for one that
   failed to write its batch.  A few mistakes stand beside what it does. *)

\* What x has undertaken to write, and the list of messages it adds now.
InHand(x) == IF held[x] # NoList THEN reply[x] ELSE batch[x]
KeptEmpty(x) == IF held[x] # NoList THEN list[held[x]] ELSE <<>>
Kept(x) == IF held[x] # NoList THEN list[held[x]] ELSE batch[x]

\* The List object that is added when there is no other.
ItsKey(x) == x[1]
Own(x) == IF held[x] # NoList THEN held[x] ELSE x

Replaced(q, r) == r
Extended(q, r) == q \o r

\* What x has in hand is added to no pending list.
Drop(x) ==
    lost' = lost \cup {<<x[1], i>> : i \in Elements(InHand(x)) \ Elements(PendingOf(x[1]))}

\* The call is over.  A loop that was resending goes on, and the other one ends.
Leave(x, next) ==
    /\ stage' = [stage EXCEPT ![x] = IF held[x] # NoList THEN next ELSE "ended"]
    /\ batch' = [batch EXCEPT ![x] = IF held[x] # NoList THEN @ ELSE <<>>]
    /\ held' = [held EXCEPT ![x] = NoList]
    /\ reply' = [reply EXCEPT ![x] = <<>>]
    /\ into' = [into EXCEPT ![x] = NoList]
    /\ UNCHANGED <<topicVars, client, calls, link, received, resendFailed>>

\* There was no pending list.  TryAdd does nothing if there is one by now.
TryAdd(x) ==
    /\ stage[x] = "keep"
    /\ into[x] = NoList
    /\ IF pending[x[1]] = NoList
       THEN /\ pending' = [pending EXCEPT ![x[1]] = Own(x)]
            /\ list' = [list EXCEPT ![Own(x)] = Kept(x)]
            /\ UNCHANGED lost
       ELSE Drop(x) /\ UNCHANGED <<pending, list>>
    /\ Leave(x, "remove")

\* There was one, and it is looked up again.  If it has been removed that throws.
LookUp(x) ==
    /\ stage[x] = "keep"
    /\ into[x] # NoList
    /\ pending[x[1]] # NoList
    /\ into' = [into EXCEPT ![x] = pending[x[1]]]
    /\ stage' = [stage EXCEPT ![x] = "append"]
    /\ UNCHANGED <<topicVars, client, calls, link, batch, held, reply, list, pending, received, lost,
                   resendFailed>>

LookUpThrows(x) ==
    /\ stage[x] = "keep"
    /\ into[x] # NoList
    /\ pending[x[1]] = NoList
    /\ Drop(x)
    /\ Leave(x, "failed")
    /\ UNCHANGED <<pending, list>>

\* The list is extended, whether it is still the pending one or has been removed.
AddRange(x) ==
    /\ stage[x] = "append"
    /\ list' = [list EXCEPT ![into[x]] = Extended(@, Kept(x))]
    /\ IF into[x] = pending[x[1]] THEN UNCHANGED lost ELSE Drop(x)
    /\ Leave(x, "remove")
    /\ UNCHANGED pending

\* Another loop that is extending the list undoes it.
AddRangeUndone(x) ==
    /\ stage[x] = "append"
    /\ \E y \in Calls \ {x} : stage[y] = "append" /\ into[y] = into[x]
    /\ Drop(x)
    /\ Leave(x, "remove")
    /\ UNCHANGED <<pending, list>>

\* After the failure of a resend the subscription is removed, and the loop goes on.
Remove(x) ==
    /\ stage[x] = "remove"
    /\ RemoveSubscription(x[1])
    /\ stage' = [stage EXCEPT ![x] = "write"]
    /\ UNCHANGED <<client, calls, link, batch, held, into, reply, list, pending, received, lost,
                   resendFailed>>

-----------------------------------------------------------------------------
(* The clients and the network *)

\* The client stops reading its call, because the connection broke or because
\* processing a reply threw: ProcessQueue throws.  (Bound: the last call that a
\* client may make does not break.)
Break(s) ==
    /\ client[s] = "reading"
    /\ calls[s] < MaxCalls
    /\ client' = [client EXCEPT ![s] = "failed"]
    /\ link' = [link EXCEPT ![Current(s)] = "cut"]
    /\ UNCHANGED <<topicVars, calls, stage, batch, held, into, reply, list, pending,
                   received, lost, resendFailed>>

\* The broker's transport learns that nobody reads: writes fail from now on.
Notice(x) ==
    /\ link[x] = "cut"
    /\ link' = [link EXCEPT ![x] = "dead"]
    /\ UNCHANGED <<topicVars, client, calls, stage, batch, held, into, reply, list, pending,
                   received, lost, resendFailed>>

\* HandleSubscriberError: the client sends Disconnect, which removes the
\* subscription unless the request fails too; then it is ready to subscribe.
Disconnect(s) ==
    /\ client[s] = "failed"
    /\ client' = [client EXCEPT ![s] = "away"]
    /\ RemoveSubscription(s) \/ UNCHANGED topicVars
    /\ UNCHANGED <<calls, link, stage, batch, held, into, reply, list, pending,
                   received, lost, resendFailed>>

AddToPending(x) ==
    TryAdd(x) \/ LookUp(x) \/ LookUpThrows(x) \/ AddRange(x) \/ AddRangeUndone(x)

BrokerStep(x) ==
    \/ Poll(x) \/ Resent(x) \/ ResendFailed(x) \/ Written(x) \/ WriteFailed(x)
    \/ AddToPending(x) \/ Remove(x)

ServerNext ==
    \/ \E m \in Msgs : Publish(m)
    \/ \E s \in Subs : Subscribe(s) \/ Break(s) \/ Disconnect(s)
    \/ \E x \in Calls : BrokerStep(x) \/ Notice(x)

ServerSpec == ServerInit /\ [][ServerNext]_vars

\* The loops run on the thread pool and come back from every delay and from every
\* write that is read or refused; one to a client that is gone may take for ever.
\* A client tries again for as long as it runs.
Stuck(x) == link[x] = "cut" /\ stage[x] \in {"resend", "write"}

ServerFairness ==
    /\ \A x \in Calls : WF_vars(~Stuck(x) /\ BrokerStep(x))
    /\ \A s \in Subs : WF_vars(Disconnect(s)) /\ WF_vars(Subscribe(s))

FairServerSpec == ServerSpec /\ ServerFairness

-----------------------------------------------------------------------------
(* What the broker has to guarantee *)

CallsOf(s) == {x \in Calls : x[1] = s}

\* Where a message taken from the topic for s can be: written to the client,
\* in the hands of a loop, or among the pending messages.
InTransit(s) ==
    (UNION {Elements(batch[x]) \cup Elements(reply[x]) : x \in CallsOf(s)})
      \cup Elements(PendingOf(s))

\* No message falls between the queue, the loops and the pending lists: one the
\* topic has counted as consumed by s is still on its way to s, or was received,
\* or was lost in one of these ways, all but the first of which take two loops of
\* s at once: it was written to a connection nobody reads any more; it joined a
\* pending list while another loop was sending that list and then removed it; or
\* it was to join one and did not, since another loop had added a list after the
\* look (TryAdd), removed the list that was found, or extended it at the same time.
Accounted ==
    \A s \in Subs, i \in Objects :
       taken[i][s] > 0 =>
          i \in Elements(received[s]) \cup InTransit(s) \/ <<s, i>> \in lost

\* A client receives a message twice only after a write of its pending list has
\* failed (the list is then appended to itself, or to what replaced it).
NoDuplicate ==
    \A s \in Subs \ resendFailed : \A k, l \in DOMAIN received[s] :
       k # l => received[s][k] # received[s][l]

\* A client that reads a call is registered with the topic, so the call is not
\* silent for ever -- unless an older call of the same client failed to send the
\* pending list, which removes the subscription the newer call is using.
ReaderRegistered ==
    \A s \in Subs \ resendFailed : client[s] = "reading" => s \in subscriptions

\* The messages a client is given arrive in the order of the queue as long as
\* it has made one call.
FirstCallOrdered ==
    \A s \in Subs : calls[s] <= 1 =>
       \A k, l \in DOMAIN received[s] : k < l => received[s][k] < received[s][l]

\* A message a reading client has yet to consume is eventually received by it, or
\* ends up in an older call nobody reads, unless the client fails again or such a
\* call unregistered it.
EventuallySettled ==
    \A s \in Subs, i \in Objects :
       (client[s] = "reading" /\ i \in Queued /\ s \notin seenBy[i])
          ~> (i \in Elements(received[s]) \/ <<s, i>> \in lost
                \/ (\E x \in CallsOf(s) : link[x] = "cut" /\ i \in Elements(batch[x]))
                \/ client[s] # "reading" \/ s \in resendFailed)

\* Pending messages do not wait for ever while their client is reading.
PendingFlushed ==
    \A s \in Subs : (client[s] = "reading" /\ PendingOf(s) # <<>>)
                       ~> (client[s] # "reading" \/ PendingOf(s) = <<>>)
-----------------------------------------------------------------------------
(* What it implements *)

\* The clients that a connection was lost with.
Broken == {s \in Subs : \E x \in CallsOf(s) : link[x] # "up"}

\* The broker's promise to its clients, read off the state of the process.
Mail == INSTANCE MailPromise WITH
    published <- log,
    given     <- [s \in Subs |-> {i \in Objects : taken[i][s] > 0}],
    waiting   <- [s \in Subs |-> InTransit(s)],
    lost      <- [s \in Subs |-> {i \in Objects : <<s, i>> \in lost}],
    retried   <- resendFailed,
    resumed   <- {s \in Subs : calls[s] > 1},
    broken    <- Broken

\* Every step of the loops, the clients and the network keeps the promise: what
\* the topic gave out waits until written or lost, nothing is lost before a
\* connection is, nothing is sent twice before a failed resend, and everything in
\* order before a second call.
KeepsMail == Mail!Spec
=============================================================================
