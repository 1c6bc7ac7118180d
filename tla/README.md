# A TLA+ model of Mixcore

Mixcore is a content management platform in C# (.NET 9): a web application with a
database designer, and around it a set of services that talk to each other by messages.
This directory holds TLA+ modules of the parts of it where the order of events decides
what happens, the TLC configurations that check them, and proofs that TLAPS checks.

All paths below are relative to `src/src/`, the repository's own `src` directory.

1. [The system](#1-the-system)
2. [The modules](#2-the-modules)
3. [What the runs check](#3-what-the-runs-check)
4. [What is proved](#4-what-is-proved)
5. [Disagreements between the code and its comments](#5-disagreements)
6. [What is not modelled](#6-what-is-not-modelled)
7. [Plan](#7-plan)


## 1. The system

### 1.1 Messaging

Almost every action of the CMS ends in `IMemoryQueueService.PushMemoryQueue`: a content
change, a log entry, a workflow trigger, a cache to refresh. From there a message goes

    MemoryQueueService (a queue in the process, per topic)
      -> PublisherBase (a loop every 100 ms takes a batch)
        -> MixQueuePublisher (one gRPC call per message)
          -> MixMqService / MixTopicModel (the broker, a process of its own)
            -> GrpcStreamingService (a loop per stream, every second)
              -> SubscriberBase / MixQueueSubscriber (reads the stream, acknowledges, handles)

and every push, acknowledgment, time-out and failure is reported to a queue log by the same
way, on the topic `MixLog`.

| Component | State | Operations | What makes it hard | What makes it correct |
|---|---|---|---|---|
| Topic: `platform/mix.queue/Models/MixTopicModel.cs` | a `ConcurrentQueue` of messages, each with a plain `List` of the subscriptions that consumed it; a dictionary of subscriptions | `PushQueue`, `ConsumeQueue`, `CreateSubscription`, `RemoveSubscription` | called by the loops of all streams and by all publishers without a lock; a message is dequeued when two *counts* are equal, and consumers that have left are still counted | nobody gets a message twice; in order; who stays misses nothing; the queue empties |
| Registry of topics: `platform/mix.queue/Models/MixQueueMessages.cs` | a queue of topics | `GetTopic`, creating on first use | check-then-enqueue | one object per topic |
| Broker: `services/core/mix-message-queue/mix.mq.server/Domain/Services/{MixMqService,GrpcStreamingService}.cs` | topics, a list of pending messages per subscription, a loop per `Subscribe` call | `Subscribe`, `Disconnect`, `Publish`; the rounds of a loop | a loop is not told when its client goes away, and polls beside the loop of the client's next call; a failed write puts a batch, a List object other loops may hold, among the pending messages, by a look at the dictionary and a change of it | a message taken from the topic is received, in someone's hands, or lost with a connection or between two loops; a reading client is registered |
| Memory queues and publishers: `platform/mix.queue/Services/MemoryQueueService.cs`, `Engines/PublisherBase.cs`, `Engines/Mix/MixQueuePublisher.cs` | a queue per topic, the batch being sent | push, consume a batch, send, retry | a batch is dequeued before it is sent; failures are caught one level below the loop that retries | order kept, nothing forgotten, failed sends retried |
| Subscribers: `platform/mix.queue/Engines/SubscriberBase.cs`, `Engines/Mix/MixQueueSubscriber.cs` | the stream, the message being handled | acknowledge, handle with a time-out, report; disconnect and subscribe again | the acknowledgment goes out before the handler runs | every message is handled and reported |
| Queue log: `platform/mix.log/Services/MixQueueLogService.cs`, `Subscribers/MixLogSubscriber.cs` | a database row per message with a state NACK, ACK, DEADLETTER | a report on a push, an acknowledgment, a dead letter, a failure | reports of several processes overtake each other; the database may fail | the row says what happened to the message |
| Providers Azure, Google, RabbitMQ, MQTT: `platform/mix.queue/Engines/*` | none of their own | the same as the MIX provider | decided by the external broker | |

### 1.2 SignalR hubs

| Component | State | Operations | What makes it hard | What makes it correct |
|---|---|---|---|---|
| Video calls: `platform/mix.signalr.hub/Hubs/VideoCallHub.cs` | three static `List`s: users, offers, calls | `Join`, `CallUser`, `AnswerCall`, `HangUp`, disconnect | connections run in parallel, awaits between a look and a change, an unawaited `HangUp` on disconnect, invocations that outlive their connection, `SingleOrDefault` on lists that may hold two | one call per user, no call of one, nobody gone is in a call |
| Rooms: `platform/mix.signalr.hub/Hubs/BaseSignalrHub.cs` | SignalR's groups, and a static dictionary with a `ConcurrentBag` of users per room | `JoinRoom`, `LeaveRoom`, disconnect, send | `TryTake` takes any element, not the one found; disconnections run in parallel with joins | who is in the group is on the list, or somebody who has left is there in his place |
| Hub client: `platform/mix.service/Services/BaseHubClientService.cs` | one `HubConnection` for a process, `IsStarting` | `SendMessageAsync`, `StartConnection`, `Init`, the handler of `Closed` | senders share the flag without a lock and wait in a loop without an end; two may build the object; the handler tries once | nobody waits for a connection that nobody starts |

### 1.3 Business state with an order of its own

| Component | State | Operations | What makes it hard |
|---|---|---|---|
| Orders: `services/core/ecommerces/mix.services.ecommerce.lib/Services/{EcommerceService,OrderService}.cs` | order rows with a status (NEW, WAITING_FOR_PAYMENT, PAID ...), a payment status and a gateway | cart, checkout, payment answer, status, cancellation | every operation reads an order, waits, and saves all of it; answers that repeat; a checkout saves the order the client posts, that of a guest over any id, and one save of `Checkout` is outside the unit of work |
| OAuth codes and tokens: `platform/mix.identity/Services/OAuthCodeStoreService.cs`, `OAuthTokenService.cs` | codes in a dictionary | issue, exchange, remove | lookup at the start, removal at the end |
| Refresh tokens: `platform/mix.library/Services/MixIdentityService.cs` | tokens in a cache | issue, renew, remove | get, then remove |
| Compliance: `platform/mix.library/Services/Compliance` | requests with states and deadlines | break-glass, consent, data subject requests, retention | deadlines against answers |
| Workflows: `services/mix.automation/mix.automation.lib/Services/WorkflowService.cs`, `MessageQueue/MixAutomationSubscriber.cs` | rows of triggers and their actions, the run of the subscriber | create a trigger, run its actions, save | a row is committed and then announced from memory; actions have effects before anything is saved; every action waits for a notification of the hub client, which fails silently; the message of a trigger can be lost and can be repeated |
| Scheduler: `platform/mix.quartz/Services/QuartzService.cs` | Quartz's store | schedule, pause, delete | check-then-schedule with awaits |
| Dynamic database events: `platform/core/mix.mixdb.event/Services/MixDbEventService.cs` | a cached list of rules | reload on a message, fire | reload under readers |
| Tenancy: `platform/mix.library/Services/MixTenantService.cs` | a cached list of tenants, a settings file with the step of the initialisation | initialise, reload | a restart between two steps |

### 1.4 Request and response

The web application (`applications/mixcore`), the portal, account and storage modules
(`modules/*`), the dynamic databases (`platform/mix.mixdb`, `platform/mix.repodb`), GraphQL,
gRPC, MCP and mail translate a request into calls of a repository and keep nothing between two
requests. Their repository layer (`mix.heart`) is a git submodule whose directory is empty here.

`PROJECT.json` lists all components with their state of modelling, and the hazards with the
line each of them bites at.


## 2. The modules

    TopicPromise            what a topic promises while nobody leaves it
        ^ implements (TLC: topic_stay; its steps proved: ImplementsPromise)
    MixTopic                one topic; a call is a step        <- MixTopicProofs
        ^ implements (proved: ServerImplementsTopic)
    MixMqServer             EXTENDS MixTopic: streams, loops,  <- MixMqServerProofs
                            pending lists, clients, connections
        v implements (TLC: server_retry; proved: ServerKeepsMail)
    MailPromise             what the broker process promises a
                            client, whoever leaves or reconnects
    MixTopicRaces           the same topic, line by line       <- MixTopicRacesProofs
    MixQueueClient          memory queues, publishers, sub-    <- MixQueueClientProofs
                            scribers and the queue log around a
                            broker that keeps TopicPromise
    VideoCallHub            the hub of video calls             <- VideoCallHubProofs
    SignalRooms             the rooms of all hubs              <- SignalRoomsProofs
    EcommerceOrders         orders, checkouts and payments     <- EcommerceOrdersProofs
    HubClient               the client of a hub
        ^ composed: EXTENDS HubClient
    WorkflowService         triggers, their runs, and the      <- WorkflowServiceProofs
                            notifications they wait for
        v implements (TLC: workflow; proved: ServiceKeepsPromise)
    WorkflowPromise         what becomes of a trigger

`X <- XProofs` says that XProofs extends X and holds its theorems. `MC<module>` gives the constants of the runs. The refinement mappings are `Promise` in MixTopic, `Mail` in MixMqServer and `Promise` in WorkflowService.

What is one step differs from module to module, and each says so at its head:

- **MixTopic**: one call on the topic. This is what the code does when calls do not overlap.
- **MixTopicRaces**: one line, or one operation on a concurrent collection: the same calls when
  they do overlap. The second search of a list (`Mark`) is a step of its own, and `List.Add` is two, the
  reading of the size (`ReadSize`) and the writing of the slot and the size (`Add`).
- **MixMqServer**: the code of one process between two awaits, but `AddToPendingMessages`, which
  the loops run in parallel, operation by operation on the dictionary they share. It calls the topic as a whole, so
  the races of MixTopicRaces come on top of what it shows.
- **MixQueueClient**: one operation on a queue, one gRPC call, one handler, one report.
- **VideoCallHub**: the code of one invocation between two awaits. `AnswerCall` is also cut between
  the check of the caller's calls and `UserCalls.Add`, `HangUp` before the offers go (177), and
  `OnDisconnectedAsync` into the look of its `HangUp` (`End`, 44-49 and 156), what that does after its await
  (`EndLeaves`, `EndLeaveFails`), the withdrawal of the offers (`EndWithdraws`, 177) and `Users.RemoveAll` (`Remove`, 51).
  What two simultaneous operations do to the inside of a `List` is not modelled, but that a look may throw.
- **SignalRooms**: one invocation of `JoinRoom` or `LeaveRoom`; the look and the `TryTake` of
  `RemoveUserFromGroups` are two steps, for each room.
- **EcommerceOrders**: the reading of an order at the start of a request, the wait for a gateway,
  and the save that becomes visible at the end.
- **HubClient**: one round of the loop of `StartConnection`, and the parts of it between awaits.
- **WorkflowService**: one action between two awaits, and the save at the end of a run.

### MixTopic, TopicPromise

`log`/`head` are the `Messages` queue with its past, `seenBy[i]` is the `Subscriptions` list of
the i-th message, `subscriptions` the dictionary. `joined` and `taken` are history. The loop of
`ConsumeQueue` runs `while (i <= length && ...)` without advancing `i`, so a call takes *all* messages
the subscription has not seen, and `length` (10) bounds nothing; `Consumable` says so. The trim
loop at its end is `Trimmed`.

`TopicPromise` is the abstract specification: a growing list, and for every subscription the
range it has been given. `Promise` maps MixTopic to it (`published` = `log`, `from[s]` =
`joined[s]` once registered, `given[s]` = the messages with `taken` positive).

### MixMqServer

A call of `Subscribe` is a pair `<<subscription, n>>`. Its loop (`GrpcStreamingService.
CreateSubscription`) is at `poll`, then, if there is a pending list, at `resend` (in the await of
that write), then at `write`. A failed write leads into `AddToPendingMessages`: the look for a pending list
(`LookForPending`), then `TryAdd` if there was none, or the indexer (`LookUp`, `LookUpThrows`) and `AddRange`
(`AddRange`, `AddRangeUndone`); the stages are `keep` and `append`. Afterwards a loop that failed to resend removes the subscription
(`remove`) and goes on with its batch, and one that failed to write ends. When the indexer throws, in the `catch` of a resend, the
exception is caught by the outer `catch`, which adds the batch (`failed`). The List objects are modelled by identity:
`list[x]` is the list call x created, `pending[s]` says which list is the pending list of s, and
`held[x]` which one call x is sending. This is what makes `AddToPendingMessages` append a list to
itself after a failed resend. The connection under a call is `up`, `cut` (nobody reads, writes
still succeed into a buffer) or `dead` (writes throw). The client stops reading (`Break`), sends
`Disconnect`, which may fail, and subscribes again with the same id
(`SubscriberBase.HandleSubscriberError`).

`MailPromise` is what a client can count on, without topic, loops, lists and connections: it is
given messages, newer ones every time (`Give`); each waits for it until it is written to it or lost (`Write`);
nothing is lost before a connection of it is (`Break`), nothing is written twice before a resend of its pending messages has failed
(`Retry`), and everything in order before it has subscribed a second time (`Resume`). TopicPromise speaks of subscriptions that stay; this one holds for those that
leave, too, and is therefore silent about which messages a client is never given. `Mail` maps the process to it: `given`
is what the topic counts as taken, `waiting` what a loop's batch, a reply or a pending list holds (`InTransit`).

### MixTopicRaces

`pc[c]` is the line of `ConsumeQueue` consumer c is at, and `subOf[c]` the subscription it polls for: any number of
loops, each for its own or several for one, which is the case of a client that has reconnected. `Assignments` are the
combinations an instance looks at. `items[i]` are the slots of the list of message i and `count[i]` its size, so that an
`Add` that read an old size writes over the entries after it, whoever made them, and sets the size back. `undone`, `beside` (two loops of one
subscription were adding at once) and `skipped` (an `Add` wrote behind the end of a list that had become shorter) record the accidents. Publishers
have `PushCheck` (the id is not in the queue) and `PushEnqueue`.

### MixQueueClient

A queue is a pair of a process and a topic ("app" or "log"). `Push` and `EnqueueLog` are the two
halves of `PushMemoryQueue`; `Take` is `ConsumeMemoryQueue`; `Send` is one `SendMessage`: the tasks
`SendMessages` collects are completed one after the other, since `Publish` is the blocking call.
A call that failed after the broker had taken the message is a `Send` here: nobody looks at the
result. `Receive` is the acknowledgment and the start of the handler, `Handled`, `HandlerThrows`
and `HandlerTimesOut` are its ends. `Log` is one message of `MixLogSubscriber`, with the effect
of `MixQueueLogService` on the row. That service looks up the subscriptions of the topic in a
`MixQueueMessages` of its own, which has none, so the first acknowledgment completes the row and
a dead letter is entered for all of it; `QueueFailed` reports are filtered out by `allowActions`.
`Crash` empties the memory of a process; its subscriptions stay at the broker, for a process that
ends does not send `Disconnect`. The process of the log subscriber is not one of `Procs`: what is lost
with it is lost by `LogFails`.

### VideoCallHub

`offers` are pairs, `calls[k]` the users of call k. `doing[c]` is the place an invocation
of c is at: before the offer is added (`CallUser`), before the call is added (`AnswerCall`), before
the user leaves and before the offers go (`HangUp`). SignalR runs one invocation per connection at a time (the default of
`MaximumParallelInvocationsPerClient`, which the repository does not change) and different connections in parallel.
`ending[c]` is the place of `OnDisconnectedAsync`, beside `doing[c]`: nothing in the repository makes the end of a connection wait for an
invocation that is in an await, or keeps one that was waiting for its turn from beginning, so that either may still change the lists
after the user is gone. `OnDisconnectedAsync` does not await its
`HangUp`, which goes on after that, too. When `GetUserCall` finds two calls it throws, and the invocation ends there; so it
may whenever another thread changes the list it searches.
The await of `HangUp` is inside a `foreach` over the users of the call, so if the other user leaves
during it the loop throws (`LeaveFails`) and the offers are not withdrawn. `marks[k]` records what was wrong when call k was set up
(`stale`: the caller had got into another call after the look; `twice`: the answering user was in another; `late`: the
`HangUp` of one's end had looked already), and `belated` the offers added after the end of their caller had withdrawn his.

### SignalRooms

`groups` are SignalR's own groups, which decide who gets the messages of a room; `Rooms` are the
bags the hub keeps beside them, which are sent as the list of members to who joins. Bags are sets
here, since a connection adds itself only, and only when it has not found itself. `LeaveRoom` leaves the
group and not the bag, as the code does. `OnDisconnectedAsync` goes through the rooms (`todo`),
looks for the connection in a bag (`Look`), and takes an element (`TryTake`): *some* element.

### EcommerceOrders

A row has an owner, a status, a payment status and whether it has a gateway. `req[r]` is a request
that has read an order (`was`) and will save it. Saving is `SaveAsync` of the view model, which is
mix.heart's and external: it writes all columns, and nothing compares the row with what was read.
Within a request the unit of work makes what is saved visible at the end
(`platform/mix.library/Middlewares/UnitOfWorkMiddleware.cs`), with one exception: the checkout cart
gets no unit of work (`EcommerceService.cs:395`), so `SaveCheckoutCart` is a step of its own that a
later failure does not take back (`Fail`, `left`). What is saved is the order the client has posted: `FilterCheckoutCartAsync` sets its
status and dates and `Checkout` its gateway, but its owner and its payment status are as posted (`Posted`).
`FinishCheckout` then saves the cart that was read at the start,
which has the same id. So when `Checkout` succeeds the order is stored as NEW, without a gateway and with the payment status it had,
and `ProcessPaymentResponse` throws for it. `CheckoutGuest` reads nothing: it saves what is posted as a new order or, if
it has the id of one, in its place, whoever owns that. That is what the code does; `PaidOnlyIfBroken` and `VerdictStands` say how
much follows from it. `overlapped` holds the users of whom two requests, or on one of whose orders two requests, were in progress at a time. An answer that comes late makes a cancelled order PAID (`SaveAnswer` looks at the
payment status only).

### HubClient, WorkflowService

`at[s]` is where a sender is in `SendMessageAsync` and `StartConnection`. `state[o]` is
`HubConnection.State` of the object built by `o`, and `closed[o]` the handler of its `Closed` event.
The library's part is what its documentation and the use of it here say: `StartAsync` admits one
caller and throws unless the object is disconnected, the automatic reconnect ends in `Connected` or in
`Closed`.

WorkflowService adds the trigger: saved (`CreateTrigger`), pushed (`Push`), taken by the subscriber
(`Take`), its actions one after the other (`StartAction`, `Act`, `PortalSent`, `EndAction`), saved (`Save`) or
cut short (`Throw`, `Crash`). The way of its message, which MixQueueClient and MixMqServer model, is here what it can do to it:
`Push` may lose it without anybody noticing, since `MixQueuePublisher` passes over a failed call (`lost`;
`Engines/Mix/MixQueuePublisher.cs:45-49`), and a loop of the broker that fails to resend its pending messages sends all of them
once more, those already handled too (`Repeat`; `GrpcStreamingService.cs:120`). So `coming[t]` is a number of messages, and a trigger may run again over the
rows of its last run. Every action sends a notification before and after, and the next
step waits until the sender `Subscriber` of HubClient is idle again. `SendMessageAsync` swallows a call that fails and only logs when there
is no endpoint (`BaseHubClientService.cs:91-97`), so an action that is a notification is recorded as Succeeded whether it was sent or
not (`PortalSent`). `Kinds` are the kinds of the
actions as far as they matter: with a request, without a URL (the status is set to Failed and then overwritten with Succeeded), a parser, and a portal notification.

`WorkflowPromise` says what becomes of a saved trigger without queue, subscriber and hub: it is due once, and once more
each time its message is repeated (`Repeat`); it runs no more often than it is due, and alone (`Begin`); its actions have their effects one by one
and in order during a run (`Effect`); and a run ends with a record of the whole of it (`Record`), or is cut short and changes no record, as
what is due can be lost (`Cut`). The mapping counts what is due: the messages on their way and the trigger not yet pushed.
Everything the hub client does is a stutter.


## 3. What the runs check

Every run ends with all states explored. The type invariants are run with MixTopicRaces, MixMqServer (where it includes that of MixTopic),
MixQueueClient and VideoCallHub; they are theorems for those modules and for WorkflowService as well. The histories (`taken`, `lost`, `undone`, `marks`, `overlapped`, ...) only
record and guard nothing.

### The topic

| Run | Instance | Shows |
|---|---|---|
| `topic_stay` | 3 subscriptions that stay, 2 ids, 3 messages, fair loops | MixTopic implements `TopicPromise`, liveness included (`KeepsPromise`); `NoMissed`: who is registered gets every message from its registration on; `Drains`: the queue empties |
| `topic_leave` | the same, and one of the three comes and goes | `AtMostOnce` and `InOrder` hold here too; `NoMissed` does not, and `MissedExplained` says what a missed message costs: another subscription that was given it had left when it was dequeued, and is away still or has registered again since |

Three subscriptions are the least with which one leaves and of the two that stay one has seen the
message and one has not. Three messages and two ids let an id come back after it was dequeued and
while it is queued, and put a finished message behind an unfinished one.

`NoMissed` is stated only where nobody leaves because it is false otherwise: with `Leavers = {c}`,
a consumes a message, c consumes it and leaves while b registers: two consumers, two
subscriptions, and b never sees it.

### The lines of the topic

| Run | Instance | Shows |
|---|---|---|
| `races` | two loops, of two subscriptions or the old and the new one of a client that reconnected, with 2 messages; three loops, of three subscriptions or such a pair beside another's, with 1; two publishers; fair loops | `GoneWhenTaken`: a message is lost only by a `TryDequeue` that hit another message than the one looked at, or when its list was miscounted; `TwiceOnlyIfUndone`: it is delivered twice only after an `Add` undid the entry, or when two loops of the subscription were adding it at once; `TwinsPushedTogether`: an id is twice in the queue only if two publishers looked at once; `Drains`: nothing blocks the queue but a miscounted list |

The first three are exact descriptions of the races: each of the cases they allow is reachable. A list is
miscounted (`Miscounted`) when two loops of one subscription have both found it missing and enter it twice, nothing being overwritten: its
count may then be that of the subscriptions although one has not seen the message, or pass it and block the queue for ever. The other way is an `Add` that
read its size before another one set the list back. Two messages are enough for a dequeue that hits the wrong one; three loops are the least with which two of
one subscription fill the list that a third has to enter, and one message has all that can happen inside a list. The theorems are for any number of both.

### The broker

| Run | Instance | Shows |
|---|---|---|
| `server_retry` | 1 client with 3 calls, 2 messages, fair loops | `Accounted`, `ReaderRegistered`, `NoDuplicate` and `FirstCallOrdered`, with resends that fail and lists appended to themselves; `KeepsMail`: the process implements `MailPromise`; `EventuallySettled` and `PendingFlushed` |

Three calls are what the worst histories need: a first call leaves a pending list behind, a second one
takes it and breaks, and the third is reading when the second fails to resend.

`Accounted` says that no message falls between the topic, the loops and the pending lists. The
others are stated with the conditions under which they hold, and TLC finds each of these
conditions needed: after a failed resend a client may receive a message twice and may be
unregistered while it reads, and a client's second call may receive older messages after newer ones.
`lost` grows in these ways, all in the code: a write into a connection nobody reads any more;
`PendingMessages.TryRemove` after an await in which another loop appended to the list (115); and in `AddToPendingMessages`, between two
loops of one client, a `TryAdd` that returns false since there is a list by now (137), an indexer that throws since the list found has been removed
(141), and an `AddRange` to a list that has been removed meanwhile or that another loop is extending at the same time. Whoever holds the messages
in another place still has them, and only what is nowhere counts as lost. `KeepsMail` says on top that none of this happens before a connection of
the client is lost.

### The processes that use it

| Run | Instance | Shows |
|---|---|---|
| `client_one` | 1 process, 1 subscriber, 2 messages, a failed call, a crash, fair loops | `InPushOrder`: messages come in the order they were pushed, and what is older than a message that was read was read or lost; `NothingForgotten`; `DeadLetterStays`: a row that is a dead letter remains one; `EventuallyGot` |
| `client_two` | 2 processes with a subscriber each, 1 message, a failed call, a crash, fair loops | reports of two processes that race each other: `RowBeforeReport` says when a report can come before the row it is about, `EventuallyReported` that a row is there and completed in the end, unless a report was lost |
| `client_retry` | one failed call | refutes `RetriedUntilSent`, see section 5 |

A batch holds one message in `client_one` so that two messages go in two batches, and two in
`client_two`. A handler's time-out, which is given in seconds (`SubscriberBase.cs:194`), may pass at any time.
A second failure or crash is one more loss of the same kind. Deadlock is not checked,
as everything stops when the finitely many messages have been handled.

### The hub

| Run | Instance | Shows |
|---|---|---|
| `hub_three` | 3 connections of which 2 may end, 2 calls and 2 offers at a time | `TwoCallsExplained`: one is in two calls only by answering a second, or by being connected after an outdated look; `GhostsExplained`: one who is removed stays in a call only while his `HangUp` is leaving it, if that threw, or if the call was set up after it had looked; `PairsOnly`: a call has two users; `NoOfferFromTheGone`: his offers stay only while `HangUp` is to withdraw them, if it threw, or if `CallUser` came out of its await after that |
| `hub_one_call` | the same | refutes `OneCallEach`, see section 5 |

Three users and two calls at a time are the least with which one can be in two calls, and two offers are what one can accept twice; calls and offers
may follow each other without end. The two that may end are both users of a call, or one of them and one who calls them; connections that may end are interchangeable, so
symmetry is used. 9.2 million states in about a minute and a half; the theorems are for any connections, and for all of them ending. Deadlock is not checked: when everybody is gone nothing happens.

### The rooms

| Run | Instance | Shows |
|---|---|---|
| `rooms` | 3 connections, 2 rooms | `GhostForMissing`: a member can be missing in the list of a room, because someone who left was given his element; but then an entry of one who left stays, so that those missing are never more than those |

Three connections are one that leaves, one whose element it takes and one more that leaves or joins meanwhile; two rooms are
the least with which a search goes on after the first. Connections and rooms are interchangeable. Deadlock is not checked: in the end
everybody is gone.

### Orders

| Run | Instance | Shows |
|---|---|---|
| `orders` | 1 user and guests, 2 orders, 2 requests at a time | `RowsAreWhole`: what is shipped has been paid for; `OneCartAlone`: a user has two carts only after two requests of his overlapped or an administrator reopened an order; `PaidOnlyIfBroken`: a payment of a user's order is recorded and stays, whatever he posts, only if his checkout failed half way, requests on his orders overlapped, or a guest checkout saved the order; `VerdictStands`: a final verdict is lost only to a request that read the order before it, to a checkout of a reopened order, or to a guest checkout |

The hazards are between two requests on one order, or between two that each create one; requests follow each other
without end, so two at a time and two orders show every pair. A client posts an order as unpaid or as paid, a gateway answers with a final verdict or with none. An
administrator makes an order a cart again or ships it; that he cancels one is left to the theorem `RowsWhole`. 6.2 million states in about two
and a half minutes.

### Workflows

| Run | Instance | Shows |
|---|---|---|
| `workflow` | 1 trigger of three actions (without a URL, with a request, a portal notification) whose message can be lost and is repeated up to twice, the subscriber and another sender, 1 outage of the hub, 1 crash, fair loops | `BlockedExplained`: all senders wait for ever only after the handler of `Closed` failed or two objects were built; `RecordTellsTruth`: the rows of a trigger whose message came once say what its run did: a success that the request was made, but of a portal notification only that it was tried, and of an action without a URL nothing; `KeepsPromise`: the service implements `WorkflowPromise`; `EventuallyRecorded`: a saved trigger is run and recorded, unless its message is lost, it is cut short or blocked |

The rows of a trigger that runs again can hold the end of one run after the beginning of another, since a run that stops at a failure leaves what comes after as it
found it; `WorkflowPromise` says so (`WentTo`). Two repetitions bring a message while the trigger waits, runs, or has run. Several triggers share the
subscriber and nothing else and are left to the theorems. Two senders are what two objects need, and one outage is enough for the handler to fail. Deadlock is not checked: when
all senders are blocked nothing moves, and that is a state the code can get into. 1.7 million states in less than two minutes.

### Bounds

`MaxPush` (messages ever enqueued), `MaxCalls` (calls of `Subscribe` per client, or calls that exist
or are remembered in the hub at one time), `MaxOffers` (offers at one time), `Leavers` of the hub (the connections that may end), `Limit` (messages enqueued
under each assignment of loops in MixTopicRaces), `MaxFailures`, `MaxCrashes`, `MaxOutages`, `MaxRepeats` (repetitions of a trigger's message), and in EcommerceOrders the sets `Orders` and `Requests` are bounds of the model and stand in guards. `MaxBatch` is
the code's `MaxConsumeLength`. The last call a client may make does not break (`Break`), so that
`server_retry` says something about the end of every behaviour.

### Fairness

- Every loop of `GrpcStreamingService` polls again after a delay of a second, and every loop of a
  publisher after 100 ms: weak fairness of a round. In MixMqServer a write to a client that is gone
  may take for ever (`link[x] = "cut"`), so the loops are fair only otherwise.
- A client disconnects and subscribes again as long as it runs (`HandleSubscriberError`).
- In MixQueueClient handlers return: `MessageHandler` cancels them after their time-out, which a
  handler that ignores its token can defeat. Neither publishing, nor failing, nor crashing is fair.
- A hub that is down comes up again, calls of the connection return, and the loops of its senders and the handler of `Closed` go on
  (`HubFairness`). The subscriber's loop takes what is there and carries a run on (`Work`), and a process that has saved a
  trigger goes on to push it. Creating triggers, repeating messages, outages and crashes are not fair.
- VideoCallHub, SignalRooms and EcommerceOrders are checked for safety only, and assume no fairness.


## 4. What is proved

The theorems hold for every value of the constants that satisfies the named assumptions of the
modules (`TopicAssumption`, `ServerAssumption`, `RacesAssumption`, `ClientAssumption`, `HubAssumption`,
`RoomsAssumption`, `OrdersAssumption`, `WorkflowAssumption`; TLC evaluates each in a run). Every proof
has the same shape: the property is not inductive by itself, so an inductive invariant is stated,
shown to hold initially and to be preserved by every action, and the property is derived from it.

**MixTopicProofs.** The properties of MixTopic are not inductive by themselves. `TopicInv` is
`TypeOK` and

- `Counted`: `taken[i][s]` is 1 exactly when s is in `seenBy[i]` and 0 otherwise, so that what
  the code reads (`seenBy`) determines the history (`taken`);
- `Unpushed`: a message not yet enqueued has no consumers;
- `Nested`: who has consumed a message has consumed every queued message before it, which is why a
  batch never reaches back before an earlier one.

From it follow `TypeCorrect`, `NeverTwice` (`[]AtMostOnce`), `Ordered` (`InOrder`) and, with
cardinalities (equal sizes of a set and a finite superset make them equal), `MissedIsExplained`
(`MissedExplained`): a message is dequeued when as many have consumed it as are registered, so if one of these has not, one of those who have is
not registered then. Later steps can only register it again, after the message. Where nobody may leave, `StayInv` adds `Stayed` (consumers are registered) and
`NoMissed` itself, and `NothingMissed` follows: the comparison of counts is then a comparison of
sets. `ImplementsPromise` goes on from there: with `Since` (what a subscription has seen came after
it registered), what it has been given after a poll is exactly the range from its registration to the
end of the queue, so every step of the topic is a step of TopicPromise or none. `NothingLingers` is the safety half of
`Drains`: by `Nested`, the message the trim loop stops at is seen by all who have seen any later one, so whatever is in the
queue is wanted by somebody registered.

**MixMqServerProofs.** `ServerImplementsTopic`: with `Leavers = Subs`, every behaviour of
`ServerSpec` is a behaviour of `Spec` of MixTopic, step by step: the broker touches the topic only
by whole operations of it. So what is proved of the topic holds in the broker; `ServerNeverTwice`
says it for `AtMostOnce`. `ReadersRegistered` (`ReaderRegistered`) needs the types of the few
variables it reads (`ReaderInv`). The rest is about what the loops hold, for any clients, calls and
messages, and whether or not a subscription may leave. `BInv` is the types (`ServerTypeCorrect`) with `Numbered` (only
the last call of a client is read) and `Owned` (a loop has a batch while it writes and a reply while it resends; a pending
list belongs to a call that has ended, so no loop is still filling it). With it, `ServerAccounts` (`Accounted`) is a
matter of showing step by step that what is `Safe` stays so: the steps of a failed write are of two groups, those that move a loop on and no message
(`Turn`) and those that end `AddToPendingMessages` (`Settle`), where what was in hand is in a pending list or among the lost. `Seen` (whatever a client has been given, or a call holds,
the topic has marked as seen) makes a new batch disjoint from all of that, which `ServerOnceEach` (`NoDuplicate`) carries
through `Unique` (every message of a client is in one place, once), and, with `Nested` of the topic, newer than all of it, which
`ServerInOrder` (`FirstCallOrdered`) needs. `QueueOrder` shows that the sequence the model takes for a batch exists for any
set of messages: the message at k is the one with k messages of the set up to itself.

`ServerKeepsMail` (`KeepsMail`) is the refinement: `ServerInit` maps to `Init` of MailPromise and every step of the process to one
of its steps or to a stutter. `PollGives` needs `Nested` (a batch begins after everything the client was given before);
`WrittenKeeps` and `ResentKeeps` show that what leaves a batch or a list has been written, is lost, or still waits elsewhere; `TurnKeeps` and `SettleKeeps` do
the same for a failed write, and `Cut` says that a call which has come to that has lost its connection, so the client is among the `broken`. The invariant of the refinement is the conjunction of those above: `BInv`,
`Seen`, `Unique` (which gives "nothing twice") and `FirstCall` (which gives the order).

**MixTopicRacesProofs.** `TypeCorrect`, `GoneOnlyWhenTaken`, `TwinsExplained`, `TwiceExplained` for any loops, subscriptions,
publishers and any number of messages. `Places` says that a loop has looked up a message exactly at the lines that use it and that no size it has read goes beyond the slots.
The rest is about what a list of consumers is worth (`ListInv`): every slot ever written is of somebody registered who has got the message, and one behind the end of the list
has lost its entry (`Slots`); two loops of one subscription never add to one message unnoticed (`Alone`), and one that adds its own is not in the list
yet but for an accident (`Missing`); for a subscription with no accident the list tells whether it has the message (`Truthful`); and a list that is not miscounted has
nobody in it twice (`Single`). From the last one and cardinalities, a full list that is not miscounted has everybody in it, which is what a loop about to dequeue
has seen (`Done`). `Twins` says that two equal ids in the queue were looked up together.

**MixQueueClientProofs.** For any processes, subscribers, messages, batch size, failures and crashes: `TypeCorrect`,
`NoneForgotten` (`NothingForgotten`, inductive together with the types), `PushOrderKept` (`InPushOrder`),
`RowsBeforeReports` (`RowBeforeReport`) and `DeadLettersStay` (`DeadLetterStays`). The first part is about queues: what
`Append`, `Tail` and a cut of a sequence do to its elements and to which is `Earlier`. `FlowsNext` then
says once, for every step and both topics, what a step does to a queue on its way to a reader: nothing is new in it
but what is put at the end or comes from another process. With that, the invariant `CInv` needs an argument only where something is
put or read: `Origin` (what is in a queue was put there by its process), `Known` (what the histories say of each other),
`Order` and `NotYet` (of the messages), `Logged` and `EnqFirst` (of the report on the push and those of a subscriber), `LastWord` (of an
acknowledgment and a dead letter), and `NoneSkipped` (what is older than a message read has been read or lost: it would else be
ahead of it in the pipe, against `Order`). `SentUnlessFailed` says that `RetriedUntilSent`, which `client_retry` refutes, does hold
where no call fails and nothing crashes, so the exception that is swallowed is all that is wrong with it.

**VideoCallHubProofs.** `TypeCorrect`, `CallsArePairs` (`PairsOnly`), `SecondCalls` (`TwoCallsExplained`), `Ghosts`
(`GhostsExplained`) and `OldOffers` (`NoOfferFromTheGone`) for any connections, of which any may end, and any number of calls and offers. `IInv` adds `Orderly` (what an
invocation is in the middle of fits the user and the call it is about, and who is removed has ended), `Paired` and `TwoForm`, which say call by call what
`PairsOnly` and `TwoCallsExplained` say of numbers. `Haunted` and `Stranded` say of everybody whose end has begun what the last two properties say of who is removed: the removal changes nothing in
them, and before the `HangUp` of the end has looked there is nothing to explain.

**SignalRoomsProofs.** `GhostsOutnumber` (`GhostForMissing`) for any connections and rooms. By itself
it is not inductive: one who has found itself and not yet taken an element will take one. `EachHasGhost` counts those too
(`Due`): missing members and takers due are together no more than the entries of those who have left.

**EcommerceOrdersProofs.** `RowsWhole` (`RowsAreWhole`) and `VerdictsStand` (`VerdictStands`). What a
request carries must be whole as well as the rows: `RequestIsWhole` says of what a request has read, and of what it will make of it, what `Whole` says of
a row, so that any save of any earlier reading leaves a row that is whole; and what is posted has been made WAITING_FOR_PAYMENT. `CartsAlone` (`OneCartAlone`) and
`PaymentsExplained` (`PaidOnlyIfBroken`) are about orders nothing excuses (`Clean`). `Unpaid`: they have no payment and no gateway, except while
their checkout is on (`BilledIn`), nor has what a request has read of them, so no answer is asked for. `Single`: a user
whose requests never overlapped has one request, and one cart that no administrator made one (`OwnCarts`), or a request that is about to make it; the reading of that one
request is still true when it saves.

**WorkflowServiceProofs.** `BlockedIsExplained` (`BlockedExplained`) for any senders and outages: `Moving` says
that while `IsStarting` is set over one disconnected object, a sender at its start, one that has just failed, or
a handler of `Closed` will bring it on. `RecordsTrue` (`RecordTellsTruth`) for any workflow, triggers, crashes, losses and repetitions:
the rows are written once in a run, at its end, so what matters is what is known in the middle of one (`Running`: the requests passed have had their effects and succeeded,
what comes after has not been touched and has had none, and its status is that of the rows). `Messages` counts: of a trigger there are no more messages than were pushed and
repeated, and one with a message that never came again has left no trace before it runs (`Fresh`). `Told` says what a saved run leaves, and `Records` that with the order of the effects. `TypeCorrect` (`TypeOK`) goes with it. `ServiceKeepsPromise`
(`KeepsPromise`) is the refinement, with `Due` for what is due and `Complete` (a run about to be
saved has gone to its last action or to one that failed): every step of the service and of the hub client maps to one of WorkflowPromise or
to a stutter, `Push` to a `Cut` if it loses the message.

**Only model-checked:** liveness everywhere, with the fairness half of `KeepsPromise` (liveness
under fairness and ENABLED are beyond the proof system).

## 5. Disagreements

- **`RetriedUntilSent`** (`client_retry`). `Engines/PublisherBase.cs:121-122` says "If cannot send
  msg, try to wait 1s then retry", and its loop catches what `SendMessages` throws. For the MIX
  provider nothing throws: `MixQueuePublisher.SendMessage` catches every exception of
  `Client.Publish` and writes it to the console. With the broker away the loop goes on, and the
  messages it has dequeued are gone.
- **`OneCallEach`** (`hub_one_call`). `GetUserCall` takes the one call of a user with
  `SingleOrDefault`, and `AnswerCall` has the check "make sure the user hasn't accepted another call
  already" for the caller only. A user with two offers can accept both. Then `GetUserCall` throws
  for him in `HangUp`, and for everybody in `SendUserListUpdateAsync`. The check of the caller is not
  atomic with the new call either, so two users can answer one caller.


## 6. What is not modelled

- **A restart of the broker.** Topics, subscriptions and pending messages are in its memory; a
  restart loses all of them, and a model would say no more than that.
- **More than one topic.** Topics share nothing but the registry, which is in the plan.
- **The inside of a `List`** under concurrent use, except for what decides what is delivered: overlapping `Add`s in
  MixTopicRaces, and in MixMqServer an `AddRange` that is undone and a `List` read while it is extended. Left out are the growing of its array and
  empty slots (a search that meets one fails), and in VideoCallHub an entry that is lost as two threads add at once. There, a search
  that throws since another thread changes the list is an outcome of `HangUp` and `AnswerCall`; in `CallUser` it changes nothing.
- **`MessageSubscriptions`** of the broker, which is written and never read; `SendSignal` and
  `InCall` of the hub, which change nothing; a user who calls himself or joins twice.
- **`HandleSubscriberError`'s nesting**: it starts the next loop from inside the `catch` of the
  last, so every reconnect deepens the chain; the model has the reconnect without the depth.
- **The other providers**, whose guarantees are those of external brokers.
- **Requests and responses** (section 1.4): what they do is done by a database.
- **`MixDbHub.JoinRooms`**, an `async void` that goes on in a hub object SignalR has disposed: what that does is the library's.
- **Codes and tokens** (`OAuthCodeStoreService`, `OAuthTokenService`, the refresh tokens of
  `MixIdentityService`): left out on purpose, for what they decide is who gets access.
- **Around an order**: the items of a cart and their prices, tracking rows, mails, the generic REST
  operations on order rows, and the tables in which PayPal and Onepay keep their transactions.
- **The order of messages of different triggers**: the subscriber may take them in any.
- **Around a workflow**: the editing of workflows, what requests and responses contain, and
  `WorkflowHanlderJob` of the scheduler, a copy of the run that keeps no rows of it.
- **The scheduler** (Quartz's store decides), **dynamic database events** (a list that is replaced as a
  whole), **compliance** (each request is an update of one row), **tenancy** (section 7).


## 7. Plan

Done, in the order of what matters most: MixTopic with TopicPromise, MixMqServer, MixTopicRaces,
MixQueueClient, VideoCallHub, EcommerceOrders, SignalRooms, HubClient with WorkflowService; and the
proofs of section 4.

Left, the model:

1. **TopicRegistry**: `GetTopic`, one object per topic, and what the first calls of a topic can lose.
2. **Compliance**: requests with deadlines, break-glass and retention.
3. **TenantInit**: the initialisation by steps in a settings file, with restarts between them.

Left, the proofs: none of the invariants, action properties and refinements of the passing runs is without its
theorem, except for the liveness in the `KeepsPromise` of the topic. Promises worth stating next, as MailPromise and WorkflowPromise do for
their modules: of the calls of VideoCallHub, and of the rows and reports of MixQueueClient.
