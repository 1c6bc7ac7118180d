-------------------------- MODULE WorkflowService --------------------------
(***************************************************************************)
(* Workflows: WorkflowService of src/services/mix.automation, the          *)
(* subscriber MixAutomationSubscriber that runs it, and the hub client it  *)
(* sends its notifications with.                                           *)
(*                                                                         *)
(* A trigger is saved with its actions and pushed to the memory queue; the *)
(* subscriber takes one message at a time, carries out the actions in      *)
(* their order and saves what became of them all at the end.  Of the way   *)
(* between the two (MixQueueClient and MixMqServer) the model keeps what   *)
(* it can do to a message: it can lose it, silently, and repeat it.  The   *)
(* order of the messages of different triggers is left out, and so are     *)
(* requests, responses and the parameters taken from them.                 *)
(***************************************************************************)
EXTENDS HubClient, Sequences

CONSTANTS Subscriber, \* the sender that is MixAutomationSubscriber
          Triggers,
          Kinds,      \* what the actions of the workflow do, in the order of Index;
                      \* it has one at least
          NoTrigger,
          MaxCrashes, \* bound: how often the process stops and starts again
          MaxRepeats  \* bound: how often the message of a trigger is repeated

Actions == DOMAIN Kinds
Results == [Actions -> {"", "Succeeded", "Failed"}]

ASSUME WorkflowAssumption ==
    /\ Subscriber \in Senders
    /\ Kinds \in Seq({"Request", "NoRequest", "ParseMarkdownJson", "PortalNotification"})
    /\ Kinds # <<>>
    /\ NoTrigger \notin Triggers \cup Results
    /\ MaxCrashes \in Nat /\ MaxRepeats \in Nat

VARIABLES rows,     \* rows[t]: what the database holds of each action of t, or none
          unpushed, \* saved, but PushMemoryQueue has not been called
          coming,   \* coming[t]: messages ExecuteTrigger of t on their way to the subscriber
          run,      \* what the subscriber does: the trigger, the action, where it is in
                    \* it, and ActionStatus of every action so far
          crashes,
          did,      \* history: did[t]: the actions of t that had an effect, in order, in
                    \* the run it is in or has been in at last
          cut,      \* history: triggers whose message or run ended with the process, or
                    \* whose run threw
          lost,     \* history: triggers whose message was lost on its way
          again     \* history: again[t]: how often the message of t was repeated

workVars == <<rows, unpushed, coming, run, crashes, did, cut, lost, again>>
vars == <<hubVars, workVars>>

Untouched == [k \in Actions |-> ""]
Resting == [of |-> NoTrigger, action |-> 1, step |-> "rest", status |-> Untouched]

WorkTypeOK ==
    /\ rows \in [Triggers -> Results \cup {NoTrigger}]
    /\ unpushed \subseteq Triggers /\ cut \subseteq Triggers /\ lost \subseteq Triggers
    /\ coming \in [Triggers -> Nat]
    /\ again \in [Triggers -> 0..MaxRepeats]
    /\ run \in [of : Triggers \cup {NoTrigger}, action : 1 .. Len(Kinds) + 1,
                step : {"rest", "next", "act", "portal", "ended", "save"},
                status : Results]
    /\ crashes \in 0..MaxCrashes
    /\ did \in [Triggers -> Seq(Actions)]

TypeOK == HubTypeOK /\ WorkTypeOK

Init ==
    /\ HubInit
    /\ rows = [t \in Triggers |-> NoTrigger]
    /\ unpushed = {} /\ cut = {} /\ lost = {}
    /\ coming = [t \in Triggers |-> 0] /\ again = [t \in Triggers |-> 0]
    /\ run = Resting
    /\ crashes = 0
    /\ did = [t \in Triggers |-> <<>>]

-----------------------------------------------------------------------------
(* CreateTrigger                                                           *)

\* The trigger and its actions are saved and the unit of work is completed.
CreateTrigger(t) ==
    /\ rows[t] = NoTrigger
    /\ rows' = [rows EXCEPT ![t] = Untouched]
    /\ unpushed' = unpushed \cup {t}
    /\ UNCHANGED <<hubVars, coming, run, crashes, did, cut, lost, again>>

\* PushMemoryQueue, and the publisher that takes the message from there: its call
\* brings the message on its way, or fails, which the publisher passes over.
Push(t) ==
    /\ t \in unpushed
    /\ unpushed' = unpushed \ {t}
    /\ \/ coming' = [coming EXCEPT ![t] = @ + 1] /\ UNCHANGED lost
       \/ lost' = lost \cup {t} /\ UNCHANGED coming
    /\ UNCHANGED <<hubVars, rows, run, crashes, did, cut, again>>

\* A loop of the broker fails to send pending messages: all of them come once more,
\* those that another loop has sent meanwhile too, which may have been handled long ago.
\* (Which message a crash took before it was at the broker is not told apart.)
Repeat(t) ==
    /\ rows[t] # NoTrigger /\ t \notin unpushed \cup lost
    /\ again[t] < MaxRepeats
    /\ coming' = [coming EXCEPT ![t] = @ + 1]
    /\ again' = [again EXCEPT ![t] = @ + 1]
    /\ UNCHANGED <<hubVars, rows, unpushed, run, crashes, did, cut, lost>>

-----------------------------------------------------------------------------
(* TriggerWorkflow                                                         *)

\* The run of a trigger begins with what the database holds of its actions.
BeginRun(t) ==
    /\ run' = [of |-> t, action |-> 1, step |-> "next", status |-> rows[t]]
    /\ did' = [did EXCEPT ![t] = <<>>]

\* MixAutomationSubscriber gets the message, which it has acknowledged by then.
\* (TakeUnacknowledged is the mistake of leaving that for later.)
TakeUnacknowledged(t) ==
    /\ run.step = "rest" /\ coming[t] > 0
    /\ BeginRun(t)
    /\ UNCHANGED <<hubVars, rows, unpushed, coming, crashes, cut, lost, again>>
Take(t) ==
    /\ run.step = "rest" /\ coming[t] > 0
    /\ coming' = [coming EXCEPT ![t] = @ - 1]
    /\ BeginRun(t)
    /\ UNCHANGED <<hubVars, rows, unpushed, crashes, cut, lost, again>>

\* What a step inside a run leaves alone.
Around == <<rows, unpushed, coming, crashes, cut, lost, again>>

\* The parameters are injected, and a notification says that the action has started.
StartAction ==
    /\ run.step = "next"
    /\ run' = [run EXCEPT !.step = "act"]
    /\ SendMessage(Subscriber)
    /\ UNCHANGED <<Around, did>>

\* ExecuteAction.  Some actions can fail; without a URL the status Failed is
\* overwritten, and a method that is neither GET nor POST is passed over.
Outcomes(k) == IF Kinds[k] = "NoRequest" THEN {"Succeeded"} ELSE {"Succeeded", "Failed"}

\* Whether an action with this outcome has had an effect by now: a request can have
\* one at the other side and fail, and a portal notification has yet to be sent.
Effects(k, outcome) ==
    IF Kinds[k] # "Request" THEN {FALSE}
    ELSE IF outcome = "Succeeded" THEN {TRUE} ELSE BOOLEAN

Act ==
    LET k == run.action IN
    /\ run.step = "act" /\ at[Subscriber] = "idle"
    /\ \E outcome \in Outcomes(k) : \E effect \in Effects(k, outcome) :
         /\ run' = [run EXCEPT !.status[k] = outcome,
                               !.step = IF Kinds[k] = "PortalNotification" /\ outcome = "Succeeded"
                                        THEN "portal" ELSE "ended"]
         /\ did' = IF effect THEN [did EXCEPT ![run.of] = Append(@, k)] ELSE did
    /\ SendMessage(Subscriber)
    /\ UNCHANGED Around

\* SendMessageAsync returns from the notification that is the action, which has been
\* sent or not: a call that fails is logged only.  A notification on its end follows.
PortalSent ==
    /\ run.step = "portal" /\ at[Subscriber] = "idle"
    /\ run' = [run EXCEPT !.step = "ended"]
    /\ \E sent \in BOOLEAN :
          did' = IF sent THEN [did EXCEPT ![run.of] = Append(@, run.action)] ELSE did
    /\ SendMessage(Subscriber)
    /\ UNCHANGED Around

\* On to the next action, unless this one has failed.  (GoOnAnyway is a mistake.)
Last(k) == k = Len(Kinds)
GoOnAnyway ==
    /\ run.step = "ended" /\ at[Subscriber] = "idle"
    /\ run' = [run EXCEPT !.action = @ + 1, !.step = IF Last(run.action) THEN "save" ELSE "next"]
    /\ UNCHANGED <<hubVars, Around, did>>
EndAction ==
    /\ run.step = "ended" /\ at[Subscriber] = "idle"
    /\ run' = [run EXCEPT !.action = @ + 1,
                          !.step = IF Last(run.action) \/ run.status[run.action] = "Failed"
                                   THEN "save" ELSE "next"]
    /\ UNCHANGED <<hubVars, Around, did>>

\* The trigger and its actions are saved.  (SaveNothing is a mistake.)
SaveNothing ==
    /\ run.step = "save"
    /\ run' = Resting
    /\ UNCHANGED <<hubVars, Around, did>>
Save ==
    /\ run.step = "save"
    /\ rows' = [rows EXCEPT ![run.of] = run.status]
    /\ run' = Resting
    /\ UNCHANGED <<hubVars, unpushed, coming, crashes, did, cut, lost, again>>

\* InjectParameters throws, or the save does: the database refuses, or the time the
\* handler has is over.  The failure is reported, and nothing of the run is saved.
Throw ==
    /\ run.step \in {"next", "save"}
    /\ cut' = cut \cup {run.of}
    /\ run' = Resting
    /\ UNCHANGED <<hubVars, rows, unpushed, coming, crashes, did, lost, again>>

\* The process stops and starts again.  Messages can be lost that were in its memory.
Crash ==
    /\ crashes < MaxCrashes
    /\ crashes' = crashes + 1
    /\ RestartProcess
    /\ unpushed' = {} /\ run' = Resting
    /\ \E left \in [Triggers -> 0 .. MaxRepeats + 1] :
         /\ \A t \in Triggers : left[t] <= coming[t]
         /\ coming' = left
         /\ cut' = cut \cup unpushed \cup {t \in Triggers : left[t] = 0 /\ coming[t] > 0}
                       \cup ({run.of} \cap Triggers)
    /\ UNCHANGED <<rows, did, lost, again>>

Work ==
    \/ \E t \in Triggers : Take(t)
    \/ StartAction \/ Act \/ PortalSent \/ EndAction \/ Save \/ Throw

Next ==
    \/ \E t \in Triggers : CreateTrigger(t) \/ Push(t) \/ Repeat(t)
    \/ Work
    \/ Crash
    \/ (HubNext \/ \E s \in Senders \ {Subscriber} : SendMessage(s)) /\ UNCHANGED workVars

Spec == Init /\ [][Next]_vars

\* Requests come back, the subscriber's loop takes what is there, and a process that
\* has saved a trigger goes on to push it.
FairSpec ==
    /\ Spec /\ HubFairness
    /\ WF_vars(Work) /\ \A t \in Triggers : WF_vars(Push(t))

-----------------------------------------------------------------------------

RanOn(t) == {k \in Actions : \E i \in DOMAIN did[t] : did[t][i] = k}

\* The rows of a trigger tell what its run did, whatever happened around it: actions
\* run in order and once each, none runs after one that failed, and one with no
\* status had no effect, unless the run goes on or was cut short.  A success says
\* that the request was made; of a portal notification it says only that it was
\* tried, and of an action without a URL nothing.  The rows of a trigger whose message
\* came again hold the end of one run after the beginning of another: of them only
\* the order in each run is stated.
RecordTellsTruth ==
    \A t \in Triggers :
       /\ \A i, j \in DOMAIN did[t] : i < j => did[t][i] < did[t][j]
       /\ rows[t] # NoTrigger /\ again[t] = 0 => \A k \in Actions :
            /\ rows[t][k] = "Succeeded" /\ Kinds[k] = "Request" => k \in RanOn(t)
            /\ rows[t][k] = "" => k \notin RanOn(t) \/ run.of = t \/ t \in cut
            /\ rows[t][k] = "Failed" =>
                  \A l \in Actions : l > k => rows[t][l] = "" /\ l \notin RanOn(t)

\* A trigger that has been saved is run and what became of it recorded, unless its
\* message is lost on its way, which nobody notices, its run is cut short, or it waits
\* for a notification behind a connection that nobody starts any more.
EventuallyRecorded ==
    \A t \in Triggers :
       (rows[t] # NoTrigger) ~>
          (rows[t] \in Results \ {Untouched} \/ t \in lost \cup cut \/ Blocked)

-----------------------------------------------------------------------------
(* What it implements *)

Promise == INSTANCE WorkflowPromise WITH
    Outward <- {k \in Actions : Kinds[k] = "Request"},
    Nothing <- NoTrigger,
    due     <- [t \in Triggers |-> coming[t] + (IF t \in unpushed THEN 1 ELSE 0)],
    running <- run.of,
    record  <- rows,
    done    <- did

\* Every step of the service, its queue and its hub client keeps the promise: a
\* trigger runs once for each message at most, and alone; its effects fall into its
\* run, in order; and what is recorded is the whole of a run.
KeepsPromise == Promise!Spec
=============================================================================
