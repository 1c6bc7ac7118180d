----------------------- MODULE WorkflowServiceProofs -----------------------
(***************************************************************************)
(* What is proved of the workflow service and its hub client: for every    *)
(* workflow, sender and trigger, and all bounds.                           *)
(***************************************************************************)
EXTENDS WorkflowService, Integers, TLAPS

-----------------------------------------------------------------------------
(* The invariant that BlockedExplained follows from                         *)

\* Calls, states and handlers belong to objects that have been built, and who is about
\* to build one has built none.
Objects ==
    /\ IF Connection = NoObject THEN built = {} ELSE Connection \in built
    /\ IsStarting => built # {}
    /\ \A s \in Senders :
         /\ at[s] = "init" => s \notin built
         /\ at[s] \notin {"idle", "init"} => built # {}
         /\ at[s] \in {"lock", "starting"} => calls[s] \in built
         /\ state[s] # "Disconnected" => s \in built
         /\ closed[s] # "no" => built # {}
         /\ closed[s] \in Senders => closed[s] \in built

Two == \E s, o \in built : s # o

\* While IsStarting is set over one object that is disconnected, someone is at its
\* start or will be: a sender, or the handler of Closed, unless that has failed.
Moving ==
    /\ Connection # NoObject
    /\ IsStarting /\ state[Connection] = "Disconnected"
    /\ ~abandoned /\ ~Two
    => \E s \in Senders : at[s] \in {"lock", "failed"} \/ closed[s] = "waiting"

HInv == HubTypeOK /\ Objects /\ Moving

\* What a step of the workflow service does to the hub client.
HubStep ==
    \/ HubNext \/ RestartProcess \/ UNCHANGED hubVars
    \/ \E s \in Senders : SendMessage(s)
LEMMA HubTypeNext == HubTypeOK /\ Objects /\ HubStep => HubTypeOK'
  <1> SUFFICES ASSUME HubTypeOK, Objects, HubStep PROVE HubTypeOK'
    OBVIOUS
  <1> USE DEF HubTypeOK, Objects
  <1>1. ASSUME NEW s \in Senders, SendMessage(s) PROVE HubTypeOK'
    BY <1>1, HubAssumption DEF SendMessage, Goto
  <1>2. ASSUME NEW s \in Senders, BuildConnection(s) PROVE HubTypeOK'
    BY <1>2, HubAssumption DEF BuildConnection, Goto
  <1>3. ASSUME NEW s \in Senders, Loop(s) PROVE HubTypeOK'
    BY <1>3, HubAssumption DEF Loop, Goto
  <1>4. ASSUME NEW s \in Senders, BeginStart(s) PROVE HubTypeOK'
    BY <1>4, HubAssumption DEF BeginStart, Goto
  <1>5. ASSUME NEW s \in Senders, StartAsync(s) PROVE HubTypeOK'
    BY <1>5, HubAssumption DEF StartAsync, Goto
  <1>6. ASSUME NEW s \in Senders, Started(s) PROVE HubTypeOK'
    BY <1>6, HubAssumption DEF Started, Goto
  <1>7. ASSUME NEW s \in Senders, Caught(s) PROVE HubTypeOK'
    BY <1>7, HubAssumption DEF Caught, Goto
  <1>8. ASSUME NEW s \in Senders, Invoke(s) PROVE HubTypeOK'
    BY <1>8, HubAssumption DEF Invoke, Goto
  <1>9. ASSUME NEW s \in Senders, Reconnect(s) PROVE HubTypeOK'
    BY <1>9, HubAssumption DEF Reconnect
  <1>10. ASSUME NEW s \in Senders, Restart(s) PROVE HubTypeOK'
    BY <1>10, HubAssumption DEF Restart
  <1>11. ASSUME NEW s \in Senders, Restarted(s) PROVE HubTypeOK'
    BY <1>11, HubAssumption DEF Restarted
  <1>12. CASE HubDown
    <2>1. outages' \in 0..MaxOutages
      BY <1>12, HubAssumption DEF HubDown
    <2>2. /\ state' \in [Senders -> {"Disconnected", "Connecting", "Connected", "Reconnecting"}]
          /\ up' \in BOOLEAN
      BY <1>12 DEF HubDown
    <2> QED BY <1>12, <2>1, <2>2 DEF HubDown
  <1>13. CASE HubUp
    BY <1>13, HubAssumption DEF HubUp
  <1>14. CASE RestartProcess
    BY <1>14, HubAssumption DEF RestartProcess
  <1>15. CASE UNCHANGED hubVars
    BY <1>15 DEF hubVars
  <1> QED BY <1>1, <1>2, <1>3, <1>4, <1>5, <1>6, <1>7, <1>8,
           <1>9, <1>10, <1>11, <1>12, <1>13, <1>14, <1>15
          DEF HubStep, HubNext, Sending, Library

LEMMA ObjectsNext == HubTypeOK /\ Objects /\ HubStep => Objects'
  <1> SUFFICES ASSUME HubTypeOK, Objects, HubStep PROVE Objects'
    OBVIOUS
  <1> USE DEF HubTypeOK, Objects
  <1>1. ASSUME NEW s \in Senders, SendMessage(s) PROVE Objects'
    BY <1>1, HubAssumption DEF SendMessage, Goto
  <1>2. ASSUME NEW s \in Senders, BuildConnection(s) PROVE Objects'
    BY <1>2, HubAssumption DEF BuildConnection, Goto
  <1>3. ASSUME NEW s \in Senders, Loop(s) PROVE Objects'
    BY <1>3, HubAssumption DEF Loop, Goto
  <1>4. ASSUME NEW s \in Senders, BeginStart(s) PROVE Objects'
    BY <1>4, HubAssumption DEF BeginStart, Goto
  <1>5. ASSUME NEW s \in Senders, StartAsync(s) PROVE Objects'
    BY <1>5, HubAssumption DEF StartAsync, Goto
  <1>6. ASSUME NEW s \in Senders, Started(s) PROVE Objects'
    BY <1>6, HubAssumption DEF Started, Goto
  <1>7. ASSUME NEW s \in Senders, Caught(s) PROVE Objects'
    BY <1>7, HubAssumption DEF Caught, Goto
  <1>8. ASSUME NEW s \in Senders, Invoke(s) PROVE Objects'
    BY <1>8, HubAssumption DEF Invoke, Goto
  <1>9. ASSUME NEW s \in Senders, Reconnect(s) PROVE Objects'
    BY <1>9, HubAssumption DEF Reconnect
  <1>10. ASSUME NEW s \in Senders, Restart(s) PROVE Objects'
    BY <1>10, HubAssumption DEF Restart
  <1>11. ASSUME NEW s \in Senders, Restarted(s) PROVE Objects'
    BY <1>11, HubAssumption DEF Restarted
  <1>12. CASE HubDown
    BY <1>12, HubAssumption DEF HubDown
  <1>13. CASE HubUp
    BY <1>13, HubAssumption DEF HubUp
  <1>14. CASE RestartProcess
    BY <1>14, HubAssumption DEF RestartProcess
  <1>15. CASE UNCHANGED hubVars
    BY <1>15 DEF hubVars
  <1> QED BY <1>1, <1>2, <1>3, <1>4, <1>5, <1>6, <1>7, <1>8,
           <1>9, <1>10, <1>11, <1>12, <1>13, <1>14, <1>15
          DEF HubStep, HubNext, Sending, Library

LEMMA MovingNext == HubTypeOK /\ Objects /\ Moving /\ HubStep => Moving'
  <1> SUFFICES ASSUME HubTypeOK, Objects, Moving, HubStep PROVE Moving'
    OBVIOUS
  <1> USE DEF HubTypeOK, Objects, Moving, Two
  <1>1. ASSUME NEW s \in Senders, SendMessage(s) PROVE Moving'
    BY <1>1, HubAssumption DEF SendMessage, Goto
  <1>2. ASSUME NEW s \in Senders, BuildConnection(s) PROVE Moving'
    BY <1>2, HubAssumption DEF BuildConnection, Goto
  <1>3. ASSUME NEW s \in Senders, Loop(s) PROVE Moving'
    BY <1>3, HubAssumption DEF Loop, Goto
  <1>4. ASSUME NEW s \in Senders, BeginStart(s) PROVE Moving'
    BY <1>4, HubAssumption DEF BeginStart, Goto
  <1>5. ASSUME NEW s \in Senders, StartAsync(s) PROVE Moving'
    BY <1>5, HubAssumption DEF StartAsync, Goto
  <1>6. ASSUME NEW s \in Senders, Started(s) PROVE Moving'
    BY <1>6, HubAssumption DEF Started, Goto
  <1>7. ASSUME NEW s \in Senders, Caught(s) PROVE Moving'
    BY <1>7, HubAssumption DEF Caught, Goto
  <1>8. ASSUME NEW s \in Senders, Invoke(s) PROVE Moving'
    BY <1>8, HubAssumption DEF Invoke, Goto
  <1>9. ASSUME NEW s \in Senders, Reconnect(s) PROVE Moving'
    BY <1>9, HubAssumption DEF Reconnect
  <1>10. ASSUME NEW s \in Senders, Restart(s) PROVE Moving'
    BY <1>10, HubAssumption DEF Restart
  <1>11. ASSUME NEW s \in Senders, Restarted(s) PROVE Moving'
    <2>1. CASE up /\ ~Two
      <3>1. closed[s] = Connection /\ Connection' = Connection
        BY <1>11, <2>1 DEF Restarted
      <3>2. state'[Connection] = "Connected"
        BY <1>11, <2>1, <3>1 DEF Restarted
      <3> QED BY <3>1, <3>2
    <2>2. CASE Two
      BY <1>11, <2>2 DEF Restarted
    <2>3. CASE ~up
      BY <1>11, <2>3 DEF Restarted
    <2> QED BY <2>1, <2>2, <2>3
  <1>12. CASE HubDown
    BY <1>12, HubAssumption DEF HubDown
  <1>13. CASE HubUp
    BY <1>13, HubAssumption DEF HubUp
  <1>14. CASE RestartProcess
    BY <1>14, HubAssumption DEF RestartProcess
  <1>15. CASE UNCHANGED hubVars
    BY <1>15 DEF hubVars
  <1> QED BY <1>1, <1>2, <1>3, <1>4, <1>5, <1>6, <1>7, <1>8,
           <1>9, <1>10, <1>11, <1>12, <1>13, <1>14, <1>15
          DEF HubStep, HubNext, Sending, Library

LEMMA HubInvInit == HubInit => HInv
  <1> SUFFICES ASSUME HubInit PROVE HInv
    OBVIOUS
  <1>1. outages \in 0..MaxOutages
    BY HubAssumption DEF HubInit
  <1>2. HubTypeOK
    BY <1>1 DEF HubInit, HubTypeOK
  <1>3. Objects /\ Moving
    BY HubAssumption DEF HubInit, Objects, Moving
  <1> QED BY <1>2, <1>3 DEF HInv

LEMMA HubInvNext == HInv /\ HubStep => HInv'
  BY HubTypeNext, ObjectsNext, MovingNext DEF HInv

\* Every step of the service is one of these.
LEMMA StepIsHubStep == [Next]_vars => HubStep
  <1> SUFFICES ASSUME [Next]_vars PROVE HubStep
    OBVIOUS
  <1>1. ASSUME NEW t \in Triggers, CreateTrigger(t) \/ Push(t) \/ Repeat(t) PROVE HubStep
    BY <1>1 DEF CreateTrigger, Push, Repeat, HubStep
  <1>2. CASE Work
    BY <1>2, WorkflowAssumption
    DEF Work, Take, StartAction, Act, PortalSent, EndAction, Save, Throw, HubStep
  <1>3. CASE Crash
    BY <1>3 DEF Crash, HubStep
  <1>4. CASE HubNext \/ \E s \in Senders \ {Subscriber} : SendMessage(s)
    BY <1>4 DEF HubStep
  <1>5. CASE UNCHANGED vars
    BY <1>5 DEF vars, HubStep
  <1> QED BY <1>1, <1>2, <1>3, <1>4, <1>5 DEF Next

LEMMA HubInvImplies == HInv => BlockedExplained
  BY DEF HInv, Moving, Two, BlockedExplained, Blocked

\* For any number of senders and of outages, with the process stopping and starting
\* again, senders wait for ever in StartConnection only after a handler of Closed has
\* failed, or when two of them have built an object each.
THEOREM BlockedIsExplained == Spec => []BlockedExplained
  <1>1. Init => HInv
    BY HubInvInit DEF Init
  <1>2. HInv /\ [Next]_vars => HInv'
    BY HubInvNext, StepIsHubStep
  <1> QED BY <1>1, <1>2, HubInvImplies, PTL DEF Spec

-----------------------------------------------------------------------------
(* The run of a trigger                                                     *)

\* Before its first run a trigger has had no effect and its row is as it was made;
\* a trigger that is not in the database is nowhere; and there are no more messages
\* of it than have been pushed and repeated.
Fresh(t) == rows[t] = Untouched /\ did[t] = <<>> /\ run.of # t
Messages ==
    \A t \in Triggers :
       /\ coming[t] <= again[t] + 1
       /\ rows[t] = NoTrigger =>
            t \notin unpushed /\ coming[t] = 0 /\ again[t] = 0 /\ did[t] = <<>> /\ run.of # t
       /\ t \in unpushed => coming[t] = 0 /\ again[t] = 0 /\ Fresh(t)
       /\ again[t] = 0 /\ coming[t] > 0 => Fresh(t)
       /\ again[t] = 0 /\ run.of = t => rows[t] = Untouched

Increasing(q) == \A i, j \in 1 .. Len(q) : i < j => q[i] < q[j]
Has(q, k) == \E i \in 1 .. Len(q) : q[i] = k

\* The action the run is at, or has been at last.
Current == IF run.step = "save" THEN run.action - 1 ELSE run.action

\* In the middle of a run: the actions before the current one have succeeded, those
\* after it have not been touched.
Running ==
    /\ run.step = "rest" <=> run.of = NoTrigger
    /\ run.step # "rest" =>
         /\ Current \in Actions
         /\ \A k \in Actions :
              /\ k < Current => /\ run.status[k] = "Succeeded"
                                /\ Kinds[k] = "Request" => Has(did[run.of], k)
              /\ k > Current => run.status[k] = rows[run.of][k] /\ ~Has(did[run.of], k)
         /\ run.step \in {"next", "act", "portal"} => ~Has(did[run.of], Current)
         /\ run.step \notin {"next", "act"} =>
              /\ run.status[Current] \in {"Succeeded", "Failed"}
              /\ run.status[Current] = "Succeeded" /\ Kinds[Current] = "Request" =>
                    Has(did[run.of], Current)

\* What the row of a trigger says of it.
Told(t) ==
    rows[t] # NoTrigger /\ again[t] = 0 => \A k \in Actions :
       /\ rows[t][k] = "Succeeded" /\ Kinds[k] = "Request" => Has(did[t], k)
       /\ rows[t][k] = "" => ~Has(did[t], k) \/ run.of = t \/ t \in cut
       /\ rows[t][k] = "Failed" =>
             \A l \in Actions : l > k => rows[t][l] = "" /\ ~Has(did[t], l)

Records == \A t \in Triggers : Increasing(did[t]) /\ Told(t)

WInv == WorkTypeOK /\ Messages /\ Running /\ Records

Kind == {"Request", "NoRequest", "ParseMarkdownJson", "PortalNotification"}

LEMMA ActionsAre ==
    /\ Len(Kinds) \in Nat /\ Len(Kinds) > 0 /\ Actions = 1 .. Len(Kinds)
    /\ \A k \in Actions : Kinds[k] \in Kind
  BY WorkflowAssumption DEF Actions, Kind

LEMMA ActionsCompare ==
    ASSUME NEW k \in Actions, NEW l \in Actions
    PROVE  (k < l \/ k = l \/ k > l) /\ ~(k < k) /\ ~(k > k) /\ (k < l <=> l > k)
  BY ActionsAre

LEMMA UntouchedIs ==
    /\ Untouched \in Results /\ Untouched # NoTrigger
    /\ \A k \in Actions : Untouched[k] = ""
  BY WorkflowAssumption DEF Untouched, Results

LEMMA RestingIs ==
    /\ Resting \in [of : Triggers \cup {NoTrigger}, action : 1 .. Len(Kinds) + 1,
                    step : {"rest", "next", "act", "portal", "ended", "save"},
                    status : Results]
    /\ Resting.of = NoTrigger /\ Resting.step = "rest"
  <1>1. 1 \in 1 .. Len(Kinds) + 1
    BY ActionsAre
  <1> QED BY <1>1, UntouchedIs DEF Resting

LEMMA DoneIsRanOn ==
    ASSUME WorkTypeOK, NEW t \in Triggers
    PROVE  \A k \in Actions : k \in RanOn(t) <=> Has(did[t], k)
  <1>1. did[t] \in Seq(Actions)
    BY DEF WorkTypeOK
  <1>2. DOMAIN did[t] = 1 .. Len(did[t]) /\ \A i \in 1 .. Len(did[t]) : did[t][i] \in Actions
    BY <1>1
  <1> QED BY <1>2 DEF RanOn, Has

LEMMA WInvImplies == WInv => RecordTellsTruth
  <1> SUFFICES ASSUME WInv, NEW t \in Triggers
               PROVE  /\ \A i, j \in DOMAIN did[t] : i < j => did[t][i] < did[t][j]
                      /\ rows[t] # NoTrigger /\ again[t] = 0 => \A k \in Actions :
                           /\ rows[t][k] = "Succeeded" /\ Kinds[k] = "Request" => k \in RanOn(t)
                           /\ rows[t][k] = "" => k \notin RanOn(t) \/ run.of = t \/ t \in cut
                           /\ rows[t][k] = "Failed" =>
                                 \A l \in Actions : l > k => rows[t][l] = "" /\ l \notin RanOn(t)
    BY DEF RecordTellsTruth
  <1>1. DOMAIN did[t] = 1 .. Len(did[t])
    BY DEF WInv, WorkTypeOK
  <1>2. \A k \in Actions : k \in RanOn(t) <=> Has(did[t], k)
    BY DoneIsRanOn DEF WInv
  <1>3. Increasing(did[t]) /\ Told(t)
    BY DEF WInv, Records
  <1> QED BY <1>1, <1>2, <1>3 DEF Increasing, Told

LEMMA WInvInit == Init => WInv
  <1> SUFFICES ASSUME Init PROVE WInv
    OBVIOUS
  <1>1. 0 \in 0..MaxCrashes /\ 0 \in 0..MaxRepeats
    BY WorkflowAssumption
  <1>2. WorkTypeOK
    BY <1>1, RestingIs DEF Init, WorkTypeOK
  <1>3. Messages
    BY RestingIs, WorkflowAssumption DEF Init, Messages
  <1>4. Running
    BY RestingIs DEF Init, Running
  <1>5. Records
    BY DEF Init, Records, Increasing, Told
  <1> QED BY <1>2, <1>3, <1>4, <1>5 DEF WInv

-----------------------------------------------------------------------------
(* Its steps                                                                *)

RunType == [of : Triggers \cup {NoTrigger}, action : 1 .. Len(Kinds) + 1,
            step : {"rest", "next", "act", "portal", "ended", "save"}, status : Results]

LEMMA Types ==
    ASSUME WInv
    PROVE  /\ rows \in [Triggers -> Results \cup {NoTrigger}]
           /\ coming \in [Triggers -> Nat] /\ again \in [Triggers -> Nat]
           /\ run \in RunType /\ did \in [Triggers -> Seq(Actions)]
           /\ unpushed \subseteq Triggers
           /\ run.step # "rest" => run.of \in Triggers /\ run.of # NoTrigger
  <1>1. again \in [Triggers -> Nat]
    BY WorkflowAssumption DEF WInv, WorkTypeOK
  <1> QED BY <1>1 DEF WInv, WorkTypeOK, Running, RunType

\* Steps that leave the rows, the effects and the run alone change nothing of what
\* is said of them.
LEMMA NothingNew ==
    ASSUME Running, Records, UNCHANGED <<rows, did, run, cut>>,
           \A t \in Triggers : again'[t] = 0 => again[t] = 0
    PROVE  Running' /\ Records'
  BY DEF Running, Records, Current, Told

LEMMA CreateKeeps ==
    ASSUME WInv, NEW t \in Triggers, CreateTrigger(t)
    PROVE  WInv'
  <1>1. /\ rows[t] = NoTrigger /\ rows' = [rows EXCEPT ![t] = Untouched]
        /\ unpushed' = unpushed \cup {t}
        /\ UNCHANGED <<coming, run, crashes, did, cut, lost, again>>
    BY DEF CreateTrigger
  <1>2. coming[t] = 0 /\ again[t] = 0 /\ run.of # t /\ did[t] = <<>>
    BY <1>1 DEF WInv, Messages
  <1>3. WorkTypeOK'
    BY <1>1, UntouchedIs DEF WInv, WorkTypeOK
  <1>4. /\ rows'[t] = Untouched
        /\ \A u \in Triggers : u # t => rows'[u] = rows[u]
    BY <1>1, Types
  <1>5. Messages'
    BY <1>1, <1>2, <1>4, UntouchedIs, Types DEF WInv, Messages, Fresh
  <1>6. Running'
    BY <1>1, <1>2, <1>4, Types DEF WInv, Running, Current
  <1>7. Records'
    <2>1. \A u \in Triggers : Increasing(did'[u])
      BY <1>1 DEF WInv, Records
    <2>2. Told(t)'
      <3>1. \A k : ~Has(did'[t], k)
        BY <1>1, <1>2 DEF Has
      <3>2. \A k \in Actions : rows'[t][k] = ""
        BY <1>4, UntouchedIs
      <3> QED BY <3>1, <3>2 DEF Told
    <2>3. ASSUME NEW u \in Triggers, u # t PROVE Told(u)'
      <3>1. Told(u)
        BY DEF WInv, Records
      <3>2. rows'[u] = rows[u] /\ UNCHANGED <<did, cut, run, again>>
        BY <1>1, <1>4, <2>3
      <3> QED BY <3>1, <3>2 DEF Told
    <2> QED BY <2>1, <2>2, <2>3 DEF Records
  <1> QED BY <1>3, <1>5, <1>6, <1>7 DEF WInv

LEMMA PushKeeps ==
    ASSUME WInv, NEW t \in Triggers, Push(t)
    PROVE  WInv'
  <1>1. /\ t \in unpushed /\ unpushed' = unpushed \ {t}
        /\ coming' = [coming EXCEPT ![t] = coming[t] + 1] \/ coming' = coming
        /\ lost' \subseteq lost \cup {t}
        /\ UNCHANGED <<rows, run, crashes, did, cut, again>>
    BY DEF Push
  <1>2. coming[t] = 0 /\ again[t] = 0 /\ Fresh(t) /\ rows[t] # NoTrigger
    BY <1>1 DEF WInv, Messages
  <1>3. coming' \in [Triggers -> Nat]
    BY <1>1, Types
  <1>4. WorkTypeOK'
    BY <1>1, <1>3 DEF WInv, WorkTypeOK
  <1>5. /\ coming'[t] \in {0, 1}
        /\ \A u \in Triggers : u # t => coming'[u] = coming[u]
    BY <1>1, <1>2, Types
  <1>6. Messages'
    BY <1>1, <1>2, <1>5, Types DEF WInv, Messages, Fresh
  <1> QED BY <1>1, <1>4, <1>6, NothingNew DEF WInv

LEMMA RepeatKeeps ==
    ASSUME WInv, NEW t \in Triggers, Repeat(t)
    PROVE  WInv'
  <1>1. /\ rows[t] # NoTrigger /\ t \notin unpushed /\ again[t] < MaxRepeats
        /\ coming' = [coming EXCEPT ![t] = coming[t] + 1]
        /\ again' = [again EXCEPT ![t] = again[t] + 1]
        /\ UNCHANGED <<rows, unpushed, run, crashes, did, cut, lost>>
    BY DEF Repeat
  <1>2. /\ coming[t] \in Nat /\ again[t] \in Nat
        /\ coming'[t] = coming[t] + 1 /\ again'[t] = again[t] + 1
        /\ \A u \in Triggers : u # t => coming'[u] = coming[u] /\ again'[u] = again[u]
    BY <1>1, Types
  <1>3. again' \in [Triggers -> 0..MaxRepeats] /\ coming' \in [Triggers -> Nat]
    <2>1. again[t] + 1 \in 0..MaxRepeats
      BY <1>1, <1>2, WorkflowAssumption
    <2> QED BY <1>1, <2>1, Types DEF WInv, WorkTypeOK
  <1>4. WorkTypeOK'
    BY <1>1, <1>3 DEF WInv, WorkTypeOK
  <1>5. Messages'
    <2> SUFFICES ASSUME NEW u \in Triggers
                 PROVE  /\ coming'[u] <= again'[u] + 1
                        /\ rows[u] = NoTrigger =>
                             /\ u \notin unpushed /\ coming'[u] = 0 /\ again'[u] = 0
                             /\ did[u] = <<>> /\ run.of # u
                        /\ u \in unpushed => coming'[u] = 0 /\ again'[u] = 0 /\ Fresh(u)
                        /\ again'[u] = 0 /\ coming'[u] > 0 => Fresh(u)
                        /\ again'[u] = 0 /\ run.of = u => rows[u] = Untouched
      BY <1>1 DEF Messages, Fresh
    <2>1. CASE u = t
      <3>1. coming[t] <= again[t] + 1
        BY <1>1, <1>2 DEF WInv, Messages
      <3>2. again'[t] # 0 /\ coming'[t] <= again'[t] + 1
        BY <1>2, <3>1
      <3> QED BY <1>1, <2>1, <3>2
    <2>2. CASE u # t
      BY <1>2, <2>2 DEF WInv, Messages
    <2> QED BY <2>1, <2>2
  <1>6. \A u \in Triggers : again'[u] = 0 => again[u] = 0
    BY <1>2
  <1> QED BY <1>1, <1>4, <1>5, <1>6, NothingNew DEF WInv

LEMMA TakeKeeps ==
    ASSUME WInv, NEW t \in Triggers, Take(t)
    PROVE  WInv'
  <1>1. /\ run.step = "rest" /\ coming[t] > 0
        /\ coming' = [coming EXCEPT ![t] = coming[t] - 1]
        /\ run' = [of |-> t, action |-> 1, step |-> "next", status |-> rows[t]]
        /\ did' = [did EXCEPT ![t] = <<>>]
        /\ UNCHANGED <<rows, unpushed, crashes, cut, lost, again>>
    BY DEF Take, BeginRun
  <1>2. /\ coming[t] \in Nat /\ again[t] \in Nat /\ coming'[t] = coming[t] - 1
        /\ did'[t] = <<>> /\ <<>> \in Seq(Actions)
        /\ \A u \in Triggers : u # t => coming'[u] = coming[u] /\ did'[u] = did[u]
    BY <1>1, Types
  <1>3. /\ run'.of = t /\ run'.action = 1 /\ run'.step = "next" /\ run'.status = rows[t]
        /\ run.of = NoTrigger
    BY <1>1 DEF WInv, Running
  <1>4. /\ coming[t] <= again[t] + 1 /\ rows[t] # NoTrigger /\ t \notin unpushed
        /\ again[t] = 0 => rows[t] = Untouched /\ did[t] = <<>>
        /\ t # NoTrigger
    BY <1>1, <1>2, WorkflowAssumption DEF WInv, Messages, Fresh
  <1>5. rows[t] \in Results /\ 1 \in Actions /\ 1 \in 1 .. Len(Kinds) + 1
    BY <1>4, Types, ActionsAre
  <1>6. WorkTypeOK'
    <2>1. run' \in RunType
      BY <1>1, <1>5 DEF RunType
    <2>2. coming' \in [Triggers -> Nat] /\ did' \in [Triggers -> Seq(Actions)]
      <3>1. coming[t] - 1 \in Nat
        BY <1>1, <1>2
      <3> QED BY <1>1, <1>2, <3>1, Types
    <2> QED BY <1>1, <2>1, <2>2 DEF WInv, WorkTypeOK, RunType
  <1>7. Messages'
    <2> SUFFICES ASSUME NEW u \in Triggers
                 PROVE  /\ coming'[u] <= again[u] + 1
                        /\ rows[u] = NoTrigger =>
                             /\ u \notin unpushed /\ coming'[u] = 0 /\ again[u] = 0
                             /\ did'[u] = <<>> /\ t # u
                        /\ u \in unpushed =>
                             /\ coming'[u] = 0 /\ again[u] = 0
                             /\ rows[u] = Untouched /\ did'[u] = <<>> /\ t # u
                        /\ again[u] = 0 /\ coming'[u] > 0 =>
                             rows[u] = Untouched /\ did'[u] = <<>> /\ t # u
                        /\ again[u] = 0 /\ t = u => rows[u] = Untouched
      BY <1>1, <1>3 DEF Messages, Fresh
    <2>1. CASE u = t
      <3>1. coming'[t] <= again[t] + 1 /\ (again[t] = 0 => ~(coming'[t] > 0))
        BY <1>1, <1>2, <1>4
      <3> QED BY <1>4, <2>1, <3>1
    <2>2. CASE u # t
      BY <1>2, <2>2 DEF WInv, Messages, Fresh
    <2> QED BY <2>1, <2>2
  <1>8. Running'
    <2>1. Current' = 1
      BY <1>3 DEF Current
    <2>2. \A k : ~Has(did'[t], k)
      BY <1>2 DEF Has
    <2>3. \A k \in Actions : ~(k < 1)
      BY ActionsAre
    <2> QED BY <1>1, <1>3, <1>4, <1>5, <2>1, <2>2, <2>3 DEF Running
  <1>9. Records'
    <2>1. ASSUME NEW u \in Triggers PROVE Increasing(did'[u])
      BY <1>2 DEF WInv, Records, Increasing
    <2>2. Told(t)'
      <3>1. again[t] = 0 => \A k \in Actions : rows'[t][k] = ""
        BY <1>1, <1>4, UntouchedIs
      <3>2. \A k : ~Has(did'[t], k)
        BY <1>2 DEF Has
      <3> QED BY <1>1, <3>1, <3>2 DEF Told
    <2>3. ASSUME NEW u \in Triggers, u # t PROVE Told(u)'
      <3>1. Told(u) /\ run.of # u
        BY <1>3, WorkflowAssumption DEF WInv, Records
      <3>2. did'[u] = did[u] /\ UNCHANGED <<rows, cut, again>>
        BY <1>1, <1>2, <2>3
      <3> QED BY <3>1, <3>2 DEF Told
    <2> QED BY <2>1, <2>2, <2>3 DEF Records
  <1> QED BY <1>6, <1>7, <1>8, <1>9 DEF WInv

\* One more effect, of a later action, keeps the order.
LEMMA Appended ==
    ASSUME NEW q \in Seq(Actions), NEW k \in Actions, Increasing(q),
           \A l \in Actions : Has(q, l) => l < k
    PROVE  /\ Append(q, k) \in Seq(Actions) /\ Increasing(Append(q, k))
           /\ \A l : Has(Append(q, k), l) <=> Has(q, l) \/ l = k
  <1> DEFINE r == Append(q, k)
  <1>1. /\ r \in Seq(Actions) /\ Len(q) \in Nat /\ Len(r) = Len(q) + 1
        /\ \A i \in 1 .. Len(q) : r[i] = q[i] /\ q[i] \in Actions
        /\ r[Len(q) + 1] = k
    OBVIOUS
  <1> HIDE DEF r
  <1>2. \A i \in 1 .. Len(q) : r[i] < k
    BY <1>1 DEF Has
  <1>3. ASSUME NEW i \in 1 .. Len(r), NEW j \in 1 .. Len(r), i < j PROVE r[i] < r[j]
    <2>1. i \in 1 .. Len(q)
      BY <1>1, <1>3
    <2>2. CASE j \in 1 .. Len(q)
      BY <1>1, <1>3, <2>1, <2>2 DEF Increasing
    <2>3. CASE j = Len(q) + 1
      BY <1>1, <1>2, <2>1, <2>3
    <2> QED BY <1>1, <2>2, <2>3
  <1>4. Increasing(r)
    BY <1>3 DEF Increasing
  <1>5. ASSUME NEW l PROVE Has(r, l) <=> Has(q, l) \/ l = k
    <2>1. Has(r, l) => Has(q, l) \/ l = k
      BY <1>1 DEF Has
    <2>2. Has(q, l) => Has(r, l)
      BY <1>1 DEF Has
    <2>3. l = k => Has(r, l)
      BY <1>1 DEF Has
    <2> QED BY <2>1, <2>2, <2>3
  <1> QED BY <1>1, <1>4, <1>5 DEF r

\* A step inside a run: what the trigger has done and the run itself may change.
LEMMA Onward ==
    ASSUME WInv, UNCHANGED Around, run.step # "rest",
           run' \in RunType, run'.of = run.of, run'.step # "rest",
           did' \in [Triggers -> Seq(Actions)],
           \A u \in Triggers : Increasing(did'[u]),
           \A u \in Triggers : u # run.of => did'[u] = did[u],
           Running'
    PROVE  WInv'
  <1>0. UNCHANGED <<rows, unpushed, coming, crashes, cut, lost, again>>
    BY DEF Around
  <1>1. WorkTypeOK'
    BY <1>0 DEF WInv, WorkTypeOK, RunType
  <1>2. Messages'
    BY <1>0 DEF WInv, Messages, Fresh
  <1>3. ASSUME NEW u \in Triggers PROVE Told(u)'
    <2>1. CASE u = run.of
      <3>1. again[u] = 0 => \A k \in Actions : rows'[u][k] = ""
        BY <1>0, <2>1, UntouchedIs DEF WInv, Messages
      <3> QED BY <1>0, <2>1, <3>1 DEF Told
    <2>2. CASE u # run.of
      <3>1. Told(u) /\ did'[u] = did[u]
        BY <2>2 DEF WInv, Records
      <3> QED BY <1>0, <3>1 DEF Told
    <2> QED BY <2>1, <2>2
  <1> QED BY <1>1, <1>2, <1>3 DEF WInv, Records

\* The effect of the current action, or none.
LEMMA Done ==
    ASSUME WInv, run.step # "rest", NEW k \in Actions, NEW effect \in BOOLEAN,
           \A l \in Actions : Has(did[run.of], l) => l < k,
           did' = IF effect THEN [did EXCEPT ![run.of] = Append(did[run.of], k)] ELSE did
    PROVE  /\ did' \in [Triggers -> Seq(Actions)]
           /\ \A u \in Triggers : Increasing(did'[u])
           /\ \A u \in Triggers : u # run.of => did'[u] = did[u]
           /\ \A l : Has(did'[run.of], l) <=> Has(did[run.of], l) \/ (effect /\ l = k)
  <1> DEFINE t == run.of
  <1>1. t \in Triggers /\ did \in [Triggers -> Seq(Actions)]
        /\ \A u \in Triggers : Increasing(did[u])
    BY Types DEF WInv, Records
  <1>2. CASE effect
    <2>1. /\ Append(did[t], k) \in Seq(Actions) /\ Increasing(Append(did[t], k))
          /\ \A l : Has(Append(did[t], k), l) <=> Has(did[t], l) \/ l = k
      BY <1>1, Appended
    <2>2. did'[t] = Append(did[t], k) /\ \A u \in Triggers : u # t => did'[u] = did[u]
      BY <1>1, <1>2
    <2>3. did' \in [Triggers -> Seq(Actions)]
      BY <1>1, <1>2, <2>1
    <2> QED BY <1>1, <1>2, <2>1, <2>2, <2>3
  <1>3. CASE ~effect
    BY <1>1, <1>3
  <1> QED BY <1>2, <1>3

LEMMA StartKeeps ==
    ASSUME WInv, StartAction
    PROVE  WInv' /\ run'.of = run.of
  <1>1. /\ run.step = "next" /\ run' = [run EXCEPT !.step = "act"]
        /\ UNCHANGED Around /\ UNCHANGED did /\ run \in RunType
    BY Types DEF StartAction
  <1>2. /\ run' \in RunType /\ run'.of = run.of /\ run'.action = run.action
        /\ run'.step = "act" /\ run'.status = run.status
    BY <1>1 DEF RunType
  <1>3. Running'
    BY <1>1, <1>2 DEF WInv, Running, Current, Around
  <1>4. did \in [Triggers -> Seq(Actions)] /\ \A u \in Triggers : Increasing(did[u])
    BY Types DEF WInv, Records
  <1> QED BY <1>1, <1>2, <1>3, <1>4, Onward

\* The outcome of an action: its status, and whether the action has had an effect.
ActAs(outcome, effect, p) ==
    LET k == run.action IN
    /\ run.step = "act" /\ k \in Actions /\ Current = k
    /\ outcome \in {"Succeeded", "Failed"} /\ effect \in BOOLEAN
    /\ outcome = "Succeeded" /\ Kinds[k] = "Request" => effect
    /\ p = "portal" => ~effect
    /\ p \in {"portal", "ended"}
    /\ run' \in RunType
    /\ run'.of = run.of /\ run'.action = k /\ run'.step = p
    /\ run'.status = [run.status EXCEPT ![k] = outcome]
    /\ did' = IF effect THEN [did EXCEPT ![run.of] = Append(did[run.of], k)] ELSE did
    /\ UNCHANGED Around

LEMMA ActParts ==
    ASSUME WInv, Act
    PROVE  \E outcome, effect, p : ActAs(outcome, effect, p)
  <1> DEFINE k == run.action
  <1>1. run.step = "act" /\ k \in Actions /\ run \in RunType /\ Current = k
    BY Types DEF Act, WInv, Running, Current
  <1>2. PICK outcome \in Outcomes(k) : \E effect \in Effects(k, outcome) :
         /\ run' = [run EXCEPT !.status[k] = outcome,
                               !.step = IF Kinds[k] = "PortalNotification" /\ outcome = "Succeeded"
                                        THEN "portal" ELSE "ended"]
         /\ did' = IF effect THEN [did EXCEPT ![run.of] = Append(@, k)] ELSE did
    BY DEF Act
  <1>3. PICK effect \in Effects(k, outcome) :
         /\ run' = [run EXCEPT !.status[k] = outcome,
                               !.step = IF Kinds[k] = "PortalNotification" /\ outcome = "Succeeded"
                                        THEN "portal" ELSE "ended"]
         /\ did' = IF effect THEN [did EXCEPT ![run.of] = Append(@, k)] ELSE did
    BY <1>2
  <1> DEFINE p == IF Kinds[k] = "PortalNotification" /\ outcome = "Succeeded"
                  THEN "portal" ELSE "ended"
  <1>4. outcome \in {"Succeeded", "Failed"}
    BY DEF Outcomes
  <1>5. /\ effect \in BOOLEAN
        /\ outcome = "Succeeded" /\ Kinds[k] = "Request" => effect
        /\ Kinds[k] # "Request" => ~effect
    BY DEF Effects
  <1>6. /\ p \in {"portal", "ended"} /\ run' = [run EXCEPT !.status[k] = outcome, !.step = p]
        /\ p = "portal" => Kinds[k] = "PortalNotification"
    BY <1>3
  <1> HIDE DEF p
  <1>7. [run.status EXCEPT ![k] = outcome] \in Results
    BY <1>1, <1>4 DEF RunType, Results
  <1>8. /\ run' \in RunType
        /\ run'.of = run.of /\ run'.action = k /\ run'.step = p
        /\ run'.status = [run.status EXCEPT ![k] = outcome]
    BY <1>1, <1>6, <1>7 DEF RunType
  <1>9. did' = IF effect THEN [did EXCEPT ![run.of] = Append(did[run.of], k)] ELSE did
    BY <1>3
  <1>10. UNCHANGED Around
    BY DEF Act
  <1>11. p = "portal" => ~effect
    BY <1>5, <1>6
  <1>12. ActAs(outcome, effect, p)
    BY <1>1, <1>4, <1>5, <1>6, <1>8, <1>9, <1>10, <1>11 DEF ActAs
  <1> QED BY <1>12

\* In a run, what has had an effect comes before an action that has had none.
LEMMA Before ==
    ASSUME WInv, run.step \in {"next", "act", "portal"}
    PROVE  Current \in Actions /\ \A l \in Actions : Has(did[run.of], l) => l < Current
  <1>1. /\ Current \in Actions /\ ~Has(did[run.of], Current)
        /\ \A l \in Actions : l > Current => ~Has(did[run.of], l)
    BY DEF WInv, Running
  <1> QED BY <1>1, ActionsCompare

LEMMA ActKeeps ==
    ASSUME WInv, Act
    PROVE  WInv'
  <1>1. PICK outcome, effect, p : ActAs(outcome, effect, p)
    BY ActParts
  <1> DEFINE k == run.action
  <1>2. /\ run.step = "act" /\ k \in Actions /\ Current = k
        /\ outcome \in {"Succeeded", "Failed"} /\ effect \in BOOLEAN
        /\ outcome = "Succeeded" /\ Kinds[k] = "Request" => effect
        /\ p = "portal" => ~effect
        /\ p \in {"portal", "ended"} /\ run' \in RunType
        /\ run'.of = run.of /\ run'.action = k /\ run'.step = p
        /\ run'.status = [run.status EXCEPT ![k] = outcome]
        /\ did' = IF effect THEN [did EXCEPT ![run.of] = Append(did[run.of], k)] ELSE did
        /\ UNCHANGED Around
    BY <1>1 DEF ActAs
  <1>3. \A l \in Actions : Has(did[run.of], l) => l < k
    BY <1>2, Before
  <1> HIDE DEF k
  <1>4. /\ did' \in [Triggers -> Seq(Actions)]
        /\ \A u \in Triggers : Increasing(did'[u])
        /\ \A u \in Triggers : u # run.of => did'[u] = did[u]
        /\ \A l : Has(did'[run.of], l) <=> Has(did[run.of], l) \/ (effect /\ l = k)
    BY <1>2, <1>3, Done
  <1>5. /\ run'.status[k] = outcome
        /\ \A l \in Actions : l # k => run'.status[l] = run.status[l]
        /\ Current' = k /\ rows' = rows
    BY <1>2, Types DEF RunType, Results, Current, Around
  <1>6. Running'
    <2>1. \A l \in Actions :
            /\ l < k => /\ run'.status[l] = "Succeeded"
                        /\ Kinds[l] = "Request" => Has(did'[run.of], l)
            /\ l > k => run'.status[l] = rows[run.of][l] /\ ~Has(did'[run.of], l)
      <3> SUFFICES ASSUME NEW l \in Actions, l # k
                   PROVE  /\ l < k => /\ run'.status[l] = "Succeeded"
                                      /\ Kinds[l] = "Request" => Has(did'[run.of], l)
                          /\ l > k => run'.status[l] = rows[run.of][l] /\ ~Has(did'[run.of], l)
        BY <1>2, ActionsCompare
      <3>1. run'.status[l] = run.status[l] /\ (Has(did'[run.of], l) <=> Has(did[run.of], l))
        BY <1>4, <1>5
      <3> QED BY <1>2, <3>1 DEF WInv, Running
    <2>2. p = "portal" => ~Has(did'[run.of], k)
      <3>1. ~Has(did[run.of], k)
        BY <1>2 DEF WInv, Running
      <3> QED BY <1>2, <1>4, <3>1
    <2>3. outcome = "Succeeded" /\ Kinds[k] = "Request" => Has(did'[run.of], k)
      BY <1>2, <1>4
    <2>4. run'.step # "rest" /\ run'.of # NoTrigger /\ run'.step \notin {"next", "act"}
      BY <1>2, Types
    <2> QED BY <1>2, <1>5, <2>1, <2>2, <2>3, <2>4 DEF Running
  <1> QED BY <1>2, <1>4, <1>6, Onward

LEMMA PortalParts ==
    ASSUME WInv, PortalSent
    PROVE  /\ run.step = "portal" /\ Current = run.action /\ Current \in Actions
           /\ run' \in RunType /\ run'.of = run.of /\ run'.action = run.action
           /\ run'.step = "ended" /\ run'.status = run.status
           /\ UNCHANGED Around
           /\ \E sent \in BOOLEAN :
                did' = IF sent THEN [did EXCEPT ![run.of] = Append(did[run.of], run.action)] ELSE did
  <1>1. /\ run.step = "portal" /\ run' = [run EXCEPT !.step = "ended"] /\ UNCHANGED Around
        /\ run \in RunType
    BY Types DEF PortalSent
  <1>2. /\ run' \in RunType /\ run'.of = run.of /\ run'.action = run.action
        /\ run'.step = "ended" /\ run'.status = run.status
    BY <1>1 DEF RunType
  <1>3. Current = run.action /\ Current \in Actions
    BY <1>1 DEF WInv, Running, Current
  <1> QED BY <1>1, <1>2, <1>3 DEF PortalSent

LEMMA PortalKeeps ==
    ASSUME WInv, PortalSent
    PROVE  WInv'
  <1>1. PICK sent \in BOOLEAN :
          did' = IF sent THEN [did EXCEPT ![run.of] = Append(did[run.of], run.action)] ELSE did
    BY PortalParts
  <1>2. /\ run.step = "portal" /\ Current = run.action /\ Current \in Actions
        /\ run' \in RunType /\ run'.of = run.of /\ run'.action = run.action
        /\ run'.step = "ended" /\ run'.status = run.status
        /\ UNCHANGED Around
    BY PortalParts
  <1>3. \A l \in Actions : Has(did[run.of], l) => l < Current
    BY <1>2, Before
  <1> DEFINE k == Current
  <1>4. k \in Actions /\ did' = IF sent THEN [did EXCEPT ![run.of] = Append(did[run.of], k)] ELSE did
    BY <1>1, <1>2
  <1> HIDE DEF k
  <1>5. /\ did' \in [Triggers -> Seq(Actions)]
        /\ \A u \in Triggers : Increasing(did'[u])
        /\ \A u \in Triggers : u # run.of => did'[u] = did[u]
        /\ \A l : Has(did'[run.of], l) <=> Has(did[run.of], l) \/ (sent /\ l = k)
    BY <1>2, <1>3, <1>4, Done DEF k
  <1>6. Current' = k /\ rows' = rows /\ run'.of # NoTrigger
    BY <1>2, Types DEF Current, Around, k
  <1>7. \A l \in Actions : l > k => l # k
    BY <1>4, ActionsCompare
  <1>8. Running'
    BY <1>2, <1>4, <1>5, <1>6, <1>7 DEF WInv, Running, k
  <1> QED BY <1>2, <1>5, <1>8, Onward

LEMMA EndParts ==
    ASSUME WInv, EndAction
    PROVE  /\ run.step = "ended" /\ Current = run.action /\ Current \in Actions
           /\ run' \in RunType /\ run'.of = run.of /\ run'.action = run.action + 1
           /\ run'.status = run.status
           /\ run'.step = IF Last(run.action) \/ run.status[run.action] = "Failed"
                          THEN "save" ELSE "next"
           /\ UNCHANGED Around /\ UNCHANGED did
  <1> DEFINE p == IF Last(run.action) \/ run.status[run.action] = "Failed" THEN "save" ELSE "next"
  <1>1. /\ run.step = "ended" /\ run' = [run EXCEPT !.action = run.action + 1, !.step = p]
        /\ UNCHANGED Around /\ UNCHANGED did /\ run \in RunType
    BY Types DEF EndAction
  <1>2. Current = run.action /\ Current \in Actions
    BY <1>1 DEF WInv, Running, Current
  <1> DEFINE a == run.action + 1
  <1>3. /\ a \in 1 .. Len(Kinds) + 1 /\ run' = [run EXCEPT !.action = a, !.step = p]
        /\ p \in {"save", "next"}
    BY <1>1, <1>2, ActionsAre
  <1> HIDE DEF a, p
  <1>4. /\ run' \in RunType /\ run'.of = run.of /\ run'.action = a /\ run'.step = p
        /\ run'.status = run.status
    BY <1>1, <1>3 DEF RunType
  <1> QED BY <1>1, <1>2, <1>4 DEF a, p

LEMMA EndKeeps ==
    ASSUME WInv, EndAction
    PROVE  WInv'
  <1> DEFINE k == run.action
  <1>1. /\ run.step = "ended" /\ Current = k /\ k \in Actions
        /\ run' \in RunType /\ run'.of = run.of /\ run'.action = k + 1
        /\ run'.status = run.status
        /\ run'.step = IF Last(k) \/ run.status[k] = "Failed" THEN "save" ELSE "next"
        /\ UNCHANGED Around /\ UNCHANGED did /\ rows' = rows
    BY EndParts DEF Around
  <1> HIDE DEF k
  <1>2. /\ run.status[k] \in {"Succeeded", "Failed"}
        /\ run.status[k] = "Succeeded" /\ Kinds[k] = "Request" => Has(did[run.of], k)
        /\ \A l \in Actions :
             /\ l < k => /\ run.status[l] = "Succeeded"
                         /\ Kinds[l] = "Request" => Has(did[run.of], l)
             /\ l > k => run.status[l] = rows[run.of][l] /\ ~Has(did[run.of], l)
    BY <1>1 DEF WInv, Running
  <1>3. run'.of # NoTrigger /\ k \in Nat
    BY <1>1, Types, ActionsAre
  <1>4. Running'
    <2>1. CASE run'.step = "save"
      <3>1. Current' = k
        BY <1>1, <1>3, <2>1 DEF Current
      <3> QED BY <1>1, <1>2, <1>3, <2>1, <3>1 DEF Running
    <2>2. CASE run'.step = "next"
      <3>1. Current' = k + 1 /\ ~Last(k) /\ run.status[k] = "Succeeded"
        BY <1>1, <1>2, <2>2 DEF Current
      <3>2. k + 1 \in Actions /\ k + 1 > k
        BY <1>1, <3>1, ActionsAre DEF Last
      <3>3. \A l \in Actions : (l < k + 1 => l < k \/ l = k) /\ (l > k + 1 => l > k)
        BY <1>1, ActionsAre
      <3> QED BY <1>1, <1>2, <1>3, <2>2, <3>1, <3>2, <3>3 DEF Running
    <2> QED BY <1>1, <2>1, <2>2
  <1>5. did \in [Triggers -> Seq(Actions)] /\ \A u \in Triggers : Increasing(did[u])
    BY Types DEF WInv, Records
  <1>6. run'.step # "rest"
    BY <1>1
  <1> QED BY <1>1, <1>4, <1>5, <1>6, Onward

\* The run is over: its trigger is at rest.
LEMMA RestingKeeps ==
    ASSUME WInv, run' = Resting, UNCHANGED <<unpushed, coming, crashes, did, lost, again>>,
           rows' \in [Triggers -> Results \cup {NoTrigger}],
           \A u \in Triggers : u # run.of => rows'[u] = rows[u],
           cut' \subseteq Triggers, cut \subseteq cut',
           NEW t \in Triggers, t = run.of, rows'[t] # NoTrigger, Told(t)'
    PROVE  WInv'
  <1>1. WorkTypeOK'
    BY RestingIs DEF WInv, WorkTypeOK
  <1>2. Messages'
    <2>1. t \notin unpushed /\ (again[t] = 0 => ~(coming[t] > 0)) /\ coming[t] <= again[t] + 1
      BY DEF WInv, Messages, Fresh
    <2>2. \A u \in Triggers : u # NoTrigger
      BY WorkflowAssumption
    <2> QED BY <2>1, <2>2, RestingIs DEF WInv, Messages, Fresh
  <1>3. Running'
    BY RestingIs DEF Running
  <1>4. Records'
    <2>1. \A u \in Triggers : Increasing(did'[u])
      BY DEF WInv, Records
    <2>2. ASSUME NEW u \in Triggers, u # run.of PROVE Told(u)'
      <3>1. Told(u) /\ rows'[u] = rows[u] /\ UNCHANGED <<did, again>> /\ cut \subseteq cut'
        BY <2>2 DEF WInv, Records
      <3> QED BY <2>2, <3>1 DEF Told
    <2> QED BY <2>1, <2>2 DEF Records
  <1> QED BY <1>1, <1>2, <1>3, <1>4 DEF WInv

LEMMA SaveKeeps ==
    ASSUME WInv, Save
    PROVE  WInv'
  <1>0. PICK t \in Triggers : t = run.of
    BY Types DEF Save
  <1>1. /\ run.step = "save" /\ rows' = [rows EXCEPT ![t] = run.status] /\ run' = Resting
        /\ UNCHANGED <<unpushed, coming, crashes, did, cut, lost, again>>
    BY <1>0 DEF Save
  <1>2. run.status \in Results
    BY Types DEF RunType
  <1>3. /\ rows' \in [Triggers -> Results \cup {NoTrigger}] /\ rows'[t] = run.status
        /\ \A u \in Triggers : u # t => rows'[u] = rows[u]
    BY <1>1, <1>2, Types
  <1>4. run.status # NoTrigger /\ cut \subseteq Triggers
    BY <1>2, WorkflowAssumption DEF WInv, WorkTypeOK
  <1>5. Told(t)'
    <2> SUFFICES ASSUME again[t] = 0
                 PROVE  \A k \in Actions :
                          /\ run.status[k] = "Succeeded" /\ Kinds[k] = "Request" => Has(did[t], k)
                          /\ run.status[k] = "" => ~Has(did[t], k)
                          /\ run.status[k] = "Failed" =>
                                \A l \in Actions : l > k => run.status[l] = "" /\ ~Has(did[t], l)
      BY <1>1, <1>3 DEF Told
    <2>1. /\ Current \in Actions
          /\ \A k \in Actions :
               /\ k < Current => /\ run.status[k] = "Succeeded"
                                 /\ Kinds[k] = "Request" => Has(did[t], k)
               /\ k > Current => run.status[k] = rows[t][k] /\ ~Has(did[t], k)
          /\ run.status[Current] \in {"Succeeded", "Failed"}
          /\ run.status[Current] = "Succeeded" /\ Kinds[Current] = "Request" => Has(did[t], Current)
      BY <1>0, <1>1 DEF WInv, Running
    <2>2. \A k \in Actions : k < Current \/ k = Current \/ k > Current
      BY <2>1, ActionsCompare
    <2>3. \A k \in Actions : rows[t][k] = ""
      BY <1>0, UntouchedIs DEF WInv, Messages
    <2> QED BY <2>1, <2>2, <2>3
  <1> QED BY <1>0, <1>1, <1>3, <1>4, <1>5, RestingKeeps

LEMMA ThrowKeeps ==
    ASSUME WInv, Throw
    PROVE  WInv'
  <1>0. PICK t \in Triggers : t = run.of
    BY Types DEF Throw
  <1>1. /\ run.step # "rest" /\ cut' = cut \cup {t} /\ run' = Resting
        /\ UNCHANGED <<rows, unpushed, coming, crashes, did, lost, again>>
    BY <1>0 DEF Throw
  <1>2. rows'[t] # NoTrigger /\ (again[t] = 0 => rows'[t] = Untouched) /\ t \in cut'
    BY <1>0, <1>1 DEF WInv, Messages
  <1>3. Told(t)'
    BY <1>1, <1>2, UntouchedIs DEF Told
  <1>4. rows \in [Triggers -> Results \cup {NoTrigger}] /\ cut \subseteq Triggers
    BY DEF WInv, WorkTypeOK
  <1> QED BY <1>0, <1>1, <1>2, <1>3, <1>4, RestingKeeps

\* A process that stops loses what it has not pushed, some messages, and the run.
LEMMA CrashKeeps ==
    ASSUME WInv, Crash
    PROVE  WInv'
  <1>1. PICK left \in [Triggers -> 0 .. MaxRepeats + 1] :
          /\ \A t \in Triggers : left[t] <= coming[t]
          /\ coming' = left
          /\ cut' = cut \cup unpushed \cup {t \in Triggers : left[t] = 0 /\ coming[t] > 0}
                        \cup ({run.of} \cap Triggers)
    BY DEF Crash
  <1>2. /\ unpushed' = {} /\ run' = Resting /\ UNCHANGED <<rows, did, lost, again>>
        /\ crashes < MaxCrashes /\ crashes' = crashes + 1
    BY DEF Crash
  <1>3. /\ \A t \in Triggers : coming'[t] \in Nat /\ coming'[t] <= coming[t]
        /\ coming' \in [Triggers -> Nat]
    BY <1>1, WorkflowAssumption
  <1>4. cut' \subseteq Triggers /\ cut \subseteq cut' /\ \A t \in Triggers : run.of = t => t \in cut'
    BY <1>1 DEF WInv, WorkTypeOK
  <1>5. WorkTypeOK'
    <2>1. crashes' \in 0..MaxCrashes
      BY <1>2, WorkflowAssumption DEF WInv, WorkTypeOK
    <2> QED BY <1>2, <1>3, <1>4, <2>1, RestingIs DEF WInv, WorkTypeOK
  <1>6. Messages'
    <2> SUFFICES ASSUME NEW t \in Triggers
                 PROVE  /\ coming'[t] <= again[t] + 1
                        /\ rows[t] = NoTrigger =>
                             coming'[t] = 0 /\ again[t] = 0 /\ did[t] = <<>>
                        /\ again[t] = 0 /\ coming'[t] > 0 => rows[t] = Untouched /\ did[t] = <<>>
      BY <1>2, RestingIs, WorkflowAssumption DEF Messages, Fresh
    <2>1. coming'[t] \in Nat /\ coming[t] \in Nat /\ again[t] \in Nat /\ coming'[t] <= coming[t]
      BY <1>3, Types
    <2>2. /\ coming[t] <= again[t] + 1
          /\ rows[t] = NoTrigger => coming[t] = 0 /\ again[t] = 0 /\ did[t] = <<>>
          /\ again[t] = 0 /\ coming[t] > 0 => rows[t] = Untouched /\ did[t] = <<>>
      BY DEF WInv, Messages, Fresh
    <2>3. coming'[t] <= again[t] + 1 /\ (coming[t] = 0 => coming'[t] = 0)
          /\ (coming'[t] > 0 => coming[t] > 0)
      BY <2>1, <2>2
    <2> QED BY <2>2, <2>3
  <1>7. Running'
    BY <1>2, RestingIs DEF Running
  <1>8. Records'
    <2>1. \A u \in Triggers : Increasing(did'[u])
      BY <1>2 DEF WInv, Records
    <2>2. ASSUME NEW u \in Triggers PROVE Told(u)'
      <3>1. Told(u) /\ UNCHANGED <<rows, did, again>>
        BY <1>2 DEF WInv, Records
      <3>2. run.of = u \/ u \in cut => u \in cut'
        BY <1>4
      <3> QED BY <3>1, <3>2 DEF Told
    <2> QED BY <2>1, <2>2 DEF Records
  <1> QED BY <1>5, <1>6, <1>7, <1>8 DEF WInv

LEMMA WInvNext == WInv /\ [Next]_vars => WInv'
  <1> SUFFICES ASSUME WInv, [Next]_vars PROVE WInv'
    OBVIOUS
  <1>1. ASSUME NEW t \in Triggers, CreateTrigger(t) \/ Push(t) \/ Repeat(t) \/ Take(t)
        PROVE  WInv'
    BY <1>1, CreateKeeps, PushKeeps, RepeatKeeps, TakeKeeps
  <1>2. CASE StartAction \/ Act \/ PortalSent \/ EndAction \/ Save \/ Throw
    BY <1>2, StartKeeps, ActKeeps, PortalKeeps, EndKeeps, SaveKeeps, ThrowKeeps
  <1>3. CASE Crash
    BY <1>3, CrashKeeps
  <1>4. CASE UNCHANGED workVars
    <2>1. UNCHANGED <<rows, unpushed, coming, run, crashes, did, cut, lost, again>>
      BY <1>4 DEF workVars
    <2>2. WorkTypeOK' /\ Messages'
      BY <2>1 DEF WInv, WorkTypeOK, Messages, Fresh
    <2> QED BY <2>1, <2>2, NothingNew DEF WInv
  <1> QED BY <1>1, <1>2, <1>3, <1>4 DEF Next, Work, vars

\* For any workflow, triggers, crashes, losses and repetitions, actions run in order,
\* and the rows of a trigger whose message comes once say what its run did: none ran
\* after one that failed, a request that succeeded was made, and an action without a
\* status had no effect unless the run goes on or was cut short.
THEOREM RecordsTrue == Spec => []RecordTellsTruth
  <1>1. Init => WInv
    BY WInvInit
  <1> QED BY <1>1, WInvNext, WInvImplies, PTL DEF Spec

\* The service and its hub client keep to their types.
THEOREM TypeCorrect == Spec => []TypeOK
  <1>1. Init => HInv /\ WInv
    BY HubInvInit, WInvInit DEF Init
  <1>2. HInv /\ WInv /\ [Next]_vars => (HInv /\ WInv)'
    BY HubInvNext, StepIsHubStep, WInvNext
  <1>3. HInv /\ WInv => TypeOK
    BY DEF HInv, WInv, TypeOK
  <1> QED BY <1>1, <1>2, <1>3, PTL DEF Spec

-----------------------------------------------------------------------------
(* The promise                                                              *)

\* A run that is about to be saved has gone to its last action or to one that failed.
Complete == run.step = "save" => run.status[Current] = "Failed" \/ Last(Current)

PInv == WInv /\ Complete

LEMMA CompleteNext == WInv /\ Complete /\ [Next]_vars => Complete'
  <1> SUFFICES ASSUME WInv, Complete, [Next]_vars, run'.step = "save"
               PROVE  run'.status[Current'] = "Failed" \/ Last(Current')
    BY DEF Complete, Last
  <1>1. CASE UNCHANGED run
    BY <1>1 DEF Complete, Current
  <1>2. CASE EndAction
    <2>1. /\ run.action \in Actions /\ run'.action = run.action + 1
          /\ run'.status = run.status
          /\ Last(run.action) \/ run.status[run.action] = "Failed"
      BY <1>2, EndParts
    <2>2. Current' = run.action
      BY <2>1, ActionsAre DEF Current
    <2> QED BY <2>1, <2>2
  <1>3. ~StartAction /\ ~PortalSent /\ \A t \in Triggers : ~Take(t)
    <2>1. ~StartAction /\ \A t \in Triggers : ~Take(t)
      BY Types DEF StartAction, Take, BeginRun, RunType
    <2> QED BY <2>1, PortalParts
  <1>4. ~Act
    BY ActParts DEF ActAs
  <1>5. ~Save /\ ~Throw /\ ~Crash
    BY RestingIs DEF Save, Throw, Crash
  <1>6. ASSUME NEW t \in Triggers, CreateTrigger(t) \/ Push(t) \/ Repeat(t) PROVE UNCHANGED run
    BY <1>6 DEF CreateTrigger, Push, Repeat
  <1> QED BY <1>1, <1>2, <1>3, <1>4, <1>5, <1>6 DEF Next, Work, vars, workVars

LEMMA PInvNext == PInv /\ [Next]_vars => PInv'
  BY WInvNext, CompleteNext DEF PInv

DueOf(t) == coming[t] + (IF t \in unpushed THEN 1 ELSE 0)
Due == [t \in Triggers |-> DueOf(t)]

LEMMA DueIs ==
    ASSUME WInv
    PROVE  /\ Due \in [Triggers -> Nat]
           /\ \A t \in Triggers : Due[t] = coming[t] + (IF t \in unpushed THEN 1 ELSE 0)
           /\ \A t \in Triggers : t \in unpushed => coming[t] = 0
  BY Types DEF Due, DueOf, WInv, Messages

\* A step that changes what is due for one trigger.
LEMMA DueStep ==
    ASSUME NEW t \in Triggers,
           \A u \in Triggers : u # t => coming'[u] = coming[u] /\ (u \in unpushed' <=> u \in unpushed)
    PROVE  Due' = [Due EXCEPT ![t] = DueOf(t)']
  BY DEF Due, DueOf

LEMMA Stutters ==
    ASSUME UNCHANGED <<coming, unpushed, rows, did>>, run'.of = run.of
    PROVE  UNCHANGED Promise!vars
  BY DEF Promise!vars

LEMMA CreatePromised ==
    ASSUME PInv, NEW t \in Triggers, CreateTrigger(t)
    PROVE  Promise!Create(t)
  <1>1. /\ rows[t] = NoTrigger /\ rows' = [rows EXCEPT ![t] = Untouched]
        /\ unpushed' = unpushed \cup {t} /\ UNCHANGED <<coming, run, did>>
    BY DEF CreateTrigger
  <1>2. DueOf(t)' = 1
    BY <1>1 DEF PInv, WInv, Messages, DueOf
  <1>3. Due' = [Due EXCEPT ![t] = 1]
    BY <1>1, <1>2, DueStep
  <1> QED BY <1>1, <1>3 DEF Promise!Create, Promise!Blank, Due, DueOf, Untouched

\* What is due or runs can only become less.
LEMMA LessIsCut ==
    ASSUME PInv, coming' \in [Triggers -> Nat], UNCHANGED <<rows, did>>,
           \A t \in Triggers : Due'[t] <= Due[t],
           run'.of \in {run.of, NoTrigger}
    PROVE  Promise!Cut
  <1>1. Due' \in [Triggers -> Nat]
    BY DEF Due, DueOf
  <1> QED BY <1>1 DEF Promise!Cut, Due, DueOf

LEMMA PushPromised ==
    ASSUME PInv, NEW t \in Triggers, Push(t)
    PROVE  Promise!Cut \/ UNCHANGED Promise!vars
  <1>1. /\ t \in unpushed /\ unpushed' = unpushed \ {t}
        /\ coming' = [coming EXCEPT ![t] = coming[t] + 1] \/ coming' = coming
        /\ UNCHANGED <<rows, run, did>>
    BY DEF Push
  <1>2. coming \in [Triggers -> Nat] /\ coming[t] = 0 /\ \A u \in Triggers : Due[u] = DueOf(u)
    BY <1>1, Types DEF PInv, WInv, Messages, Due
  <1>3. /\ coming' \in [Triggers -> Nat] /\ coming'[t] \in {0, 1}
        /\ \A u \in Triggers : u # t => coming'[u] = coming[u] /\ (u \in unpushed' <=> u \in unpushed)
    BY <1>1, <1>2
  <1>4. DueOf(t)' \in {0, 1} /\ DueOf(t) = 1 /\ \A u \in Triggers : u # t => DueOf(u)' = DueOf(u)
    BY <1>1, <1>2, <1>3 DEF DueOf
  <1>5. \A u \in Triggers : Due'[u] <= Due[u]
    <2>1. \A u \in Triggers : Due'[u] = DueOf(u)' /\ DueOf(u) \in Nat
      BY <1>2 DEF Due, DueOf
    <2> QED BY <1>2, <1>4, <2>1
  <1> QED BY <1>1, <1>3, <1>5, LessIsCut

LEMMA RepeatPromised ==
    ASSUME PInv, NEW t \in Triggers, Repeat(t)
    PROVE  Promise!Repeat(t)
  <1>1. /\ rows[t] # NoTrigger /\ t \notin unpushed
        /\ coming' = [coming EXCEPT ![t] = coming[t] + 1]
        /\ UNCHANGED <<rows, unpushed, run, did>>
    BY DEF Repeat
  <1>2. coming \in [Triggers -> Nat]
    BY Types DEF PInv
  <1>3. DueOf(t)' = Due[t] + 1
    BY <1>1, <1>2 DEF Due, DueOf
  <1>4. Due' = [Due EXCEPT ![t] = Due[t] + 1]
    BY <1>1, <1>2, <1>3, DueStep
  <1> QED BY <1>1, <1>3, <1>4 DEF Promise!Repeat, Due, DueOf

LEMMA TakePromised ==
    ASSUME PInv, NEW t \in Triggers, Take(t)
    PROVE  Promise!Begin(t)
  <1>1. /\ run.of = NoTrigger /\ coming[t] > 0
        /\ coming' = [coming EXCEPT ![t] = coming[t] - 1]
        /\ run'.of = t /\ did' = [did EXCEPT ![t] = <<>>] /\ UNCHANGED <<rows, unpushed>>
    BY DEF Take, BeginRun, PInv, WInv, Running
  <1>2. coming \in [Triggers -> Nat] /\ t \notin unpushed
    BY <1>1, Types DEF PInv, WInv, Messages
  <1>3. DueOf(t)' = Due[t] - 1 /\ Due[t] > 0
    BY <1>1, <1>2 DEF Due, DueOf
  <1>4. Due' = [Due EXCEPT ![t] = Due[t] - 1]
    BY <1>1, <1>2, <1>3, DueStep
  <1> QED BY <1>1, <1>3, <1>4 DEF Promise!Begin, Due, DueOf

\* An action has its effect now, or none.
LEMMA EffectPromised ==
    ASSUME PInv, run.step \in {"act", "portal"}, Current = run.action,
           UNCHANGED Around, run'.of = run.of, NEW effect \in BOOLEAN,
           did' = IF effect THEN [did EXCEPT ![run.of] = Append(did[run.of], run.action)] ELSE did
    PROVE  (\E t \in Triggers : Promise!Effect(t)) \/ UNCHANGED Promise!vars
  <1>1. PICK t \in Triggers : t = run.of
    BY Types DEF PInv
  <1>2. UNCHANGED <<rows, unpushed, coming>>
    BY DEF Around
  <1>3. CASE effect
    <2>1. did \in [Triggers -> Seq(Actions)] /\ DOMAIN did[t] = 1 .. Len(did[t])
      BY Types DEF PInv
    <2>2. run.action \in Actions /\ \A i \in DOMAIN did[t] : did[t][i] < run.action
      <3>1. run.action \in Actions /\ \A l \in Actions : Has(did[t], l) => l < run.action
        BY <1>1, Before DEF PInv
      <3>2. \A i \in DOMAIN did[t] : did[t][i] \in Actions /\ Has(did[t], did[t][i])
        BY <2>1 DEF Has
      <3> QED BY <3>1, <3>2
    <2>3. did' = [did EXCEPT ![t] = Append(@, run.action)]
      BY <1>1, <1>3
    <2>4. Promise!Effect(t)
      BY <1>1, <1>2, <2>2, <2>3 DEF Promise!Effect
    <2> QED BY <2>4
  <1>4. CASE ~effect
    BY <1>2, <1>4, Stutters
  <1> QED BY <1>3, <1>4

LEMMA ActPromised ==
    ASSUME PInv, Act
    PROVE  (\E t \in Triggers : Promise!Effect(t)) \/ UNCHANGED Promise!vars
  <1>1. PICK outcome, effect, p : ActAs(outcome, effect, p)
    BY ActParts DEF PInv
  <1> QED BY <1>1, EffectPromised DEF ActAs

LEMMA PortalPromised ==
    ASSUME PInv, PortalSent
    PROVE  (\E t \in Triggers : Promise!Effect(t)) \/ UNCHANGED Promise!vars
  <1>1. PICK sent \in BOOLEAN :
          did' = IF sent THEN [did EXCEPT ![run.of] = Append(did[run.of], run.action)] ELSE did
    BY PortalParts DEF PInv
  <1>2. run.step = "portal" /\ Current = run.action /\ run'.of = run.of /\ UNCHANGED Around
    BY PortalParts DEF PInv
  <1> QED BY <1>1, <1>2, EffectPromised

LEMMA SavePromised ==
    ASSUME PInv, Save
    PROVE  \E t \in Triggers : Promise!Record(t)
  <1>1. PICK t \in Triggers : t = run.of
    BY Types DEF Save, PInv
  <1>2. /\ run.step = "save" /\ rows' = [rows EXCEPT ![t] = run.status] /\ run' = Resting
        /\ UNCHANGED <<unpushed, coming, did>>
    BY <1>1 DEF Save
  <1> DEFINE r == run.status
  <1>3. r \in [Actions -> Promise!Statuses] /\ run'.of = NoTrigger
    BY <1>2, Types, RestingIs DEF RunType, Results, Promise!Statuses, PInv
  <1>4. /\ Current \in Actions
        /\ \A k \in Actions :
             /\ k < Current => r[k] = "Succeeded" /\ (Kinds[k] = "Request" => Has(did[t], k))
             /\ k > Current => r[k] = rows[t][k] /\ ~Has(did[t], k)
        /\ r[Current] \in {"Succeeded", "Failed"}
        /\ r[Current] = "Succeeded" /\ Kinds[Current] = "Request" => Has(did[t], Current)
    BY <1>1, <1>2 DEF PInv, WInv, Running
  <1>5. r[Current] = "Failed" \/ (r[Current] = "Succeeded" /\ \A k \in Actions : k <= Current)
    <2>1. r[Current] = "Failed" \/ Current = Len(Kinds)
      BY <1>2 DEF PInv, Complete, Last
    <2>2. \A k \in Actions : k <= Len(Kinds)
      BY ActionsAre
    <2> QED BY <1>4, <2>1, <2>2
  <1>6. Promise!WentTo(Current, r, rows[t])
    BY <1>4, <1>5 DEF Promise!WentTo
  <1>7. Promise!Truthful(Current, r, did[t])
    <2>1. DOMAIN did[t] = 1 .. Len(did[t])
      BY Types DEF PInv
    <2>2. \A k \in Actions : k <= Current => k < Current \/ k = Current
      BY <1>4, ActionsAre
    <2> QED BY <1>4, <2>1, <2>2 DEF Promise!Truthful, Has
  <1>8. PICK n \in Actions, s \in [Actions -> Promise!Statuses] : n = Current /\ s = r
    BY <1>3, <1>4
  <1> HIDE DEF r
  <1>9. rows' = [rows EXCEPT ![t] = s]
    BY <1>2, <1>8 DEF r
  <1>10. Promise!WentTo(n, s, rows[t]) /\ Promise!Truthful(n, s, did[t])
    BY <1>6, <1>7, <1>8
  <1>11. Promise!Record(t)
    BY <1>1, <1>2, <1>3, <1>9, <1>10 DEF Promise!Record
  <1> QED BY <1>11

LEMMA CutPromised ==
    ASSUME PInv, Throw \/ Crash
    PROVE  Promise!Cut
  <1>1. CASE Throw
    <2>1. run' = Resting /\ UNCHANGED <<rows, unpushed, coming, did>>
      BY <1>1 DEF Throw
    <2>2. \A t \in Triggers : Due'[t] <= Due[t]
      BY <2>1, DueIs DEF PInv, Due, DueOf
    <2> QED BY <2>1, <2>2, Types, RestingIs, LessIsCut DEF PInv
  <1>2. CASE Crash
    <2>1. PICK left \in [Triggers -> 0 .. MaxRepeats + 1] :
            (\A t \in Triggers : left[t] <= coming[t]) /\ coming' = left
      BY <1>2 DEF Crash
    <2>2. unpushed' = {} /\ run' = Resting /\ UNCHANGED <<rows, did>>
      BY <1>2 DEF Crash
    <2>3. /\ coming' \in [Triggers -> Nat]
          /\ \A t \in Triggers : coming'[t] \in Nat /\ coming'[t] <= coming[t]
      BY <2>1, WorkflowAssumption
    <2>4. \A t \in Triggers : Due'[t] <= Due[t]
      <3> SUFFICES ASSUME NEW t \in Triggers PROVE Due'[t] <= Due[t]
        OBVIOUS
      <3>1. Due'[t] = coming'[t] /\ Due[t] \in {coming[t], coming[t] + 1} /\ coming[t] \in Nat
        BY <2>2, <2>3, Types DEF PInv, Due, DueOf
      <3> QED BY <2>3, <3>1
    <2> QED BY <2>2, <2>3, <2>4, RestingIs, LessIsCut
  <1> QED BY <1>1, <1>2

LEMMA PromisedStep == PInv /\ [Next]_vars => [Promise!Next]_Promise!vars
  <1> SUFFICES ASSUME PInv, [Next]_vars PROVE [Promise!Next]_Promise!vars
    OBVIOUS
  <1>1. ASSUME NEW t \in Triggers, CreateTrigger(t) \/ Repeat(t) \/ Take(t) PROVE Promise!Next
    BY <1>1, CreatePromised, RepeatPromised, TakePromised DEF Promise!Next
  <1>2. ASSUME NEW t \in Triggers, Push(t) PROVE [Promise!Next]_Promise!vars
    BY <1>2, PushPromised DEF Promise!Next
  <1>3. ASSUME StartAction \/ EndAction PROVE UNCHANGED Promise!vars
    <2>1. run'.of = run.of /\ UNCHANGED Around /\ UNCHANGED did
      BY <1>3, StartKeeps, EndParts DEF PInv, StartAction
    <2> QED BY <2>1, Stutters DEF Around
  <1>4. ASSUME UNCHANGED workVars PROVE UNCHANGED Promise!vars
    BY <1>4, Stutters DEF workVars
  <1>5. CASE Act \/ PortalSent
    BY <1>5, ActPromised, PortalPromised DEF Promise!Next
  <1>6. CASE Save
    BY <1>6, SavePromised DEF Promise!Next
  <1>7. CASE Throw \/ Crash
    BY <1>7, CutPromised DEF Promise!Next
  <1> QED BY <1>1, <1>2, <1>3, <1>4, <1>5, <1>6, <1>7 DEF Next, Work, vars

\* For any workflow and triggers, and whatever is lost, repeated or crashes, a trigger
\* runs at most once for each message and alone, its actions have their effects during
\* a run only, in order, and what is recorded is the whole of a run.
THEOREM ServiceKeepsPromise == Spec => KeepsPromise
  <1>1. Init => PInv /\ Promise!Init
    <2> SUFFICES ASSUME Init PROVE PInv /\ Promise!Init
      OBVIOUS
    <2>1. Complete
      BY RestingIs DEF Init, Complete
    <2>2. Due = [t \in Triggers |-> 0]
      BY DEF Init, Due, DueOf
    <2> QED BY <2>1, <2>2, WInvInit, RestingIs DEF Init, PInv, Promise!Init, Due, DueOf
  <1>2. PInv /\ [Next]_vars => PInv'
    BY PInvNext
  <1>3. PInv /\ [Next]_vars => [Promise!Next]_Promise!vars
    BY PromisedStep
  <1> QED BY <1>1, <1>2, <1>3, PTL DEF Spec, KeepsPromise, Promise!Spec
=============================================================================
