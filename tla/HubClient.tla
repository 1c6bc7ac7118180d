----------------------------- MODULE HubClient -----------------------------
(***************************************************************************)
(* The client of a SignalR hub, BaseHubClientService of                    *)
(* src/platform/mix.service/Services: a singleton that everyone in a       *)
(* process sends notifications with.  Who sends waits in StartConnection   *)
(* until the connection is there, in a loop without a time limit.          *)
(*                                                                         *)
(* The object HubConnection belongs to the library; the model has what     *)
(* this code sees of it: its state, StartAsync, which only one caller at a *)
(* time gets through and which throws unless the state is Disconnected,    *)
(* the automatic reconnect, and the event Closed when that gives up.       *)
(* Messages are left out.                                                  *)
(***************************************************************************)
EXTENDS Naturals

CONSTANTS Senders,   \* who sends notifications
          NoObject,
          MaxOutages \* bound: how often the hub goes down

ASSUME HubAssumption ==
    /\ NoObject \notin Senders /\ Senders \cap {"no", "waiting"} = {}
    /\ MaxOutages \in Nat

VARIABLES up,         \* the hub can be reached
          outages,
          Connection, \* the object in use: NoObject, or who has built it
          state,      \* state[o]: Connection.State of the object built by o
          closed,     \* closed[o]: whether the handler of Closed of that object waits,
                      \* or the object it starts
          IsStarting,
          at,         \* at[s]: where s is in SendMessageAsync
          calls,      \* calls[s]: the object whose StartAsync s calls
          built,      \* history: who has built an object
          abandoned   \* history: a handler of Closed could not start the connection

hubVars == <<up, outages, Connection, state, closed, IsStarting, at, calls, built, abandoned>>

HubTypeOK ==
    /\ up \in BOOLEAN /\ outages \in 0..MaxOutages
    /\ Connection \in Senders \cup {NoObject}
    /\ state \in [Senders -> {"Disconnected", "Connecting", "Connected", "Reconnecting"}]
    /\ closed \in [Senders -> {"no", "waiting"} \cup Senders]
    /\ IsStarting \in BOOLEAN
    /\ at \in [Senders -> {"idle", "init", "loop", "begin", "lock", "starting", "failed", "invoke"}]
    /\ calls \in [Senders -> Senders \cup {NoObject}]
    /\ built \subseteq Senders /\ abandoned \in BOOLEAN

\* There is no object yet, and nobody sends.
HubInit ==
    /\ up = TRUE /\ outages = 0
    /\ Connection = NoObject
    /\ state = [o \in Senders |-> "Disconnected"]
    /\ closed = [o \in Senders |-> "no"]
    /\ IsStarting = FALSE
    /\ at = [s \in Senders |-> "idle"]
    /\ calls = [s \in Senders |-> NoObject]
    /\ built = {} /\ abandoned = FALSE

-----------------------------------------------------------------------------
(* SendMessageAsync and StartConnection                                    *)

Goto(s, l) == at' = [at EXCEPT ![s] = l]

\* SendMessageAsync finds an object or not.
SendMessage(s) ==
    /\ at[s] = "idle"
    /\ Goto(s, IF Connection = NoObject THEN "init" ELSE "loop")
    /\ UNCHANGED <<up, outages, Connection, state, closed, IsStarting, calls, built, abandoned>>

\* Init replaces whatever object there is by now.
BuildConnection(s) ==
    /\ at[s] = "init"
    /\ Connection' = s
    /\ built' = built \cup {s}
    /\ Goto(s, "loop")
    /\ UNCHANGED <<up, outages, state, closed, IsStarting, calls, abandoned>>

\* One round of the loop, which changes nothing unless one of its conditions holds.
Loop(s) ==
    /\ at[s] = "loop"
    /\ \/ state[Connection] = "Connected" /\ Goto(s, "invoke")
       \/ ~IsStarting /\ state[Connection] = "Disconnected" /\ Goto(s, "begin")
    /\ UNCHANGED <<up, outages, Connection, state, closed, IsStarting, calls, built, abandoned>>

BeginStart(s) ==
    /\ at[s] = "begin"
    /\ IsStarting' = TRUE
    /\ calls' = [calls EXCEPT ![s] = Connection]
    /\ Goto(s, "lock")
    /\ UNCHANGED <<up, outages, Connection, state, closed, built, abandoned>>

StartAsync(s) ==
    LET o == calls[s] IN
    /\ at[s] = "lock"
    /\ state[o] # "Connecting"
    /\ IF state[o] = "Disconnected"
       THEN state' = [state EXCEPT ![o] = "Connecting"] /\ Goto(s, "starting")
       ELSE Goto(s, "failed") /\ UNCHANGED state
    /\ UNCHANGED <<up, outages, Connection, closed, IsStarting, calls, built, abandoned>>

\* StartAsync returns, with IsStarting left as it is, or throws.
Started(s) ==
    /\ at[s] = "starting"
    /\ state' = [state EXCEPT ![calls[s]] = IF up THEN "Connected" ELSE "Disconnected"]
    /\ Goto(s, IF up THEN "loop" ELSE "failed")
    /\ abandoned' = (abandoned /\ ~up)
    /\ UNCHANGED <<up, outages, Connection, closed, IsStarting, calls, built>>

\* The catch block.  (KeepStarting is a mistake: the flag is not reset.)
KeepStarting(s) ==
    /\ at[s] = "failed"
    /\ Goto(s, "loop")
    /\ UNCHANGED <<up, outages, Connection, state, closed, IsStarting, calls, built, abandoned>>
Caught(s) ==
    /\ at[s] = "failed"
    /\ IsStarting' = FALSE
    /\ Goto(s, "loop")
    /\ UNCHANGED <<up, outages, Connection, state, closed, calls, built, abandoned>>

\* InvokeAsync; an exception is logged and forgotten by SendMessageAsync.
Invoke(s) ==
    /\ at[s] = "invoke"
    /\ Goto(s, "idle")
    /\ UNCHANGED <<up, outages, Connection, state, closed, IsStarting, calls, built, abandoned>>

Sending(s) ==
    \/ BuildConnection(s) \/ Loop(s) \/ BeginStart(s) \/ StartAsync(s) \/ Started(s)
    \/ Caught(s) \/ Invoke(s)

-----------------------------------------------------------------------------
(* The hub, and the connection when it is lost                             *)

HubDown ==
    /\ up /\ outages < MaxOutages
    /\ up' = FALSE /\ outages' = outages + 1
    /\ state' = [o \in Senders |-> IF state[o] = "Connected" THEN "Reconnecting" ELSE state[o]]
    /\ UNCHANGED <<Connection, closed, IsStarting, at, calls, built, abandoned>>

HubUp ==
    /\ ~up /\ up' = TRUE
    /\ UNCHANGED <<outages, Connection, state, closed, IsStarting, at, calls, built, abandoned>>

\* The automatic reconnect succeeds, or its attempts are used up.
Reconnect(o) ==
    /\ state[o] = "Reconnecting"
    /\ state' = [state EXCEPT ![o] = IF up THEN "Connected" ELSE "Disconnected"]
    /\ closed' = [closed EXCEPT ![o] = IF up THEN @ ELSE "waiting"]
    /\ UNCHANGED <<up, outages, Connection, IsStarting, at, calls, built, abandoned>>

\* The handler of Closed calls StartAsync of the object in use, after a delay.
Restart(o) ==
    /\ closed[o] = "waiting"
    /\ state[Connection] # "Connecting"
    /\ IF state[Connection] = "Disconnected"
       THEN /\ closed' = [closed EXCEPT ![o] = Connection]
            /\ state' = [state EXCEPT ![Connection] = "Connecting"]
       ELSE /\ closed' = [closed EXCEPT ![o] = "no"]
            /\ UNCHANGED state
    /\ UNCHANGED <<up, outages, Connection, IsStarting, at, calls, built, abandoned>>

\* It tries once.
Restarted(o) ==
    /\ closed[o] \in Senders
    /\ closed' = [closed EXCEPT ![o] = "no"]
    /\ state' = [state EXCEPT ![closed[o]] = IF up THEN "Connected" ELSE "Disconnected"]
    /\ abandoned' = ~up
    /\ UNCHANGED <<up, outages, Connection, IsStarting, at, calls, built>>

\* The process stops and starts again.
RestartProcess ==
    /\ Connection' = NoObject
    /\ state' = [o \in Senders |-> "Disconnected"]
    /\ closed' = [o \in Senders |-> "no"]
    /\ IsStarting' = FALSE
    /\ at' = [s \in Senders |-> "idle"]
    /\ calls' = [s \in Senders |-> NoObject]
    /\ built' = {} /\ abandoned' = FALSE
    /\ UNCHANGED <<up, outages>>

Library(o) == Reconnect(o) \/ Restart(o) \/ Restarted(o)

HubNext ==
    \/ HubDown \/ HubUp
    \/ \E s \in Senders : Sending(s) \/ Library(s)

\* The loops go round, calls come back, and a hub that is down comes up again.
HubFairness ==
    /\ WF_hubVars(HubUp)
    /\ \A s \in Senders : WF_hubVars(Sending(s)) /\ WF_hubVars(Library(s))

-----------------------------------------------------------------------------

\* Nobody starts the connection: all senders go round in their loops.
Blocked ==
    /\ Connection # NoObject
    /\ state[Connection] = "Disconnected" /\ IsStarting
    /\ \A s \in Senders : closed[s] = "no" /\ at[s] \in {"idle", "init", "loop"}

\* Senders wait for a connection that nobody starts only if the handler of Closed,
\* which tries once, could not start it, or if two senders, both finding no object,
\* have built one each.  In every other outage IsStarting, which a successful start
\* leaves set, does no harm.
BlockedExplained == Blocked => abandoned \/ \E s, o \in built : s # o
=============================================================================
