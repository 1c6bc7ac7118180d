--------------------------- MODULE WorkflowPromise ---------------------------
(***************************************************************************)
(* What the workflow service promises of a trigger that has been saved.    *)
(* It is due once, and once more each time its message is repeated; it     *)
(* runs no more often than it is due, and no other trigger meanwhile.  Its *)
(* actions have their effects one by one, in their order, during a run and *)
(* at no other time.  A run ends with a record of the whole of it, or is   *)
(* cut short and changes no record.  What is due can be lost.              *)
(***************************************************************************)
EXTENDS Integers, Sequences

CONSTANTS Triggers,
          Actions,  \* the actions of the workflow, as numbers in their order
          Outward,  \* those that succeed only by having an effect outside
          Nothing   \* no record, and no trigger

VARIABLES due,      \* due[t]: how many runs of t can come
          running,  \* the trigger that runs
          record,   \* record[t]: what is recorded of each action of t
          done      \* done[t]: the actions that had an effect in the last run of t

vars == <<due, running, record, done>>

Statuses == {"", "Succeeded", "Failed"}
Blank == [k \in Actions |-> ""]

Init ==
    /\ due = [t \in Triggers |-> 0]
    /\ running = Nothing
    /\ record = [t \in Triggers |-> Nothing]
    /\ done = [t \in Triggers |-> <<>>]

Create(t) ==
    /\ record[t] = Nothing
    /\ record' = [record EXCEPT ![t] = Blank]
    /\ due' = [due EXCEPT ![t] = 1]
    /\ UNCHANGED <<running, done>>

Repeat(t) ==
    /\ record[t] # Nothing
    /\ due' = [due EXCEPT ![t] = @ + 1]
    /\ UNCHANGED <<running, record, done>>

Begin(t) ==
    /\ running = Nothing /\ due[t] > 0
    /\ due' = [due EXCEPT ![t] = @ - 1]
    /\ running' = t
    /\ done' = [done EXCEPT ![t] = <<>>]
    /\ UNCHANGED record

Effect(t) ==
    /\ running = t
    /\ \E k \in Actions :
          /\ \A i \in DOMAIN done[t] : done[t][i] < k
          /\ done' = [done EXCEPT ![t] = Append(@, k)]
    /\ UNCHANGED <<due, running, record>>

\* A run that was not cut short went on to the last action or to one that failed; of
\* what comes after that the record is as before.
WentTo(n, r, before) ==
    /\ r[n] = "Failed" \/ (r[n] = "Succeeded" /\ \A k \in Actions : k <= n)
    /\ \A k \in Actions : (k < n => r[k] = "Succeeded") /\ (k > n => r[k] = before[k])

\* The record tells which actions had an effect: those that have not been run had none,
\* those that succeeded outside had one.
Truthful(n, r, q) ==
    \A k \in Actions :
       /\ k > n => \A i \in DOMAIN q : q[i] # k
       /\ k <= n /\ r[k] = "Succeeded" /\ k \in Outward => \E i \in DOMAIN q : q[i] = k

Record(t) ==
    /\ running = t
    /\ running' = Nothing
    /\ \E r \in [Actions -> Statuses] :
          /\ \E n \in Actions : WentTo(n, r, record[t]) /\ Truthful(n, r, done[t])
          /\ record' = [record EXCEPT ![t] = r]
    /\ UNCHANGED <<due, done>>

\* Messages are lost, or the run ends early, or both.
Cut ==
    /\ due' \in [Triggers -> Nat] /\ \A t \in Triggers : due'[t] <= due[t]
    /\ running' \in {running, Nothing}
    /\ UNCHANGED <<record, done>>

Next ==
    \/ \E t \in Triggers : Create(t) \/ Repeat(t) \/ Begin(t) \/ Effect(t) \/ Record(t)
    \/ Cut

Spec == Init /\ [][Next]_vars
=============================================================================
