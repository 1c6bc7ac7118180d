---------------------------- MODULE TopicPromise ----------------------------
(***************************************************************************)
(* What a topic of the message broker promises while nobody leaves it: a   *)
(* growing list of messages, and for every subscription the messages it    *)
(* has been given.  A subscription joins at some message that is still     *)
(* kept, and every delivery to it is a batch of all the messages from the  *)
(* one after its last delivery to the end of the list, none of them        *)
(* skipped and none of them given before.                                  *)
(***************************************************************************)
EXTENDS Integers, Sequences

CONSTANTS Msgs, Subs, Nobody

VARIABLES published,  \* the messages accepted so far
          from,       \* from[s]: what came before s joined, Nobody before that
          given       \* given[s]: the messages given to s, as positions

vars == <<published, from, given>>

Init ==
    /\ published = <<>>
    /\ from = [s \in Subs |-> Nobody]
    /\ given = [s \in Subs |-> {}]

Publish ==
    /\ \E m \in Msgs : published' = Append(published, m)
    /\ UNCHANGED <<from, given>>

Join(s) ==
    /\ from[s] = Nobody
    /\ \E n \in 0 .. Len(published) : from' = [from EXCEPT ![s] = n]
    /\ UNCHANGED <<published, given>>

Deliver(s) ==
    /\ from[s] # Nobody
    /\ given' = [given EXCEPT ![s] = from[s] + 1 .. Len(published)]
    /\ UNCHANGED <<published, from>>

Next == Publish \/ \E s \in Subs : Join(s) \/ Deliver(s)

Spec == Init /\ [][Next]_vars

\* Whoever has joined is eventually given what has been published.
FairSpec == Spec /\ \A s \in Subs : WF_vars(Deliver(s))
=============================================================================
