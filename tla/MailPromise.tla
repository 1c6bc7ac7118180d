----------------------------- MODULE MailPromise -----------------------------
(***************************************************************************)
(* What the broker process promises a client, whatever happens to the      *)
(* connections between them.  Of the messages published, a client is given *)
(* the newest ones, more and more of them.  A message it is given waits    *)
(* for it until it has been written to it or is lost on the way.  Nothing  *)
(* is lost before a connection is broken, nothing is written twice before  *)
(* a retry, and everything is written in the order it was published before *)
(* the client has resumed.                                                 *)
(***************************************************************************)
EXTENDS Integers, Sequences

CONSTANTS Msgs, Subs

VARIABLES published,  \* the messages accepted so far
          given,      \* given[s]: those the broker has undertaken to deliver to s
          waiting,    \* waiting[s]: those it holds for s
          received,   \* received[s]: those written to s, in order
          lost,       \* lost[s]: those that did not arrive
          retried,    \* the clients that pending messages were kept for again
          resumed,    \* the clients that have subscribed more than once
          broken      \* the clients that have lost a connection

mail == <<waiting, received, lost>>
vars == <<published, given, mail, retried, resumed, broken>>

Once(q)   == \A k, l \in DOMAIN q : k # l => q[k] # q[l]
Rising(q) == \A k, l \in DOMAIN q : k < l => q[k] < q[l]

Init ==
    /\ published = <<>>
    /\ given = [s \in Subs |-> {}]
    /\ waiting = [s \in Subs |-> {}]
    /\ received = [s \in Subs |-> <<>>]
    /\ lost = [s \in Subs |-> {}]
    /\ retried = {}
    /\ resumed = {}
    /\ broken = {}

Publish ==
    /\ \E m \in Msgs : published' = Append(published, m)
    /\ UNCHANGED <<given, mail, retried, resumed, broken>>

\* The broker takes all messages from some point on that s has never been given;
\* those it passes over are older than the oldest it takes.
Give(s) ==
    /\ \E n \in 1 .. Len(published) + 1 :
          /\ \A i \in given[s] : i < n
          /\ given' = [given EXCEPT ![s] = @ \cup n .. Len(published)]
          /\ waiting' = [waiting EXCEPT ![s] = @ \cup n .. Len(published)]
    /\ UNCHANGED <<published, received, lost, retried, resumed, broken>>

\* What s has received by a step, as positions of its new list.
New(s) == Len(received[s]) + 1 .. Len(received'[s])

\* Some of what waits for s is written to it, or lost, or both as far as the
\* broker can tell; nothing stops waiting otherwise.
Write(s) ==
    /\ \A t \in Subs \ {s} :
          waiting'[t] = waiting[t] /\ received'[t] = received[t] /\ lost'[t] = lost[t]
    /\ Len(received[s]) <= Len(received'[s])
    /\ \A k \in 1 .. Len(received[s]) : received'[s][k] = received[s][k]
    /\ \A k \in New(s) : received'[s][k] \in waiting[s]
    /\ s \notin retried => Once(received'[s])
    /\ s \notin resumed => Rising(received'[s])
    /\ lost[s] \subseteq lost'[s] /\ lost'[s] \subseteq lost[s] \cup waiting[s]
    /\ s \notin broken => lost'[s] = lost[s]
    /\ waiting'[s] \subseteq waiting[s]
    /\ waiting[s] \ waiting'[s] \subseteq {received'[s][k] : k \in New(s)} \cup lost'[s]
    /\ UNCHANGED <<published, given, retried, resumed, broken>>

\* Pending messages could not be sent: what a call of s still had of them waits
\* again, even if another call has written it meanwhile.
Retry(s) ==
    /\ retried' = retried \cup {s}
    /\ \E W \in SUBSET given[s] :
          waiting[s] \subseteq W /\ waiting' = [waiting EXCEPT ![s] = W]
    /\ UNCHANGED <<published, given, received, lost, resumed, broken>>

Resume(s) ==
    /\ resumed' = resumed \cup {s}
    /\ UNCHANGED <<published, given, mail, retried, broken>>

Break(s) ==
    /\ broken' = broken \cup {s}
    /\ UNCHANGED <<published, given, mail, retried, resumed>>

Next == Publish \/ \E s \in Subs : Give(s) \/ Write(s) \/ Retry(s) \/ Resume(s) \/ Break(s)

Spec == Init /\ [][Next]_vars
=============================================================================
