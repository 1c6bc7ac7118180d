---------------------------- MODULE VideoCallHub ----------------------------
(***************************************************************************)
(* The hub that connects two users for a video call: class VideoCallHub of *)
(* src/platform/mix.signalr.hub/Hubs.  Its state is three static lists     *)
(* that the invocations of all connections read and change without a lock. *)
(*                                                                         *)
(* SignalR runs one call of a connection at a time, and those of different *)
(* connections in parallel.  OnDisconnectedAsync is not one of them: it    *)
(* waits for no invocation of its connection that is still in an await.    *)
(* An invocation is cut into steps where another one can matter: at an     *)
(* await; in AnswerCall between the look at the calls and the new call; in *)
(* HangUp before the offers go and, as the connection ends, after the look *)
(* at the calls.  What follows the last change of the lists (messages to   *)
(* the clients) is left out, and so are a user who calls himself or joins  *)
(* twice on one connection, and an entry lost as two threads add to a list *)
(* at once.                                                                *)
(***************************************************************************)
EXTENDS Integers, FiniteSets

CONSTANTS Conns,    \* connections
          Leavers,  \* bound: the connections that may end
          MaxCalls, \* bound: how many calls there are, or are remembered, at a time
          MaxOffers \* bound: how many offers there are at a time

ASSUME HubAssumption ==
    IsFiniteSet(Conns) /\ Leavers \subseteq Conns /\ MaxCalls \in Nat /\ MaxOffers \in Nat

VARIABLES users,   \* users[c]: not joined yet, in the list Users, or removed from it
          offers,  \* CallOffers, as pairs <<caller, callee>>
          calls,   \* UserCalls: calls[k] is who is in the call k; {} if there is none
          doing,   \* doing[c]: where the invocation of c is
          ending,  \* ending[c]: where the HangUp of the end of c is
          marks,   \* history: what was wrong as the call k was set up, see Connect
          belated  \* history: offers made after the end of their caller withdrew his

lists == <<users, offers, calls>>
history == <<marks, belated>>
vars == <<lists, doing, ending, history>>

Ids == 1..MaxCalls
CallsOf(c) == {k \in Ids : c \in calls[k]}

\* The places of HangUp: in the loop, or before the offers of the user go, after having
\* left a call or without one.  At the end it is over, or has thrown.
Idle == <<"idle">>
Over == <<"over">>
Threw == <<"threw">>
Alone == <<"alone">>
Left == <<"left">>
HangingUp == ({"leave"} \X Ids) \cup {Left, Alone}
Doing == {Idle, Left} \cup ({"offer"} \X Conns) \cup ({"connect"} \X Conns \X (SUBSET Ids))
            \cup ({"leave"} \X Ids)
Ending == {Idle, Over, Threw} \cup HangingUp
Marks == {"stale", "twice", "late"} \X Conns

TypeOK ==
    /\ users \in [Conns -> {"new", "joined", "gone"}]
    /\ offers \subseteq Conns \X Conns
    /\ calls \in [Ids -> SUBSET Conns]
    /\ doing \in [Conns -> Doing]
    /\ ending \in [Conns -> Ending]
    /\ marks \in [Ids -> SUBSET Marks]
    /\ belated \subseteq offers

Init ==
    /\ users = [c \in Conns |-> "new"]
    /\ offers = {}
    /\ calls = [k \in Ids |-> {}]
    /\ doing = [c \in Conns |-> Idle]
    /\ ending = [c \in Conns |-> Idle]
    /\ marks = [k \in Ids |-> {}]
    /\ belated = {}

-----------------------------------------------------------------------------

Invokes(c) == users[c] = "joined" /\ doing[c] = Idle
Goto(c, d) == doing' = [doing EXCEPT ![c] = d]
EndGoto(c, d) == ending' = [ending EXCEPT ![c] = d]

Join(c) ==
    /\ users[c] = "new"
    /\ users' = [users EXCEPT ![c] = "joined"]
    /\ UNCHANGED <<offers, calls, doing, ending, history>>

\* GetUserCall finds a call, or throws as it finds two.  (BusyIgnored is a mistake.)
BusyIgnored(t) == FALSE
Busy(t) == CallsOf(t) # {}

\* The offers that are left as those of c are withdrawn.  (OffersKept is a mistake.)
OffersKept(c) == offers
OffersOfOthers(c) == {o \in offers : o[1] # c}
OffersNow(S) == offers' = S /\ belated' = belated \cap S

\* CallUser: t is known and not in a call, so it is told of the incoming call.
\* (Whether c is in a call is not asked.)
CallUser(c, t) ==
    /\ Invokes(c)
    /\ users[t] = "joined"
    /\ ~Busy(t)
    /\ Goto(c, <<"offer", t>>)
    /\ UNCHANGED <<lists, ending, history>>

\* After the await: the offer, whatever happened meanwhile; c may have disconnected.
\* (OfferToNobody is a mistake: the Callee is not set.)
OfferToNobody(c) ==
    /\ doing[c][1] = "offer"
    /\ offers' = offers \cup {<<c, Idle>>}
    /\ Goto(c, Idle)
    /\ UNCHANGED <<users, calls, ending, history>>
Offer(c) ==
    LET o == <<c, doing[c][2]>> IN
    /\ doing[c][1] = "offer"
    /\ Cardinality(offers \cup {o}) <= MaxOffers
    /\ offers' = offers \cup {o}
    /\ belated' = IF ending[c] = Over THEN belated \cup {o} ELSE belated
    /\ Goto(c, Idle)
    /\ UNCHANGED <<users, calls, ending, marks>>

\* AnswerCall(true, t): the offer is taken; if t is in a call that is all, and so it is
\* if the look throws, as another thread changes the list.  The calls of c are not
\* looked at.  (Those of t are kept for the history only.)
Answer(c, t) ==
    /\ Invokes(c)
    /\ users[t] = "joined"
    /\ <<t, c>> \in offers
    /\ OffersNow(offers \ {<<t, c>>})
    /\ \/ Goto(c, Idle)
       \/ ~Busy(t) /\ Goto(c, <<"connect", t, CallsOf(t)>>)
    /\ UNCHANGED <<users, calls, ending, marks>>

\* A place for a new call: no invocation remembers a call that was there.
Free(k) ==
    /\ calls[k] = {}
    /\ \A c \in Conns :
         /\ doing[c] # <<"leave", k>> /\ ending[c] # <<"leave", k>>
         /\ doing[c][1] = "connect" => k \notin doing[c][3]

\* Everything t has offered is withdrawn, and the two are in a call, whoever of them
\* has disconnected meanwhile.  What may be wrong with the call is marked: t got into
\* another after the look at his calls, c is in another, one has looked for the last
\* time for a call to hang up.
Connect(c) ==
    LET t == doing[c][2]
        k == CHOOSE i \in Ids : Free(i)
        ended == {d \in {c, t} : ending[d] # Idle}
    IN
    /\ doing[c][1] = "connect"
    /\ \E i \in Ids : Free(i)
    /\ OffersNow(OffersOfOthers(t))
    /\ calls' = [calls EXCEPT ![k] = {c, t}]
    /\ marks' = [marks EXCEPT ![k] =
                   {<<"stale", t>> : j \in CallsOf(t) \ doing[c][3]}
                      \cup {<<"twice", c>> : j \in CallsOf(c)}
                      \cup ({"late"} \X ended)]
    /\ Goto(c, Idle)
    /\ UNCHANGED <<users, ending>>

\* HangUp finds the call of c.  It throws if there are two, or if another thread changes
\* a list meanwhile.  Without a call the offers of c go.
Found(c) == {k \in CallsOf(c) : CallsOf(c) = {k}}

HangUp(c) ==
    /\ Invokes(c)
    /\ \/ /\ CallsOf(c) = {}
          /\ OffersNow(OffersOfOthers(c))
          /\ UNCHANGED doing
       \/ /\ \E k \in Found(c) : Goto(c, <<"leave", k>>)
          /\ UNCHANGED <<offers, belated>>
    /\ UNCHANGED <<users, calls, ending, marks>>

\* After the await, which is in the middle of a loop over the users of the call: c
\* leaves the call, which goes with the last but one.
\* (OneStays and CallKept are mistakes.)
OneStays(k, c) == calls[k] \ {c}
Remaining(k, c) ==
    IF Cardinality(calls[k] \ {c}) < 2 THEN {} ELSE calls[k] \ {c}
CallKept(c, k) == UNCHANGED <<calls, marks>>
LeaveCall(c, k) ==
    /\ calls' = [calls EXCEPT ![k] = Remaining(k, c)]
    /\ marks' = [marks EXCEPT ![k] = IF calls'[k] = {} THEN {} ELSE marks[k]]

Leave(c) ==
    /\ doing[c][1] = "leave"
    /\ LeaveCall(c, doing[c][2])
    /\ Goto(c, Left)
    /\ UNCHANGED <<users, offers, ending, belated>>

\* Somebody has left the call during the await, so the loop finds the list changed and
\* throws: HangUp ends without withdrawing the offers of c.  (Leave is possible too, if
\* both have come out of their loops.)
LeaveFails(c) ==
    /\ doing[c][1] = "leave"
    /\ c \notin calls[doing[c][2]]
    /\ Goto(c, Idle)
    /\ UNCHANGED <<lists, ending, history>>

Withdraw(c) ==
    /\ doing[c] = Left
    /\ OffersNow(OffersOfOthers(c))
    /\ Goto(c, Idle)
    /\ UNCHANGED <<users, calls, ending, marks>>

\* OnDisconnectedAsync calls HangUp for a user who has joined, without waiting for what
\* follows its await, and ignores an exception.
End(c) ==
    /\ c \in Leavers /\ ending[c] = Idle
    /\ \/ users[c] = "new" /\ EndGoto(c, Over)
       \/ users[c] = "joined" /\ CallsOf(c) = {} /\ EndGoto(c, Alone)
       \/ users[c] = "joined" /\ \E k \in Found(c) : EndGoto(c, <<"leave", k>>)
       \/ users[c] = "joined" /\ EndGoto(c, Threw)
    /\ UNCHANGED <<lists, doing, history>>

EndLeaves(c) ==
    /\ ending[c][1] = "leave"
    /\ LeaveCall(c, ending[c][2])
    /\ EndGoto(c, Left)
    /\ UNCHANGED <<users, offers, doing, belated>>

EndLeaveFails(c) ==
    /\ ending[c][1] = "leave"
    /\ c \notin calls[ending[c][2]]
    /\ EndGoto(c, Threw)
    /\ UNCHANGED <<lists, doing, history>>

EndWithdraws(c) ==
    /\ ending[c] \in {Alone, Left}
    /\ OffersNow(OffersOfOthers(c))
    /\ EndGoto(c, Over)
    /\ UNCHANGED <<users, calls, doing, marks>>

\* The user is removed, once HangUp is over or in its await.
Remove(c) ==
    /\ users[c] = "joined"
    /\ ending[c] \notin {Idle, Alone}
    /\ users' = [users EXCEPT ![c] = "gone"]
    /\ UNCHANGED <<offers, calls, doing, ending, history>>

Continue(c) == Offer(c) \/ Connect(c) \/ Leave(c) \/ LeaveFails(c) \/ Withdraw(c)
Disconnect(c) == End(c) \/ EndLeaves(c) \/ EndLeaveFails(c) \/ EndWithdraws(c) \/ Remove(c)

Next ==
    \E c \in Conns :
       \/ Join(c) \/ HangUp(c)
       \/ Continue(c) \/ Disconnect(c)
       \/ \E t \in Conns \ {c} : CallUser(c, t) \/ Answer(c, t)

Spec == Init /\ [][Next]_vars

-----------------------------------------------------------------------------

\* Nobody is in two calls: GetUserCall takes the single call of a user, and throws
\* if there are more.
OneCallEach == \A c \in Conns : Cardinality(CallsOf(c)) <= 1

\* There are two ways into a second call, and no other: to answer a call while in
\* one, or to be connected by somebody whose look at one's calls was out of date.
TwoCallsExplained ==
    \A c \in Conns : Cardinality(CallsOf(c)) > 1 =>
       \E k \in CallsOf(c) : {<<"twice", c>>, <<"stale", c>>} \cap marks[k] # {}

\* A user who is removed does not stay in a call, unless the call was set up after
\* the HangUp of OnDisconnectedAsync had looked for it, or this HangUp threw.
GhostsExplained ==
    \A c \in Conns, k \in Ids : (users[c] = "gone" /\ c \in calls[k]) =>
       ending[c] = <<"leave", k>> \/ <<"late", c>> \in marks[k] \/ ending[c] = Threw

\* "This should always trigger now": whoever hangs up, and whatever happens before
\* the message to the other one is sent, no call is left with one user.
PairsOnly == \A k \in Ids : Cardinality(calls[k]) \in {0, 2}

\* No offer of a user who is removed stays, for somebody to hold him for present,
\* unless the HangUp of OnDisconnectedAsync is still to withdraw it, has thrown
\* before it did, or was overtaken: CallUser came out of its await after that.
NoOfferFromTheGone ==
    \A o \in offers : users[o[1]] = "gone" =>
       ending[o[1]] \in HangingUp \cup {Threw} \/ o \in belated
=============================================================================
