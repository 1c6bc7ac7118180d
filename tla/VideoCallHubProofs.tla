------------------------- MODULE VideoCallHubProofs -------------------------
(***************************************************************************)
(* What is proved of VideoCallHub for every finite set of connections and  *)
(* all bounds.                                                             *)
(***************************************************************************)
EXTENDS VideoCallHub, FiniteSetTheorems, TLAPS

-----------------------------------------------------------------------------
(* Invocations and calls                                                    *)

\* What an invocation remembers, by where it is.
LEMMA DoingParts ==
    ASSUME NEW d \in Doing
    PROVE  /\ d[1] \in {"idle", "offer", "connect", "leave", "left"}
           /\ d[1] = "offer" => d[2] \in Conns
           /\ d[1] = "connect" => d[2] \in Conns /\ d[3] \in SUBSET Ids
           /\ d[1] = "leave" => d[2] \in Ids /\ d = <<"leave", d[2]>>
           /\ d[1] = "idle" <=> d = Idle
  <1>1. CASE d = Idle \/ d = Left
    BY <1>1 DEF Idle, Left
  <1>2. CASE d \in {"offer"} \X Conns
    BY <1>2 DEF Idle
  <1>3. CASE d \in {"connect"} \X Conns \X (SUBSET Ids)
    BY <1>3 DEF Idle
  <1>4. CASE d \in {"leave"} \X Ids
    BY <1>4 DEF Idle
  <1> QED BY <1>1, <1>2, <1>3, <1>4 DEF Doing

LEMMA DoingMade ==
    /\ Idle \in Doing /\ Idle[1] = "idle"
    /\ Left \in Doing /\ Left # Idle /\ Left[1] = "left"
    /\ \A t \in Conns : <<"offer", t>> \in Doing
    /\ \A t \in Conns, K \in SUBSET Ids : <<"connect", t, K>> \in Doing
    /\ \A k \in Ids : <<"leave", k>> \in Doing
  <1>1. /\ Idle \in Doing /\ Idle[1] = "idle"
        /\ Left \in Doing /\ Left # Idle /\ Left[1] = "left"
    BY DEF Doing, Idle, Left
  <1>2. \A t \in Conns : <<"offer", t>> \in Doing
    BY DEF Doing
  <1>3. \A t \in Conns, K \in SUBSET Ids : <<"connect", t, K>> \in Doing
    BY DEF Doing
  <1>4. \A k \in Ids : <<"leave", k>> \in Doing
    BY DEF Doing
  <1> QED BY <1>1, <1>2, <1>3, <1>4

\* The places of the HangUp of an end are told apart.
LEMMA EndingParts ==
    /\ \A d \in Ending : d \in {Idle, Over, Threw, Left, Alone} \/ \E k \in Ids : d = <<"leave", k>>
    /\ \A d \in Ending : d[1] = "leave" => d[2] \in Ids /\ d = <<"leave", d[2]>>
    /\ {Idle, Over, Threw, Left, Alone} \subseteq Ending
    /\ \A k \in Ids : <<"leave", k>> \in HangingUp /\ <<"leave", k>> \in Ending
    /\ Left \in HangingUp /\ Alone \in HangingUp
    /\ \A k, j : <<"leave", k>> = <<"leave", j>> => k = j
    /\ \A k : <<"leave", k>> \notin {Idle, Over, Threw, Left, Alone}
    /\ Idle \notin {Over, Threw, Left, Alone} /\ Over \notin {Threw, Left, Alone}
    /\ Over \notin HangingUp /\ Idle \notin HangingUp
  <1>1. /\ Idle[1] = "idle" /\ Over[1] = "over" /\ Threw[1] = "threw"
        /\ Left[1] = "left" /\ Alone[1] = "alone"
    BY DEF Idle, Over, Threw, Left, Alone
  <1>2. \A d \in {"leave"} \X Ids : d[1] = "leave" /\ d[2] \in Ids /\ d = <<"leave", d[2]>>
    OBVIOUS
  <1>3. \A k \in Ids : <<"leave", k>> \in {"leave"} \X Ids
    OBVIOUS
  <1>4. \A k, j : <<"leave", k>>[1] = "leave" /\ <<"leave", k>>[2] = k
    OBVIOUS
  <1> QED BY <1>1, <1>2, <1>3, <1>4 DEF Ending, HangingUp

\* What Connect does, once it has a place k for the call.
Connects(c, k) ==
    /\ doing[c][1] = "connect" /\ doing[c][2] \in Conns
    /\ Free(k)
    /\ OffersNow(OffersOfOthers(doing[c][2]))
    /\ calls' = [calls EXCEPT ![k] = {c, doing[c][2]}]
    /\ marks' = [marks EXCEPT ![k] =
                   {<<"stale", doing[c][2]>> : j \in CallsOf(doing[c][2]) \ doing[c][3]}
                      \cup {<<"twice", c>> : j \in CallsOf(c)}
                      \cup ({"late"} \X {d \in {c, doing[c][2]} : ending[d] # Idle})]
    /\ doing' = [doing EXCEPT ![c] = Idle]
    /\ UNCHANGED <<users, ending>>

LEMMA ConnectParts ==
    ASSUME TypeOK, NEW c \in Conns, Connect(c)
    PROVE  \E k \in Ids : Connects(c, k)
  <1> DEFINE k == CHOOSE i \in Ids : Free(i)
  <1>1. k \in Ids /\ Free(k)
    BY DEF Connect
  <1>2. doing[c] \in Doing /\ doing[c][1] = "connect"
    BY DEF TypeOK, Connect
  <1>3. doing[c][2] \in Conns
    BY <1>2, DoingParts
  <1> HIDE DEF k
  <1>4. Connects(c, k)
    BY <1>1, <1>2, <1>3 DEF Connect, Connects, Goto, k
  <1> QED BY <1>1, <1>4

-----------------------------------------------------------------------------

LEMMA TypeInit == Init => TypeOK
  BY DoingMade, EndingParts DEF Init, TypeOK

LEMMA TypeNext == TypeOK /\ [Next]_vars => TypeOK'
  <1> SUFFICES ASSUME TypeOK, [Next]_vars PROVE TypeOK'
    OBVIOUS
  <1> USE DEF TypeOK
  <1>d. \A c \in Conns : doing[c] \in Doing /\ ending[c] \in Ending
    BY DEF TypeOK
  <1>l. ASSUME NEW c, NEW k \in Ids, LeaveCall(c, k)
        PROVE  calls' \in [Ids -> SUBSET Conns] /\ marks' \in [Ids -> SUBSET Marks]
    BY <1>l DEF LeaveCall, Remaining
  <1>1. ASSUME NEW c \in Conns, Join(c) PROVE TypeOK'
    BY <1>1, <1>d, DoingParts, DoingMade, EndingParts DEF Join, lists, history
  <1>2. ASSUME NEW c \in Conns, HangUp(c) PROVE TypeOK'
    BY <1>2, <1>d, DoingParts, DoingMade, EndingParts DEF HangUp, Goto, OffersNow, OffersOfOthers, Found, CallsOf, Invokes, lists, history
  <1>3. ASSUME NEW c \in Conns, Offer(c) PROVE TypeOK'
    <2>1. doing[c][2] \in Conns
      BY <1>3, <1>d, DoingParts DEF Offer
    <2> QED BY <1>3, <2>1, DoingMade DEF Offer, Goto
  <1>4. ASSUME NEW c \in Conns, Connect(c) PROVE TypeOK'
    <2>1. PICK k \in Ids : Connects(c, k)
      BY <1>4, ConnectParts
    <2>2. calls' \in [Ids -> SUBSET Conns] /\ doing' \in [Conns -> Doing]
      BY <2>1, DoingMade DEF Connects
    <2>3. marks' \in [Ids -> SUBSET Marks]
      BY <2>1 DEF Connects, Marks
    <2> QED BY <2>1, <2>2, <2>3 DEF Connects, OffersNow, OffersOfOthers
  <1>5. ASSUME NEW c \in Conns, Leave(c) PROVE TypeOK'
    <2>1. doing[c][2] \in Ids
      BY <1>5, <1>d, DoingParts DEF Leave
    <2> QED BY <1>5, <2>1, <1>l, DoingMade DEF Leave, Goto
  <1>6. ASSUME NEW c \in Conns, LeaveFails(c) PROVE TypeOK'
    BY <1>6, <1>d, DoingParts, DoingMade, EndingParts DEF LeaveFails, Goto, lists, history
  <1>7. ASSUME NEW c \in Conns, Withdraw(c) PROVE TypeOK'
    BY <1>7, <1>d, DoingParts, DoingMade, EndingParts DEF Withdraw, Goto, OffersNow, OffersOfOthers, lists, history
  <1>8. ASSUME NEW c \in Conns, End(c) PROVE TypeOK'
    BY <1>8, <1>d, DoingParts, DoingMade, EndingParts DEF End, EndGoto, Found, CallsOf, lists, history
  <1>9. ASSUME NEW c \in Conns, EndLeaves(c) PROVE TypeOK'
    <2>1. ending[c][2] \in Ids
      BY <1>9, <1>d, EndingParts DEF EndLeaves
    <2> QED BY <1>9, <2>1, <1>l, EndingParts DEF EndLeaves, EndGoto
  <1>10. ASSUME NEW c \in Conns, EndLeaveFails(c) PROVE TypeOK'
    BY <1>10, <1>d, DoingParts, DoingMade, EndingParts DEF EndLeaveFails, EndGoto, lists, history
  <1>11. ASSUME NEW c \in Conns, EndWithdraws(c) PROVE TypeOK'
    BY <1>11, <1>d, DoingParts, DoingMade, EndingParts DEF EndWithdraws, EndGoto, OffersNow, OffersOfOthers, lists, history
  <1>12. ASSUME NEW c \in Conns, Remove(c) PROVE TypeOK'
    BY <1>12, <1>d, DoingParts, DoingMade, EndingParts DEF Remove, lists, history
  <1>13. ASSUME NEW c \in Conns, NEW t \in Conns \ {c}, CallUser(c, t) PROVE TypeOK'
    BY <1>13, <1>d, DoingParts, DoingMade, EndingParts DEF CallUser, Goto, Invokes, lists, history
  <1>14. ASSUME NEW c \in Conns, NEW t \in Conns \ {c}, Answer(c, t) PROVE TypeOK'
    BY <1>14, <1>d, DoingParts, DoingMade, EndingParts DEF Answer, Goto, OffersNow, Invokes, Busy, CallsOf, lists, history
  <1>15. CASE UNCHANGED vars
    BY <1>15 DEF vars, lists, history
  <1> QED BY <1>1, <1>2, <1>3, <1>4, <1>5, <1>6, <1>7, <1>8, <1>9, <1>10, <1>11, <1>12, <1>13, <1>14, <1>15 DEF Next, Continue, Disconnect, vars, lists, history

\* Every variable keeps its type (the lists of VideoCallHub).
THEOREM TypeCorrect == Spec => []TypeOK
  BY TypeInit, TypeNext, PTL DEF Spec

-----------------------------------------------------------------------------
(* Who can be doing what                                                    *)

\* Only who has joined calls or answers, somebody else who has joined and who was in no
\* call; who is removed has ended; and the lists hold who has joined.
Orderly ==
    /\ \A c \in Conns :
         /\ users[c] = "new" => doing[c] = Idle
         /\ users[c] = "gone" => ending[c] # Idle
         /\ doing[c][1] = "connect" =>
               doing[c][2] # c /\ users[doing[c][2]] # "new" /\ doing[c][3] = {}
    /\ \A o \in offers : users[o[1]] # "new"
    /\ \A k \in Ids : \A c \in calls[k] : users[c] # "new"

LEMMA OrderlyNext == TypeOK /\ Orderly /\ [Next]_vars => Orderly'
  <1> SUFFICES ASSUME TypeOK, Orderly, [Next]_vars PROVE Orderly'
    OBVIOUS
  <1> USE DEF TypeOK, Orderly
  <1>d. \A c \in Conns : doing[c] \in Doing /\ ending[c] \in Ending
    BY DEF TypeOK
  <1>l. ASSUME NEW c, NEW k \in Ids, LeaveCall(c, k)
        PROVE  \A j \in Ids : calls'[j] \subseteq calls[j]
    BY <1>l DEF LeaveCall, Remaining
  <1>1. ASSUME NEW c \in Conns, Join(c) PROVE Orderly'
    BY <1>1, <1>d, DoingParts, DoingMade, EndingParts DEF Join, lists, history
  <1>2. ASSUME NEW c \in Conns, HangUp(c) PROVE Orderly'
    BY <1>2, <1>d, DoingParts, DoingMade, EndingParts DEF HangUp, Goto, OffersNow, OffersOfOthers, Found, CallsOf, Invokes, lists, history
  <1>3. ASSUME NEW c \in Conns, Offer(c) PROVE Orderly'
    BY <1>3, <1>d, DoingParts, DoingMade, EndingParts DEF Offer, Goto, lists, history
  <1>4. ASSUME NEW c \in Conns, Connect(c) PROVE Orderly'
    <2>1. PICK k \in Ids : Connects(c, k)
      BY <1>4, ConnectParts
    <2>2. users[c] # "new"
      BY <2>1, DoingMade DEF Connects
    <2> QED BY <2>1, <2>2, DoingMade DEF Connects, OffersNow, OffersOfOthers
  <1>5. ASSUME NEW c \in Conns, Leave(c) PROVE Orderly'
    <2>1. doing[c][2] \in Ids
      BY <1>5, <1>d, DoingParts DEF Leave
    <2> QED BY <1>5, <2>1, <1>l, <1>d, DoingParts, DoingMade DEF Leave, Goto
  <1>6. ASSUME NEW c \in Conns, LeaveFails(c) PROVE Orderly'
    BY <1>6, <1>d, DoingParts, DoingMade, EndingParts DEF LeaveFails, Goto, lists, history
  <1>7. ASSUME NEW c \in Conns, Withdraw(c) PROVE Orderly'
    BY <1>7, <1>d, DoingParts, DoingMade, EndingParts DEF Withdraw, Goto, OffersNow, OffersOfOthers, lists, history
  <1>8. ASSUME NEW c \in Conns, End(c) PROVE Orderly'
    BY <1>8, <1>d, DoingParts, DoingMade, EndingParts DEF End, EndGoto, Found, CallsOf, lists, history
  <1>9. ASSUME NEW c \in Conns, EndLeaves(c) PROVE Orderly'
    <2>1. ending[c][2] \in Ids
      BY <1>9, <1>d, EndingParts DEF EndLeaves
    <2> QED BY <1>9, <2>1, <1>l, <1>d, EndingParts DEF EndLeaves, EndGoto
  <1>10. ASSUME NEW c \in Conns, EndLeaveFails(c) PROVE Orderly'
    BY <1>10, <1>d, DoingParts, DoingMade, EndingParts DEF EndLeaveFails, EndGoto, lists, history
  <1>11. ASSUME NEW c \in Conns, EndWithdraws(c) PROVE Orderly'
    BY <1>11, <1>d, DoingParts, DoingMade, EndingParts DEF EndWithdraws, EndGoto, OffersNow, OffersOfOthers, lists, history
  <1>12. ASSUME NEW c \in Conns, Remove(c) PROVE Orderly'
    BY <1>12, <1>d, DoingParts, DoingMade, EndingParts DEF Remove, lists, history
  <1>13. ASSUME NEW c \in Conns, NEW t \in Conns \ {c}, CallUser(c, t) PROVE Orderly'
    BY <1>13, <1>d, DoingParts, DoingMade, EndingParts DEF CallUser, Goto, Invokes, lists, history
  <1>14. ASSUME NEW c \in Conns, NEW t \in Conns \ {c}, Answer(c, t) PROVE Orderly'
    BY <1>14, <1>d, DoingParts, DoingMade, EndingParts DEF Answer, Goto, OffersNow, Invokes, Busy, CallsOf, lists, history
  <1>15. CASE UNCHANGED vars
    BY <1>15 DEF vars, lists, history
  <1> QED BY <1>1, <1>2, <1>3, <1>4, <1>5, <1>6, <1>7, <1>8, <1>9, <1>10, <1>11, <1>12, <1>13, <1>14, <1>15 DEF Next, Continue, Disconnect

-----------------------------------------------------------------------------
(* The calls                                                                *)

\* PairsOnly without counting.
Paired == \A k \in Ids : calls[k] = {} \/ \E a, b \in Conns : a # b /\ calls[k] = {a, b}

LEMMA CardinalityOfPair == ASSUME NEW a, NEW b, a # b PROVE Cardinality({a, b}) = 2
  <1>1. IsFiniteSet({a}) /\ Cardinality({a}) = 1
    BY FS_Singleton
  <1>2. Cardinality({a} \cup {b}) = 2
    BY <1>1, FS_AddElement
  <1>3. {a} \cup {b} = {a, b}
    OBVIOUS
  <1> QED BY <1>2, <1>3

LEMMA PairedIsPairs == Paired => PairsOnly
  <1>2. Cardinality({}) = 0
    BY FS_EmptySet
  <1>3. ASSUME Paired, NEW k \in Ids PROVE Cardinality(calls[k]) \in {0, 2}
    <2>1. CASE calls[k] = {}
      BY <2>1, <1>2
    <2>2. ASSUME NEW a \in Conns, NEW b \in Conns, a # b, calls[k] = {a, b}
          PROVE  Cardinality(calls[k]) \in {0, 2}
      <3>1. Cardinality({a, b}) = 2
        BY <2>2, CardinalityOfPair
      <3> QED BY <2>2, <3>1
    <2> QED BY <1>3, <2>1, <2>2 DEF Paired
  <1> QED BY <1>3 DEF PairsOnly

\* The loop of HangUp leaves nobody alone in a call.
LEMMA NobodyAlone ==
    ASSUME NEW k, NEW c, NEW a, NEW b, a # b, calls[k] = {a, b}
    PROVE  /\ c \in calls[k] => Remaining(k, c) = {}
           /\ c \notin calls[k] => Remaining(k, c) = calls[k]
  <1>1. CASE c \notin {a, b}
    <2>1. calls[k] \ {c} = {a, b}
      BY <1>1
    <2>2. Cardinality({a, b}) = 2
      BY CardinalityOfPair
    <2> QED BY <1>1, <2>1, <2>2 DEF Remaining
  <1>2. ASSUME NEW x, calls[k] \ {c} = {x} PROVE Remaining(k, c) = {}
    <2>1. Cardinality({x}) = 1
      BY FS_Singleton
    <2>2. Cardinality(calls[k] \ {c}) = 1
      BY <1>2, <2>1
    <2> QED BY <2>2 DEF Remaining
  <1>3. CASE c = a
    <2>1. calls[k] \ {c} = {b}
      BY <1>3
    <2> QED BY <2>1, <1>2, <1>3
  <1>4. CASE c = b
    <2>1. calls[k] \ {c} = {a}
      BY <1>4
    <2> QED BY <2>1, <1>2, <1>4
  <1> QED BY <1>1, <1>3, <1>4

LEMMA RemainingOfNothing ==
    ASSUME NEW k, NEW c, calls[k] = {} PROVE Remaining(k, c) = {}
  <1>1. calls[k] \ {c} = {}
    OBVIOUS
  <1> QED BY <1>1, FS_EmptySet DEF Remaining

\* Who hangs up leaves his call, which is gone then.
LEMMA LeaveParts ==
    ASSUME TypeOK, Paired, NEW c \in Conns, NEW k \in Ids, LeaveCall(c, k)
    PROVE  /\ c \notin calls'[k]
           /\ \A j \in Ids : calls'[j] = {} \/ (calls'[j] = calls[j] /\ marks'[j] = marks[j])
  <1>1. /\ c \in calls[k] => Remaining(k, c) = {}
        /\ c \notin calls[k] => Remaining(k, c) = calls[k]
    <2>1. CASE calls[k] = {}
      BY <2>1, RemainingOfNothing
    <2>2. ASSUME NEW a, NEW b, a # b, calls[k] = {a, b}
          PROVE  /\ c \in calls[k] => Remaining(k, c) = {}
                 /\ c \notin calls[k] => Remaining(k, c) = calls[k]
      BY <2>2, NobodyAlone
    <2> QED BY <2>1, <2>2 DEF Paired
  <1>2. /\ calls' = [calls EXCEPT ![k] = Remaining(k, c)]
        /\ marks' = [marks EXCEPT ![k] = IF calls'[k] = {} THEN {} ELSE marks[k]]
    BY DEF LeaveCall
  <1>3. calls'[k] = Remaining(k, c) /\ \A j \in Ids \ {k} : calls'[j] = calls[j]
    BY <1>2 DEF TypeOK
  <1>4. \A j \in Ids : marks'[j] = IF j = k /\ calls'[k] = {} THEN {} ELSE marks[j]
    BY <1>2 DEF TypeOK
  <1> QED BY <1>1, <1>3, <1>4

LEMMA PairedNext == TypeOK /\ Orderly /\ Paired /\ [Next]_vars => Paired'
  <1> SUFFICES ASSUME TypeOK, Orderly, Paired, [Next]_vars PROVE Paired'
    OBVIOUS
  <1> USE DEF Paired
  <1>d. \A c \in Conns : doing[c] \in Doing /\ ending[c] \in Ending
    BY DEF TypeOK
  <1>1. ASSUME NEW c \in Conns, Join(c) PROVE Paired'
    BY <1>1 DEF Join, lists
  <1>2. ASSUME NEW c \in Conns, HangUp(c) PROVE Paired'
    BY <1>2 DEF HangUp, lists
  <1>3. ASSUME NEW c \in Conns, Offer(c) PROVE Paired'
    BY <1>3 DEF Offer, lists
  <1>4. ASSUME NEW c \in Conns, Connect(c) PROVE Paired'
    <2>1. PICK k \in Ids : Connects(c, k)
      BY <1>4, ConnectParts
    <2>2. c # doing[c][2]
      BY <2>1 DEF Orderly, Connects
    <2> QED BY <2>1, <2>2 DEF Connects, TypeOK
  <1>5. ASSUME NEW c \in Conns, Leave(c) PROVE Paired'
    <2>1. doing[c][2] \in Ids /\ LeaveCall(c, doing[c][2])
      BY <1>5, <1>d, DoingParts DEF Leave
    <2>2. \A j \in Ids : calls'[j] = {} \/ (calls'[j] = calls[j] /\ marks'[j] = marks[j])
      BY <2>1, LeaveParts
    <2> QED BY <1>5, <2>2 DEF Leave, Goto
  <1>6. ASSUME NEW c \in Conns, LeaveFails(c) PROVE Paired'
    BY <1>6 DEF LeaveFails, lists
  <1>7. ASSUME NEW c \in Conns, Withdraw(c) PROVE Paired'
    BY <1>7 DEF Withdraw, lists
  <1>8. ASSUME NEW c \in Conns, End(c) PROVE Paired'
    BY <1>8 DEF End, lists
  <1>9. ASSUME NEW c \in Conns, EndLeaves(c) PROVE Paired'
    <2>1. ending[c][2] \in Ids /\ LeaveCall(c, ending[c][2])
      BY <1>9, <1>d, EndingParts DEF EndLeaves
    <2>2. \A j \in Ids : calls'[j] = {} \/ (calls'[j] = calls[j] /\ marks'[j] = marks[j])
      BY <2>1, LeaveParts
    <2> QED BY <1>9, <2>2 DEF EndLeaves, EndGoto
  <1>10. ASSUME NEW c \in Conns, EndLeaveFails(c) PROVE Paired'
    BY <1>10 DEF EndLeaveFails, lists
  <1>11. ASSUME NEW c \in Conns, EndWithdraws(c) PROVE Paired'
    BY <1>11 DEF EndWithdraws, lists
  <1>12. ASSUME NEW c \in Conns, Remove(c) PROVE Paired'
    BY <1>12 DEF Remove, lists
  <1>13. ASSUME NEW c \in Conns, NEW t \in Conns \ {c}, CallUser(c, t) PROVE Paired'
    BY <1>13 DEF CallUser, lists
  <1>14. ASSUME NEW c \in Conns, NEW t \in Conns \ {c}, Answer(c, t) PROVE Paired'
    BY <1>14 DEF Answer, lists
  <1>15. CASE UNCHANGED vars
    BY <1>15 DEF vars, lists
  <1> QED BY <1>1, <1>2, <1>3, <1>4, <1>5, <1>6, <1>7, <1>8, <1>9, <1>10, <1>11, <1>12, <1>13, <1>14, <1>15 DEF Next, Continue, Disconnect

-----------------------------------------------------------------------------
(* The ways into a second call                                              *)

\* TwoCallsExplained without counting.
Explained(c, k) == {<<"twice", c>>, <<"stale", c>>} \cap marks[k] # {}
TwoForm ==
    \A c \in Conns : \A j, k \in Ids :
       c \in calls[j] /\ c \in calls[k] /\ j # k => Explained(c, j) \/ Explained(c, k)

LEMMA TwoFormExplains == TwoForm => TwoCallsExplained
  <1> SUFFICES ASSUME TwoForm, NEW c \in Conns, Cardinality(CallsOf(c)) > 1
               PROVE  \E k \in CallsOf(c) : {<<"twice", c>>, <<"stale", c>>} \cap marks[k] # {}
    BY DEF TwoCallsExplained
  <1>1. CallsOf(c) # {}
    <2>1. Cardinality({}) = 0
      BY FS_EmptySet
    <2> QED BY <2>1
  <1>2. PICK j : j \in CallsOf(c)
    BY <1>1
  <1>3. CallsOf(c) # {j}
    <2>1. Cardinality({j}) = 1
      BY FS_Singleton
    <2> QED BY <2>1
  <1>4. PICK k : k \in CallsOf(c) /\ k # j
    BY <1>2, <1>3
  <1>5. j \in Ids /\ k \in Ids /\ c \in calls[j] /\ c \in calls[k]
    BY <1>2, <1>4 DEF CallsOf
  <1>6. Explained(c, j) \/ Explained(c, k)
    BY <1>4, <1>5 DEF TwoForm
  <1> QED BY <1>2, <1>4, <1>6 DEF Explained

LEMMA TwoFormNext == TypeOK /\ Orderly /\ Paired /\ TwoForm /\ [Next]_vars => TwoForm'
  <1> SUFFICES ASSUME TypeOK, Orderly, Paired, TwoForm, [Next]_vars PROVE TwoForm'
    OBVIOUS
  <1> USE DEF TwoForm, Explained
  <1>d. \A c \in Conns : doing[c] \in Doing /\ ending[c] \in Ending
    BY DEF TypeOK
  <1>1. ASSUME NEW c \in Conns, Join(c) PROVE TwoForm'
    BY <1>1 DEF Join, lists, history
  <1>2. ASSUME NEW c \in Conns, HangUp(c) PROVE TwoForm'
    BY <1>2 DEF HangUp, lists, history
  <1>3. ASSUME NEW c \in Conns, Offer(c) PROVE TwoForm'
    BY <1>3 DEF Offer, lists, history
  <1>4. ASSUME NEW c \in Conns, Connect(c) PROVE TwoForm'
    <2>1. PICK k \in Ids : Connects(c, k)
      BY <1>4, ConnectParts
    <2>2. doing[c][3] = {}
      BY <2>1 DEF Orderly, Connects
    <2>3. calls'[k] = {c, doing[c][2]} /\ \A j \in Ids \ {k} : calls'[j] = calls[j] /\ marks'[j] = marks[j]
      BY <2>1 DEF Connects, TypeOK
    <2>4. \A d \in calls'[k] : CallsOf(d) # {} => Explained(d, k)'
      <3> DEFINE t == doing[c][2]
      <3>1. marks'[k] = {<<"stale", t>> : j \in CallsOf(t) \ {}}
                           \cup {<<"twice", c>> : j \in CallsOf(c)}
                           \cup ({"late"} \X {d \in {c, t} : ending[d] # Idle})
        BY <2>1, <2>2 DEF Connects, TypeOK
      <3>2. CallsOf(t) # {} => <<"stale", t>> \in marks'[k]
        BY <3>1
      <3>3. CallsOf(c) # {} => <<"twice", c>> \in marks'[k]
        BY <3>1
      <3> QED BY <2>3, <3>2, <3>3
    <2>5. \A d \in Conns, j \in Ids : d \in calls[j] => CallsOf(d) # {}
      BY DEF CallsOf
    <2> QED BY <2>3, <2>4, <2>5
  <1>5. ASSUME NEW c \in Conns, Leave(c) PROVE TwoForm'
    <2>1. doing[c][2] \in Ids /\ LeaveCall(c, doing[c][2])
      BY <1>5, <1>d, DoingParts DEF Leave
    <2>2. \A j \in Ids : calls'[j] = {} \/ (calls'[j] = calls[j] /\ marks'[j] = marks[j])
      BY <2>1, LeaveParts
    <2> QED BY <1>5, <2>2 DEF Leave, Goto
  <1>6. ASSUME NEW c \in Conns, LeaveFails(c) PROVE TwoForm'
    BY <1>6 DEF LeaveFails, lists, history
  <1>7. ASSUME NEW c \in Conns, Withdraw(c) PROVE TwoForm'
    BY <1>7 DEF Withdraw, lists, history
  <1>8. ASSUME NEW c \in Conns, End(c) PROVE TwoForm'
    BY <1>8 DEF End, lists, history
  <1>9. ASSUME NEW c \in Conns, EndLeaves(c) PROVE TwoForm'
    <2>1. ending[c][2] \in Ids /\ LeaveCall(c, ending[c][2])
      BY <1>9, <1>d, EndingParts DEF EndLeaves
    <2>2. \A j \in Ids : calls'[j] = {} \/ (calls'[j] = calls[j] /\ marks'[j] = marks[j])
      BY <2>1, LeaveParts
    <2> QED BY <1>9, <2>2 DEF EndLeaves, EndGoto
  <1>10. ASSUME NEW c \in Conns, EndLeaveFails(c) PROVE TwoForm'
    BY <1>10 DEF EndLeaveFails, lists, history
  <1>11. ASSUME NEW c \in Conns, EndWithdraws(c) PROVE TwoForm'
    BY <1>11 DEF EndWithdraws, lists, history
  <1>12. ASSUME NEW c \in Conns, Remove(c) PROVE TwoForm'
    BY <1>12 DEF Remove, lists, history
  <1>13. ASSUME NEW c \in Conns, NEW t \in Conns \ {c}, CallUser(c, t) PROVE TwoForm'
    BY <1>13 DEF CallUser, lists, history
  <1>14. ASSUME NEW c \in Conns, NEW t \in Conns \ {c}, Answer(c, t) PROVE TwoForm'
    BY <1>14 DEF Answer, lists, history
  <1>15. CASE UNCHANGED vars
    BY <1>15 DEF vars, lists, history
  <1> QED BY <1>1, <1>2, <1>3, <1>4, <1>5, <1>6, <1>7, <1>8, <1>9, <1>10, <1>11, <1>12, <1>13, <1>14, <1>15 DEF Next, Continue, Disconnect

-----------------------------------------------------------------------------
(* Who has left                                                             *)

\* GhostsExplained, from the look of the HangUp of the end on.
Haunted ==
    \A c \in Conns, k \in Ids : (ending[c] # Idle /\ c \in calls[k]) =>
       ending[c] = <<"leave", k>> \/ <<"late", c>> \in marks[k] \/ ending[c] = Threw

LEMMA HauntedNext == TypeOK /\ Orderly /\ Paired /\ Haunted /\ [Next]_vars => Haunted'
  <1> SUFFICES ASSUME TypeOK, Orderly, Paired, Haunted, [Next]_vars PROVE Haunted'
    OBVIOUS
  <1> USE DEF Haunted
  <1>d. \A c \in Conns : doing[c] \in Doing /\ ending[c] \in Ending
    BY DEF TypeOK
  <1>1. ASSUME NEW c \in Conns, Join(c) PROVE Haunted'
    BY <1>1 DEF Join, lists, history
  <1>2. ASSUME NEW c \in Conns, HangUp(c) PROVE Haunted'
    BY <1>2 DEF HangUp, lists, history
  <1>3. ASSUME NEW c \in Conns, Offer(c) PROVE Haunted'
    BY <1>3 DEF Offer, lists, history
  <1>4. ASSUME NEW c \in Conns, Connect(c) PROVE Haunted'
    <2>1. PICK k \in Ids : Connects(c, k)
      BY <1>4, ConnectParts
    <2>2. calls'[k] = {c, doing[c][2]} /\ \A j \in Ids \ {k} : calls'[j] = calls[j] /\ marks'[j] = marks[j]
      BY <2>1 DEF Connects, TypeOK
    <2>3. \A d \in calls'[k] : ending[d] # Idle => <<"late", d>> \in marks'[k]
      BY <2>1, <2>2 DEF Connects, TypeOK
    <2> QED BY <2>1, <2>2, <2>3 DEF Connects
  <1>5. ASSUME NEW c \in Conns, Leave(c) PROVE Haunted'
    <2>1. doing[c][2] \in Ids /\ LeaveCall(c, doing[c][2])
      BY <1>5, <1>d, DoingParts DEF Leave
    <2>2. \A j \in Ids : calls'[j] = {} \/ (calls'[j] = calls[j] /\ marks'[j] = marks[j])
      BY <2>1, LeaveParts
    <2> QED BY <1>5, <2>2 DEF Leave, Goto
  <1>6. ASSUME NEW c \in Conns, LeaveFails(c) PROVE Haunted'
    BY <1>6 DEF LeaveFails, lists, history
  <1>7. ASSUME NEW c \in Conns, Withdraw(c) PROVE Haunted'
    BY <1>7 DEF Withdraw, lists, history
  <1>8. ASSUME NEW c \in Conns, End(c) PROVE Haunted'
    <2>1. \A d \in Conns \ {c} : ending'[d] = ending[d]
      BY <1>8 DEF End, EndGoto, TypeOK
    <2>2. ending'[c] = Threw \/ CallsOf(c) = {} \/ \E k \in Ids : CallsOf(c) = {k} /\ ending'[c] = <<"leave", k>>
      BY <1>8 DEF End, EndGoto, TypeOK, Found, Orderly, CallsOf
    <2>3. \A k \in Ids : c \in calls[k] => ending'[c] = <<"leave", k>> \/ ending'[c] = Threw
      BY <2>2 DEF CallsOf
    <2> QED BY <1>8, <2>1, <2>3 DEF End, lists, history
  <1>9. ASSUME NEW c \in Conns, EndLeaves(c) PROVE Haunted'
    <2>1. ending[c][2] \in Ids /\ LeaveCall(c, ending[c][2]) /\ ending[c] = <<"leave", ending[c][2]>>
      BY <1>9, <1>d, EndingParts DEF EndLeaves
    <2>2. /\ c \notin calls'[ending[c][2]]
          /\ \A j \in Ids : calls'[j] = {} \/ (calls'[j] = calls[j] /\ marks'[j] = marks[j])
      BY <2>1, LeaveParts
    <2>3. ending' = [ending EXCEPT ![c] = Left]
      BY <1>9 DEF EndLeaves, EndGoto
    <2> QED BY <2>1, <2>2, <2>3, EndingParts DEF TypeOK
  <1>10. ASSUME NEW c \in Conns, EndLeaveFails(c) PROVE Haunted'
    BY <1>10 DEF EndLeaveFails, EndGoto, lists, history, TypeOK
  <1>11. ASSUME NEW c \in Conns, EndWithdraws(c) PROVE Haunted'
    <2>1. \A k \in Ids : ending[c] # <<"leave", k>> /\ ending[c] # Threw /\ ending[c] # Idle
      BY <1>11, EndingParts DEF EndWithdraws, Alone, Left, Threw
    <2> QED BY <1>11, <2>1 DEF EndWithdraws, EndGoto, TypeOK
  <1>12. ASSUME NEW c \in Conns, Remove(c) PROVE Haunted'
    BY <1>12 DEF Remove, lists, history
  <1>13. ASSUME NEW c \in Conns, NEW t \in Conns \ {c}, CallUser(c, t) PROVE Haunted'
    BY <1>13 DEF CallUser, lists, history
  <1>14. ASSUME NEW c \in Conns, NEW t \in Conns \ {c}, Answer(c, t) PROVE Haunted'
    BY <1>14 DEF Answer, lists, history
  <1>15. CASE UNCHANGED vars
    BY <1>15 DEF vars, lists, history
  <1> QED BY <1>1, <1>2, <1>3, <1>4, <1>5, <1>6, <1>7, <1>8, <1>9, <1>10, <1>11, <1>12, <1>13, <1>14, <1>15 DEF Next, Continue, Disconnect

\* NoOfferFromTheGone, from the same look on.
Stranded ==
    \A o \in offers : ending[o[1]] # Idle =>
       ending[o[1]] \in HangingUp \cup {Threw} \/ o \in belated

LEMMA StrandedNext == TypeOK /\ Orderly /\ Stranded /\ [Next]_vars => Stranded'
  <1> SUFFICES ASSUME TypeOK, Orderly, Stranded, [Next]_vars PROVE Stranded'
    OBVIOUS
  <1> USE DEF Stranded
  <1>d. \A c \in Conns : doing[c] \in Doing /\ ending[c] \in Ending
    BY DEF TypeOK
  <1>o. \A o \in offers : o[1] \in Conns
    BY DEF TypeOK
  <1>1. ASSUME NEW c \in Conns, Join(c) PROVE Stranded'
    BY <1>1 DEF Join, lists, history, OffersNow, OffersOfOthers
  <1>2. ASSUME NEW c \in Conns, HangUp(c) PROVE Stranded'
    BY <1>2 DEF HangUp, lists, history, OffersNow, OffersOfOthers
  <1>3. ASSUME NEW c \in Conns, Offer(c) PROVE Stranded'
    <2>1. ending[c] \in {Idle, Over} \cup HangingUp \cup {Threw}
      BY <1>d DEF Ending
    <2>2. <<c, doing[c][2]>>[1] = c
      OBVIOUS
    <2> QED BY <1>3, <2>1, <2>2 DEF Offer
  <1>4. ASSUME NEW c \in Conns, Connect(c) PROVE Stranded'
    <2>1. PICK k \in Ids : Connects(c, k)
      BY <1>4, ConnectParts
    <2> QED BY <2>1 DEF Connects, OffersNow, OffersOfOthers
  <1>5. ASSUME NEW c \in Conns, Leave(c) PROVE Stranded'
    BY <1>5 DEF Leave, lists, history, OffersNow, OffersOfOthers
  <1>6. ASSUME NEW c \in Conns, LeaveFails(c) PROVE Stranded'
    BY <1>6 DEF LeaveFails, lists, history, OffersNow, OffersOfOthers
  <1>7. ASSUME NEW c \in Conns, Withdraw(c) PROVE Stranded'
    BY <1>7 DEF Withdraw, lists, history, OffersNow, OffersOfOthers
  <1>8. ASSUME NEW c \in Conns, End(c) PROVE Stranded'
    <2>1. \A d \in Conns \ {c} : ending'[d] = ending[d]
      BY <1>8 DEF End, EndGoto, TypeOK
    <2>2. users[c] = "new" \/ ending'[c] \in HangingUp \cup {Threw}
      BY <1>8, EndingParts DEF End, EndGoto, TypeOK, Found, CallsOf
    <2> QED BY <1>8, <2>1, <2>2, <1>o DEF End, lists, history, Orderly
  <1>9. ASSUME NEW c \in Conns, EndLeaves(c) PROVE Stranded'
    <2>1. ending' = [ending EXCEPT ![c] = Left]
      BY <1>9 DEF EndLeaves, EndGoto
    <2> QED BY <1>9, <2>1, <1>o, EndingParts DEF EndLeaves, TypeOK
  <1>10. ASSUME NEW c \in Conns, EndLeaveFails(c) PROVE Stranded'
    BY <1>10, <1>o DEF EndLeaveFails, EndGoto, lists, history, TypeOK
  <1>11. ASSUME NEW c \in Conns, EndWithdraws(c) PROVE Stranded'
    BY <1>11, <1>o DEF EndWithdraws, EndGoto, OffersNow, OffersOfOthers, TypeOK
  <1>12. ASSUME NEW c \in Conns, Remove(c) PROVE Stranded'
    BY <1>12 DEF Remove, lists, history, OffersNow, OffersOfOthers
  <1>13. ASSUME NEW c \in Conns, NEW t \in Conns \ {c}, CallUser(c, t) PROVE Stranded'
    BY <1>13 DEF CallUser, lists, history, OffersNow, OffersOfOthers
  <1>14. ASSUME NEW c \in Conns, NEW t \in Conns \ {c}, Answer(c, t) PROVE Stranded'
    BY <1>14 DEF Answer, lists, history, OffersNow, OffersOfOthers
  <1>15. CASE UNCHANGED vars
    BY <1>15 DEF vars, lists, history
  <1> QED BY <1>1, <1>2, <1>3, <1>4, <1>5, <1>6, <1>7, <1>8, <1>9, <1>10, <1>11, <1>12, <1>13, <1>14, <1>15 DEF Next, Continue, Disconnect

-----------------------------------------------------------------------------

\* The inductive invariant of the hub.
IInv == TypeOK /\ Orderly /\ Paired /\ TwoForm /\ Haunted /\ Stranded

LEMMA IInvInit == Init => IInv
  <1> SUFFICES ASSUME Init PROVE IInv
    OBVIOUS
  <1>1. \A c \in Conns : users[c] = "new" /\ doing[c] = Idle /\ ending[c] = Idle
    BY DEF Init
  <1>2. offers = {} /\ \A k \in Ids : calls[k] = {}
    BY DEF Init
  <1>3. Orderly
    BY <1>1, <1>2, DoingMade DEF Orderly
  <1>4. Paired /\ TwoForm /\ Haunted /\ Stranded
    BY <1>1, <1>2 DEF Paired, TwoForm, Haunted, Stranded
  <1> QED BY <1>3, <1>4, TypeInit DEF IInv

LEMMA IInvNext == IInv /\ [Next]_vars => IInv'
  BY TypeNext, OrderlyNext, PairedNext, TwoFormNext, HauntedNext, StrandedNext DEF IInv

THEOREM Invariant == Spec => []IInv
  BY IInvInit, IInvNext, PTL DEF Spec

\* Every call has two users, however the ends of two HangUp (and the one of a user who
\* disconnects, beside his own) are interleaved.
THEOREM CallsArePairs == Spec => []PairsOnly
  <1>1. IInv => PairsOnly
    BY PairedIsPairs DEF IInv
  <1> QED BY <1>1, Invariant, PTL

\* Somebody is in two calls only if he has answered while in one, or was connected by
\* somebody whose look at his calls was out of date (AnswerCall).
THEOREM SecondCalls == Spec => []TwoCallsExplained
  <1>1. IInv => TwoCallsExplained
    BY TwoFormExplains DEF IInv
  <1> QED BY <1>1, Invariant, PTL

\* A call keeps a user who is removed only if it was set up after the HangUp of his end
\* had looked for it, or if this HangUp threw (OnDisconnectedAsync).
THEOREM Ghosts == Spec => []GhostsExplained
  <1>1. IInv => GhostsExplained
    BY DEF IInv, Orderly, Haunted, GhostsExplained
  <1> QED BY <1>1, Invariant, PTL

\* An offer outlives its caller only if the HangUp of his end threw, or if it was made
\* after this HangUp, by an invocation the disconnection did not wait for.
THEOREM OldOffers == Spec => []NoOfferFromTheGone
  <1>1. IInv => NoOfferFromTheGone
    BY DEF IInv, TypeOK, Orderly, Stranded, NoOfferFromTheGone
  <1> QED BY <1>1, Invariant, PTL

=============================================================================
