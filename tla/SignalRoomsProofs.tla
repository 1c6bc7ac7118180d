------------------------- MODULE SignalRoomsProofs -------------------------
(***************************************************************************)
(* What is proved of SignalRooms for every finite set of connections and   *)
(* of rooms: who is missing in the list of a room is outnumbered by those  *)
(* who are listed and have left.                                           *)
(***************************************************************************)
EXTENDS SignalRooms, FiniteSetTheorems, TLAPS

-----------------------------------------------------------------------------
(* How the three sets that are counted can change                           *)

Counted(M, D, G) == Cardinality(M) + Cardinality(D) <= Cardinality(G)

LEMMA Counts ==
    ASSUME NEW A \in SUBSET Conns
    PROVE  IsFiniteSet(A) /\ Cardinality(A) \in Nat
           /\ \A B \in SUBSET A : Cardinality(B) <= Cardinality(A)
  BY RoomsAssumption, FS_Subset, FS_CardinalityType

LEMMA Fewer ==
    ASSUME NEW M \in SUBSET Conns, NEW D \in SUBSET Conns, NEW G \in SUBSET Conns,
           NEW M1 \in SUBSET M, NEW D1 \in SUBSET D, NEW G1 \in SUBSET Conns, G \subseteq G1,
           Counted(M, D, G)
    PROVE  Counted(M1, D1, G1)
  <1>1. /\ Cardinality(M) \in Nat /\ Cardinality(D) \in Nat /\ Cardinality(G) \in Nat
        /\ Cardinality(M1) \in Nat /\ Cardinality(D1) \in Nat /\ Cardinality(G1) \in Nat
    BY Counts
  <1>2. /\ Cardinality(M1) <= Cardinality(M) /\ Cardinality(D1) <= Cardinality(D)
        /\ Cardinality(G) <= Cardinality(G1)
    BY Counts
  <1> QED BY <1>1, <1>2 DEF Counted

\* Someone who is listed leaves.
LEMMA DueAndGhost ==
    ASSUME NEW M \in SUBSET Conns, NEW D \in SUBSET Conns, NEW G \in SUBSET Conns,
           NEW c \in Conns \ G, Counted(M, D, G)
    PROVE  Counted(M, D \cup {c}, G \cup {c})
  <1>1. /\ Cardinality(M) \in Nat /\ Cardinality(D) \in Nat /\ Cardinality(G) \in Nat
        /\ IsFiniteSet(D) /\ IsFiniteSet(G)
    BY Counts
  <1>2. /\ IsFiniteSet(D \cup {c})
        /\ Cardinality(D \cup {c}) = IF c \in D THEN Cardinality(D) ELSE Cardinality(D) + 1
    BY <1>1, FS_AddElement
  <1>3. Cardinality(G \cup {c}) = IF c \in G THEN Cardinality(G) ELSE Cardinality(G) + 1
    BY <1>1, FS_AddElement
  <1>4. Cardinality(D \cup {c}) \in Nat /\ Cardinality(D \cup {c}) <= Cardinality(D) + 1
    BY <1>1, <1>2
  <1> QED BY <1>1, <1>3, <1>4 DEF Counted

\* Someone who leaves takes the element of a connected member.
LEMMA MemberTaken ==
    ASSUME NEW M \in SUBSET Conns, NEW D \in SUBSET Conns, NEW G \in SUBSET Conns,
           NEW c \in D, NEW d \in Conns, Counted(M, D, G)
    PROVE  Counted(M \cup {d}, D \ {c}, G)
  <1>1. /\ Cardinality(M) \in Nat /\ Cardinality(D) \in Nat /\ Cardinality(G) \in Nat
        /\ IsFiniteSet(M) /\ IsFiniteSet(D)
    BY Counts
  <1>2. Cardinality(D \ {c}) = Cardinality(D) - 1
    BY <1>1, FS_RemoveElement
  <1>3. Cardinality(M \cup {d}) = IF d \in M THEN Cardinality(M) ELSE Cardinality(M) + 1
    BY <1>1, FS_AddElement
  <1>4. Cardinality(M \cup {d}) \in Nat /\ Cardinality(M \cup {d}) <= Cardinality(M) + 1
    BY <1>1, <1>3
  <1> QED BY <1>1, <1>2, <1>4 DEF Counted

\* Someone who leaves takes the element of one who leaves or has left.
LEMMA GhostTaken ==
    ASSUME NEW M \in SUBSET Conns, NEW D \in SUBSET Conns, NEW G \in SUBSET Conns,
           NEW c \in D, NEW d \in G, Counted(M, D, G)
    PROVE  Counted(M, D \ {c}, G \ {d})
  <1>1. /\ Cardinality(M) \in Nat /\ Cardinality(D) \in Nat /\ Cardinality(G) \in Nat
        /\ IsFiniteSet(D) /\ IsFiniteSet(G)
    BY Counts
  <1>2. Cardinality(D \ {c}) = Cardinality(D) - 1 /\ Cardinality(G \ {d}) = Cardinality(G) - 1
    BY <1>1, FS_RemoveElement
  <1> QED BY <1>1, <1>2 DEF Counted

-----------------------------------------------------------------------------

LEMMA TypeInit == Init => TypeOK
  BY DEF Init, TypeOK

LEMMA TypeNext == TypeOK /\ [Next]_vars => TypeOK'
  <1> SUFFICES ASSUME TypeOK, [Next]_vars PROVE TypeOK'
    OBVIOUS
  <1> USE DEF TypeOK
  <1>1. ASSUME NEW c \in Conns, Disconnect(c) PROVE TypeOK'
    BY <1>1 DEF Disconnect
  <1>2. ASSUME NEW c \in Conns, Leave(c) PROVE TypeOK'
    BY <1>2 DEF Leave
  <1>3. ASSUME NEW c \in Conns, NEW n \in RoomNames, JoinRoom(c, n) PROVE TypeOK'
    BY <1>3 DEF JoinRoom
  <1>4. ASSUME NEW c \in Conns, NEW n \in RoomNames, LeaveRoom(c, n) PROVE TypeOK'
    BY <1>4 DEF LeaveRoom
  <1>5. ASSUME NEW c \in Conns, NEW n \in RoomNames, Look(c, n) PROVE TypeOK'
    BY <1>5 DEF Look
  <1>6. ASSUME NEW c \in Conns, NEW n \in RoomNames, TryTake(c, n) PROVE TypeOK'
    BY <1>6 DEF TryTake
  <1>7. CASE UNCHANGED vars
    BY <1>7 DEF vars
  <1> QED BY <1>1, <1>2, <1>3, <1>4, <1>5, <1>6, <1>7 DEF Next

\* Every variable keeps its type (the rooms of BaseSignalRHub).
THEOREM TypeCorrect == Spec => []TypeOK
  BY TypeInit, TypeNext, PTL DEF Spec

-----------------------------------------------------------------------------

\* Only who leaves looks for himself, and in each room once.
Looking ==
    \A c \in Conns :
       /\ conns[c] # "leaving" => todo[c] = {} /\ found[c] = {}
       /\ found[c] \cap todo[c] = {}

IInv == TypeOK /\ Looking /\ EachHasGhost

LEMMA LookingNext == TypeOK /\ Looking /\ [Next]_vars => Looking'
  <1> SUFFICES ASSUME TypeOK, Looking, [Next]_vars PROVE Looking'
    OBVIOUS
  <1> USE DEF TypeOK, Looking
  <1>1. ASSUME NEW c \in Conns, Disconnect(c) PROVE Looking'
    BY <1>1 DEF Disconnect
  <1>2. ASSUME NEW c \in Conns, Leave(c) PROVE Looking'
    BY <1>2 DEF Leave
  <1>3. ASSUME NEW c \in Conns, NEW n \in RoomNames, JoinRoom(c, n) PROVE Looking'
    BY <1>3 DEF JoinRoom
  <1>4. ASSUME NEW c \in Conns, NEW n \in RoomNames, LeaveRoom(c, n) PROVE Looking'
    BY <1>4 DEF LeaveRoom
  <1>5. ASSUME NEW c \in Conns, NEW n \in RoomNames, Look(c, n) PROVE Looking'
    BY <1>5 DEF Look
  <1>6. ASSUME NEW c \in Conns, NEW n \in RoomNames, TryTake(c, n) PROVE Looking'
    BY <1>6 DEF TryTake
  <1>7. CASE UNCHANGED vars
    BY <1>7 DEF vars
  <1> QED BY <1>1, <1>2, <1>3, <1>4, <1>5, <1>6, <1>7 DEF Next

LEMMA InvInit == Init => IInv
  <1> SUFFICES ASSUME Init PROVE IInv
    OBVIOUS
  <1>1. TypeOK /\ Looking
    BY TypeInit DEF Init, Looking
  <1>2. ASSUME NEW n \in RoomNames PROVE Missing(n) = {} /\ Due(n) = {} /\ Ghosts(n) = {}
    BY <1>2 DEF Init, Missing, Due, Ghosts
  <1>3. EachHasGhost
    BY <1>2, FS_EmptySet DEF EachHasGhost
  <1> QED BY <1>1, <1>3 DEF IInv

LEMMA InvNext == IInv /\ [Next]_vars => IInv'
  <1> SUFFICES ASSUME IInv, [Next]_vars PROVE IInv'
    OBVIOUS
  <1>t. TypeOK /\ TypeOK' /\ Looking
    BY TypeNext DEF IInv
  <1>l. Looking'
    BY LookingNext DEF IInv
  <1>3. ASSUME NEW m \in RoomNames
        PROVE  (Cardinality(Missing(m)) + Cardinality(Due(m)) <= Cardinality(Ghosts(m)))'
    <2> DEFINE M == Missing(m)
               D == Due(m)
               G == Ghosts(m)
    <2>s. /\ M \in SUBSET Conns /\ D \in SUBSET Conns /\ G \in SUBSET Conns
          /\ M' \in SUBSET Conns /\ D' \in SUBSET Conns /\ G' \in SUBSET Conns
      BY <1>t DEF TypeOK, Missing, Due, Ghosts
    <2>c. Counted(M, D, G)
      BY DEF IInv, EachHasGhost, Counted
    <2> SUFFICES Counted(M', D', G')
      BY DEF Counted
    <2>f. ASSUME M' \subseteq M, D' \subseteq D, G \subseteq G' PROVE Counted(M', D', G')
      <3> HIDE DEF M, D, G
      <3> QED BY <2>f, <2>s, <2>c, Fewer
    <2>1. ASSUME NEW c \in Conns, Disconnect(c) PROVE Counted(M', D', G')
      <3>1. M' \subseteq M
        BY <2>1, <1>t DEF Disconnect, TypeOK, Missing
      <3>2. CASE c \in Rooms[m]
        <4>1. D' \subseteq D \cup {c} /\ G' = G \cup {c} /\ c \notin G
          BY <2>1, <3>2, <1>t DEF Disconnect, TypeOK, Due, Ghosts
        <4> HIDE DEF M, D, G
        <4>2. Counted(M, D \cup {c}, G \cup {c})
          BY <4>1, <2>s, <2>c, DueAndGhost
        <4>3. D \cup {c} \in SUBSET Conns
          BY <2>s
        <4> QED BY <4>1, <4>2, <4>3, <3>1, <2>s, Fewer
      <3>3. CASE c \notin Rooms[m]
        <4>1. D' \subseteq D /\ G \subseteq G'
          BY <2>1, <3>3, <1>t DEF Disconnect, TypeOK, Due, Ghosts
        <4> QED BY <4>1, <3>1, <2>f
      <3> QED BY <3>2, <3>3
    <2>2. ASSUME NEW c \in Conns, Leave(c) PROVE Counted(M', D', G')
      <3>1. M' \subseteq M /\ D' \subseteq D /\ G \subseteq G'
        BY <2>2, <1>t DEF Leave, TypeOK, Missing, Due, Ghosts
      <3> QED BY <3>1, <2>f
    <2>3. ASSUME NEW c \in Conns, NEW n \in RoomNames, JoinRoom(c, n)
          PROVE  Counted(M', D', G')
      <3>1. M' \subseteq M /\ D' \subseteq D /\ G \subseteq G'
        BY <2>3, <1>t DEF JoinRoom, TypeOK, Missing, Due, Ghosts, Looking
      <3> QED BY <3>1, <2>f
    <2>4. ASSUME NEW c \in Conns, NEW n \in RoomNames, LeaveRoom(c, n)
          PROVE  Counted(M', D', G')
      <3>1. M' \subseteq M /\ D' \subseteq D /\ G \subseteq G'
        BY <2>4, <1>t DEF LeaveRoom, TypeOK, Missing, Due, Ghosts
      <3> QED BY <3>1, <2>f
    <2>5. ASSUME NEW c \in Conns, NEW n \in RoomNames, Look(c, n)
          PROVE  Counted(M', D', G')
      <3>1. M' \subseteq M /\ D' \subseteq D /\ G \subseteq G'
        BY <2>5, <1>t DEF Look, TypeOK, Missing, Due, Ghosts
      <3> QED BY <3>1, <2>f
    <2>6. ASSUME NEW c \in Conns, NEW n \in RoomNames, TryTake(c, n)
          PROVE  Counted(M', D', G')
      <3>1. UNCHANGED <<conns, groups, todo>> /\ found' = [found EXCEPT ![c] = {}]
        BY <2>6 DEF TryTake
      <3>2. CASE UNCHANGED Rooms \/ m # n
        <4>1. Rooms'[m] = Rooms[m]
          BY <2>6, <3>2, <1>t DEF TryTake, TypeOK
        <4>2. M' \subseteq M /\ D' \subseteq D /\ G \subseteq G'
          BY <3>1, <4>1, <1>t DEF TypeOK, Missing, Due, Ghosts
        <4> QED BY <4>2, <2>f
      <3>3. CASE m = n /\ ~UNCHANGED Rooms
        <4>1. PICK d \in Rooms[m] : Rooms' = [Rooms EXCEPT ![m] = @ \ {d}]
          BY <2>6, <3>3 DEF TryTake
        <4>2. d \in Conns /\ c \in D /\ D' \subseteq D \ {c}
          BY <2>6, <3>1, <3>3, <4>1, <1>t DEF TryTake, TypeOK, Looking, Due
        <4>3. CASE conns[d] = "on"
          <5>1. M' \subseteq M \cup {d} /\ G \subseteq G'
            BY <3>1, <4>1, <4>3, <1>t DEF TypeOK, Missing, Ghosts
          <5> HIDE DEF M, D, G
          <5>2. Counted(M \cup {d}, D \ {c}, G)
            BY <4>2, <2>s, <2>c, MemberTaken
          <5>3. M \cup {d} \in SUBSET Conns /\ D \ {c} \in SUBSET Conns
            BY <4>2, <2>s
          <5> QED BY <4>2, <5>1, <5>2, <5>3, <2>s, Fewer
        <4>4. CASE conns[d] # "on"
          <5>1. M' \subseteq M /\ G \ {d} \subseteq G' /\ d \in G
            BY <3>1, <4>1, <4>4, <1>t DEF TypeOK, Missing, Ghosts
          <5> HIDE DEF M, D, G
          <5>2. Counted(M, D \ {c}, G \ {d})
            BY <4>2, <5>1, <2>s, <2>c, GhostTaken
          <5>3. D \ {c} \in SUBSET Conns /\ G \ {d} \in SUBSET Conns
            BY <2>s
          <5> QED BY <4>2, <5>1, <5>2, <5>3, <2>s, Fewer
        <4> QED BY <4>3, <4>4
      <3> QED BY <3>2, <3>3
    <2>7. CASE UNCHANGED vars
      <3>1. M' \subseteq M /\ D' \subseteq D /\ G \subseteq G'
        BY <2>7 DEF vars, Missing, Due, Ghosts
      <3> QED BY <3>1, <2>f
    <2> QED BY <2>1, <2>2, <2>3, <2>4, <2>5, <2>6, <2>7 DEF Next
  <1>4. EachHasGhost'
    BY <1>3 DEF EachHasGhost
  <1> QED BY <1>t, <1>l, <1>4 DEF IInv

LEMMA InvImplies == IInv => GhostForMissing
  <1> SUFFICES ASSUME IInv, NEW n \in RoomNames
               PROVE  Cardinality(Missing(n)) <= Cardinality(Ghosts(n))
    BY DEF GhostForMissing
  <1>1. Missing(n) \in SUBSET Conns /\ Due(n) \in SUBSET Conns /\ Ghosts(n) \in SUBSET Conns
    BY DEF IInv, TypeOK, Missing, Due, Ghosts
  <1>2. Cardinality(Missing(n)) + Cardinality(Due(n)) <= Cardinality(Ghosts(n))
    BY DEF IInv, EachHasGhost
  <1> HIDE DEF Missing, Due, Ghosts
  <1>3. /\ Cardinality(Missing(n)) \in Nat /\ Cardinality(Due(n)) \in Nat
        /\ Cardinality(Ghosts(n)) \in Nat
    BY <1>1, Counts
  <1> QED BY <1>2, <1>3

\* For every number of connections and rooms, a room never has more connected members
\* who are not listed than listed ones who have left (RemoveUserFromGroups).
THEOREM GhostsOutnumber == Spec => []GhostForMissing
  BY InvInit, InvNext, InvImplies, PTL DEF Spec
=============================================================================
