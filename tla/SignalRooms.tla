---------------------------- MODULE SignalRooms ----------------------------
(***************************************************************************)
(* The rooms of the SignalR hubs: the static dictionary Rooms of the class *)
(* BaseSignalRHub of src/platform/mix.signalr.hub/Hubs, which all hubs     *)
(* share.  The list of a room is a ConcurrentBag of users, one per         *)
(* connection; TryTake takes any element of it.                            *)
(*                                                                         *)
(* SignalR runs the invocations of one connection one after the other,     *)
(* OnDisconnectedAsync last, and those of different connections in         *)
(* parallel.  A connection is added to a bag by its own invocations only,  *)
(* which makes the look and the addition of NotifyNewUser one step, and    *)
(* the bags sets.  What is sent to the clients is left out.                *)
(***************************************************************************)
EXTENDS Naturals, FiniteSets

CONSTANTS Conns,    \* connections
          RoomNames

ASSUME RoomsAssumption == IsFiniteSet(Conns) /\ IsFiniteSet(RoomNames)

VARIABLES conns,  \* conns[c]: connected, in OnDisconnectedAsync, or gone
          groups, \* groups[n]: the group of SignalR, which messages to n are sent to
          Rooms,  \* Rooms[n]: the bag of n, which is the list of members sent to who joins
          todo,   \* todo[c]: the rooms that RemoveUserFromGroups has still to look at
          found   \* found[c]: the room, if any, in whose bag it has found c last

vars == <<conns, groups, Rooms, todo, found>>

TypeOK ==
    /\ conns \in [Conns -> {"on", "leaving", "gone"}]
    /\ groups \in [RoomNames -> SUBSET Conns]
    /\ Rooms \in [RoomNames -> SUBSET Conns]
    /\ todo \in [Conns -> SUBSET RoomNames]
    /\ found \in [Conns -> SUBSET RoomNames]

Init ==
    /\ conns = [c \in Conns |-> "on"]
    /\ groups = [n \in RoomNames |-> {}]
    /\ Rooms = [n \in RoomNames |-> {}]
    /\ todo = [c \in Conns |-> {}]
    /\ found = [c \in Conns |-> {}]

-----------------------------------------------------------------------------

\* JoinRoom: AddUserToRoom and NotifyNewUser, which adds who is not in the bag.
JoinRoom(c, n) ==
    /\ conns[c] = "on"
    /\ groups' = [groups EXCEPT ![n] = @ \cup {c}]
    /\ Rooms' = [Rooms EXCEPT ![n] = @ \cup {c}]
    /\ UNCHANGED <<conns, todo, found>>

\* LeaveRoom leaves the group and stays in the bag.
LeaveRoom(c, n) ==
    /\ conns[c] = "on"
    /\ groups' = [groups EXCEPT ![n] = @ \ {c}]
    /\ UNCHANGED <<conns, Rooms, todo, found>>

\* OnDisconnectedAsync begins: RemoveUserFromGroups goes through the rooms there are.
Disconnect(c) ==
    /\ conns[c] = "on"
    /\ conns' = [conns EXCEPT ![c] = "leaving"]
    /\ todo' = [todo EXCEPT ![c] = RoomNames]
    /\ UNCHANGED <<groups, Rooms, found>>

\* It looks for the connection in the bag of a room.  (LookNot is a mistake: the
\* bag is not searched.)
LookNot(c, n) ==
    /\ n \in todo[c] /\ found[c] = {}
    /\ todo' = [todo EXCEPT ![c] = @ \ {n}]
    /\ found' = [found EXCEPT ![c] = {n}]
    /\ UNCHANGED <<conns, groups, Rooms>>
Look(c, n) ==
    /\ n \in todo[c] /\ found[c] = {}
    /\ todo' = [todo EXCEPT ![c] = @ \ {n}]
    /\ found' = [found EXCEPT ![c] = {n} \cap {m \in RoomNames : c \in Rooms[m]}]
    /\ UNCHANGED <<conns, groups, Rooms>>

\* It takes an element out of the bag, whichever TryTake returns.
TryTake(c, n) ==
    /\ n \in found[c]
    /\ \/ Rooms[n] = {} /\ UNCHANGED Rooms
       \/ \E d \in Rooms[n] : Rooms' = [Rooms EXCEPT ![n] = @ \ {d}]
    /\ found' = [found EXCEPT ![c] = {}]
    /\ UNCHANGED <<conns, groups, todo>>

\* The connection is gone, and SignalR takes it out of its groups.
Leave(c) ==
    /\ conns[c] = "leaving"
    /\ todo[c] = {} /\ found[c] = {}
    /\ conns' = [conns EXCEPT ![c] = "gone"]
    /\ groups' = [n \in RoomNames |-> groups[n] \ {c}]
    /\ UNCHANGED <<Rooms, todo, found>>

Next ==
    \E c \in Conns :
       \/ Disconnect(c) \/ Leave(c)
       \/ \E n \in RoomNames :
            JoinRoom(c, n) \/ LeaveRoom(c, n) \/ Look(c, n) \/ TryTake(c, n)

Spec == Init /\ [][Next]_vars

-----------------------------------------------------------------------------

\* Connected members of n who are not on its list, and entries of who is leaving or
\* has left.
Missing(n) == {c \in groups[n] \ Rooms[n] : conns[c] = "on"}
Ghosts(n) == {c \in Rooms[n] : conns[c] # "on"}

\* A member of a room who is connected can be missing in its list: someone who left
\* has been given his element (BaseSignalRHub.RemoveUserFromGroups).  But then that
\* one stays listed instead, so that there are never more members missing than
\* there are entries of those who have left.
GhostForMissing ==
    \A n \in RoomNames : Cardinality(Missing(n)) <= Cardinality(Ghosts(n))

\* The connections that will take, or might take, an element out of the bag of n.
Due(n) == {c \in Conns : n \in found[c] \/ (n \in todo[c] /\ c \in Rooms[n])}

\* Each of them accounts for an entry of someone who leaves as well: the invariant
\* that GhostForMissing follows from.
EachHasGhost ==
    \A n \in RoomNames :
       Cardinality(Missing(n)) + Cardinality(Due(n)) <= Cardinality(Ghosts(n))
=============================================================================
