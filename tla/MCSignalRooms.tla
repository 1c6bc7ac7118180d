--------------------------- MODULE MCSignalRooms ---------------------------
EXTENDS SignalRooms, TLC

\* Connections are interchangeable, and so are rooms.
Symmetry == Permutations(Conns) \cup Permutations(RoomNames)
=============================================================================
