--------------------------- MODULE MCVideoCallHub ---------------------------
EXTENDS VideoCallHub, TLC

\* Connections that may end are interchangeable.
Symmetry == Permutations(Leavers)
=============================================================================
