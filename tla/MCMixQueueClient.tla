------------------------- MODULE MCMixQueueClient -------------------------
EXTENDS MixQueueClient, TLC

CONSTANTS m1, m2, s1, s2, p1, p2

\* Everything in one process.
AllHome == [m \in Msgs |-> p1]
AllSubs == [s \in Subs |-> p1]

\* The subscriber s1 runs in the process that pushes, s2 in another.
SplitSubs == [s \in Subs |-> IF s = s1 THEN p1 ELSE p2]
=============================================================================
