-------------------------- MODULE MCMixTopicRaces --------------------------
(* Instances of MixTopicRaces for TLC. *)
EXTENDS MixTopicRaces, TLC

CONSTANTS a, b, c, c1, c2, c3

\* Two loops of two subscriptions, or the old and the new loop of one.
Pairs == {(c1 :> a) @@ (c2 :> b), (c1 :> a) @@ (c2 :> a)}

\* The two loops of one subscription beside another's, or three subscriptions.
Triples == {(c1 :> a) @@ (c2 :> a) @@ (c3 :> b), (c1 :> a) @@ (c2 :> b) @@ (c3 :> c)}

PairsAndTriples == Pairs \cup Triples

\* Two messages for two loops; three loops are after one.
OneForTriples == [f \in PairsAndTriples |-> IF f \in Pairs THEN 2 ELSE 1]
=============================================================================
