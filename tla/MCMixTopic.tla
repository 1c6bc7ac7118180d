----------------------------- MODULE MCMixTopic -----------------------------
(* The instances of MixTopic for TLC. *)
EXTENDS MixTopic
=============================================================================
