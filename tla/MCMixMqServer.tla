--------------------------- MODULE MCMixMqServer ---------------------------
(* The instance of MixMqServer for TLC. *)
EXTENDS MixMqServer
=============================================================================
