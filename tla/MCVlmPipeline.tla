----------------------------- MODULE MCVlmPipeline -----------------------------
(* VlmPipeline for TLC: its constants are numbers, given in the .cfg.          *)
EXTENDS VlmPipeline, TLC
=============================================================================
