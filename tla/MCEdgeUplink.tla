----------------------------- MODULE MCEdgeUplink -----------------------------
(* The edge application for TLC: its one pipeline thread.                      *)
EXTENDS EdgeUplink, TLC

CONSTANT pipeline

PipelineThread == {pipeline}
=============================================================================
