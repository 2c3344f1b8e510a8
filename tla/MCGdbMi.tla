------------------------------- MODULE MCGdbMi -------------------------------
(* Instances of GdbMi for TLC: the main and the gdb-event thread. *)
EXTENDS GdbMi

CONSTANTS main, event

MCIssuers == {main, event}
MCRawWriters == {main}      \* only the main thread runs cmd_exec

==============================================================================
