----------------------------- MODULE MCVimAction -----------------------------
(* VimAction with the main and the gdb-event thread. *)
EXTENDS VimAction

CONSTANTS main, event

MCCallers == {main, event}

==============================================================================
