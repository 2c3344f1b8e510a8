------------------------------- MODULE SyncFile -------------------------------
(***************************************************************************)
(* How a vim command runs a command of the program and waits for it.  The  *)
(* plugin (vimgdb#util#cmd, src/gui/vim/autoload/vimgdb/util.vim) deletes  *)
(* the sync file, sends the command as a key event and polls until the     *)
(* file exists or a timeout expires.  The main thread executes the queued  *)
(* commands one by one (cmd_exec, src/user_cmd/cmd.gperf) and creates the  *)
(* file after each.  Commands with a result (complete, export) leave it in *)
(* the data file before.                                                   *)
(*                                                                         *)
(* Commands are numbered in the order they are sent; files hold the number *)
(* of the command they were written by.  The time a command takes, and     *)
(* with it whether the timeout expires, is not determined.                 *)
(***************************************************************************)
EXTENDS Naturals, Sequences

CONSTANTS
    MaxCmds,        \* bound: number of commands
    MayTimeOut      \* a command may take longer than the timeout

ASSUME CmdsAssumption == MaxCmds \in Nat
ASSUME TimeoutAssumption == MayTimeOut \in BOOLEAN

VARIABLES
    vimPc,      \* where the plugin is
    last,       \* the last command sent: its number and kind
    clean,      \* no earlier command was in flight when it was sent (history)
    result,     \* the command whose data the plugin read last, or NoFile (history)
    queue,      \* commands sent and not yet taken by the main thread
    mainPc,     \* where the main thread is
    running,    \* the command it executes
    sync, data  \* the two files

plugin == <<vimPc, last, clean, result>>
main   == <<queue, mainPc, running>>
files  == <<sync, data>>
vars   == <<plugin, main, files>>

NoFile == 0

\* A command without result, one with result, and one the program does not know
\* and hands on to gdb.
Kinds == {"plain", "data", "unknown"}

Command(no, kind) == [no |-> no, kind |-> kind]

Init ==
    /\ vimPc = "idle" /\ last = Command(0, "plain") /\ clean = TRUE /\ result = NoFile
    /\ queue = <<>> /\ mainPc = "idle" /\ running = Command(0, "plain")
    /\ sync = NoFile /\ data = NoFile

------------------------------------------------------------------------------
(* The plugin *)

\* cmd_get_data_list deletes the data file first.
DeleteData ==
    /\ vimPc = "idle"
    /\ last.no < MaxCmds
    /\ data' = NoFile
    /\ vimPc' = "data"
    /\ UNCHANGED <<last, clean, result, main, sync>>

\* Mutant of DeleteSync: the file of the last command is left.
DeleteNothing ==
    /\ vimPc \in {"idle", "data"}
    /\ last.no < MaxCmds
    /\ \E kind \in Kinds :
          /\ kind = "data" <=> vimPc = "data"
          /\ last' = Command(last.no + 1, kind)
    /\ clean' = (queue = <<>> /\ mainPc = "idle")
    /\ vimPc' = "send"
    /\ UNCHANGED <<result, main, files>>

\* cmd: delete the sync file ...
DeleteSync ==
    /\ vimPc \in {"idle", "data"}
    /\ last.no < MaxCmds
    /\ sync' = NoFile
    /\ \E kind \in Kinds :
          /\ kind = "data" <=> vimPc = "data"
          /\ last' = Command(last.no + 1, kind)
    /\ clean' = (queue = <<>> /\ mainPc = "idle")
    /\ vimPc' = "send"
    /\ UNCHANGED <<result, main, data>>

\* ... and send the command.
Send ==
    /\ vimPc = "send"
    /\ queue' = Append(queue, last)
    /\ vimPc' = "wait"
    /\ UNCHANGED <<last, clean, result, mainPc, running, files>>

\* The sync file is there; cmd_get_data_list reads the data file.
SyncSeen ==
    /\ vimPc = "wait"
    /\ sync # NoFile
    /\ result' = IF last.kind = "data" THEN data ELSE result
    /\ vimPc' = "idle"
    /\ UNCHANGED <<last, clean, main, files>>

\* Mutant of Timeout: a command handed on to gdb is waited for.
TimeoutKnown ==
    /\ vimPc = "wait"
    /\ sync = NoFile
    /\ last.kind # "unknown"
    /\ vimPc' = "idle"
    /\ UNCHANGED <<last, clean, result, main, files>>

Timeout ==
    /\ vimPc = "wait"
    /\ sync = NoFile
    /\ MayTimeOut \/ last.kind = "unknown"
    /\ vimPc' = "idle"
    /\ UNCHANGED <<last, clean, result, main, files>>

------------------------------------------------------------------------------
(* The main thread *)

\* Take the next command and execute it; an unknown one is only written to gdb.
Take ==
    /\ mainPc = "idle"
    /\ queue # <<>>
    /\ running' = Head(queue)
    /\ queue' = Tail(queue)
    /\ mainPc' = IF Head(queue).kind = "unknown" THEN "idle" ELSE "exec"
    /\ UNCHANGED <<plugin, files>>

Exec ==
    /\ mainPc = "exec"
    /\ data' = IF running.kind = "data" THEN running.no ELSE data
    /\ mainPc' = "sync"
    /\ UNCHANGED <<plugin, queue, running, sync>>

Sync ==
    /\ mainPc = "sync"
    /\ sync' = running.no
    /\ mainPc' = "idle"
    /\ UNCHANGED <<plugin, queue, running, data>>

------------------------------------------------------------------------------

Plugin == DeleteData \/ DeleteSync \/ Send \/ SyncSeen \/ Timeout
Main   == Take \/ Exec \/ Sync

Next == Plugin \/ Main

Spec == Init /\ [][Next]_vars

\* The plugin, once it has begun, sends and polls.  Nothing is assumed of the main
\* thread: a command may never end.
FairSpec == Spec /\ WF_vars(Send \/ SyncSeen \/ Timeout)

------------------------------------------------------------------------------
(* Properties *)

\* The plugin waits for the answer to its own command and reads its own data.
OwnAnswer == sync = last.no /\ (last.kind = "data" => data = last.no)

\* A command sent while no other is in flight gets its own answer, whatever timed
\* out before and whatever files earlier commands left (util.vim:24-45, 52-63).
CleanAnswerIsOwn ==
    [][vimPc = "wait" /\ vimPc' = "idle" /\ sync # NoFile /\ clean => OwnAnswer]_vars

\* Every command of the user comes back: with the sync file or a timeout.
CommandEnds == vimPc = "wait" ~> vimPc = "idle"

==============================================================================
