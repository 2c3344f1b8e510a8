------------------------------ MODULE GdbEvents ------------------------------
(***************************************************************************)
(* The event half of class gdbif (src/gdb/gdb.cc) with its user, the main  *)
(* thread.  gdb prints results and asynchronous records into one stream;   *)
(* gdb-readline hands results to the caller of mi_issue_cmd and queues     *)
(* *running, *stopped and the end of gdb for the gdb-event thread.  That   *)
(* thread keeps is_running and, after a stop, updates the user interface   *)
(* (inf_update), which issues commands of its own and then signals         *)
(* update_avail.  The main thread executes the Exec commands               *)
(* (src/user_cmd/exec.cc) and, after a step, waits for that signal.        *)
(*                                                                         *)
(* A command is the remote procedure call of Rpc, which GdbMi implements:*)
(* taken by one thread at a time, answered once, returned.  All commands   *)
(* one inf_update issues (get_changed and the stop handlers) are one call. *)
(* next, nexti, step, stepi, finish, goto and setpc differ in the command  *)
(* sent, not in control, and are "step" here; so are breakpoint and signal *)
(* stops, "normal".  gdb and the debugged program are external.            *)
(***************************************************************************)
EXTENDS Integers, Sequences

CONSTANTS
    MaxCmds,        \* bound: number of Exec commands the user enters
    StopReasons,    \* how the program may stop, see TargetStop
    GdbMayExit      \* gdb may terminate at any time

ASSUME CmdsAssumption == MaxCmds \in Nat
ASSUME ReasonsAssumption == StopReasons \subseteq {"normal", "noreason", "exited", "segv"}
ASSUME ExitAssumption == GdbMayExit \in BOOLEAN

VARIABLES
    mainPc,     \* where the main thread is
    cmd,        \* the Exec command it executes
    entered,    \* number of commands entered so far
    goal,       \* the first stop that shows the result of the last step (history)
    owner,      \* the thread inside mi_issue_cmd
    call,       \* the command gdb has not answered yet
    reply,      \* the answer the owner has not taken yet
    target,     \* gdb: no program, stopped or running
    stopNo,     \* gdb: number of times the program has stopped
    alive,      \* gdb: the process runs
    fromGdb,    \* records gdb has printed and gdb-readline has not parsed
    reader,     \* gdb-readline: running, past end-of-file, terminated
    eventLst,   \* gdbif::event_lst
    eventPc,    \* where the gdb-event thread is
    handling,   \* the stop the last inf_update was run for (history)
    isRunning   \* gdbif::is_running

mainVars  == <<mainPc, cmd, entered>>
rpcVars   == <<owner, call, reply>>
gdbVars   == <<target, stopNo, alive, goal>>
eventVars == <<eventPc, handling, isRunning>>
vars == <<mainVars, rpcVars, gdbVars, fromGdb, reader, eventLst, eventVars>>

\* The main thread is at: ui->readline ("ready"); file-list-exec-source-file
\* ("source"); the Exec command ("exec"); exec-run after a failed continue ("run");
\* about to wait and inside inf_await_update ("await", "asleep").

\* The event thread is: about to lock event_mtx ("top"); asleep on event_avail;
\* signalled ("woken"); inside inf_update; about to signal update_avail ("signal");
\* running the exit handlers, since gdb has ended ("exit") or since the program has
\* crashed ("crash").

Result(ok) == [kind |-> IF ok THEN "ok" ELSE "failed", reason |-> "none", no |-> 0]
Running    == [kind |-> "running", reason |-> "none", no |-> 0]
\* The exit event; "segv" marks the one a crash of the program brings on.
Exit(r)       == [kind |-> "exit", reason |-> r, no |-> 0]
Stopped(r, n) == [kind |-> "stopped", reason |-> r, no |-> n]

Init ==
    /\ mainPc = "ready" /\ cmd = "break" /\ entered = 0
    /\ owner = "none" /\ call = "none" /\ reply = "none"
    /\ target = "none" /\ stopNo = 0 /\ alive = TRUE /\ goal = 0
    /\ fromGdb = <<>> /\ reader = "run" /\ eventLst = <<>>
    /\ eventPc = "top" /\ handling = 0 /\ isRunning = FALSE

------------------------------------------------------------------------------
(* mi_issue_cmd, as Rpc *)

Begin(t, c) ==
    /\ owner = "none"
    /\ owner' = t
    /\ call' = c
    /\ UNCHANGED reply

End(t) ==
    /\ owner = t
    /\ reply # "none"
    /\ owner' = "none"
    /\ reply' = "none"
    /\ UNCHANGED call

------------------------------------------------------------------------------
(* Main thread: cmd_exec and cmd_exec_exec *)

\* The user enters a command.  While is_running is set only "break" is
\* accepted (it sends SIGINT, upon which the program may stop as it may stop
\* anyway); while it is clear everything but "break" is.
Enter(c) ==
    /\ mainPc = "ready"
    /\ entered < MaxCmds
    /\ entered' = entered + 1
    /\ cmd' = c
    /\ mainPc' = IF isRunning \/ c = "break" THEN "ready" ELSE "source"
    /\ UNCHANGED <<rpcVars, gdbVars, fromGdb, reader, eventLst, eventVars>>

MainIssue ==
    /\ \/ mainPc = "source" /\ Begin("main", "query")
       \/ mainPc = "exec"   /\ Begin("main", cmd)
       \/ mainPc = "run"    /\ Begin("main", "run")
    /\ UNCHANGED <<mainVars, gdbVars, fromGdb, reader, eventLst, eventVars>>

\* Any failure ends the command, except that "continue" then tries exec-run.
\* A step that has started the program waits for the update.
MainReturn ==
    /\ End("main")
    /\ mainPc' = CASE mainPc = "source" /\ reply = "ok" -> "exec"
                   [] mainPc = "exec" /\ cmd = "step" /\ reply = "ok" -> "await"
                   [] mainPc = "exec" /\ cmd = "continue" /\ reply # "ok" -> "run"
                   [] OTHER -> "ready"
    /\ UNCHANGED <<cmd, entered, gdbVars, fromGdb, reader, eventLst, eventVars>>

\* inf_await_update: sleep on update_avail, whatever has happened so far.
Await ==
    /\ mainPc = "await"
    /\ mainPc' = "asleep"
    /\ UNCHANGED <<cmd, entered, rpcVars, gdbVars, fromGdb, reader, eventLst, eventVars>>

------------------------------------------------------------------------------
(* gdb and the debugged program (external) *)

\* A query may succeed or fail; the program is only started from where it can
\* be, and that may fail too.  ^running comes before *running.
GdbAnswer ==
    /\ alive
    /\ call # "none"
    /\ call' = "none"
    /\ \/ /\ fromGdb' = Append(fromGdb, Result(FALSE))
          /\ UNCHANGED <<target, goal>>
       \/ /\ call = "query"
          /\ fromGdb' = Append(fromGdb, Result(TRUE))
          /\ UNCHANGED <<target, goal>>
       \/ /\ \/ call = "run" /\ target # "running"
             \/ call \in {"step", "continue"} /\ target = "stopped"
          /\ fromGdb' = fromGdb \o <<Result(TRUE), Running>>
          /\ target' = "running"
          /\ goal' = IF call = "step" THEN stopNo + 1 ELSE goal
    /\ UNCHANGED <<mainVars, owner, reply, stopNo, alive, reader, eventLst, eventVars>>

\* The running program reaches a breakpoint, finishes its step, is interrupted
\* ("normal"), stops for a reason gdb does not print, terminates, or crashes.
TargetStop(r) ==
    /\ alive
    /\ target = "running"
    /\ target' = IF r = "exited" THEN "none" ELSE "stopped"
    /\ stopNo' = stopNo + 1
    /\ fromGdb' = Append(fromGdb, Stopped(r, stopNo + 1))
    /\ UNCHANGED <<mainVars, rpcVars, alive, goal, reader, eventLst, eventVars>>

GdbExit ==
    /\ GdbMayExit
    /\ alive
    /\ alive' = FALSE
    /\ UNCHANGED <<mainVars, rpcVars, target, stopNo, goal, fromGdb, reader,
                   eventLst, eventVars>>

------------------------------------------------------------------------------
(* gdb-readline *)

\* Mutants of ProcAsync: the signal is forgotten; the queue is a stack.
ProcAsyncSilent(e) == eventLst' = Append(eventLst, e) /\ UNCHANGED eventPc

ProcAsyncStack(e) ==
    /\ eventLst' = <<e>> \o eventLst
    /\ eventPc' = IF eventPc = "asleep" THEN "woken" ELSE eventPc

\* mi_proc_async: queue the event and signal event_avail.
ProcAsync(e) ==
    /\ eventLst' = Append(eventLst, e)
    /\ eventPc' = IF eventPc = "asleep" THEN "woken" ELSE eventPc

ReadResult ==
    /\ reader = "run"
    /\ fromGdb # <<>>
    /\ Head(fromGdb).kind \in {"ok", "failed"}
    /\ reply' = Head(fromGdb).kind
    /\ fromGdb' = Tail(fromGdb)
    /\ UNCHANGED <<mainVars, owner, call, gdbVars, reader, eventLst, eventVars>>

ReadEvent ==
    /\ reader = "run"
    /\ fromGdb # <<>>
    /\ Head(fromGdb).kind \in {"running", "stopped"}
    /\ ProcAsync(Head(fromGdb))
    /\ fromGdb' = Tail(fromGdb)
    /\ UNCHANGED <<mainVars, rpcVars, gdbVars, reader, handling, isRunning>>

\* Mutant of ReadEof: what gdb printed last is not parsed.
ReadEofEarly ==
    /\ reader = "run"
    /\ ~alive
    /\ ProcAsync(Exit("none"))
    /\ reader' = "eof"
    /\ UNCHANGED <<mainVars, rpcVars, gdbVars, fromGdb, handling, isRunning>>

\* End of file: first the exit event ...
ReadEof ==
    /\ reader = "run"
    /\ fromGdb = <<>>
    /\ ~alive
    /\ ProcAsync(Exit("none"))
    /\ reader' = "eof"
    /\ UNCHANGED <<mainVars, rpcVars, gdbVars, fromGdb, handling, isRunning>>

\* ... then the command in flight, if there is one, fails.
AbortInFlight ==
    /\ reader = "eof"
    /\ reader' = "gone"
    /\ reply' = IF owner # "none" THEN "failed" ELSE reply
    /\ UNCHANGED <<mainVars, owner, call, gdbVars, fromGdb, eventLst, eventVars>>

------------------------------------------------------------------------------
(* gdb-event thread *)

\* evt_running
EvtRunning ==
    /\ isRunning' = TRUE
    /\ eventPc' = "top"
    /\ eventLst' = Tail(eventLst)
    /\ UNCHANGED handling

\* Mutant of EvtStopped: a stop that other events follow is not shown.
EvtStoppedLast(e) ==
    /\ isRunning' = FALSE
    /\ eventPc' = IF Tail(eventLst) = <<>> THEN "update" ELSE "top"
    /\ handling' = IF Tail(eventLst) = <<>> THEN e.no ELSE handling
    /\ eventLst' = Tail(eventLst)

\* evt_stopped: without a reason, or when the program has terminated, nothing
\* is updated; a segmentation fault queues an exit event instead.
EvtStopped(e) ==
    /\ isRunning' = FALSE
    /\ eventPc' = IF e.reason = "normal" THEN "update" ELSE "top"
    /\ handling' = IF e.reason = "normal" THEN e.no ELSE handling
    /\ eventLst' = IF e.reason = "segv" THEN Append(Tail(eventLst), Exit("segv"))
                   ELSE Tail(eventLst)

\* Lock event_mtx.  An empty queue is waited for once; after a signal the queue
\* is not looked at again.
EvSleep ==
    /\ eventPc = "top"
    /\ eventLst = <<>>
    /\ eventPc' = "asleep"
    /\ UNCHANGED <<mainVars, rpcVars, gdbVars, fromGdb, reader, eventLst, handling, isRunning>>

EvTake ==
    /\ \/ eventPc = "top" /\ eventLst # <<>>
       \/ eventPc = "woken"
    /\ LET e == Head(eventLst) IN
          \/ e.kind = "running" /\ EvtRunning
          \/ e.kind = "stopped" /\ EvtStopped(e)
          \/ /\ e.kind = "exit"
             /\ eventPc' = IF e.reason = "segv" THEN "crash" ELSE "exit"
             /\ eventLst' = Tail(eventLst)
             /\ UNCHANGED <<handling, isRunning>>
    /\ UNCHANGED <<mainVars, rpcVars, gdbVars, fromGdb, reader>>

\* inf_update: variables and stop handlers, then the signal; failures of the
\* commands are reported and ignored.
UpdateIssue ==
    /\ eventPc = "update"
    /\ Begin("event", "query")
    /\ UNCHANGED <<mainVars, gdbVars, fromGdb, reader, eventLst, eventVars>>

UpdateReturn ==
    /\ eventPc = "update"
    /\ End("event")
    /\ eventPc' = "signal"
    /\ UNCHANGED <<mainVars, gdbVars, fromGdb, reader, eventLst, handling, isRunning>>

\* pthread_cond_signal(&update_avail)
UpdateSignal ==
    /\ eventPc = "signal"
    /\ eventPc' = "top"
    /\ mainPc' = IF mainPc = "asleep" THEN "ready" ELSE mainPc
    /\ UNCHANGED <<cmd, entered, rpcVars, gdbVars, fromGdb, reader, eventLst,
                   handling, isRunning>>

------------------------------------------------------------------------------

Main  == (\E c \in {"step", "continue", "break"} : Enter(c))
         \/ MainIssue \/ MainReturn \/ Await

Gdb   == GdbAnswer \/ (\E r \in StopReasons : TargetStop(r)) \/ GdbExit

Reader == ReadResult \/ ReadEvent \/ ReadEof \/ AbortInFlight

EventThread == EvSleep \/ EvTake \/ UpdateIssue \/ UpdateReturn \/ UpdateSignal

Next == Main \/ Gdb \/ Reader \/ EventThread

Spec == Init /\ [][Next]_vars

\* The threads run and gdb answers.  The user need not enter anything, and the
\* program need not stop.
Fairness ==
    /\ WF_vars(MainIssue \/ MainReturn \/ Await)
    /\ WF_vars(GdbAnswer)
    /\ WF_vars(Reader)
    /\ WF_vars(EventThread)

FairSpec == Spec /\ Fairness

\* As FairSpec, for a program that always stops sooner or later.
StoppingSpec == FairSpec /\ WF_vars(\E r \in StopReasons : TargetStop(r))

------------------------------------------------------------------------------
(* Properties *)

\* The event thread, once signalled, finds an event: although it does not look
\* again (gdb.cc:533-537), it never takes from an empty queue, nor does it
\* sleep on a queue that is not empty.
NoNullEvent ==
    /\ eventPc = "woken" => eventLst # <<>>
    /\ eventPc = "asleep" => eventLst = <<>>

\* is_running lags behind the program but never diverges from it: with every
\* record parsed and every event taken it is right, in whatever order commands,
\* stops and handlers interleave (gdb.cc:339-366, 524-585).
FlagConverges ==
    fromGdb = <<>> /\ eventLst = <<>> /\ alive => (isRunning <=> target = "running")

\* When gdb has ended, the exit handlers run once everything it printed before
\* has been handled (gdb.cc:512-515, 548-551).
CleanupComesLast ==
    eventPc = "exit" => /\ ~alive /\ fromGdb = <<>>
                        /\ \A i \in DOMAIN eventLst : eventLst[i].kind = "exit"

\* Every stop the user is to see leads to an update of the user interface for
\* this stop or a later one, unless gdb ends or the program crashes meanwhile
\* (gdb.cc:580-607).
StopsAreShown ==
    \A n \in 1..MaxCmds :
        (\E i \in DOMAIN fromGdb : fromGdb[i] = Stopped("normal", n))
            ~> handling >= n \/ ~alive \/ eventPc = "crash"

\* Violated: the update a step waits for (cmd.h:31-33) may be over before the
\* main thread falls asleep, and nobody signals again.
AwaitReturns == mainPc = "asleep" ~> mainPc # "asleep"

==============================================================================
