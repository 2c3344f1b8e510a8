------------------------------- MODULE Shutdown -------------------------------
(***************************************************************************)
(* The end of the program (src/main/main.cc, ~gdbif in src/gdb/gdb.cc,     *)
(* vimui::destroy in src/gui/vim/vimui.cc).  cleanup() is called by the    *)
(* main thread when vim has gone, by the event thread when gdb has gone,   *)
(* and by the handler of a signal, on top of whatever the main thread is   *)
(* doing.  It waits for gdb's two threads and deletes gdb and the user     *)
(* interface, while the other threads go on with what they do.             *)
(*                                                                         *)
(* What a thread does is reduced to the two calls that may keep it         *)
(* waiting: a command of gdb (mi_issue_cmd, under its mutex m and resp_mtx)*)
(* and a function of vim (under ui_mtx).  GdbMi, GdbEvents and VimAction   *)
(* have the details; logs are kept (scripts/config/vim), so that the end   *)
(* of gdb-readline prints nothing.  The commands' own clean-up functions   *)
(* are one step with the start: they free memory and ask gdb for nothing,  *)
(* not even for the callstack, whose variables have a reference more than  *)
(* the frame that is deleted (callstack.cc:269); the inferior's terminal,  *)
(* with its thread, is in Inferior.  gdb, vim and signals are external.    *)
(***************************************************************************)
EXTENDS Naturals

VARIABLES
    doing,      \* what main, event and reader (gdb-readline) do
    caller,     \* the thread that runs cleanup, "nobody", or "handler": the main thread on
                \* top of what it was doing
    step,       \* how far cleanup is
    gdbOpen,    \* gdb's terminal is open at both ends
    vimOpen,    \* so is the connection to vim
    exitEvent,  \* gdb's exit is in the queue of the event thread
    lostVim,    \* vim's disconnect is in the queue of the main thread
    program     \* "running", "exited", or how it went wrong

shutVars == <<doing, caller, step, gdbOpen, vimOpen, exitEvent, lostVim, program>>

Threads == {"main", "event", "reader"}

ShutInit ==
    /\ doing = [t \in Threads |-> "idle"]
    /\ caller = "nobody" /\ step = "none"
    /\ gdbOpen = TRUE /\ vimOpen = TRUE
    /\ exitEvent = FALSE /\ lostVim = FALSE
    /\ program = "running"

\* The handler of a signal has the main thread to itself.
Suspended(t) == t = "main" /\ caller = "handler"
Runs(t, what) == program = "running" /\ doing[t] = what /\ ~Suspended(t)

Goes(t, what) == /\ doing' = [doing EXCEPT ![t] = what]
                 /\ UNCHANGED <<caller, step, gdbOpen, vimOpen, exitEvent, lostVim, program>>

GoesWrong(how) ==
    /\ program' = how
    /\ UNCHANGED <<doing, caller, step, gdbOpen, vimOpen, exitEvent, lostVim>>

------------------------------------------------------------------------------
(* The locks, and the calls that take them *)

Issuing == {"sending", "gdb reply"}
Free(holding) == \A t \in Threads : doing[t] \notin holding

\* gdb and ui are pointers that cleanup clears.
GdbDeleted == step \in {"destroy ui", "delete ui", "exit", "unlocked"}
UiDeleted  == step \in {"exit", "unlocked"}

\* mi_issue_cmd: up to the newline it holds resp_mtx and m, then m.
IssueCmd(t) ==
    /\ t # "reader" /\ Runs(t, "busy")
    /\ IF GdbDeleted THEN GoesWrong("used gdb after it was deleted")
       ELSE Free(Issuing) /\ Goes(t, "sending")

CmdSent(t) == Runs(t, "sending") /\ Goes(t, "gdb reply")

\* vimui::action for a function of vim, under ui_mtx.
CallVim(t) ==
    /\ Runs(t, "busy")
    /\ IF UiDeleted THEN GoesWrong("used ui after it was deleted")
       ELSE Free({"vim reply"}) /\ Goes(t, "vim reply")

VimAnswers(t) == vimOpen /\ Runs(t, "vim reply") /\ Goes(t, "busy")

\* A command of the user, or an event of gdb, has been dealt with.
Done(t) == t # "reader" /\ Runs(t, "busy") /\ Goes(t, "idle")

------------------------------------------------------------------------------
(* gdb-readline prints what gdb sends, and hands an answer over *)

ReaderReads == gdbOpen /\ Runs("reader", "idle") /\ Goes("reader", "busy")

\* A caller that waits returns; if suspended it keeps its mutex.
Delivered(next) ==
    [t \in Threads |-> IF t = "reader" THEN next
                       ELSE IF Runs(t, "gdb reply") THEN "busy" ELSE doing[t]]

\* resp_mtx has to be free, whether or not somebody waits.
ReaderParses ==
    /\ Runs("reader", "busy") /\ Free({"sending"})
    /\ doing' = Delivered("idle")
    /\ UNCHANGED <<caller, step, gdbOpen, vimOpen, exitEvent, lostVim, program>>

\* Mutant of ReaderEnds: the exit event is not queued.
ReaderEndsSilent ==
    /\ ~gdbOpen /\ Runs("reader", "idle") /\ Free({"sending"})
    /\ doing' = Delivered("ended")
    /\ UNCHANGED <<caller, step, gdbOpen, vimOpen, exitEvent, lostVim, program>>

\* End of file: gdb's exit is queued, a command in flight is aborted.
ReaderEnds ==
    /\ ~gdbOpen /\ Runs("reader", "idle") /\ Free({"sending"})
    /\ exitEvent' = TRUE
    /\ doing' = Delivered("ended")
    /\ UNCHANGED <<caller, step, gdbOpen, vimOpen, lostVim, program>>

------------------------------------------------------------------------------
(* cleanup *)

\* It is locked from the first call to the step that unlocks it.
Ongoing == step \notin {"none", "unlocked"}

StartCleanup(who) ==
    IF step = "unlocked" THEN GoesWrong("cleaned up twice")
    ELSE /\ caller' = who /\ step' = "join reader"
         /\ gdbOpen' = FALSE                      \* the first thing ~gdbif does
         /\ UNCHANGED <<doing, vimOpen, exitEvent, lostVim, program>>

\* The threads are joined one after the other, but not the one that calls.
JoinReader ==
    /\ program = "running" /\ step = "join reader" /\ doing["reader"] = "ended"
    /\ step' = "join event"
    /\ UNCHANGED <<doing, caller, gdbOpen, vimOpen, exitEvent, lostVim, program>>

\* Mutant of JoinEvent: the event thread is not waited for.
JoinEventNever ==
    /\ program = "running" /\ step = "join event"
    /\ step' = "destroy ui"
    /\ UNCHANGED <<doing, caller, gdbOpen, vimOpen, exitEvent, lostVim, program>>

\* Mutant of JoinEvent: the event thread waits for itself.
JoinEventAlways ==
    /\ program = "running" /\ step = "join event"
    /\ doing["event"] = "ended"
    /\ step' = "destroy ui"
    /\ UNCHANGED <<doing, caller, gdbOpen, vimOpen, exitEvent, lostVim, program>>

JoinEvent ==
    /\ program = "running" /\ step = "join event"
    /\ caller = "event" \/ doing["event"] = "ended"
    /\ step' = "destroy ui"
    /\ UNCHANGED <<doing, caller, gdbOpen, vimOpen, exitEvent, lostVim, program>>

\* vim is told to detach and has a second to close the connection.
DestroyUi ==
    /\ program = "running" /\ step = "destroy ui"
    /\ step' = "delete ui"
    /\ \/ vimOpen' = FALSE /\ lostVim' = TRUE
       \/ UNCHANGED <<vimOpen, lostVim>>
    /\ UNCHANGED <<doing, caller, gdbOpen, exitEvent, program>>

DeleteUi ==
    /\ program = "running" /\ step = "delete ui"
    /\ step' = "exit"
    /\ UNCHANGED <<doing, caller, gdbOpen, vimOpen, exitEvent, lostVim, program>>

Unlock ==
    /\ program = "running" /\ step = "exit"
    /\ step' = "unlocked"
    /\ UNCHANGED <<doing, caller, gdbOpen, vimOpen, exitEvent, lostVim, program>>

Exit == program = "running" /\ step = "unlocked" /\ GoesWrong("exited")

CleanupStep == JoinReader \/ JoinEvent \/ DestroyUi \/ DeleteUi \/ Unlock \/ Exit

------------------------------------------------------------------------------
(* Who calls it *)

\* The event thread takes the exit of gdb; if cleanup is ongoing its thread ends.
EventExit ==
    /\ Runs("event", "idle") /\ caller # "event" /\ exitEvent
    /\ IF Ongoing THEN Goes("event", "ended") ELSE StartCleanup("event")

\* The main thread takes the disconnect and, maybe much later, calls; if cleanup is
\* ongoing main returns, which ends the program.
MainExit ==
    /\ Runs("main", "idle") /\ caller # "main" /\ lostVim
    /\ IF Ongoing THEN GoesWrong("exited") ELSE StartCleanup("main")

\* SIGTERM or SIGINT; if cleanup is ongoing the handler returns.
Signal == program = "running" /\ ~Ongoing /\ StartCleanup("handler")

------------------------------------------------------------------------------
(* What begins while the program runs: the user, gdb and vim *)

\* Once ui is deleted nothing is read from vim any more.
UserCommand == Runs("main", "idle") /\ caller # "main" /\ ~UiDeleted /\ Goes("main", "busy")

GdbEvent == gdbOpen /\ caller # "event" /\ Runs("event", "idle") /\ Goes("event", "busy")

\* The event was a SIGSEGV of the program debugged, which counts as gdb's exit.
Segv == /\ Runs("event", "busy")
        /\ doing' = [doing EXCEPT !["event"] = "idle"] /\ exitEvent' = TRUE
        /\ UNCHANGED <<caller, step, gdbOpen, vimOpen, lostVim, program>>

GdbExits ==
    /\ program = "running" /\ gdbOpen
    /\ gdbOpen' = FALSE
    /\ UNCHANGED <<doing, caller, step, vimOpen, exitEvent, lostVim, program>>

VimCloses ==
    /\ program = "running" /\ vimOpen
    /\ vimOpen' = FALSE /\ lostVim' = TRUE
    /\ UNCHANGED <<doing, caller, step, gdbOpen, exitEvent, program>>

\* What goes on without the user, gdb or vim beginning something new.
GoOn ==
    \/ \E t \in Threads : IssueCmd(t) \/ CmdSent(t) \/ CallVim(t) \/ VimAnswers(t) \/ Done(t)
    \/ ReaderParses \/ ReaderEnds \/ EventExit \/ MainExit \/ CleanupStep

ShutNext == GoOn \/ ReaderReads \/ Signal \/ UserCommand \/ GdbEvent \/ Segv \/ GdbExits \/ VimCloses

ShutSpec == ShutInit /\ [][ShutNext]_shutVars

------------------------------------------------------------------------------
(* Properties *)

\* What keeps others waiting although nobody will end it.
HandlerHolds == caller = "handler" /\ doing["main"] \in Issuing \union {"vim reply"}
VimIsMissed  == ~vimOpen /\ ~Free({"vim reply"})
GdbIsMissed  == ~gdbOpen /\ doing["reader"] = "ended" /\ ~Free({"gdb reply"})

\* ENABLED GoOn, written out: the guards of its steps.  Their other conjuncts give each
\* variable a value, so that a step whose guard holds can be taken.
MayGoOn ==
    /\ program = "running"
    /\ \/ \E t \in {"main", "event"} : Runs(t, "busy")                 \* Done, IssueCmd, CallVim
       \/ \E t \in Threads : Runs(t, "sending")                        \* CmdSent
       \/ vimOpen /\ \E t \in Threads : Runs(t, "vim reply")           \* VimAnswers
       \/ Runs("reader", "busy") /\ (UiDeleted \/ Free({"vim reply"}))  \* CallVim
       \/ Runs("reader", "busy") /\ Free({"sending"})                   \* ReaderParses
       \/ ~gdbOpen /\ Runs("reader", "idle") /\ Free({"sending"})       \* ReaderEnds
       \/ Runs("event", "idle") /\ caller # "event" /\ exitEvent
       \/ Runs("main", "idle") /\ caller # "main" /\ lostVim
       \/ step = "join reader" /\ doing["reader"] = "ended"
       \/ step = "join event" /\ (caller = "event" \/ doing["event"] = "ended")
       \/ step \in {"destroy ui", "delete ui", "exit", "unlocked"}

(* The program ends once cleanup has begun: it is not stuck (main.cc:138), but for    *)
(* three reasons.  A signal came while the main thread held a lock that the others     *)
(* need; vim has gone while a function waits for its answer, under ui_mtx; or a thread *)
(* asks gdb for more when gdb-readline has ended already.                            *)
CleanupIsNotStuck ==
    program = "running" /\ Ongoing =>
        MayGoOn \/ HandlerHolds \/ VimIsMissed \/ GdbIsMissed

(* What cleanup deletes no other thread uses, whoever calls it when, as long as it     *)
(* does not run in the event thread, which leaves the main thread to the commands of   *)
(* the user (gdb.cc:75 waits for the event thread, main.cc:143 clears gdb).           *)
DeletedIsNotUsed ==
    program \in {"used gdb after it was deleted", "used ui after it was deleted"} =>
        caller = "event"
==============================================================================
