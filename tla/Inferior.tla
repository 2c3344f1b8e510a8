------------------------------- MODULE Inferior -------------------------------
(***************************************************************************)
(* The inferior (src/user_cmd/inferior.cc, src/common/pty.cc) and the      *)
(* first use of its registers (cmd_register_init, src/user_cmd/register.cc)*)
(* The program keeps what gdb was told of the binary, its symbols and its  *)
(* arguments, to export it, and the terminal of the inferior: an internal  *)
(* one, whose output a thread prints in a window, an xterm the program has *)
(* started, or one the user names, which stays open.  To leave the         *)
(* internal terminal the thread is cancelled, perhaps in the middle of a   *)
(* print, under ui_mtx.                                                    *)
(*                                                                         *)
(* gdb may refuse any command.  gdb, the xterm, the user's windows and the *)
(* prints of other threads are external.                                   *)
(***************************************************************************)
EXTENDS Integers, FiniteSets

CONSTANTS
    InfFiles,       \* bound: the files the user loads
    MaxTerms        \* bound: terminals opened

VARIABLES
    inf_files,      \* what is recorded of bin, sym and args
    regInit,        \* initialised: registers have been asked for
    regVars,        \* how many of the registers have variables: "none", "some", "all"
    inf_term,       \* the internal terminal: its number, or NoTerm
    inf_pty_pid,    \* the xterm known to the program, or NoTerm
    gdbTty,         \* the terminal gdb starts the inferior on; NoTerm is its own
    openTerms,      \* the terminals that exist, other than gdb's own
    xterms,         \* those of them that are xterms
    termCnt,        \* number of terminals opened
    thr,            \* what the output thread does
    cancelled,      \* its end has been requested
    uiHeld,         \* who has ui_mtx: "nobody", "thread", "others", or "gone", a thread that ended
    infWindow,      \* the window for the output exists
    infMain,        \* what the main thread does
    ttyLost,        \* history: the terminal told last was closed, the command for another failed
    xtermMissed     \* history: an xterm came too late, or its pid was read too early

infVars == <<inf_files, regInit, regVars, inf_term, inf_pty_pid, gdbTty, openTerms, xterms,
             termCnt, thr, cancelled, uiHeld, infWindow, infMain, ttyLost, xtermMissed>>

fileVars == <<inf_files, regInit, regVars>>
ttyVars  == <<inf_term, inf_pty_pid, gdbTty, openTerms, xterms, termCnt, ttyLost, xtermMissed>>
thrVars  == <<thr, cancelled, uiHeld, infWindow>>

NoTerm == 0

InfInit ==
    /\ inf_files = [s \in {"bin", "sym", "args"} |-> "none"]
    /\ regInit = FALSE /\ regVars = "none"
    /\ inf_term = NoTerm /\ inf_pty_pid = NoTerm /\ gdbTty = NoTerm
    /\ openTerms = {} /\ xterms = {} /\ termCnt = 0
    /\ thr = "none" /\ cancelled = FALSE /\ uiHeld = "nobody" /\ infWindow = FALSE
    /\ infMain = "idle" /\ ttyLost = FALSE /\ xtermMissed = FALSE

------------------------------------------------------------------------------
(* Binary, symbols and arguments *)

\* The command prints what it has done and returns.
ToPrint == infMain' = "print"

MainPrint ==
    /\ infMain = "print" /\ uiHeld = "nobody"
    /\ infMain' = "idle"
    /\ UNCHANGED <<fileVars, ttyVars, thrVars>>

\* cmd_register_init.  It is begun once: the names, or any of the variables, may fail,
\* and the registers that follow are never asked for again.
RegisterInit ==
    IF regInit THEN UNCHANGED <<regInit, regVars>>
    ELSE regInit' = TRUE /\ regVars' \in {"none", "some", "all"}

\* gdb has accepted a file, or arguments, for some of the settings.
Accepted(what, file) ==
    /\ infMain = "idle" /\ ToPrint
    /\ inf_files' = [s \in DOMAIN inf_files |-> IF s \in what THEN file ELSE inf_files[s]]
    /\ UNCHANGED <<ttyVars, thrVars>>

\* Code and symbols; the registers are left alone when no source file is known.
InfLoad(file) ==
    /\ Accepted({"bin", "sym"}, file)
    /\ RegisterInit \/ UNCHANGED <<regInit, regVars>>

InfBin(file) == Accepted({"bin"}, file) /\ RegisterInit

InfSymOrArgs(file) ==
    /\ Accepted({"sym"}, file) \/ Accepted({"args"}, file)
    /\ UNCHANGED <<regInit, regVars>>

------------------------------------------------------------------------------
(* Terminals *)

Close(t) == openTerms' = openTerms \ {t} /\ xterms' = xterms \ {t}

\* Either command begins with the end of the xterm that is known.
KillXterm == Close(inf_pty_pid) /\ inf_pty_pid' = NoTerm

\* Mutant of TtyInternal: the xterm stays.
TtyInternalBeside ==
    /\ infMain = "idle" /\ inf_term = NoTerm /\ termCnt < MaxTerms
    /\ inf_term' = termCnt + 1 /\ termCnt' = termCnt + 1
    /\ openTerms' = openTerms \union {termCnt + 1}
    /\ thr' = "read" /\ cancelled' = FALSE
    /\ gdbTty' = termCnt + 1 /\ ttyLost' = FALSE /\ ToPrint
    /\ UNCHANGED <<fileVars, xterms, inf_pty_pid, uiHeld, infWindow, xtermMissed>>

\* tty internal.  It does nothing more if there is an internal terminal, whether or not
\* gdb was told of it; the thread reads before gdb is told.
TtyInternal ==
    /\ infMain = "idle" /\ UNCHANGED <<fileVars, uiHeld, infWindow, xtermMissed>>
    /\ \/ /\ inf_term # NoTerm
          /\ KillXterm
          /\ UNCHANGED <<inf_term, gdbTty, termCnt, ttyLost, thr, cancelled, infMain>>
       \/ /\ inf_term = NoTerm /\ termCnt < MaxTerms           \* there is no thread
          /\ KillXterm /\ ttyLost' = TRUE /\ ToPrint
          /\ UNCHANGED <<inf_term, gdbTty, termCnt, thr, cancelled>>
       \/ /\ inf_term = NoTerm /\ termCnt < MaxTerms
          /\ inf_term' = termCnt + 1 /\ termCnt' = termCnt + 1
          /\ inf_pty_pid' = NoTerm /\ xterms' = xterms \ {inf_pty_pid}
          /\ openTerms' = (openTerms \ {inf_pty_pid}) \union {termCnt + 1}
          /\ thr' = "read" /\ cancelled' = FALSE
          /\ \/ gdbTty' = termCnt + 1 /\ ttyLost' = FALSE /\ ToPrint
             \/ ttyLost' = TRUE /\ UNCHANGED <<gdbTty, infMain>>      \* refused

\* tty external, or one of the user: the internal terminal goes first, with its thread.
TtyOther ==
    /\ infMain = "idle" /\ termCnt < MaxTerms
    /\ KillXterm
    /\ IF inf_term # NoTerm THEN infMain' = "join" /\ cancelled' = TRUE
       ELSE infMain' = "open" /\ UNCHANGED cancelled
    /\ UNCHANGED <<fileVars, inf_term, gdbTty, termCnt, ttyLost, xtermMissed, thr, uiHeld, infWindow>>

\* Mutant of TtyJoined: the thread is not waited for.
TtyJoinedEarly ==
    /\ infMain = "join"
    /\ openTerms' = openTerms \ {inf_term} /\ inf_term' = NoTerm /\ infMain' = "open"
    /\ UNCHANGED <<fileVars, thrVars, inf_pty_pid, gdbTty, xterms, termCnt, ttyLost, xtermMissed>>

TtyJoined ==
    /\ infMain = "join" /\ thr = "ended"
    /\ openTerms' = openTerms \ {inf_term} /\ inf_term' = NoTerm /\ infMain' = "open"
    /\ UNCHANGED <<fileVars, thrVars, inf_pty_pid, gdbTty, xterms, termCnt, ttyLost, xtermMissed>>

\* gdb is told of terminal t, or something failed before.  Only a refusal is silent.
TellGdb(t) ==
    \/ gdbTty' = t /\ ttyLost' = FALSE /\ ToPrint
    \/ ttyLost' = TRUE /\ UNCHANGED gdbTty /\ infMain' \in {"print", "idle"}

OpenNamed ==
    /\ infMain = "open" /\ termCnt < MaxTerms
    /\ termCnt' = termCnt + 1 /\ openTerms' = openTerms \union {termCnt + 1}
    /\ TellGdb(termCnt + 1)
    /\ UNCHANGED <<fileVars, thrVars, inf_term, inf_pty_pid, xterms, xtermMissed>>

\* The xterm writes its terminal, then its pid, to a file, which is read as soon as it is
\* there, or given up after 50 tries.  Read too early it has no pid, perhaps no terminal.
OpenXterm ==
    /\ infMain = "open" /\ termCnt < MaxTerms
    /\ termCnt' = termCnt + 1 /\ openTerms' = openTerms \union {termCnt + 1}
    /\ xterms' = xterms \union {termCnt + 1}
    /\ \/ inf_pty_pid' = termCnt + 1 /\ UNCHANGED xtermMissed /\ TellGdb(termCnt + 1)
       \/ UNCHANGED inf_pty_pid /\ xtermMissed' = TRUE /\ TellGdb(termCnt + 1)
    /\ UNCHANGED <<fileVars, thrVars, inf_term>>

\* No xterm appears at all.
OpenFails ==
    /\ infMain = "open" /\ ttyLost' = TRUE /\ ToPrint
    /\ UNCHANGED <<fileVars, thrVars, inf_term, inf_pty_pid, gdbTty, openTerms, xterms, termCnt, xtermMissed>>

\* The user closes an xterm; the program keeps its pid.
XtermCloses(t) ==
    /\ Close(t) /\ ttyLost' = (ttyLost \/ gdbTty = t)
    /\ UNCHANGED <<fileVars, thrVars, infMain, inf_term, inf_pty_pid, gdbTty, termCnt, xtermMissed>>

------------------------------------------------------------------------------
(* The output thread: from a line of output to its print *)

ThrGoes(from, to) ==
    /\ thr = from /\ thr' = to
    /\ UNCHANGED <<fileVars, ttyVars, cancelled, infWindow, infMain>>

ThrReads == ThrGoes("read", "window") /\ UNCHANGED uiHeld
\* It asks every 100 ms.
ThrFindsWindow == infWindow /\ ThrGoes("window", "lock") /\ UNCHANGED uiHeld
ThrLocks == uiHeld = "nobody" /\ uiHeld' = "thread" /\ ThrGoes("lock", "print")
ThrPrinted == ThrGoes("print", "read") /\ uiHeld' = "nobody"

\* The terminal cannot be read: the window is destroyed, the thread ends.
ThrReadFails ==
    /\ thr = "read" /\ uiHeld = "nobody" /\ thr' = "ended" /\ infWindow' = FALSE
    /\ UNCHANGED <<fileVars, ttyVars, cancelled, uiHeld, infMain>>

\* A call that may wait ends the thread, but that of pthread_mutex_lock; within a print
\* nobody gives ui_mtx back.
ThrCancelled ==
    /\ cancelled /\ \E at \in {"read", "window", "print"} : ThrGoes(at, "ended")
    /\ uiHeld' = IF uiHeld = "thread" THEN "gone" ELSE uiHeld

OthersPrint ==
    /\ uiHeld \in {"nobody", "others"}
    /\ uiHeld' = IF uiHeld = "nobody" THEN "others" ELSE "nobody"
    /\ UNCHANGED <<fileVars, ttyVars, thr, cancelled, infWindow, infMain>>

\* The user opens or closes the window.
InfSwitchWindow ==
    /\ infWindow' = ~infWindow
    /\ UNCHANGED <<fileVars, ttyVars, thr, cancelled, uiHeld, infMain>>

------------------------------------------------------------------------------
(* The end of the program *)

InfCleanup ==
    /\ infMain = "idle"
    /\ KillXterm
    /\ IF inf_term # NoTerm THEN infMain' = "last join" /\ cancelled' = TRUE
       ELSE infMain' = "ended" /\ UNCHANGED cancelled
    /\ UNCHANGED <<fileVars, inf_term, gdbTty, termCnt, ttyLost, xtermMissed, thr, uiHeld, infWindow>>

InfCleanedUp ==
    /\ infMain = "last join" /\ thr = "ended"
    /\ openTerms' = openTerms \ {inf_term} /\ inf_term' = NoTerm /\ infMain' = "ended"
    /\ UNCHANGED <<fileVars, thrVars, inf_pty_pid, gdbTty, xterms, termCnt, ttyLost, xtermMissed>>

InfNext ==
    \/ \E f \in InfFiles : InfLoad(f) \/ InfBin(f) \/ InfSymOrArgs(f)
    \/ TtyInternal \/ TtyOther \/ TtyJoined \/ OpenNamed \/ OpenXterm \/ OpenFails
    \/ \E t \in xterms : XtermCloses(t)
    \/ MainPrint \/ ThrReads \/ ThrFindsWindow \/ ThrLocks \/ ThrPrinted \/ ThrReadFails
    \/ ThrCancelled \/ OthersPrint \/ InfSwitchWindow \/ InfCleanup \/ InfCleanedUp

InfSpec == InfInit /\ [][InfNext]_infVars

------------------------------------------------------------------------------
(* Properties *)

(* The output thread only reads a terminal that is open (inferior.cc:367, deleted at   *)
(* 171 and 277 once it has ended); beside it no xterm is left but one the program      *)
(* could not know; and between commands gdb starts the inferior on a terminal that     *)
(* exists, unless the user closed it or the command for the next one failed.           *)
TerminalIsOpen ==
    /\ thr \notin {"none", "ended"} => inf_term \in openTerms
    /\ inf_term # NoTerm \/ infMain = "ended" => xterms = {} \/ xtermMissed
    /\ infMain = "idle" /\ ~ttyLost => gdbTty \in openTerms \union {NoTerm}
==============================================================================
