----------------------------- MODULE CommandProofs -----------------------------
(***************************************************************************)
(* Theorems about the commands of the user and the end of the program: the *)
(* hand-shake of a command (SyncFile), for any number of commands, and     *)
(* whether or not one may take longer than the timeout; the terminals of   *)
(* the inferior, for any number of them and any files; clean-up; and the   *)
(* breakpoints, for any set of locations, any sharing of signs' keys and   *)
(* any number of breakpoints.                                              *)
(***************************************************************************)
EXTENDS SyncFile, Inferior, Shutdown, Break, SequenceTheorems, FiniteSetTheorems, TLAPS

------------------------------------------------------------------------------
(* The hand-shake *)

Commands == [no : Nat, kind : Kinds]

TypeOK ==
    /\ vimPc \in {"idle", "data", "send", "wait"}
    /\ last \in Commands
    /\ clean \in BOOLEAN
    /\ result \in Nat
    /\ queue \in Seq(Commands)
    /\ mainPc \in {"idle", "exec", "sync"}
    /\ running \in Commands
    /\ sync \in Nat
    /\ data \in Nat

\* Where a command is that was sent while no other was in flight.
ToBeTaken == queue = <<last>> /\ mainPc = "idle" /\ sync = NoFile
Executed  == queue = <<>> /\ mainPc = "exec" /\ running = last /\ sync = NoFile
ToBeSynced ==
    /\ queue = <<>> /\ mainPc = "sync" /\ running = last /\ sync = NoFile
    /\ last.kind = "data" => data = last.no
Answered  == queue = <<>> /\ mainPc = "idle" /\ OwnAnswer
HandedOn  == queue = <<>> /\ mainPc = "idle" /\ sync = NoFile /\ last.kind = "unknown"

\* It is followed on its way, and no other command writes the files meanwhile.
OnItsWay ==
    /\ clean /\ vimPc = "send" => queue = <<>> /\ mainPc = "idle" /\ sync = NoFile
    /\ clean /\ vimPc = "wait" => ToBeTaken \/ Executed \/ ToBeSynced \/ Answered \/ HandedOn

LEMMA HeadTail ==
    ASSUME NEW S, NEW s \in Seq(S), s # <<>>
    PROVE  Head(s) \in S /\ Tail(s) \in Seq(S)
OBVIOUS

\* Commands, files and places keep their types.
LEMMA TypeStep ==
    ASSUME TypeOK, [Next]_vars
    PROVE  TypeOK'
<1> USE DEF TypeOK, NoFile
<1>1. CASE DeleteData
  BY <1>1 DEF DeleteData, main
<1>2. CASE DeleteSync
  <2>1. PICK kind \in Kinds : last' = Command(last.no + 1, kind)
    BY <1>2 DEF DeleteSync
  <2>2. last' \in Commands
    BY <2>1 DEF Command, Commands
  <2>3. clean' \in BOOLEAN
    BY <1>2 DEF DeleteSync
  <2>. QED
    BY <1>2, <2>2, <2>3 DEF DeleteSync, main
<1>3. CASE Send
  BY <1>3 DEF Send, files
<1>4. CASE SyncSeen \/ Timeout
  BY <1>4 DEF SyncSeen, Timeout, main, files
<1>5. CASE Take
  <2>1. Head(queue) \in Commands /\ Tail(queue) \in Seq(Commands)
    BY <1>5, HeadTail DEF Take
  <2>. QED
    BY <1>5, <2>1 DEF Take, plugin, files
<1>6. CASE Exec
  BY <1>6 DEF Exec, plugin, Commands
<1>7. CASE Sync
  BY <1>7 DEF Sync, plugin, Commands
<1>8. CASE UNCHANGED vars
  BY <1>8 DEF vars, plugin, main, files
<1>. QED
  BY <1>1, <1>2, <1>3, <1>4, <1>5, <1>6, <1>7, <1>8 DEF Next, Plugin, Main

LEMMA WayStep ==
    ASSUME TypeOK, OnItsWay, [Next]_vars
    PROVE  OnItsWay'
<1> USE DEF TypeOK
<1>1. CASE DeleteData \/ SyncSeen \/ Timeout
  BY <1>1 DEF DeleteData, SyncSeen, Timeout, OnItsWay
<1>2. CASE DeleteSync
  BY <1>2 DEF DeleteSync, main, OnItsWay
<1>3. CASE Send
  <2>1. clean' = clean /\ vimPc' = "wait" /\ UNCHANGED <<last, mainPc, sync>>
    BY <1>3 DEF Send, files
  <2>2. clean => queue' = <<last>> /\ mainPc = "idle" /\ sync = NoFile
    BY <1>3 DEF Send, OnItsWay
  <2>. QED
    BY <2>1, <2>2 DEF OnItsWay, ToBeTaken
<1>4. CASE Take
  <2>1. UNCHANGED <<vimPc, last, clean, sync, data>> /\ queue # <<>>
    BY <1>4 DEF Take, plugin, files
  <2>2. ASSUME clean, vimPc = "wait"
        PROVE  Executed' \/ HandedOn'
    <3>1. queue = <<last>> /\ sync = NoFile
      BY <2>1, <2>2 DEF OnItsWay, ToBeTaken, Executed, ToBeSynced, Answered, HandedOn
    <3>2. /\ running' = last /\ queue' = <<>>
          /\ mainPc' = IF last.kind = "unknown" THEN "idle" ELSE "exec"
      BY <1>4, <3>1 DEF Take
    <3>. QED
      BY <2>1, <3>1, <3>2 DEF Executed, HandedOn
  <2>. QED
    BY <2>1, <2>2 DEF OnItsWay
<1>5. CASE Exec
  BY <1>5 DEF Exec, plugin, OnItsWay, ToBeTaken, Executed, ToBeSynced, Answered, HandedOn
<1>6. CASE Sync
  BY <1>6 DEF Sync, plugin, OnItsWay, ToBeTaken, Executed, ToBeSynced, Answered, HandedOn, OwnAnswer
<1>7. CASE UNCHANGED vars
  BY <1>7 DEF vars, plugin, main, files, OnItsWay, ToBeTaken, Executed, ToBeSynced, Answered,
     HandedOn, OwnAnswer
<1>. QED
  BY <1>1, <1>2, <1>3, <1>4, <1>5, <1>6, <1>7 DEF Next, Plugin, Main

\* A command sent while no other is in flight gets its own answer, whatever timed
\* out before and whatever files earlier commands left (util.vim:24-45, 52-63).
THEOREM CleanAnswers == Spec => CleanAnswerIsOwn
<1>1. Init => TypeOK /\ OnItsWay
  BY DEF Init, TypeOK, OnItsWay, Commands, Command, Kinds, NoFile
<1>2. TypeOK /\ OnItsWay /\ [Next]_vars => (TypeOK /\ OnItsWay)'
  BY TypeStep, WayStep
<1>3. TypeOK /\ OnItsWay /\ [Next]_vars
      => [vimPc = "wait" /\ vimPc' = "idle" /\ sync # NoFile /\ clean => OwnAnswer]_vars
  BY DEF OnItsWay, ToBeTaken, Executed, ToBeSynced, Answered, HandedOn
<1>. QED
  BY <1>1, <1>2, <1>3, PTL DEF Spec, CleanAnswerIsOwn

------------------------------------------------------------------------------
(* Inferior *)

InfTypeOK ==
    /\ termCnt \in Nat
    /\ \A t \in openTerms : t \in Nat /\ 0 < t /\ t <= termCnt
    /\ \A t \in xterms : t \in openTerms
    /\ inf_term \in Nat /\ inf_term <= termCnt
    /\ inf_pty_pid \in Nat /\ inf_pty_pid <= termCnt
    /\ gdbTty \in Nat /\ gdbTty <= termCnt
    /\ thr \in {"none", "read", "window", "lock", "print", "ended"}
    /\ infMain \in {"idle", "print", "join", "open", "last join", "ended"}

\* The thread reads the internal terminal; while there is one, no xterm is known.
ThreadHasTerminal ==
    /\ thr \notin {"none", "ended"} => inf_term # NoTerm
    /\ inf_term # NoTerm => inf_term \in openTerms \ xterms /\ inf_pty_pid = NoTerm

\* Where a command is says what it has closed.
CommandHasClosed ==
    /\ infMain = "open" => inf_term = NoTerm
    /\ infMain \in {"join", "open", "last join", "ended"} => inf_pty_pid = NoTerm

\* An xterm the program does not know came too late, or its pid was read too early.
XtermsAreKnown == (\A t \in xterms : t = inf_pty_pid) \/ xtermMissed

GdbHasTerminal ==
    infMain \in {"idle", "print"} /\ ~ttyLost => gdbTty \in openTerms \union {NoTerm}

InfInv == InfTypeOK /\ ThreadHasTerminal /\ CommandHasClosed /\ XtermsAreKnown /\ GdbHasTerminal

\* A terminal has a number, which is not NoTerm and not that of the next.
LEMMA Numbered ==
    ASSUME InfTypeOK
    PROVE  /\ NoTerm \notin openTerms /\ NoTerm \notin xterms
           /\ termCnt + 1 \notin openTerms /\ termCnt + 1 \notin xterms
<1>1. \A t \in xterms : t \in openTerms
  BY DEF InfTypeOK
<1>2. \A t \in openTerms : t # NoTerm
  <2> TAKE t \in openTerms
  <2>1. t \in Nat /\ 0 < t
    BY DEF InfTypeOK
  <2>. QED
    BY <2>1 DEF NoTerm
<1>3. ASSUME termCnt + 1 \in openTerms PROVE FALSE
  <2>1. termCnt \in Nat /\ termCnt + 1 <= termCnt
    BY <1>3 DEF InfTypeOK
  <2>. QED
    BY <2>1
<1>. QED
  BY <1>1, <1>2, <1>3

\* A terminal is opened for a command that has closed the one before.
LEMMA OpenStep ==
    ASSUME InfTypeOK, ThreadHasTerminal, CommandHasClosed, infMain = "open",
           termCnt' = termCnt + 1, openTerms' = openTerms \union {termCnt + 1},
           xterms' = xterms \/ xterms' = xterms \union {termCnt + 1},
           inf_pty_pid' = inf_pty_pid \/ inf_pty_pid' = termCnt + 1,
           gdbTty' = gdbTty \/ gdbTty' = termCnt + 1,
           infMain' \in {"print", "idle"}, UNCHANGED <<inf_term, thr>>
    PROVE  InfTypeOK' /\ ThreadHasTerminal' /\ CommandHasClosed'
<1>1. \A t \in openTerms' : t \in Nat /\ 0 < t /\ t <= termCnt'
  <2> TAKE t \in openTerms'
  <2>. QED
    BY DEF InfTypeOK
<1>2. \A t \in xterms' : t \in openTerms'
  BY DEF InfTypeOK
<1>3. inf_term = NoTerm /\ thr \in {"none", "ended"} /\ inf_term' = NoTerm /\ thr' = thr
  BY DEF CommandHasClosed, ThreadHasTerminal, InfTypeOK
<1>4. ThreadHasTerminal' /\ CommandHasClosed'
  BY <1>3 DEF ThreadHasTerminal, CommandHasClosed
<1>5. termCnt' \in Nat /\ inf_pty_pid' \in Nat /\ inf_pty_pid' <= termCnt' /\ gdbTty' \in Nat
      /\ gdbTty' <= termCnt' /\ inf_term' \in Nat /\ inf_term' <= termCnt'
  BY <1>3 DEF InfTypeOK, NoTerm
<1>. QED
  BY <1>1, <1>2, <1>3, <1>4, <1>5 DEF InfTypeOK

\* The internal terminal is opened, where there is none.
InternalOpens ==
    /\ inf_term' = termCnt + 1 /\ termCnt' = termCnt + 1
    /\ inf_pty_pid' = NoTerm /\ xterms' = xterms \ {inf_pty_pid}
    /\ openTerms' = (openTerms \ {inf_pty_pid}) \union {termCnt + 1}
    /\ thr' = "read" /\ infMain' \in {"idle", "print"}
    /\ gdbTty' = termCnt + 1 \/ gdbTty' = gdbTty

LEMMA InternalStep ==
    ASSUME InfTypeOK, InternalOpens
    PROVE  InfTypeOK' /\ ThreadHasTerminal' /\ CommandHasClosed'
<1>1. termCnt \in Nat /\ termCnt' = termCnt + 1
  BY DEF InfTypeOK, InternalOpens
<1>2. \A t \in openTerms' : t \in Nat /\ 0 < t /\ t <= termCnt'
  <2> TAKE t \in openTerms'
  <2>1. t = termCnt + 1 \/ t \in openTerms
    BY Zenon DEF InternalOpens
  <2>2. t \in openTerms => t \in Nat /\ 0 < t /\ t <= termCnt
    BY DEF InfTypeOK
  <2>. QED
    BY <1>1, <2>1, <2>2
<1>3. \A t \in xterms' : t \in openTerms'
  BY Zenon DEF InfTypeOK, InternalOpens
<1>4. inf_term' = termCnt + 1 /\ inf_pty_pid' = NoTerm /\ inf_term' \in openTerms' \ xterms'
  BY Numbered, Zenon DEF InternalOpens
<1>5. gdbTty \in Nat /\ gdbTty <= termCnt /\ (gdbTty' = termCnt + 1 \/ gdbTty' = gdbTty)
  BY DEF InfTypeOK, InternalOpens
<1>6. termCnt' \in Nat /\ inf_term' \in Nat /\ inf_term' <= termCnt' /\ inf_pty_pid' \in Nat
      /\ gdbTty' \in Nat /\ gdbTty' <= termCnt' /\ inf_pty_pid' <= termCnt' /\ inf_term' # NoTerm
  BY <1>1, <1>4, <1>5 DEF NoTerm
<1>7. thr' = "read" /\ infMain' \in {"idle", "print"}
  BY DEF InternalOpens
<1>8. ThreadHasTerminal' /\ CommandHasClosed'
  BY <1>4, <1>6, <1>7 DEF ThreadHasTerminal, CommandHasClosed
<1>. QED
  BY <1>2, <1>3, <1>6, <1>7, <1>8 DEF InfTypeOK

\* The terminals, the thread and the place of the command.
LEMMA PlacesStep ==
    ASSUME InfTypeOK, ThreadHasTerminal, CommandHasClosed, [InfNext]_infVars
    PROVE  InfTypeOK' /\ ThreadHasTerminal' /\ CommandHasClosed'
<1> DEFINE Places == InfTypeOK /\ ThreadHasTerminal /\ CommandHasClosed
<1> USE DEF InfTypeOK, ThreadHasTerminal, CommandHasClosed, NoTerm
<1>1. ASSUME NEW f \in InfFiles, InfLoad(f) \/ InfBin(f) \/ InfSymOrArgs(f) PROVE Places'
  BY <1>1 DEF InfLoad, InfBin, InfSymOrArgs, Accepted, ToPrint, ttyVars, thrVars
<1>2. CASE TtyInternal
  <2>1. CASE \/ inf_term # NoTerm /\ KillXterm /\ UNCHANGED <<inf_term, gdbTty, termCnt, thr, infMain>>
             \/ inf_term = NoTerm /\ KillXterm /\ ToPrint /\ UNCHANGED <<inf_term, gdbTty, termCnt, thr>>
    BY <2>1, Numbered DEF KillXterm, Close, ToPrint
  <2>2. CASE InternalOpens
    BY <2>2, InternalStep
  <2>. QED
    BY <1>2, <2>1, <2>2, Zenon DEF TtyInternal, ToPrint, InternalOpens
<1>3. CASE TtyOther
  BY <1>3 DEF TtyOther, KillXterm, Close
<1>4. CASE TtyJoined
  BY <1>4 DEF TtyJoined, thrVars
<1>5. CASE OpenNamed
  BY <1>5, OpenStep DEF OpenNamed, TellGdb, ToPrint, thrVars
<1>6. CASE OpenXterm
  BY <1>6, OpenStep DEF OpenXterm, TellGdb, ToPrint, thrVars
<1>7. CASE OpenFails
  BY <1>7 DEF OpenFails, ToPrint, thrVars
<1>8. ASSUME NEW t \in xterms, XtermCloses(t) PROVE Places'
  BY <1>8 DEF XtermCloses, Close, thrVars
<1>9. CASE MainPrint
  BY <1>9 DEF MainPrint, ttyVars, thrVars
<1>10. CASE ThrReads \/ ThrFindsWindow \/ ThrLocks \/ ThrPrinted \/ ThrReadFails \/ ThrCancelled
  BY <1>10 DEF ThrReads, ThrFindsWindow, ThrLocks, ThrPrinted, ThrReadFails,
     ThrCancelled, ThrGoes, ttyVars
<1>11. CASE OthersPrint \/ InfSwitchWindow
  BY <1>11 DEF OthersPrint, InfSwitchWindow, ttyVars
<1>12. CASE InfCleanup
  BY <1>12 DEF InfCleanup, KillXterm, Close
<1>13. CASE InfCleanedUp
  <2>1. /\ inf_term' = NoTerm /\ thr' = "ended" /\ infMain' = "ended" /\ infMain = "last join"
        /\ UNCHANGED <<inf_pty_pid, gdbTty, xterms, termCnt>> /\ openTerms' = openTerms \ {inf_term}
    BY <1>13 DEF InfCleanedUp, thrVars
  <2>2. inf_term \notin xterms
    BY Numbered
  <2>3. \A t \in xterms' : t \in openTerms'
    BY <2>1, <2>2
  <2>. QED
    BY <2>1, <2>3
<1>14. CASE UNCHANGED infVars
  BY <1>14 DEF infVars
<1>. QED
  BY <1>1, <1>2, <1>3, <1>4, <1>5, <1>6, <1>7, <1>8, <1>9, <1>10, <1>11, <1>12, <1>13, <1>14
  DEF InfNext

\* The xterms: only OpenXterm may miss one, and nothing forgets that it did.
LEMMA XtermsStep ==
    ASSUME InfTypeOK, CommandHasClosed, XtermsAreKnown, [InfNext]_infVars
    PROVE  XtermsAreKnown'
<1> DEFINE AllKnown == \A t \in xterms : t = inf_pty_pid
<1>1. xtermMissed' = xtermMissed \/ OpenXterm
  BY Zenon DEF InfNext, infVars, InfLoad, InfBin, InfSymOrArgs, Accepted, ttyVars, TtyInternal,
     TtyOther, TtyJoined, OpenNamed, OpenFails, XtermCloses, MainPrint, ThrReads,
     ThrFindsWindow, ThrLocks, ThrPrinted, ThrReadFails, ThrCancelled, ThrGoes,
     OthersPrint, InfSwitchWindow, InfCleanup, InfCleanedUp
<1>2. ASSUME ~OpenXterm, AllKnown PROVE AllKnown'
  <2>1. CASE UNCHANGED <<xterms, inf_pty_pid>>
    BY <1>2, <2>1
  <2>2. CASE (xterms' = xterms \ {inf_pty_pid} /\ inf_pty_pid' = NoTerm)
    BY <1>2, <2>2
  <2>3. CASE (\E t \in xterms : xterms' = xterms \ {t} /\ inf_pty_pid' = inf_pty_pid)
    BY <1>2, <2>3
  <2>. QED
    BY <1>2, <2>1, <2>2, <2>3 DEF InfNext, infVars, InfLoad, InfBin, InfSymOrArgs, Accepted,
       ttyVars, TtyInternal, KillXterm, Close, TtyOther, TtyJoined, OpenNamed, OpenFails,
       XtermCloses, MainPrint, ThrReads, ThrFindsWindow, ThrLocks, ThrPrinted, ThrReadFails,
       ThrCancelled, ThrGoes, OthersPrint, InfSwitchWindow, InfCleanup, InfCleanedUp
<1>3. ASSUME OpenXterm, AllKnown PROVE AllKnown' \/ xtermMissed' = TRUE
  <2>1. infMain = "open" /\ xterms' = xterms \union {termCnt + 1}
    BY <1>3 DEF OpenXterm
  <2>2. inf_pty_pid' = termCnt + 1 \/ xtermMissed' = TRUE
    BY <1>3, Zenon DEF OpenXterm
  <2>3. inf_pty_pid = NoTerm /\ termCnt \in Nat /\ \A t \in xterms : 0 < t /\ t \in Nat
    BY <2>1 DEF CommandHasClosed, InfTypeOK
  <2>4. \A t \in xterms : FALSE
    BY <1>3, <2>3 DEF NoTerm
  <2>5. ASSUME inf_pty_pid' = termCnt + 1 PROVE AllKnown'
    BY <2>1, <2>4, <2>5
  <2>. QED
    BY <2>2, <2>5, Zenon
<1>4. ASSUME OpenXterm PROVE xtermMissed' = xtermMissed \/ xtermMissed' = TRUE
  BY <1>4, Zenon DEF OpenXterm
<1>5. CASE AllKnown
  BY <1>2, <1>3, <1>5, Zenon DEF XtermsAreKnown
<1>6. CASE xtermMissed
  BY <1>1, <1>4, <1>6, Zenon DEF XtermsAreKnown
<1>. QED
  BY <1>5, <1>6, Zenon DEF XtermsAreKnown

\* What gdb was told last exists, until a command begins that closes it: each step leaves
\* the commands at work, loses the terminal, tells gdb of one that exists, or keeps it.
LEMMA GdbTtyStep ==
    ASSUME InfTypeOK, ThreadHasTerminal, CommandHasClosed, GdbHasTerminal, [InfNext]_infVars
    PROVE  GdbHasTerminal'
<1> DEFINE AtWork  == infMain' \notin {"idle", "print"}
           Told    == gdbTty' \in openTerms' \union {NoTerm}
           Keeps   == infMain \in {"idle", "print"} /\ gdbTty' = gdbTty
                      /\ (gdbTty \in openTerms => gdbTty \in openTerms')
           Forgets == ttyLost' = TRUE
<1>1. ASSUME UNCHANGED <<gdbTty, openTerms>>, infMain' = infMain \/ infMain = "print"
      PROVE  AtWork \/ Keeps
  BY <1>1
<1>2. AtWork \/ Told \/ Forgets \/ (Keeps /\ (ttyLost => ttyLost'))
  <2>1. ASSUME NEW f \in InfFiles, InfLoad(f) \/ InfBin(f) \/ InfSymOrArgs(f)
        PROVE  Keeps /\ ttyLost' = ttyLost
    BY <2>1 DEF InfLoad, InfBin, InfSymOrArgs, Accepted, ttyVars
  <2>2. CASE TtyInternal
    <3>1. CASE inf_term # NoTerm
      BY <2>2, <3>1 DEF TtyInternal, KillXterm, Close, ThreadHasTerminal, NoTerm, InfTypeOK
    <3>2. CASE inf_term = NoTerm
      <4>1. \/ Forgets
            \/ gdbTty' = termCnt + 1 /\ openTerms' = (openTerms \ {inf_pty_pid}) \union {termCnt + 1}
        BY <2>2, <3>2, Zenon DEF TtyInternal
      <4>. QED
        BY <4>1, Zenon
    <3>. QED
      BY <3>1, <3>2, Zenon
  <2>3. CASE TtyOther \/ TtyJoined \/ InfCleanup \/ InfCleanedUp
    BY <2>3 DEF TtyOther, TtyJoined, InfCleanup, InfCleanedUp
  <2>4. CASE OpenNamed \/ OpenXterm
    <3>1. TellGdb(termCnt + 1) /\ openTerms' = openTerms \union {termCnt + 1}
      BY <2>4 DEF OpenNamed, OpenXterm
    <3>2. gdbTty' = termCnt + 1 \/ Forgets
      BY <3>1, Zenon DEF TellGdb
    <3>. QED
      BY <3>1, <3>2, Zenon
  <2>5. CASE OpenFails
    BY <2>5, Zenon DEF OpenFails
  <2>6. ASSUME NEW t \in xterms, XtermCloses(t) PROVE AtWork \/ Forgets \/ (Keeps /\ (ttyLost => ttyLost'))
    <3>1. gdbTty = t => Forgets
      BY <2>6, Zenon DEF XtermCloses
    <3>2. ttyLost => ttyLost'
      BY <2>6, Zenon DEF XtermCloses
    <3>3. gdbTty # t => AtWork \/ Keeps
      BY <2>6 DEF XtermCloses, Close
    <3>. QED
      BY <3>1, <3>2, <3>3, Zenon
  <2>7. CASE \/ MainPrint \/ OthersPrint \/ InfSwitchWindow \/ ThrReads \/ ThrFindsWindow \/ ThrLocks
             \/ ThrPrinted \/ ThrReadFails \/ ThrCancelled \/ UNCHANGED infVars
    <3>1. UNCHANGED <<gdbTty, openTerms, ttyLost>> /\ (infMain' = infMain \/ infMain = "print")
      BY <2>7 DEF MainPrint, OthersPrint, InfSwitchWindow, ThrReads, ThrFindsWindow, ThrLocks,
         ThrPrinted, ThrReadFails, ThrCancelled, ThrGoes, ttyVars, infVars
    <3>. QED
      BY <1>1, <3>1, Zenon
  <2>. QED
    BY <2>1, <2>2, <2>3, <2>4, <2>5, <2>6, <2>7, Zenon DEF InfNext
<1>3. ASSUME ~AtWork, ~Forgets, Keeps, ttyLost => ttyLost', ~ttyLost' PROVE Told
  <2>1. ~ttyLost /\ infMain \in {"idle", "print"}
    BY <1>3, Zenon
  <2>2. gdbTty \in openTerms \union {NoTerm}
    BY <2>1, Zenon DEF GdbHasTerminal
  <2>. QED
    BY <1>3, <2>2, Zenon
<1>. QED
  BY <1>2, <1>3, Zenon DEF GdbHasTerminal

LEMMA InfStep ==
    ASSUME InfInv, [InfNext]_infVars
    PROVE  InfInv'
<1>1. InfTypeOK' /\ ThreadHasTerminal' /\ CommandHasClosed'
  BY PlacesStep DEF InfInv
<1>2. XtermsAreKnown'
  BY XtermsStep DEF InfInv
<1>3. GdbHasTerminal'
  BY GdbTtyStep DEF InfInv
<1>. QED
  BY <1>1, <1>2, <1>3, Zenon DEF InfInv

\* The output thread only reads an open terminal; beside it, and after the clean-up,
\* no xterm is left that the program could know of; and between commands gdb starts
\* the inferior on a terminal that exists, unless the user closed it or a command
\* failed (inferior.cc:171, 277, 367), for any number of terminals.
THEOREM TerminalStaysOpen == InfSpec => []TerminalIsOpen
<1>1. InfInit => InfInv
  BY DEF InfInit, InfInv, InfTypeOK, ThreadHasTerminal, CommandHasClosed, XtermsAreKnown,
     GdbHasTerminal, NoTerm
<1>2. InfInv /\ [InfNext]_infVars => InfInv'
  BY InfStep
<1>3. InfInv => TerminalIsOpen
  <2> SUFFICES ASSUME InfInv PROVE TerminalIsOpen
    OBVIOUS
  <2> USE DEF InfInv, InfTypeOK, ThreadHasTerminal, CommandHasClosed, NoTerm
  <2>1. thr \notin {"none", "ended"} => inf_term \in openTerms
    OBVIOUS
  <2>2. ASSUME inf_term # NoTerm \/ infMain = "ended", ~xtermMissed PROVE xterms = {}
    <3>1. \A t \in xterms : t = inf_pty_pid
      BY <2>2, Zenon DEF XtermsAreKnown
    <3>2. inf_term # NoTerm \/ infMain = "ended"
      BY <2>2
    <3>3. inf_pty_pid = NoTerm
      BY <3>2
    <3>4. \A t \in xterms : t # NoTerm
      BY Numbered, Zenon
    <3>. QED
      BY <3>1, <3>3, <3>4, Zenon
  <2>3. infMain = "idle" /\ ~ttyLost => gdbTty \in openTerms \union {NoTerm}
    BY DEF GdbHasTerminal
  <2>. QED
    BY <2>1, <2>2, <2>3 DEF TerminalIsOpen
<1>. QED
  BY <1>1, <1>2, <1>3, PTL DEF InfSpec

------------------------------------------------------------------------------
(* Shutdown *)

ShutTypeOK ==
    /\ doing \in [Threads -> {"idle", "busy", "sending", "gdb reply", "vim reply", "ended"}]
    /\ caller \in {"nobody", "handler", "main", "event"}
    /\ step \in {"none", "join reader", "join event", "destroy ui", "delete ui", "exit", "unlocked"}

\* Somebody cleans up, not a thread in the middle of something else; what cleanup has
\* joined has ended; and who uses what is deleted does so beside the event thread.
CallerIsFree ==
    /\ step # "none" => caller # "nobody"
    /\ caller = "main" => doing["main"] = "idle"

JoinedHaveEnded ==
    /\ step \notin {"none", "join reader"} => doing["reader"] = "ended"
    /\ GdbDeleted => caller = "event" \/ doing["event"] = "ended"

ShutInv == ShutTypeOK /\ CallerIsFree /\ JoinedHaveEnded /\ DeletedIsNotUsed

\* A thread that has not ended goes from one place to another; the main thread of a
\* cleanup does not.
LEMMA GoesStep ==
    ASSUME ShutInv, program = "running", NEW t \in Threads,
           NEW what \in {"idle", "busy", "sending", "gdb reply", "vim reply", "ended"},
           doing[t] # "ended", t = "main" => caller # "main", Goes(t, what)
    PROVE  ShutInv'
<1>1. /\ doing' = [doing EXCEPT ![t] = what]
      /\ caller' = caller /\ step' = step /\ program' = program
  BY DEF Goes
<1>2. ShutTypeOK'
  BY <1>1 DEF ShutInv, ShutTypeOK, Threads
<1>3. \A o \in Threads : doing[o] = "ended" => doing'[o] = "ended"
  BY <1>1 DEF ShutInv, ShutTypeOK
<1>4. CallerIsFree'
  BY <1>1 DEF ShutInv, ShutTypeOK, CallerIsFree, Threads
<1>5. JoinedHaveEnded'
  BY <1>1, <1>3 DEF ShutInv, JoinedHaveEnded, GdbDeleted, Threads
<1>. QED
  BY <1>1, <1>2, <1>4, <1>5 DEF ShutInv, DeletedIsNotUsed

\* The reader hands an answer over and ends, or not; no thread but it ends.
LEMMA DeliveredStep ==
    ASSUME ShutInv, program = "running", doing["reader"] # "ended",
           NEW next \in {"idle", "ended"}, doing' = Delivered(next),
           UNCHANGED <<caller, step, program>>
    PROVE  ShutInv'
<1>1. ShutTypeOK'
  BY DEF ShutInv, ShutTypeOK, Delivered
<1>2. /\ doing["event"] = "ended" => doing'["event"] = "ended"
      /\ doing["main"] = "idle" => doing'["main"] = "idle"
  BY DEF Delivered, Runs, Threads
<1>3. step \in {"none", "join reader"}
  BY DEF ShutInv, JoinedHaveEnded
<1>. QED
  BY <1>1, <1>2, <1>3 DEF ShutInv, CallerIsFree, JoinedHaveEnded, GdbDeleted, DeletedIsNotUsed

\* A cleanup starts before any other, in a thread that has nothing else to do.
LEMMA StartStep ==
    ASSUME ShutInv, program = "running", ~Ongoing, NEW who \in {"handler", "main", "event"},
           who = "main" => doing["main"] = "idle", StartCleanup(who)
    PROVE  ShutInv'
<1>1. CASE step = "unlocked"
  BY <1>1 DEF ShutInv, ShutTypeOK, StartCleanup, GoesWrong, CallerIsFree, JoinedHaveEnded,
     GdbDeleted, DeletedIsNotUsed
<1>2. CASE step = "none"
  BY <1>2 DEF ShutInv, ShutTypeOK, StartCleanup, CallerIsFree, JoinedHaveEnded,
     GdbDeleted, DeletedIsNotUsed
<1>. QED
  BY <1>1, <1>2 DEF Ongoing

\* A thread that runs while gdb, or the user interface, is deleted runs beside the
\* event thread's cleanup.
LEMMA WrongUse ==
    ASSUME ShutInv, program = "running", NEW t \in Threads, Runs(t, "busy"), GdbDeleted,
           NEW how \in {"used gdb after it was deleted", "used ui after it was deleted"},
           GoesWrong(how)
    PROVE  ShutInv'
<1>1. caller = "event"
  <2>1. step \notin {"none", "join reader"} /\ doing["reader"] = "ended" /\ caller # "nobody"
    BY DEF ShutInv, GdbDeleted, JoinedHaveEnded, CallerIsFree
  <2>2. doing[t] = "busy" /\ ~(t = "main" /\ caller = "handler")
    BY DEF Runs, Suspended
  <2>3. caller = "event" \/ doing["event"] = "ended"
    BY DEF ShutInv, JoinedHaveEnded
  <2>4. caller = "main" => doing["main"] = "idle"
    BY DEF ShutInv, CallerIsFree
  <2>. QED
    BY <2>1, <2>2, <2>3, <2>4 DEF ShutInv, ShutTypeOK, Threads
<1>. QED
  BY <1>1 DEF GoesWrong, ShutInv, ShutTypeOK, CallerIsFree, JoinedHaveEnded, GdbDeleted,
     DeletedIsNotUsed

LEMMA ShutStep ==
    ASSUME ShutInv, [ShutNext]_shutVars
    PROVE  ShutInv'
<1>1. ASSUME NEW t \in Threads, IssueCmd(t) PROVE ShutInv'
  <2>1. CASE GdbDeleted
    BY <1>1, <2>1, WrongUse DEF IssueCmd, Runs
  <2>2. CASE ~GdbDeleted
    BY <1>1, <2>2, GoesStep DEF IssueCmd, Runs, ShutInv, CallerIsFree
  <2>. QED
    BY <2>1, <2>2
<1>2. ASSUME NEW t \in Threads, CallVim(t) PROVE ShutInv'
  <2>1. CASE UiDeleted
    BY <1>2, <2>1, WrongUse DEF CallVim, Runs, UiDeleted, GdbDeleted
  <2>2. CASE ~UiDeleted
    BY <1>2, <2>2, GoesStep DEF CallVim, Runs, ShutInv, CallerIsFree
  <2>. QED
    BY <2>1, <2>2
<1>3. ASSUME NEW t \in Threads, CmdSent(t) \/ VimAnswers(t) \/ Done(t) PROVE ShutInv'
  BY <1>3, GoesStep DEF CmdSent, VimAnswers, Done, Runs, ShutInv, CallerIsFree
<1>4. CASE ReaderReads
  BY <1>4, GoesStep DEF ReaderReads, Runs, Threads
<1>5. CASE ReaderParses \/ ReaderEnds
  BY <1>5, DeliveredStep DEF ReaderParses, ReaderEnds, Runs
<1>6. CASE EventExit
  <2>1. CASE Ongoing
    BY <1>6, <2>1, GoesStep DEF EventExit, Runs, Threads
  <2>2. CASE ~Ongoing
    BY <1>6, <2>2, StartStep DEF EventExit, Runs
  <2>. QED
    BY <2>1, <2>2
<1>7. CASE MainExit
  <2>1. CASE Ongoing
    BY <1>7, <2>1 DEF MainExit, Runs, GoesWrong, ShutInv, ShutTypeOK, CallerIsFree,
       JoinedHaveEnded, GdbDeleted, DeletedIsNotUsed
  <2>2. CASE ~Ongoing
    BY <1>7, <2>2, StartStep DEF MainExit, Runs
  <2>. QED
    BY <2>1, <2>2
<1>8. CASE Signal
  BY <1>8, StartStep DEF Signal
<1>9. CASE UserCommand
  BY <1>9, GoesStep DEF UserCommand, Runs, Threads
<1>10. CASE GdbEvent
  BY <1>10, GoesStep DEF GdbEvent, Runs, Threads
<1>11. CASE Segv
  BY <1>11 DEF Segv, Runs, ShutInv, ShutTypeOK, CallerIsFree, JoinedHaveEnded, GdbDeleted,
     DeletedIsNotUsed, Threads
<1>12. CASE CleanupStep
  BY <1>12 DEF CleanupStep, JoinReader, JoinEvent, DestroyUi, DeleteUi, Unlock, Exit, GoesWrong,
     ShutInv, ShutTypeOK, CallerIsFree, JoinedHaveEnded, GdbDeleted, DeletedIsNotUsed
<1>13. CASE GdbExits \/ VimCloses \/ UNCHANGED shutVars
  BY <1>13 DEF GdbExits, VimCloses, shutVars, ShutInv, ShutTypeOK, CallerIsFree,
     JoinedHaveEnded, GdbDeleted, DeletedIsNotUsed
<1>. QED
  BY <1>1, <1>2, <1>3, <1>4, <1>5, <1>6, <1>7, <1>8, <1>9, <1>10, <1>11, <1>12, <1>13
  DEF ShutNext, GoOn

\* Whoever cleans up, and whenever gdb, vim, the user and signals interfere: gdb and the
\* user interface are not used after they were deleted, but by the main thread while the
\* event thread cleans up (gdb.cc:75, main.cc:143).
THEOREM NoUseAfterDelete == ShutSpec => []DeletedIsNotUsed
<1>1. ShutInit => ShutInv
  BY DEF ShutInit, ShutInv, ShutTypeOK, CallerIsFree, JoinedHaveEnded, GdbDeleted,
     DeletedIsNotUsed, Threads
<1>2. ShutInv /\ [ShutNext]_shutVars => ShutInv'
  BY ShutStep
<1>3. ShutInv => DeletedIsNotUsed
  BY DEF ShutInv
<1>. QED
  BY <1>1, <1>2, <1>3, PTL DEF ShutSpec

\* What wakes those that wait for the end: the end of gdb-readline, which waits for no
\* answer of gdb, is told to the event thread, and from the first step of cleanup on gdb's
\* terminal is closed.
EndIsKnown ==
    /\ doing["reader"] \notin Issuing
    /\ doing["reader"] = "ended" => exitEvent
    /\ step # "none" => ~gdbOpen

LEMMA EndStep ==
    ASSUME ShutTypeOK, EndIsKnown, [ShutNext]_shutVars
    PROVE  EndIsKnown'
<1>1. ASSUME NEW t \in Threads, NEW what \in {"idle", "busy", "sending", "gdb reply", "vim reply", "ended"},
             t = "reader" => what \in {"idle", "busy", "vim reply"}, Goes(t, what)
      PROVE  EndIsKnown'
  <2>1. doing'["reader"] \in {doing["reader"], "idle", "busy", "vim reply"}
    BY <1>1 DEF Goes, ShutTypeOK, Threads
  <2>. QED
    BY <1>1, <2>1 DEF Goes, EndIsKnown, Issuing
<1>2. ASSUME NEW who, StartCleanup(who) PROVE EndIsKnown'
  BY <1>2 DEF StartCleanup, GoesWrong, EndIsKnown
<1>3. ASSUME NEW how, GoesWrong(how) PROVE EndIsKnown'
  BY <1>3 DEF GoesWrong, EndIsKnown
<1>4. ASSUME NEW t \in Threads,
             IssueCmd(t) \/ CmdSent(t) \/ CallVim(t) \/ VimAnswers(t) \/ Done(t)
      PROVE  EndIsKnown'
  BY <1>1, <1>3, <1>4 DEF IssueCmd, CmdSent, CallVim, VimAnswers, Done, Runs, EndIsKnown, Issuing
<1>5. CASE ReaderReads \/ UserCommand \/ GdbEvent
  BY <1>1, <1>5 DEF ReaderReads, UserCommand, GdbEvent, Threads
<1>6. CASE ReaderParses
  <2>1. doing'["reader"] = "idle"
    BY <1>6 DEF ReaderParses, Delivered, Threads
  <2>. QED
    BY <1>6, <2>1 DEF ReaderParses, EndIsKnown, Issuing
<1>7. CASE ReaderEnds
  <2>1. doing'["reader"] = "ended"
    BY <1>7 DEF ReaderEnds, Delivered, Threads
  <2>. QED
    BY <1>7, <2>1 DEF ReaderEnds, EndIsKnown, Issuing
<1>8. CASE EventExit
  BY <1>1, <1>2, <1>8 DEF EventExit, Threads
<1>9. CASE MainExit \/ Signal
  BY <1>2, <1>3, <1>9 DEF MainExit, Signal
<1>10. CASE Segv
  BY <1>10 DEF Segv, ShutTypeOK, Threads, EndIsKnown, Issuing
<1>11. CASE CleanupStep
  <2>1. step # "none" /\ UNCHANGED <<doing, gdbOpen, exitEvent>>
    BY <1>11 DEF CleanupStep, JoinReader, JoinEvent, DestroyUi, DeleteUi, Unlock, Exit, GoesWrong
  <2>. QED
    BY <2>1 DEF EndIsKnown
<1>12. CASE GdbExits \/ VimCloses \/ UNCHANGED shutVars
  BY <1>12 DEF GdbExits, VimCloses, shutVars, EndIsKnown
<1>. QED
  BY <1>4, <1>5, <1>6, <1>7, <1>8, <1>9, <1>10, <1>11, <1>12 DEF ShutNext, GoOn

\* A thread that cleanup waits for goes on, or waits for what is missed or held.
LEMMA WaitsForGoOn ==
    ASSUME ShutInv, EndIsKnown, program = "running", Ongoing, ~MayGoOn
    PROVE  HandlerHolds \/ VimIsMissed \/ GdbIsMissed
<1>1. /\ doing \in [Threads -> {"idle", "busy", "sending", "gdb reply", "vim reply", "ended"}]
      /\ {"main", "event", "reader"} = Threads
      /\ ~gdbOpen
  BY DEF ShutInv, ShutTypeOK, Threads, EndIsKnown, Ongoing
<1>2. ASSUME NEW t \in Threads, doing[t] = "vim reply" PROVE VimIsMissed \/ HandlerHolds
  <2>1. CASE Suspended(t)
    BY <1>2, <2>1 DEF Suspended, HandlerHolds
  <2>2. CASE ~Suspended(t)
    BY <1>2, <2>2 DEF MayGoOn, Runs, VimIsMissed, Free
  <2>. QED
    BY <2>1, <2>2
<1>3. ASSUME ~Free({"sending"}) PROVE HandlerHolds
  <2>1. PICK t \in Threads : doing[t] = "sending"
    BY <1>3 DEF Free
  <2>2. Suspended(t)
    BY <2>1 DEF MayGoOn, Runs
  <2>. QED
    BY <2>1, <2>2 DEF Suspended, HandlerHolds, Issuing
<1>4. CASE step = "join reader"
  <2>1. doing["reader"] # "ended" /\ ~Suspended("reader") /\ "reader" \in Threads
    BY <1>1, <1>4 DEF MayGoOn, Suspended
  <2>2. CASE doing["reader"] \in {"idle", "busy"}
    BY <1>1, <1>3, <2>1, <2>2 DEF MayGoOn, Runs
  <2>3. CASE doing["reader"] = "vim reply"
    BY <1>2, <2>1, <2>3
  <2>4. doing["reader"] \notin {"sending", "gdb reply"}
    BY DEF EndIsKnown, Issuing
  <2>. QED
    BY <1>1, <2>1, <2>2, <2>3, <2>4
<1>5. CASE step = "join event"
  <2>1. doing["reader"] = "ended" /\ exitEvent
    BY <1>5 DEF ShutInv, JoinedHaveEnded, EndIsKnown
  <2>2. doing["event"] # "ended" /\ caller # "event" /\ ~Suspended("event") /\ "event" \in Threads
    BY <1>1, <1>5 DEF MayGoOn, Suspended
  <2>3. doing["event"] \notin {"idle", "busy", "sending"}
    BY <2>1, <2>2 DEF MayGoOn, Runs
  <2>4. CASE doing["event"] = "vim reply"
    BY <1>2, <2>2, <2>4
  <2>5. CASE doing["event"] = "gdb reply"
    BY <1>1, <2>1, <2>2, <2>5 DEF GdbIsMissed, Free
  <2>. QED
    BY <1>1, <2>2, <2>3, <2>4, <2>5
<1>. QED
  BY <1>4, <1>5 DEF ShutInv, ShutTypeOK, Ongoing, MayGoOn

\* A cleanup that has begun goes on, step by step, until it has unlocked (main.cc:138),
\* whatever gdb, vim, the user and signals do meanwhile, but for the three reasons.
THEOREM CleanupGoesOn == ShutSpec => []CleanupIsNotStuck
<1>1. ShutInit => ShutInv /\ EndIsKnown
  BY DEF ShutInit, ShutInv, ShutTypeOK, CallerIsFree, JoinedHaveEnded, GdbDeleted,
     DeletedIsNotUsed, EndIsKnown, Issuing, Threads
<1>2. ShutInv /\ EndIsKnown /\ [ShutNext]_shutVars => ShutInv' /\ EndIsKnown'
  BY ShutStep, EndStep DEF ShutInv
<1>3. ShutInv /\ EndIsKnown => CleanupIsNotStuck
  BY WaitsForGoOn DEF CleanupIsNotStuck
<1>. QED
  BY <1>1, <1>2, <1>3, PTL DEF ShutSpec

------------------------------------------------------------------------------
(* Breakpoints: that the list and gdb's table agree is not inductive by itself.  A     *)
(* new number could be one that is listed, unless no listed number exceeds the last   *)
(* that gdb has given.  Nor is it enough for the signs that a line has one: a key     *)
(* must never lead to the sign of a line with another key.                            *)

GdbBreak == [at : BreakLines, temporary : BOOLEAN, enabled : BOOLEAN]
ListedBreak == [num : Nat, temporary : BOOLEAN, enabled : BOOLEAN]

BrkTypeOK ==
    /\ brkCreated \in Nat
    /\ gdbBreaks \in [DOMAIN gdbBreaks -> GdbBreak]
    /\ breakpt_lst \in [DOMAIN breakpt_lst -> ListedBreak]
    /\ DOMAIN breakpt_lst \subseteq BreakLines

NumbersAreOld == \A at \in DOMAIN breakpt_lst : breakpt_lst[at].num <= brkCreated

BreakInv == BrkTypeOK /\ NumbersAreOld /\ BreaksMirrorGdb

------------------------------------------------------------------------------
(* What agrees, for one location and for one number of gdb. *)

ListedAgrees(at) ==
    LET b == breakpt_lst[at] IN
    IF b.num \in DOMAIN gdbBreaks
    THEN gdbBreaks[b.num] = [at |-> at, temporary |-> b.temporary, enabled |-> b.enabled]
    ELSE b.temporary /\ b.num \in brkHit

GdbAgrees(n) == gdbBreaks[n].at \in DOMAIN breakpt_lst /\ breakpt_lst[gdbBreaks[n].at].num = n

(* The agreement is one of locations and of numbers. *)
LEMMA MirrorParts ==
    BreaksMirrorGdb <=> /\ \A at \in DOMAIN breakpt_lst : ListedAgrees(at)
                        /\ \A n \in DOMAIN gdbBreaks \ brkRefused : GdbAgrees(n)
  BY DEF BreaksMirrorGdb, ListedAgrees, GdbAgrees

(* A number that gdb knows is listed at one location. *)
LEMMA ListedOnce ==
    ASSUME NEW at \in DOMAIN breakpt_lst, NEW x \in DOMAIN breakpt_lst,
           ListedAgrees(at), ListedAgrees(x),
           breakpt_lst[at].num \in DOMAIN gdbBreaks, x # at
    PROVE  breakpt_lst[x].num # breakpt_lst[at].num
<1>1. ASSUME NEW y \in DOMAIN breakpt_lst, ListedAgrees(y),
             breakpt_lst[y].num \in DOMAIN gdbBreaks
      PROVE  gdbBreaks[breakpt_lst[y].num].at = y
  <2>1. gdbBreaks[breakpt_lst[y].num] =
            [at |-> y, temporary |-> breakpt_lst[y].temporary, enabled |-> breakpt_lst[y].enabled]
    BY <1>1 DEF ListedAgrees
  <2> QED BY <2>1
<1>2. gdbBreaks[breakpt_lst[at].num].at = at
  BY <1>1
<1>3. breakpt_lst[x].num = breakpt_lst[at].num => gdbBreaks[breakpt_lst[at].num].at = x
  BY <1>1
<1> QED BY <1>2, <1>3

(* Every command of the user, every breakpoint that is hit and the closing of the   *)
(* file keep the list and gdb's table in agreement (break.cc, breakpoint.cc).       *)
LEMMA BreakInvIsInductive == BreakInv /\ [BreakNext]_brkVars => BreakInv'
<1> SUFFICES ASSUME BreakInv, [BreakNext]_brkVars PROVE BreakInv'
  OBVIOUS
<1>1. /\ BrkTypeOK /\ NumbersAreOld
      /\ \A at \in DOMAIN breakpt_lst : ListedAgrees(at)
      /\ \A n \in DOMAIN gdbBreaks \ brkRefused : GdbAgrees(n)
  BY MirrorParts DEF BreakInv
<1>2. ASSUME BrkTypeOK', NumbersAreOld',
             \A at \in DOMAIN breakpt_lst' : ListedAgrees(at)',
             \A n \in DOMAIN gdbBreaks' \ brkRefused' : GdbAgrees(n)'
      PROVE  BreakInv'
  BY <1>2 DEF BreakInv, BreaksMirrorGdb, ListedAgrees, GdbAgrees
<1>3. ASSUME NEW at \in BreakLines, NEW b \in BOOLEAN, BreakAdd(at, b) PROVE BreakInv'
  <2> DEFINE new == brkCreated + 1
  <2>1. /\ brkCreated' = new /\ new \in Nat
        /\ at \notin DOMAIN breakpt_lst
        /\ gdbBreaks' = With(gdbBreaks, new, NewBreak(at, b))
        /\ breakpt_lst' = With(breakpt_lst, at, [num |-> new, temporary |-> b, enabled |-> TRUE])
        /\ UNCHANGED <<brkHit, brkRefused>>
    BY <1>1, <1>3 DEF BreakAdd, Insert, BrkTypeOK
  <2>2. NewBreak(at, b) \in GdbBreak
    BY DEF NewBreak, GdbBreak
  <2>3. [num |-> new, temporary |-> b, enabled |-> TRUE] \in ListedBreak
    BY <2>1 DEF ListedBreak
  <2>4. BrkTypeOK'
    BY <1>1, <2>1, <2>2, <2>3 DEF BrkTypeOK, With
  <2>5. \A x \in DOMAIN breakpt_lst : breakpt_lst[x].num # new /\ breakpt_lst[x].num <= new
    BY <1>1 DEF BrkTypeOK, NumbersAreOld, ListedBreak
  <2>6. NumbersAreOld'
    BY <2>1, <2>5 DEF NumbersAreOld, With
  <2>7. ASSUME NEW x \in DOMAIN breakpt_lst' PROVE ListedAgrees(x)'
    <3>1. CASE x = at
      BY <3>1, <2>1 DEF ListedAgrees, NewBreak, With
    <3>2. CASE x # at
      BY <3>2, <2>1, <2>5, <2>7, <1>1 DEF ListedAgrees, With
    <3> QED BY <3>1, <3>2
  <2>8. ASSUME NEW n \in DOMAIN gdbBreaks' \ brkRefused' PROVE GdbAgrees(n)'
    <3>1. CASE n = new
      BY <3>1, <2>1 DEF GdbAgrees, NewBreak, With
    <3>2. CASE n # new
      BY <3>2, <2>1, <2>8, <1>1 DEF GdbAgrees, With
    <3> QED BY <3>1, <3>2
  <2> QED BY <1>2, <2>4, <2>6, <2>7, <2>8
<1>4. ASSUME NEW at \in BreakLines, NEW b \in BOOLEAN, BreakAddAgain(at, b) PROVE BreakInv'
  <2> DEFINE new == brkCreated + 1
  <2>1. /\ brkCreated' = new /\ new \in Nat
        /\ UNCHANGED <<breakpt_lst, brkHit>>
    BY <1>1, <1>4 DEF BreakAddAgain, Insert, BrkTypeOK
  <2>2. \A x \in DOMAIN breakpt_lst : breakpt_lst[x].num # new /\ breakpt_lst[x].num <= new
    BY <1>1 DEF BrkTypeOK, NumbersAreOld, ListedBreak
  <2>3. NumbersAreOld'
    BY <2>1, <2>2 DEF NumbersAreOld
  <2>4. CASE UNCHANGED <<gdbBreaks, brkRefused>>
    BY <1>1, <1>2, <2>1, <2>3, <2>4 DEF BrkTypeOK, ListedAgrees, GdbAgrees
  <2>5. CASE /\ gdbBreaks' = With(gdbBreaks, new, NewBreak(at, b))
             /\ brkRefused' = brkRefused \union {new}
    <3>1. NewBreak(at, b) \in GdbBreak
      BY DEF NewBreak, GdbBreak
    <3>2. BrkTypeOK'
      BY <1>1, <2>1, <2>5, <3>1 DEF BrkTypeOK, With
    <3>3. ASSUME NEW x \in DOMAIN breakpt_lst' PROVE ListedAgrees(x)'
      BY <1>1, <2>1, <2>2, <2>5, <3>3 DEF ListedAgrees, With
    <3>4. ASSUME NEW n \in DOMAIN gdbBreaks' \ brkRefused' PROVE GdbAgrees(n)'
      BY <1>1, <2>1, <2>5, <3>4 DEF GdbAgrees, With
    <3> QED BY <1>2, <2>3, <3>2, <3>3, <3>4
  <2> QED BY <1>4, <2>1, <2>4, <2>5 DEF BreakAddAgain
<1>5. ASSUME NEW at \in BreakLines, BreakDelete(at) PROVE BreakInv'
  <2> DEFINE old == breakpt_lst[at].num
  <2>1. /\ at \in DOMAIN breakpt_lst /\ old \in DOMAIN gdbBreaks
        /\ gdbBreaks' = Without(gdbBreaks, old)
        /\ breakpt_lst' = Without(breakpt_lst, at)
        /\ UNCHANGED <<brkCreated, brkHit, brkRefused>>
    BY <1>5 DEF BreakDelete, Known
  <2>2. BrkTypeOK'
    BY <1>1, <2>1 DEF BrkTypeOK, Without
  <2>3. NumbersAreOld'
    BY <1>1, <2>1 DEF NumbersAreOld, Without
  <2>4. ASSUME NEW x \in DOMAIN breakpt_lst, x # at PROVE breakpt_lst[x].num # old
    <3> QED BY <2>4, <1>1, <2>1, ListedOnce
  <2>5. ASSUME NEW x \in DOMAIN breakpt_lst' PROVE ListedAgrees(x)'
    <3>1. x \in DOMAIN breakpt_lst /\ x # at /\ breakpt_lst'[x] = breakpt_lst[x]
      BY <2>1 DEF Without
    <3>2. breakpt_lst[x].num # old
      BY <2>4, <3>1
    <3> QED BY <1>1, <2>1, <3>1, <3>2 DEF ListedAgrees, Without
  <2>6. ASSUME NEW n \in DOMAIN gdbBreaks' \ brkRefused' PROVE GdbAgrees(n)'
    <3>1. n \in DOMAIN gdbBreaks \ brkRefused /\ n # old /\ gdbBreaks'[n] = gdbBreaks[n]
      BY <2>1 DEF Without
    <3>2. GdbAgrees(n)
      BY <1>1, <3>1
    <3>3. gdbBreaks[n].at # at
      BY <3>1, <3>2 DEF GdbAgrees
    <3> QED BY <2>1, <3>1, <3>2, <3>3 DEF GdbAgrees, Without
  <2> QED BY <1>2, <2>2, <2>3, <2>5, <2>6
<1>6. ASSUME NEW at \in BreakLines, NEW b \in BOOLEAN, BreakSwitch(at, b) PROVE BreakInv'
  <2> DEFINE num == breakpt_lst[at].num
  <2>1. /\ at \in DOMAIN breakpt_lst /\ num \in DOMAIN gdbBreaks
        /\ gdbBreaks' = [gdbBreaks EXCEPT ![num].enabled = b]
        /\ breakpt_lst' = [breakpt_lst EXCEPT ![at].enabled = b]
        /\ UNCHANGED <<brkCreated, brkHit, brkRefused>>
    BY <1>6 DEF BreakSwitch, Known
  <2>2. /\ DOMAIN breakpt_lst' = DOMAIN breakpt_lst /\ DOMAIN gdbBreaks' = DOMAIN gdbBreaks
        /\ \A x \in DOMAIN breakpt_lst : breakpt_lst'[x].num = breakpt_lst[x].num
        /\ \A n \in DOMAIN gdbBreaks : gdbBreaks'[n].at = gdbBreaks[n].at
    BY <1>1, <2>1 DEF BrkTypeOK, GdbBreak, ListedBreak
  <2>3. BrkTypeOK'
    BY <1>1, <2>1, <2>2 DEF BrkTypeOK, GdbBreak, ListedBreak
  <2>4. NumbersAreOld'
    BY <1>1, <2>1, <2>2 DEF NumbersAreOld
  <2>5. ASSUME NEW x \in DOMAIN breakpt_lst, x # at PROVE breakpt_lst[x].num # num
    <3> QED BY <2>5, <1>1, <2>1, ListedOnce
  <2>6. ASSUME NEW x \in DOMAIN breakpt_lst' PROVE ListedAgrees(x)'
    <3>1. CASE x = at
      <4>1. /\ num \in Nat /\ breakpt_lst'[at] = [breakpt_lst[at] EXCEPT !.enabled = b]
            /\ gdbBreaks'[num] = [gdbBreaks[num] EXCEPT !.enabled = b]
        BY <1>1, <2>1 DEF BrkTypeOK, ListedBreak
      <4>2. breakpt_lst[at] \in ListedBreak
        BY <1>1, <2>1 DEF BrkTypeOK
      <4>3. /\ breakpt_lst'[at].num = num /\ breakpt_lst'[at].enabled = b
            /\ breakpt_lst'[at].temporary = breakpt_lst[at].temporary
        BY <4>1, <4>2 DEF ListedBreak
      <4>4. gdbBreaks[num] = [at |-> at, temporary |-> breakpt_lst[at].temporary,
                              enabled |-> breakpt_lst[at].enabled]
        BY <1>1, <2>1 DEF ListedAgrees
      <4>5. gdbBreaks'[num] = [at |-> at, temporary |-> breakpt_lst[at].temporary, enabled |-> b]
        BY <4>1, <4>4
      <4> QED BY <2>1, <2>2, <3>1, <4>3, <4>5 DEF ListedAgrees
    <3>2. CASE x # at
      <4>1. breakpt_lst'[x] = breakpt_lst[x] /\ breakpt_lst[x].num # num
        BY <2>1, <2>2, <2>5, <3>2
      <4> QED BY <1>1, <2>1, <2>2, <4>1 DEF ListedAgrees
    <3> QED BY <3>1, <3>2
  <2>7. ASSUME NEW n \in DOMAIN gdbBreaks' \ brkRefused' PROVE GdbAgrees(n)'
    BY <1>1, <2>1, <2>2 DEF GdbAgrees
  <2> QED BY <1>2, <2>3, <2>4, <2>6, <2>7
<1>7. ASSUME NEW n \in 1..MaxBreaks, BreakHit(n) PROVE BreakInv'
  <2>1. /\ n \in DOMAIN gdbBreaks /\ gdbBreaks[n].temporary
        /\ gdbBreaks' = Without(gdbBreaks, n)
        /\ brkHit' = brkHit \union {n}
        /\ UNCHANGED <<breakpt_lst, brkCreated, brkRefused>>
    BY <1>7 DEF BreakHit
  <2>2. BrkTypeOK'
    BY <1>1, <2>1 DEF BrkTypeOK, Without
  <2>3. NumbersAreOld'
    BY <1>1, <2>1 DEF NumbersAreOld
  <2>4. ASSUME NEW x \in DOMAIN breakpt_lst' PROVE ListedAgrees(x)'
    <3>1. CASE breakpt_lst[x].num = n
      <4>1. ListedAgrees(x)
        BY <1>1, <2>1
      <4>2. gdbBreaks[n] = [at |-> x, temporary |-> breakpt_lst[x].temporary,
                            enabled |-> breakpt_lst[x].enabled]
        BY <2>1, <3>1, <4>1 DEF ListedAgrees
      <4>3. breakpt_lst[x].temporary
        BY <2>1, <4>2
      <4> QED BY <2>1, <3>1, <4>3 DEF ListedAgrees, Without
    <3>2. CASE breakpt_lst[x].num # n
      BY <1>1, <2>1, <3>2 DEF ListedAgrees, Without
    <3> QED BY <3>1, <3>2
  <2>5. ASSUME NEW k \in DOMAIN gdbBreaks' \ brkRefused' PROVE GdbAgrees(k)'
    BY <1>1, <2>1 DEF GdbAgrees, Without
  <2> QED BY <1>2, <2>2, <2>3, <2>4, <2>5
<1>8. CASE UNCHANGED <<breakpt_lst, gdbBreaks, brkCreated, brkHit, brkRefused>>
  BY <1>1, <1>2, <1>8 DEF BrkTypeOK, NumbersAreOld, ListedAgrees, GdbAgrees
<1>9. CASE BreakFileClosed
  BY <1>8, <1>9 DEF BreakFileClosed
<1>10. CASE UNCHANGED brkVars
  BY <1>8, <1>10 DEF brkVars
<1> QED
  BY <1>3, <1>4, <1>5, <1>6, <1>7, <1>9, <1>10 DEF BreakNext

(* The list of breakpoints agrees with gdb's table whatever the user adds, deletes   *)
(* and switches, and whatever gdb refuses (break.cc, breakpoint.cc).                 *)
THEOREM ListMirrorsGdb == BreakSpec => []BreaksMirrorGdb
<1>1. BreakInit => BreakInv
  BY DEF BreakInit, BreakInv, BrkTypeOK, NumbersAreOld, BreaksMirrorGdb
<1>2. BreakInv => BreaksMirrorGdb
  BY DEF BreakInv
<1> QED
  BY <1>1, <1>2, BreakInvIsInductive, PTL DEF BreakSpec

------------------------------------------------------------------------------
(* Signs.  What a line may rely on, whatever was done to lines with other keys:     *)
(* it has no sign, or at most the one its key leads to, or just that one.           *)

NoSign(m, x) == \A n \in DOMAIN m.signs : m.signs[n].line # x

OneSign(m, x, enabled) ==
    \A n \in DOMAIN m.signs : m.signs[n].line = x =>
        /\ AnnoKey(x) \in DOMAIN m.annos /\ n = m.annos[AnnoKey(x)]
        /\ m.signs[n].enabled = enabled

HasSign(m, x) ==
    /\ AnnoKey(x) \in DOMAIN m.annos
    /\ m.annos[AnnoKey(x)] \in DOMAIN m.signs
    /\ m.signs[m.annos[AnnoKey(x)]].line = x

\* A key leads to a sign of a line that has the key.
MarksOK(m) ==
    /\ IsFiniteSet(DOMAIN m.signs)
    /\ \A k \in DOMAIN m.annos :
          m.annos[k] \in DOMAIN m.signs /\ AnnoKey(m.signs[m.annos[k]].line) = k

CollisionsNoted ==
    \A x, y \in DOMAIN breakpt_lst \ {NoSource} :
        x # y /\ AnnoKey(x) = AnnoKey(y) => x \in brkCollided

Sure == BreakLines \ (brkCollided \union {NoSource})

LineIsMarked(x) ==
    IF x \in DOMAIN breakpt_lst
    THEN /\ OneSign(Marks, x, breakpt_lst[x].enabled)
         /\ brkClosed \/ HasSign(Marks, x)
    ELSE NoSign(Marks, x)

SignInv == MarksOK(Marks) /\ CollisionsNoted /\ \A x \in Sure : LineIsMarked(x)

(* A number is left for a new sign. *)
LEMMA NewSignIsNew ==
    ASSUME NEW m, IsFiniteSet(DOMAIN m.signs)
    PROVE  NewSign(m) \notin DOMAIN m.signs
<1> DEFINE D == DOMAIN m.signs
           c == Cardinality(D)
<1>1. c \in Nat
  BY FS_CardinalityType
<1>2. Cardinality(1..(c + 1)) = c + 1
  BY <1>1, FS_Interval
<1>3. ~(1..(c + 1) \subseteq D)
  <2>1. 1..(c + 1) \subseteq D => Cardinality(1..(c + 1)) <= c
    BY FS_Subset
  <2> QED BY <1>1, <1>2, <2>1
<1>4. \E n \in 1..(c + 1) : n \notin D
  BY <1>3
<1> QED BY <1>4 DEF NewSign

(* A new sign for a line whose key leads nowhere that matters. *)
LEMMA AddedSign ==
    ASSUME NEW m, NEW at, NEW e, MarksOK(m)
    PROVE  LET a == AnnoAdd(m, at, e) IN
           /\ MarksOK(a)
           /\ NoSign(m, at) => OneSign(a, at, e) /\ HasSign(a, at)
           /\ \A x : x # at /\ NoSign(m, x) => NoSign(a, x)
           /\ \A x, f : AnnoKey(x) # AnnoKey(at) /\ OneSign(m, x, f) => OneSign(a, x, f)
           /\ \A x : AnnoKey(x) # AnnoKey(at) /\ HasSign(m, x) => HasSign(a, x)
<1> DEFINE a == AnnoAdd(m, at, e)
           s == NewSign(m)
           k == AnnoKey(at)
<1>1. s \notin DOMAIN m.signs
  BY NewSignIsNew DEF MarksOK
<1>2. /\ DOMAIN a.signs = DOMAIN m.signs \union {s}
      /\ a.signs[s].line = at /\ a.signs[s].enabled = e
      /\ \A n \in DOMAIN m.signs : a.signs[n] = m.signs[n]
      /\ DOMAIN a.annos = DOMAIN m.annos \union {k}
      /\ a.annos[k] = s
      /\ \A j \in DOMAIN m.annos : j # k => a.annos[j] = m.annos[j]
  BY <1>1 DEF AnnoAdd, With
<1>3. IsFiniteSet(DOMAIN a.signs)
  BY <1>2, FS_AddElement DEF MarksOK
<1> HIDE DEF a, s
<1>4. MarksOK(a)
  BY <1>1, <1>2, <1>3 DEF MarksOK
<1>5. NoSign(m, at) => OneSign(a, at, e) /\ HasSign(a, at)
  BY <1>1, <1>2 DEF NoSign, OneSign, HasSign
<1>6. \A x : x # at /\ NoSign(m, x) => NoSign(a, x)
  BY <1>1, <1>2 DEF NoSign
<1>7. \A x, f : AnnoKey(x) # AnnoKey(at) /\ OneSign(m, x, f) => OneSign(a, x, f)
  BY <1>1, <1>2 DEF OneSign
<1>8. \A x : AnnoKey(x) # AnnoKey(at) /\ HasSign(m, x) => HasSign(a, x)
  BY <1>1, <1>2 DEF HasSign
<1> QED BY <1>4, <1>5, <1>6, <1>7, <1>8 DEF a

(* The sign its key leads to is removed: the line has no other. *)
LEMMA DeletedSign ==
    ASSUME NEW m, NEW at, MarksOK(m)
    PROVE  LET d == AnnoDelete(m, at) IN
           /\ MarksOK(d)
           /\ \A f : OneSign(m, at, f) => NoSign(d, at)
           /\ \A x : NoSign(m, x) => NoSign(d, x)
           /\ \A x, f : AnnoKey(x) # AnnoKey(at) /\ OneSign(m, x, f) => OneSign(d, x, f)
           /\ \A x : AnnoKey(x) # AnnoKey(at) /\ HasSign(m, x) => HasSign(d, x)
<1> DEFINE d == AnnoDelete(m, at)
           k == AnnoKey(at)
<1>1. CASE k \notin DOMAIN m.annos
  <2>1. d = m
    BY <1>1 DEF AnnoDelete
  <2>2. \A f : OneSign(m, at, f) => NoSign(m, at)
    BY <1>1 DEF OneSign, NoSign
  <2> QED BY <2>1, <2>2, Zenon
<1>2. CASE k \in DOMAIN m.annos
  <2> DEFINE s == m.annos[k]
  <2>1. s \in DOMAIN m.signs /\ AnnoKey(m.signs[s].line) = k
    BY <1>2 DEF MarksOK
  <2>2. /\ DOMAIN d.signs = DOMAIN m.signs \ {s}
        /\ \A n \in DOMAIN d.signs : d.signs[n] = m.signs[n]
        /\ DOMAIN d.annos = DOMAIN m.annos \ {k}
        /\ \A j \in DOMAIN d.annos : d.annos[j] = m.annos[j]
    BY <1>2 DEF AnnoDelete, Without
  <2>3. IsFiniteSet(DOMAIN d.signs)
    BY <2>2, FS_RemoveElement DEF MarksOK
  <2>4. \A j \in DOMAIN m.annos : j # k => m.annos[j] # s
    BY <2>1 DEF MarksOK
  <2>5. \A f : OneSign(m, at, f) => NoSign(d, at)
    <3> HIDE DEF d
    <3> QED BY <2>2 DEF OneSign, NoSign
  <2> HIDE DEF d, s
  <2>6. MarksOK(d)
    BY <2>2, <2>3, <2>4 DEF MarksOK
  <2>7. \A x : NoSign(m, x) => NoSign(d, x)
    BY <2>2 DEF NoSign
  <2>8. \A x, f : AnnoKey(x) # AnnoKey(at) /\ OneSign(m, x, f) => OneSign(d, x, f)
    BY <2>2 DEF OneSign
  <2>9. \A x : AnnoKey(x) # AnnoKey(at) /\ HasSign(m, x) => HasSign(d, x)
    BY <2>2, <2>4 DEF HasSign
  <2> QED BY <2>5, <2>6, <2>7, <2>8, <2>9 DEF d
<1> QED BY <1>1, <1>2

(* Lines of the same key that are listed together are no longer sure. *)
LEMMA SureLinesDiffer ==
    ASSUME CollisionsNoted, NEW at \in DOMAIN breakpt_lst \ {NoSource},
           NEW x \in Sure, x \in DOMAIN breakpt_lst, x # at
    PROVE  AnnoKey(x) # AnnoKey(at)
  BY DEF CollisionsNoted, Sure

(* Adding, deleting, switching, and the closing of the file keep each line and its  *)
(* sign together (user_cmd/break.cc, vimui.cc:390-443).                             *)
LEMMA SignInvIsInductive == BrkTypeOK /\ SignInv /\ [BreakNext]_brkVars => SignInv'
<1> SUFFICES ASSUME BrkTypeOK, SignInv, [BreakNext]_brkVars PROVE SignInv'
  OBVIOUS
<1>1. MarksOK(Marks) /\ CollisionsNoted /\ \A x \in Sure : LineIsMarked(x)
  BY DEF SignInv
<1>2. Marks.signs = signs /\ Marks.annos = annos
  BY DEF Marks
<1>3. ASSUME UNCHANGED <<signs, annos, brkCollided, brkClosed>>,
             DOMAIN breakpt_lst' \subseteq DOMAIN breakpt_lst,
             \A x \in DOMAIN breakpt_lst' \ {NoSource} : breakpt_lst'[x] = breakpt_lst[x],
             DOMAIN breakpt_lst \ DOMAIN breakpt_lst' \subseteq {NoSource}
      PROVE  SignInv'
  <2>1. Marks' = Marks /\ Sure' = Sure
    BY <1>3 DEF Marks, Sure
  <2>2. CollisionsNoted'
    BY <1>1, <1>3 DEF CollisionsNoted
  <2>3. ASSUME NEW x \in Sure PROVE LineIsMarked(x)'
    BY <1>1, <1>3, <2>1, <2>3 DEF LineIsMarked, Sure
  <2> QED BY <1>1, <2>1, <2>2, <2>3 DEF SignInv
<1>4. ASSUME NEW at \in BreakLines, NEW b \in BOOLEAN, BreakAdd(at, b) PROVE SignInv'
  <2>1. /\ at \notin DOMAIN breakpt_lst
        /\ breakpt_lst' = With(breakpt_lst, at,
               [num |-> brkCreated', temporary |-> b, enabled |-> TRUE])
        /\ MarksBecome(at, AnnoAdd(Marks, at, TRUE))
        /\ NoteCollisions /\ brkClosed' = brkClosed
    BY <1>4 DEF BreakAdd
  <2>2. /\ DOMAIN breakpt_lst' = DOMAIN breakpt_lst \union {at}
        /\ breakpt_lst'[at].enabled = TRUE
        /\ \A x \in DOMAIN breakpt_lst : breakpt_lst'[x] = breakpt_lst[x]
    BY <2>1 DEF With
  <2>3. CollisionsNoted'
    BY <2>1 DEF NoteCollisions, CollisionsNoted
  <2>4. Sure' \subseteq Sure
    BY <2>1 DEF Sure, NoteCollisions
  <2>5. CASE at = NoSource
    <3>1. Marks' = Marks
      BY <2>1, <2>5 DEF MarksBecome, Marks
    <3>2. ASSUME NEW x \in Sure' PROVE LineIsMarked(x)'
      BY <1>1, <2>1, <2>2, <2>4, <2>5, <3>1, <3>2 DEF LineIsMarked, Sure
    <3> QED BY <1>1, <2>3, <3>1, <3>2 DEF SignInv
  <2>6. CASE at # NoSource
    <3>1. Marks' = AnnoAdd(Marks, at, TRUE)
      BY <2>1, <2>6 DEF MarksBecome, Marks, AnnoAdd
    <3>2. /\ MarksOK(Marks')
          /\ NoSign(Marks, at) => OneSign(Marks', at, TRUE) /\ HasSign(Marks', at)
          /\ \A x : x # at /\ NoSign(Marks, x) => NoSign(Marks', x)
          /\ \A x, f : AnnoKey(x) # AnnoKey(at) /\ OneSign(Marks, x, f) => OneSign(Marks', x, f)
          /\ \A x : AnnoKey(x) # AnnoKey(at) /\ HasSign(Marks, x) => HasSign(Marks', x)
      BY <1>1, <3>1, AddedSign
    <3>3. ASSUME NEW x \in Sure' PROVE LineIsMarked(x)'
      <4>1. LineIsMarked(x) /\ x \in Sure
        BY <1>1, <2>4
      <4>2. CASE x = at
        BY <2>1, <2>2, <3>2, <4>1, <4>2 DEF LineIsMarked
      <4>3. CASE x # at /\ x \notin DOMAIN breakpt_lst
        BY <2>2, <3>2, <4>1, <4>3 DEF LineIsMarked
      <4>4. CASE x # at /\ x \in DOMAIN breakpt_lst
        <5>1. AnnoKey(x) # AnnoKey(at)
          BY <2>2, <2>3, <2>6, <4>4 DEF CollisionsNoted, Sure
        <5>2. OneSign(Marks, x, breakpt_lst[x].enabled) /\ (brkClosed \/ HasSign(Marks, x))
          BY <4>1, <4>4 DEF LineIsMarked
        <5> QED BY <2>1, <2>2, <3>2, <4>4, <5>1, <5>2 DEF LineIsMarked
      <4> QED BY <4>2, <4>3, <4>4
    <3> QED BY <2>3, <3>2, <3>3 DEF SignInv
  <2> QED BY <2>5, <2>6
<1>5. ASSUME NEW at \in BreakLines, BreakDelete(at) PROVE SignInv'
  <2>1. /\ at \in DOMAIN breakpt_lst
        /\ breakpt_lst' = Without(breakpt_lst, at)
        /\ MarksBecome(at, AnnoDelete(Marks, at))
        /\ UNCHANGED <<brkCollided, brkClosed>>
    BY <1>5 DEF BreakDelete, Known
  <2>2. /\ DOMAIN breakpt_lst' = DOMAIN breakpt_lst \ {at}
        /\ \A x \in DOMAIN breakpt_lst' : breakpt_lst'[x] = breakpt_lst[x]
    BY <2>1 DEF Without
  <2>3. CollisionsNoted'
    BY <1>1, <2>1, <2>2 DEF CollisionsNoted
  <2>4. CASE at = NoSource
    BY <1>3, <2>1, <2>2, <2>4 DEF MarksBecome
  <2>5. CASE at # NoSource
    <3>1. Marks' = AnnoDelete(Marks, at)
      BY <2>1, <2>5 DEF MarksBecome, Marks, AnnoDelete
    <3>2. /\ MarksOK(Marks')
          /\ \A f : OneSign(Marks, at, f) => NoSign(Marks', at)
          /\ \A x : NoSign(Marks, x) => NoSign(Marks', x)
          /\ \A x, f : AnnoKey(x) # AnnoKey(at) /\ OneSign(Marks, x, f) => OneSign(Marks', x, f)
          /\ \A x : AnnoKey(x) # AnnoKey(at) /\ HasSign(Marks, x) => HasSign(Marks', x)
      BY <1>1, <3>1, DeletedSign
    <3>3. ASSUME NEW x \in Sure' PROVE LineIsMarked(x)'
      <4>1. LineIsMarked(x) /\ x \in Sure
        BY <1>1, <2>1 DEF Sure
      <4>2. CASE x = at
        <5>1. OneSign(Marks, at, breakpt_lst[at].enabled)
          BY <2>1, <4>1, <4>2 DEF LineIsMarked
        <5>2. NoSign(Marks', at)
          BY <3>2, <5>1
        <5> QED BY <2>2, <4>2, <5>2 DEF LineIsMarked
      <4>3. CASE x # at /\ x \notin DOMAIN breakpt_lst
        BY <2>2, <3>2, <4>1, <4>3 DEF LineIsMarked
      <4>4. CASE x # at /\ x \in DOMAIN breakpt_lst
        <5>1. AnnoKey(x) # AnnoKey(at)
          BY <1>1, <2>1, <2>5, <4>1, <4>4, SureLinesDiffer
        <5>2. OneSign(Marks, x, breakpt_lst[x].enabled) /\ (brkClosed \/ HasSign(Marks, x))
          BY <4>1, <4>4 DEF LineIsMarked
        <5> QED BY <2>1, <2>2, <3>2, <4>4, <5>1, <5>2 DEF LineIsMarked
      <4> QED BY <4>2, <4>3, <4>4
    <3> QED BY <2>3, <3>2, <3>3 DEF SignInv
  <2> QED BY <2>4, <2>5
<1>6. ASSUME NEW at \in BreakLines, NEW b \in BOOLEAN, BreakSwitch(at, b) PROVE SignInv'
  <2>1. /\ at \in DOMAIN breakpt_lst
        /\ breakpt_lst' = [breakpt_lst EXCEPT ![at].enabled = b]
        /\ MarksBecome(at, AnnoAdd(AnnoDelete(Marks, at), at, b))
        /\ UNCHANGED <<brkCollided, brkClosed>>
    BY <1>6 DEF BreakSwitch, Known
  <2>2. /\ DOMAIN breakpt_lst' = DOMAIN breakpt_lst
        /\ \A x \in DOMAIN breakpt_lst : x # at => breakpt_lst'[x] = breakpt_lst[x]
    BY <2>1
  <2>3. CollisionsNoted'
    BY <1>1, <2>1, <2>2 DEF CollisionsNoted
  <2>4. CASE at = NoSource
    BY <1>3, <2>1, <2>2, <2>4 DEF MarksBecome
  <2>5. CASE at # NoSource
    <3> DEFINE d == AnnoDelete(Marks, at)
    <3>1. Marks' = AnnoAdd(d, at, b)
      BY <2>1, <2>5 DEF MarksBecome, Marks, AnnoAdd
    <3>2. /\ MarksOK(d)
          /\ \A f : OneSign(Marks, at, f) => NoSign(d, at)
          /\ \A x : NoSign(Marks, x) => NoSign(d, x)
          /\ \A x, f : AnnoKey(x) # AnnoKey(at) /\ OneSign(Marks, x, f) => OneSign(d, x, f)
          /\ \A x : AnnoKey(x) # AnnoKey(at) /\ HasSign(Marks, x) => HasSign(d, x)
      BY <1>1, DeletedSign
    <3> HIDE DEF d
    <3>3. /\ MarksOK(Marks')
          /\ NoSign(d, at) => OneSign(Marks', at, b) /\ HasSign(Marks', at)
          /\ \A x : x # at /\ NoSign(d, x) => NoSign(Marks', x)
          /\ \A x, f : AnnoKey(x) # AnnoKey(at) /\ OneSign(d, x, f) => OneSign(Marks', x, f)
          /\ \A x : AnnoKey(x) # AnnoKey(at) /\ HasSign(d, x) => HasSign(Marks', x)
      BY <3>1, <3>2, AddedSign
    <3>4. ASSUME NEW x \in Sure' PROVE LineIsMarked(x)'
      <4>1. LineIsMarked(x) /\ x \in Sure
        BY <1>1, <2>1 DEF Sure
      <4>2. CASE x = at
        <5>1. OneSign(Marks, at, breakpt_lst[at].enabled)
          BY <2>1, <4>1, <4>2 DEF LineIsMarked
        <5>2. OneSign(Marks', at, b) /\ HasSign(Marks', at)
          BY <3>2, <3>3, <5>1
        <5>3. breakpt_lst'[at].enabled = b
          BY <2>1 DEF BrkTypeOK, ListedBreak
        <5> QED BY <2>1, <2>2, <4>2, <5>2, <5>3 DEF LineIsMarked
      <4>3. CASE x # at /\ x \notin DOMAIN breakpt_lst
        BY <2>2, <3>2, <3>3, <4>1, <4>3 DEF LineIsMarked
      <4>4. CASE x # at /\ x \in DOMAIN breakpt_lst
        <5>1. AnnoKey(x) # AnnoKey(at)
          BY <1>1, <2>1, <2>5, <4>1, <4>4, SureLinesDiffer
        <5>2. OneSign(Marks, x, breakpt_lst[x].enabled) /\ (brkClosed \/ HasSign(Marks, x))
          BY <4>1, <4>4 DEF LineIsMarked
        <5> QED BY <2>1, <2>2, <3>2, <3>3, <4>4, <5>1, <5>2 DEF LineIsMarked
      <4> QED BY <4>2, <4>3, <4>4
    <3> QED BY <2>3, <3>3, <3>4 DEF SignInv
  <2> QED BY <2>4, <2>5
<1>7. CASE BreakFileClosed
  <2>1. /\ signs' = <<>> /\ annos' = <<>> /\ brkClosed' = TRUE
        /\ UNCHANGED <<breakpt_lst, brkCollided>>
    BY <1>7 DEF BreakFileClosed
  <2>2. DOMAIN signs' = {} /\ DOMAIN annos' = {}
    BY <2>1
  <2>3. MarksOK(Marks')
    BY <2>2, FS_EmptySet DEF MarksOK, Marks
  <2>4. \A x : NoSign(Marks', x) /\ \A f : OneSign(Marks', x, f)
    BY <2>2 DEF NoSign, OneSign, Marks
  <2>5. \A x \in Sure' : LineIsMarked(x)'
    BY <2>1, <2>4 DEF LineIsMarked
  <2>6. CollisionsNoted'
    BY <1>1, <2>1 DEF CollisionsNoted
  <2> QED BY <2>3, <2>5, <2>6 DEF SignInv
<1>8. CASE UNCHANGED <<breakpt_lst, signs, annos, brkCollided, brkClosed>>
  BY <1>3, <1>8
<1>9. ASSUME NEW at \in BreakLines, NEW b \in BOOLEAN, BreakAddAgain(at, b) PROVE SignInv'
  BY <1>8, <1>9 DEF BreakAddAgain
<1>10. ASSUME NEW n \in 1..MaxBreaks, BreakHit(n) PROVE SignInv'
  BY <1>8, <1>10 DEF BreakHit
<1>11. CASE UNCHANGED brkVars
  BY <1>8, <1>11 DEF brkVars
<1> QED
  BY <1>4, <1>5, <1>6, <1>7, <1>9, <1>10, <1>11 DEF BreakNext

(* A breakpoint has one sign, in the colour of its state, and a line without one     *)
(* has none, unless its key was shared with another (vimui.cc:401, 432).             *)
THEOREM SignsFollowList == BreakSpec => []SignsMatchBreaks
<1>1. BreakInit => BreakInv
  BY DEF BreakInit, BreakInv, BrkTypeOK, NumbersAreOld, BreaksMirrorGdb
<1>2. BreakInit => SignInv
  <2> SUFFICES ASSUME BreakInit PROVE SignInv
    OBVIOUS
  <2>1. DOMAIN signs = {} /\ DOMAIN annos = {} /\ DOMAIN breakpt_lst = {}
    BY DEF BreakInit
  <2>2. MarksOK(Marks)
    BY <2>1, FS_EmptySet DEF MarksOK, Marks
  <2>3. \A x : NoSign(Marks, x)
    BY <2>1 DEF NoSign, Marks
  <2> QED BY <2>1, <2>2, <2>3 DEF SignInv, CollisionsNoted, LineIsMarked
<1>3. SignInv => SignsMatchBreaks
  <2> SUFFICES ASSUME SignInv, NEW at \in Sure
               PROVE  LET shown == {n \in DOMAIN signs : signs[n].line = at} IN
                      IF at \in DOMAIN breakpt_lst
                      THEN /\ Cardinality(shown) <= 1
                           /\ \A n \in shown : signs[n].enabled = breakpt_lst[at].enabled
                           /\ ~brkClosed => shown # {}
                      ELSE shown = {}
    BY Zenon DEF SignsMatchBreaks, Sure
  <2> DEFINE shown == {n \in DOMAIN signs : signs[n].line = at}
             sign == annos[AnnoKey(at)]
  <2>1. LineIsMarked(at) /\ Marks.signs = signs /\ Marks.annos = annos
    BY DEF SignInv, Marks
  <2>2. CASE at \notin DOMAIN breakpt_lst
    <3>1. NoSign(Marks, at)
      BY <2>1, <2>2 DEF LineIsMarked
    <3>2. shown = {}
      BY <2>1, <3>1 DEF NoSign
    <3> QED BY <2>2, <3>2
  <2>3. CASE at \in DOMAIN breakpt_lst
    <3>1. OneSign(Marks, at, breakpt_lst[at].enabled) /\ (brkClosed \/ HasSign(Marks, at))
      BY <2>1, <2>3 DEF LineIsMarked
    <3>2. \A n \in shown : n = sign /\ signs[n].enabled = breakpt_lst[at].enabled
      BY <2>1, <3>1 DEF OneSign
    <3>3. ~brkClosed => shown # {}
      BY <2>1, <3>1 DEF HasSign
    <3>4. IsFiniteSet({sign}) /\ Cardinality({sign}) = 1
      BY FS_Singleton
    <3>5. shown \in SUBSET {sign}
      BY <3>2
    <3> HIDE DEF shown, sign
    <3>6. Cardinality(shown) <= 1
      BY <3>4, <3>5, FS_Subset
    <3> QED BY <2>3, <3>2, <3>3, <3>6 DEF shown
  <2> QED BY <2>2, <2>3
<1>4. BreakInv => BrkTypeOK
  BY DEF BreakInv
<1> QED
  BY <1>1, <1>2, <1>3, <1>4, BreakInvIsInductive, SignInvIsInductive, PTL DEF BreakSpec
==============================================================================
