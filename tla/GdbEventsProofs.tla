---------------------------- MODULE GdbEventsProofs ----------------------------
(***************************************************************************)
(* Theorems about GdbEvents, for any number of commands and any reasons    *)
(* the program may stop for.                                               *)
(***************************************************************************)
EXTENDS GdbEvents, TLAPS

Reasons == {"none", "normal", "noreason", "exited", "segv"}

\* What gdb prints, and what gdb-event is handed.
Records == [kind : {"ok", "failed", "running", "stopped"}, reason : Reasons, no : Nat]
Events  == [kind : {"running", "stopped", "exit"}, reason : Reasons, no : Nat]

TypeOK ==
    /\ mainPc \in {"ready", "source", "exec", "run", "await", "asleep"}
    /\ cmd \in {"step", "continue", "break"}
    /\ entered \in Nat
    /\ goal \in Nat
    /\ owner \in {"none", "main", "event"}
    /\ call \in {"none", "query", "step", "continue", "break", "run"}
    /\ reply \in {"none", "ok", "failed"}
    /\ target \in {"none", "stopped", "running"}
    /\ stopNo \in Nat
    /\ alive \in BOOLEAN
    /\ fromGdb \in Seq(Records)
    /\ reader \in {"run", "eof", "gone"}
    /\ eventLst \in Seq(Events)
    /\ eventPc \in {"top", "asleep", "woken", "update", "signal", "exit", "crash"}
    /\ handling \in Nat
    /\ isRunning \in BOOLEAN

TypeInv == TypeOK /\ NoNullEvent

\* The exit event of gdb's end is queued after everything gdb has printed, and
\* only crashes of the program, which gdb-event notices itself, come after it.
EndOfGdb(e) == e.kind = "exit" /\ e.reason # "segv"

OnlyExits(s, from) == \A i \in DOMAIN s : i > from => s[i].kind = "exit"

CleanupInv ==
    /\ reader # "run" => ~alive /\ fromGdb = <<>>
    /\ \A i \in DOMAIN eventLst : EndOfGdb(eventLst[i]) => reader # "run" /\ OnlyExits(eventLst, i)
    /\ eventPc = "exit" => reader # "run" /\ OnlyExits(eventLst, 0)

\* The records that say whether the program runs.  The last one on its way to
\* gdb-event says what is so.
Async(e)   == e.kind \in {"running", "stopped"}
NoAsync(s) == \A i \in DOMAIN s : ~Async(s[i])

LastAsync(s, i) ==
    /\ i \in DOMAIN s
    /\ Async(s[i])
    /\ \A j \in DOMAIN s : j > i => ~Async(s[j])

Ends(s, state) == \A i \in DOMAIN s : LastAsync(s, i) => (s[i].kind = "running" <=> state = "running")

FlagInv ==
    /\ Ends(fromGdb, target)
    /\ NoAsync(fromGdb) => Ends(eventLst, target)
    /\ NoAsync(fromGdb) /\ NoAsync(eventLst) => (isRunning <=> target = "running")

------------------------------------------------------------------------------
(* Types, and the queue of events *)

\* What is taken from a queue, and what is put into one.
LEMMA HeadTail ==
    ASSUME NEW S, NEW s \in Seq(S), s # <<>>
    PROVE  Head(s) \in S /\ Tail(s) \in Seq(S)
OBVIOUS

LEMMA AppendType ==
    ASSUME NEW S, NEW s \in Seq(S), NEW x \in S
    PROVE  Append(s, x) \in Seq(S) /\ Append(s, x) # <<>>
OBVIOUS

\* The records gdb prints and the events gdb-readline makes of them.
LEMMA MessageTypes ==
    /\ \A ok \in BOOLEAN : Result(ok) \in Records
    /\ Running \in Records
    /\ \A r \in StopReasons, n \in Nat : Stopped(r, n) \in Records
    /\ \A r \in Reasons : Exit(r) \in Events
    /\ \A e \in Records : e.kind \in {"running", "stopped"} => e \in Events
BY ReasonsAssumption DEF Result, Running, Stopped, Exit, Records, Events, Reasons

\* mi_proc_async queues the event and wakes gdb-event if it sleeps.
LEMMA EventQueued ==
    ASSUME TypeInv, NEW e \in Events, ProcAsync(e)
    PROVE  /\ eventLst' \in Seq(Events) /\ eventLst' # <<>>
           /\ eventPc' \in {"top", "woken", "update", "signal", "exit", "crash"}
           /\ eventPc' = "exit" => eventPc = "exit"
BY AppendType DEF TypeInv, TypeOK, ProcAsync

\* ^running comes before *running.
LEMMA TwoRecords ==
    ASSUME NEW S, NEW s \in Seq(S), NEW x \in S, NEW y \in S
    PROVE  /\ s \o <<x, y>> = Append(Append(s, x), y)
           /\ s \o <<x, y>> \in Seq(S)
OBVIOUS

\* A step of the main thread.
LEMMA MainType ==
    ASSUME TypeInv, Main
    PROVE  /\ mainPc' \in {"ready", "source", "exec", "run", "await", "asleep"}
           /\ cmd' \in {"step", "continue", "break"}
           /\ entered' \in Nat
           /\ owner' \in {"none", "main", "event"}
           /\ call' \in {"none", "query", "step", "continue", "break", "run"}
           /\ reply' \in {"none", "ok", "failed"}
           /\ UNCHANGED <<gdbVars, fromGdb, reader, eventLst, eventVars>>
<1> USE DEF TypeInv, TypeOK
<1>1. ASSUME NEW c \in {"step", "continue", "break"}, Enter(c)
      PROVE  /\ mainPc' \in {"ready", "source"} /\ cmd' = c /\ entered' \in Nat
             /\ UNCHANGED <<rpcVars, gdbVars, fromGdb, reader, eventLst, eventVars>>
  <2>1. /\ mainPc' = "ready" \/ mainPc' = "source"
        /\ cmd' = c /\ entered' = entered + 1
        /\ UNCHANGED <<rpcVars, gdbVars, fromGdb, reader, eventLst, eventVars>>
    BY <1>1, Zenon DEF Enter
  <2>. QED
    BY <2>1
<1>2. CASE MainIssue
  BY <1>2 DEF MainIssue, Begin, mainVars
<1>3. CASE MainReturn
  BY <1>3 DEF MainReturn, End
<1>4. CASE Await
  BY <1>4 DEF Await, rpcVars
<1>. QED
  BY <1>1, <1>2, <1>3, <1>4 DEF Main, rpcVars

\* A step of gdb and of the program.
LEMMA GdbType ==
    ASSUME TypeInv, Gdb
    PROVE  /\ fromGdb' \in Seq(Records)
           /\ call' \in {"none", "query", "step", "continue", "break", "run"}
           /\ target' \in {"none", "stopped", "running"}
           /\ stopNo' \in Nat /\ goal' \in Nat /\ alive' \in BOOLEAN
           /\ UNCHANGED <<mainVars, owner, reply, reader, eventLst, eventVars>>
<1> USE DEF TypeInv, TypeOK
<1>1. CASE GdbAnswer
  <2>1. /\ \/ fromGdb' = Append(fromGdb, Result(FALSE))
           \/ fromGdb' = Append(fromGdb, Result(TRUE))
           \/ fromGdb' = fromGdb \o <<Result(TRUE), Running>>
        /\ target' = target \/ target' = "running"
        /\ goal' = goal \/ goal' = stopNo + 1
        /\ UNCHANGED alive
    BY <1>1, Zenon DEF GdbAnswer
  <2>2. fromGdb' \in Seq(Records)
    <3>1. Result(TRUE) \in Records /\ Result(FALSE) \in Records /\ Running \in Records
      BY MessageTypes
    <3>2. /\ Append(fromGdb, Result(FALSE)) \in Seq(Records)
          /\ Append(fromGdb, Result(TRUE)) \in Seq(Records)
          /\ fromGdb \o <<Result(TRUE), Running>> \in Seq(Records)
      BY <3>1, AppendType, TwoRecords
    <3>. QED
      BY <2>1, <3>2
  <2>3. goal' \in Nat
    BY <2>1
  <2>. QED
    BY <1>1, <2>1, <2>2, <2>3 DEF GdbAnswer
<1>2. ASSUME NEW r \in StopReasons, TargetStop(r)
      PROVE  /\ fromGdb' \in Seq(Records)
             /\ target' \in {"none", "stopped", "running"}
             /\ stopNo' \in Nat
             /\ UNCHANGED <<alive, call, goal, mainVars, owner, reply, reader, eventLst, eventVars>>
  <2>1. Stopped(r, stopNo + 1) \in Records
    BY MessageTypes
  <2>. QED
    BY <1>2, <2>1, AppendType DEF TargetStop, rpcVars
<1>3. CASE GdbExit
  <2>1. alive' \in BOOLEAN
    BY <1>3, Zenon DEF GdbExit
  <2>. QED
    BY <1>3, <2>1 DEF GdbExit, rpcVars
<1>. QED
  BY <1>1, <1>2, <1>3 DEF Gdb

\* gdb-event handles the event it takes; a crash of the program queues another.
LEMMA TakeType ==
    ASSUME TypeInv, EvTake
    PROVE  /\ eventLst # <<>>
           /\ Head(eventLst) \in Events /\ Tail(eventLst) \in Seq(Events)
           /\ eventLst' \in Seq(Events)
           /\ eventPc' \in {"top", "update", "exit", "crash"}
           /\ handling' \in Nat
           /\ isRunning' \in BOOLEAN
           /\ UNCHANGED <<mainVars, rpcVars, gdbVars, fromGdb, reader>>
<1> USE DEF TypeInv, TypeOK, NoNullEvent
<1>1. eventLst # <<>>
  BY DEF EvTake
<1>2. Head(eventLst) \in Events /\ Tail(eventLst) \in Seq(Events)
  BY <1>1, HeadTail
<1>3. Append(Tail(eventLst), Exit("segv")) \in Seq(Events)
  BY <1>2, MessageTypes, AppendType DEF Reasons
<1>4. /\ eventLst' = Tail(eventLst) \/ eventLst' = Append(Tail(eventLst), Exit("segv"))
      /\ \/ eventPc' = "top" \/ eventPc' = "update" \/ eventPc' = "exit" \/ eventPc' = "crash"
      /\ handling' = handling \/ handling' = Head(eventLst).no
  BY Zenon DEF EvTake, EvtRunning, EvtStopped
<1>5. isRunning' = TRUE \/ isRunning' = FALSE \/ isRunning' = isRunning
  BY Zenon DEF EvTake, EvtRunning, EvtStopped
<1>6. isRunning' \in BOOLEAN
  BY <1>5
<1>7. Head(eventLst).no \in Nat
  BY <1>2 DEF Events
<1>. QED
  BY <1>1, <1>2, <1>3, <1>4, <1>6, <1>7 DEF EvTake

\* Every variable keeps its type, the queues that of their records; that needs
\* NoNullEvent, which is why they are shown together.
THEOREM TypeCorrect == Spec => []TypeInv
<1>1. Init => TypeInv
  <2> SUFFICES ASSUME Init PROVE TypeInv
    OBVIOUS
  <2>1. alive \in BOOLEAN /\ isRunning \in BOOLEAN
    BY Zenon DEF Init
  <2>2. fromGdb \in Seq(Records) /\ eventLst \in Seq(Events)
    BY DEF Init
  <2>. QED
    BY <2>1, <2>2 DEF Init, TypeInv, TypeOK, NoNullEvent
<1>2. TypeInv /\ [Next]_vars => TypeInv'
  <2> SUFFICES ASSUME TypeInv, [Next]_vars PROVE TypeInv'
    OBVIOUS
  <2> USE DEF TypeInv, TypeOK, NoNullEvent
  <2>1. CASE Main
    BY <2>1, MainType DEF gdbVars, eventVars
  <2>2. CASE Gdb
    BY <2>2, GdbType DEF mainVars, eventVars
  <2>3. CASE ReadResult
    <3>1. Tail(fromGdb) \in Seq(Records)
      BY <2>3, HeadTail DEF ReadResult
    <3>2. reply' \in {"ok", "failed"}
      BY <2>3 DEF ReadResult
    <3>. QED
      BY <2>3, <3>1, <3>2 DEF ReadResult, mainVars, gdbVars, eventVars
  <2>4. CASE ReadEvent
    <3>1. Head(fromGdb) \in Records /\ Tail(fromGdb) \in Seq(Records)
      BY <2>4, HeadTail DEF ReadEvent
    <3>2. Head(fromGdb) \in Events
      BY <2>4, <3>1, MessageTypes DEF ReadEvent
    <3>. QED
      BY <2>4, <3>1, <3>2, EventQueued DEF ReadEvent, mainVars, gdbVars, rpcVars
  <2>5. CASE ReadEof
    <3>1. Exit("none") \in Events
      BY MessageTypes DEF Reasons
    <3>. QED
      BY <2>5, <3>1, EventQueued DEF ReadEof, mainVars, gdbVars, rpcVars
  <2>6. CASE AbortInFlight
    BY <2>6 DEF AbortInFlight, mainVars, gdbVars, eventVars
  <2>7. CASE EvTake
    BY <2>7, TakeType DEF mainVars, gdbVars, rpcVars
  <2>8. CASE EvSleep
    BY <2>8 DEF EvSleep, mainVars, gdbVars, rpcVars
  <2>9. CASE UpdateIssue \/ UpdateReturn
    BY <2>9 DEF UpdateIssue, UpdateReturn, Begin, End, mainVars, gdbVars, eventVars
  <2>10. CASE UpdateSignal
    BY <2>10 DEF UpdateSignal, gdbVars, rpcVars
  <2>11. CASE UNCHANGED vars
    BY <2>11 DEF vars, mainVars, gdbVars, rpcVars, eventVars
  <2>. QED
    BY <2>1, <2>2, <2>3, <2>4, <2>5, <2>6, <2>7, <2>8, <2>9, <2>10, <2>11
    DEF Next, Reader, EventThread
<1>. QED
  BY <1>1, <1>2, PTL DEF Spec

\* gdb-event, once signalled, finds an event and never takes from an empty
\* queue, although it does not look at the queue again (gdb.cc:533-537).
THEOREM EventThreadFindsEvents == Spec => []NoNullEvent
BY TypeCorrect, PTL DEF TypeInv

------------------------------------------------------------------------------
(* The end of gdb *)

\* The messages of a queue after one is taken, and after one is put into it.
LEMMA TailIndex ==
    ASSUME NEW S, NEW s \in Seq(S), s # <<>>
    PROVE  /\ 1 \in DOMAIN s /\ s[1] = Head(s)
           /\ \A i \in DOMAIN Tail(s) : i + 1 \in DOMAIN s /\ i \in Nat /\ i > 0 /\ Tail(s)[i] = s[i + 1]
           /\ \A i \in DOMAIN s : i # 1 => i - 1 \in DOMAIN Tail(s) /\ Tail(s)[i - 1] = s[i]
OBVIOUS

LEMMA AppendIndex ==
    ASSUME NEW S, NEW s \in Seq(S), NEW x
    PROVE  /\ \A i \in DOMAIN s : i \in Nat /\ i > 0 /\ i < Len(s) + 1
           /\ \A i \in DOMAIN Append(s, x) :
                 \/ i \in DOMAIN s /\ Append(s, x)[i] = s[i]
                 \/ i = Len(s) + 1 /\ i \notin DOMAIN s /\ Append(s, x)[i] = x
           /\ \A i \in DOMAIN s : i \in DOMAIN Append(s, x) /\ Append(s, x)[i] = s[i]
           /\ Len(s) + 1 \in DOMAIN Append(s, x) /\ Append(s, x)[Len(s) + 1] = x
OBVIOUS

\* The events a list has lost its first one of, and those of a list an exit is
\* put into, keep the order CleanupInv is about.
Ordered(s) == \A i \in DOMAIN s : EndOfGdb(s[i]) => OnlyExits(s, i)
HasEnd(s)  == \E i \in DOMAIN s : EndOfGdb(s[i])

LEMMA TailOrdered ==
    ASSUME NEW S, NEW s \in Seq(S), s # <<>>, Ordered(s)
    PROVE  /\ Ordered(Tail(s))
           /\ HasEnd(Tail(s)) => HasEnd(s)
           /\ EndOfGdb(Head(s)) => OnlyExits(Tail(s), 0) /\ HasEnd(s)
BY TailIndex DEF Ordered, HasEnd, OnlyExits

LEMMA AppendOrdered ==
    ASSUME NEW S, NEW s \in Seq(S), NEW x, Ordered(s), x.kind = "exit" \/ ~HasEnd(s)
    PROVE  /\ Ordered(Append(s, x))
           /\ HasEnd(Append(s, x)) => HasEnd(s) \/ EndOfGdb(x)
           /\ OnlyExits(s, 0) /\ x.kind = "exit" => OnlyExits(Append(s, x), 0)
<1>1. HasEnd(Append(s, x)) => HasEnd(s) \/ EndOfGdb(x)
  BY AppendIndex DEF HasEnd
<1>2. OnlyExits(s, 0) /\ x.kind = "exit" => OnlyExits(Append(s, x), 0)
  BY AppendIndex DEF OnlyExits
<1>3. ASSUME NEW i \in DOMAIN Append(s, x), EndOfGdb(Append(s, x)[i]),
             NEW j \in DOMAIN Append(s, x), j > i
      PROVE  Append(s, x)[j].kind = "exit"
  <2>1. i \in DOMAIN s /\ Append(s, x)[i] = s[i]
    BY <1>3, AppendIndex
  <2>2. x.kind = "exit"
    BY <1>3, <2>1 DEF HasEnd
  <2>3. \/ j \in DOMAIN s /\ Append(s, x)[j] = s[j]
        \/ Append(s, x)[j] = x
    BY AppendIndex
  <2>. QED
    BY <1>3, <2>1, <2>2, <2>3 DEF Ordered, OnlyExits
<1>. QED
  BY <1>1, <1>2, <1>3 DEF Ordered, OnlyExits

LEMMA CleanupStep ==
    ASSUME TypeInv, CleanupInv, [Next]_vars
    PROVE  CleanupInv'
<1> USE DEF TypeInv, TypeOK
<1>1. /\ reader # "run" => ~alive /\ fromGdb = <<>>
      /\ Ordered(eventLst)
      /\ HasEnd(eventLst) => reader # "run"
      /\ eventPc = "exit" => reader # "run" /\ OnlyExits(eventLst, 0)
  BY DEF CleanupInv, Ordered, HasEnd
<1>2. ASSUME reader' # "run" => ~alive' /\ fromGdb' = <<>>,
             Ordered(eventLst)',
             HasEnd(eventLst)' => reader' # "run",
             eventPc' = "exit" => reader' # "run" /\ OnlyExits(eventLst, 0)'
      PROVE  CleanupInv'
  BY <1>2 DEF CleanupInv, Ordered, HasEnd
<1>3. CASE Main
  BY <1>3, MainType DEF gdbVars, eventVars, CleanupInv, OnlyExits
<1>4. CASE Gdb
  <2>1. reader # "run" => UNCHANGED <<alive, fromGdb>>
    BY <1>1, <1>4 DEF Gdb, GdbAnswer, TargetStop, GdbExit
  <2>2. UNCHANGED <<reader, eventLst, eventPc>>
    BY <1>4, GdbType DEF eventVars
  <2>. QED
    BY <1>1, <2>1, <2>2 DEF CleanupInv, OnlyExits
<1>5. CASE ReadEvent
  <2>1. Head(fromGdb) \in Records
    BY <1>5, HeadTail DEF ReadEvent
  <2>2. Head(fromGdb) \in Events
    BY <1>5, <2>1, MessageTypes DEF ReadEvent
  <2>3. reader = "run" /\ reader' = "run" /\ eventLst' = Append(eventLst, Head(fromGdb))
    BY <1>5 DEF ReadEvent, ProcAsync
  <2>4. ~EndOfGdb(Head(fromGdb)) /\ ~HasEnd(eventLst)
    BY <1>1, <1>5, <2>3 DEF ReadEvent, EndOfGdb
  <2>5. Ordered(eventLst)' /\ ~HasEnd(eventLst)'
    BY <1>1, <2>3, <2>4, AppendOrdered DEF Ordered, HasEnd, OnlyExits
  <2>6. eventPc' # "exit"
    BY <1>1, <1>5, <2>2, <2>3, EventQueued DEF ReadEvent
  <2>. QED
    BY <1>2, <2>3, <2>5, <2>6
<1>6. CASE ReadEof
  <2>1. Exit("none") \in Events /\ EndOfGdb(Exit("none"))
    BY MessageTypes DEF Reasons, EndOfGdb, Exit
  <2>2. /\ eventLst' = Append(eventLst, Exit("none")) /\ reader' = "eof"
        /\ fromGdb = <<>> /\ ~alive /\ UNCHANGED <<fromGdb, alive>> /\ reader = "run"
    BY <1>6 DEF ReadEof, ProcAsync, gdbVars
  <2>3. Ordered(eventLst)'
    BY <1>1, <2>1, <2>2, AppendOrdered DEF Ordered, OnlyExits, EndOfGdb
  <2>4. eventPc' # "exit"
    BY <1>1, <1>6, <2>1, <2>2, EventQueued DEF ReadEof
  <2>. QED
    BY <1>2, <2>2, <2>3, <2>4
<1>7. CASE EvTake
  <2>1. /\ eventLst # <<>> /\ Tail(eventLst) \in Seq(Events)
        /\ UNCHANGED <<fromGdb, reader, alive>>
    BY <1>7, TakeType DEF gdbVars
  <2>2. \/ eventLst' = Tail(eventLst)
        \/ eventLst' = Append(Tail(eventLst), Exit("segv"))
    BY <1>7, Zenon DEF EvTake, EvtRunning, EvtStopped
  <2>3. /\ Ordered(Tail(eventLst))
        /\ HasEnd(Tail(eventLst)) => reader # "run"
    BY <1>1, <2>1, TailOrdered
  <2>4. Exit("segv").kind = "exit" /\ ~EndOfGdb(Exit("segv"))
    BY DEF Exit, EndOfGdb
  <2>5. Ordered(eventLst)' /\ (HasEnd(eventLst)' => reader' # "run")
    <3>1. CASE eventLst' = Tail(eventLst)
      BY <2>1, <2>3, <3>1 DEF Ordered, HasEnd, OnlyExits
    <3>2. CASE eventLst' = Append(Tail(eventLst), Exit("segv"))
      BY <2>1, <2>3, <2>4, <3>2, AppendOrdered DEF Ordered, HasEnd, OnlyExits
    <3>. QED
      BY <2>2, <3>1, <3>2
  <2>6. ASSUME eventPc' = "exit" PROVE reader' # "run" /\ OnlyExits(eventLst, 0)'
    <3>1. Head(eventLst).kind = "exit" /\ Head(eventLst).reason # "segv" /\ eventLst' = Tail(eventLst)
      BY <1>7, <2>6 DEF EvTake, EvtRunning, EvtStopped
    <3>. QED
      BY <1>1, <2>1, <3>1, TailOrdered DEF EndOfGdb, OnlyExits
  <2>. QED
    BY <1>1, <1>2, <2>1, <2>5, <2>6
<1>8. CASE ReadResult
  BY <1>1, <1>8 DEF ReadResult, gdbVars, eventVars, CleanupInv, OnlyExits
<1>9. CASE AbortInFlight
  BY <1>1, <1>9 DEF AbortInFlight, gdbVars, eventVars, CleanupInv, OnlyExits
<1>10. CASE EvSleep \/ UpdateIssue \/ UpdateReturn \/ UpdateSignal
  BY <1>10 DEF EvSleep, UpdateIssue, UpdateReturn, UpdateSignal, gdbVars, eventVars,
     CleanupInv, OnlyExits
<1>11. CASE UNCHANGED vars
  BY <1>11 DEF vars, gdbVars, eventVars, CleanupInv, OnlyExits
<1>. QED
  BY <1>3, <1>4, <1>5, <1>6, <1>7, <1>8, <1>9, <1>10, <1>11 DEF Next, Reader, EventThread

\* When gdb has ended, the exit handlers run after everything gdb printed before
\* has been parsed and handled (gdb.cc:512-515, 548-551), in whatever order the
\* records, the crash of the program and the end of gdb came about.
THEOREM ExitHandlersRunLast == Spec => []CleanupComesLast
<1>1. Init => CleanupInv
  BY DEF Init, CleanupInv, OnlyExits
<1>2. TypeInv /\ CleanupInv /\ [Next]_vars => CleanupInv'
  BY CleanupStep
<1>3. TypeInv /\ CleanupInv => CleanupComesLast
  BY AppendIndex DEF TypeInv, TypeOK, CleanupInv, CleanupComesLast, OnlyExits
<1>. QED
  BY <1>1, <1>2, <1>3, TypeCorrect, PTL DEF Spec

------------------------------------------------------------------------------
(* is_running *)

\* What the last of the records is, after one is put into a queue or taken.
LEMMA AppendOther ==
    ASSUME NEW S, NEW s \in Seq(S), NEW x, ~Async(x), NEW state
    PROVE  /\ NoAsync(Append(s, x)) <=> NoAsync(s)
           /\ Ends(s, state) => Ends(Append(s, x), state)
<1>1. NoAsync(Append(s, x)) <=> NoAsync(s)
  BY AppendIndex DEF NoAsync
<1>2. ASSUME Ends(s, state), NEW i \in DOMAIN Append(s, x), LastAsync(Append(s, x), i)
      PROVE  Append(s, x)[i].kind = "running" <=> state = "running"
  <2>1. i \in DOMAIN s /\ Append(s, x)[i] = s[i]
    BY <1>2, AppendIndex DEF LastAsync
  <2>2. LastAsync(s, i)
    BY <1>2, <2>1, AppendIndex DEF LastAsync
  <2>. QED
    BY <1>2, <2>1, <2>2 DEF Ends
<1>. QED
  BY <1>1, <1>2 DEF Ends

LEMMA AppendAsync ==
    ASSUME NEW S, NEW s \in Seq(S), NEW x, Async(x), NEW state,
           x.kind = "running" <=> state = "running"
    PROVE  ~NoAsync(Append(s, x)) /\ Ends(Append(s, x), state)
<1>1. ~NoAsync(Append(s, x))
  BY AppendIndex DEF NoAsync
<1>2. ASSUME NEW i \in DOMAIN Append(s, x), LastAsync(Append(s, x), i)
      PROVE  Append(s, x)[i] = x
  BY <1>2, AppendIndex DEF LastAsync
<1>. QED
  BY <1>1, <1>2 DEF Ends

LEMMA TailLast ==
    ASSUME NEW S, NEW s \in Seq(S), s # <<>>, NEW state, Ends(s, state)
    PROVE  /\ Ends(Tail(s), state)
           /\ ~Async(Head(s)) => (NoAsync(Tail(s)) <=> NoAsync(s))
           /\ Async(Head(s)) => ~NoAsync(s)
           /\ Async(Head(s)) /\ NoAsync(Tail(s)) => (Head(s).kind = "running" <=> state = "running")
<1>1. ASSUME NEW i \in DOMAIN Tail(s), LastAsync(Tail(s), i)
      PROVE  Tail(s)[i].kind = "running" <=> state = "running"
  <2>1. i + 1 \in DOMAIN s /\ Tail(s)[i] = s[i + 1] /\ i \in Nat /\ i > 0
    BY TailIndex
  <2>2. ASSUME NEW j \in DOMAIN s, j > i + 1 PROVE ~Async(s[j])
    <3>1. j - 1 \in DOMAIN Tail(s) /\ Tail(s)[j - 1] = s[j] /\ j - 1 > i
      BY <2>1, <2>2, TailIndex, AppendIndex
    <3>. QED
      BY <1>1, <3>1 DEF LastAsync
  <2>3. LastAsync(s, i + 1)
    BY <1>1, <2>1, <2>2 DEF LastAsync
  <2>. QED
    BY <2>1, <2>3 DEF Ends
<1>2. ~Async(Head(s)) => (NoAsync(Tail(s)) <=> NoAsync(s))
  BY TailIndex DEF NoAsync
<1>3. Async(Head(s)) => ~NoAsync(s)
  BY TailIndex DEF NoAsync
<1>4. ASSUME Async(Head(s)), NoAsync(Tail(s))
      PROVE  Head(s).kind = "running" <=> state = "running"
  <2>1. LastAsync(s, 1)
    <3>1. ASSUME NEW j \in DOMAIN s, j > 1 PROVE ~Async(s[j])
      <4>1. j - 1 \in DOMAIN Tail(s) /\ Tail(s)[j - 1] = s[j]
        BY <3>1, TailIndex
      <4>. QED
        BY <1>4, <4>1 DEF NoAsync
    <3>. QED
      BY <1>4, <3>1, TailIndex DEF LastAsync
  <2>. QED
    BY <2>1, TailIndex DEF Ends
<1>. QED
  BY <1>1, <1>2, <1>3, <1>4 DEF Ends

LEMMA FlagStep ==
    ASSUME TypeInv, FlagInv, [Next]_vars
    PROVE  FlagInv'
<1> USE DEF TypeInv, TypeOK
<1>1. ASSUME UNCHANGED <<fromGdb, eventLst, target, isRunning>> PROVE FlagInv'
  BY <1>1 DEF FlagInv, NoAsync, Ends, LastAsync
<1>2. CASE Main
  BY <1>1, <1>2, MainType DEF gdbVars, eventVars
<1>3. CASE GdbAnswer
  <2>1. \/ /\ fromGdb' = Append(fromGdb, Result(FALSE)) \/ fromGdb' = Append(fromGdb, Result(TRUE))
           /\ UNCHANGED <<target, eventLst, isRunning>>
        \/ /\ fromGdb' = fromGdb \o <<Result(TRUE), Running>>
           /\ target' = "running" /\ UNCHANGED eventLst
    BY <1>3, Zenon DEF GdbAnswer, eventVars
  <2>2. ~Async(Result(TRUE)) /\ ~Async(Result(FALSE)) /\ Async(Running) /\ Running.kind = "running"
    BY DEF Async, Result, Running
  <2>3. CASE fromGdb' = fromGdb \o <<Result(TRUE), Running>> /\ target' = "running"
    <3>1. Append(fromGdb, Result(TRUE)) \in Seq(Records) /\ Running \in Records /\ Result(TRUE) \in Records
      BY MessageTypes, AppendType
    <3>2. fromGdb \o <<Result(TRUE), Running>> = Append(Append(fromGdb, Result(TRUE)), Running)
      <4>1. fromGdb \in Seq(Records)
        OBVIOUS
      <4>2. ASSUME NEW x \in Records, NEW y \in Records
            PROVE  fromGdb \o <<x, y>> = Append(Append(fromGdb, x), y)
        BY <4>1
      <4>. QED
        BY <3>1, <4>2, Zenon
    <3>3. Running.kind = "running" <=> target' = "running"
      BY <2>2, <2>3
    <3>4. ~NoAsync(fromGdb') /\ Ends(fromGdb', target')
      BY <2>2, <2>3, <3>1, <3>2, <3>3, AppendAsync
    <3>. QED
      BY <3>4 DEF FlagInv
  <2>4. CASE /\ fromGdb' = Append(fromGdb, Result(FALSE)) \/ fromGdb' = Append(fromGdb, Result(TRUE))
             /\ UNCHANGED <<target, eventLst, isRunning>>
    <3>1. (NoAsync(fromGdb') <=> NoAsync(fromGdb)) /\ Ends(fromGdb', target)
      <4>1. Ends(fromGdb, target)
        BY DEF FlagInv
      <4>2. CASE fromGdb' = Append(fromGdb, Result(TRUE))
        BY <2>2, <4>1, <4>2, AppendOther
      <4>3. CASE fromGdb' = Append(fromGdb, Result(FALSE))
        BY <2>2, <4>1, <4>3, AppendOther
      <4>. QED
        BY <2>4, <4>2, <4>3
    <3>. QED
      BY <2>4, <3>1 DEF FlagInv
  <2>. QED
    BY <2>1, <2>3, <2>4
<1>4. ASSUME NEW r \in StopReasons, TargetStop(r) PROVE FlagInv'
  <2>1. fromGdb' = Append(fromGdb, Stopped(r, stopNo + 1)) /\ target' # "running"
    BY <1>4 DEF TargetStop
  <2>2. Async(Stopped(r, stopNo + 1)) /\ Stopped(r, stopNo + 1).kind # "running"
    BY DEF Async, Stopped
  <2>. QED
    BY <2>1, <2>2, AppendAsync DEF FlagInv
<1>5. CASE GdbExit
  BY <1>1, <1>5 DEF GdbExit, eventVars
<1>6. CASE ReadResult
  <2>1. /\ fromGdb # <<>> /\ fromGdb' = Tail(fromGdb) /\ ~Async(Head(fromGdb))
        /\ UNCHANGED <<target, eventLst, isRunning>>
    BY <1>6 DEF ReadResult, Async, gdbVars, eventVars
  <2>2. Ends(fromGdb', target) /\ (NoAsync(fromGdb') <=> NoAsync(fromGdb))
    BY <2>1, TailLast DEF FlagInv
  <2>. QED
    BY <2>1, <2>2 DEF FlagInv
<1>7. CASE ReadEvent
  <2>1. /\ fromGdb # <<>> /\ fromGdb' = Tail(fromGdb) /\ Async(Head(fromGdb))
        /\ eventLst' = Append(eventLst, Head(fromGdb))
        /\ UNCHANGED <<target, isRunning>>
    BY <1>7 DEF ReadEvent, ProcAsync, Async, gdbVars
  <2>2. /\ Ends(fromGdb', target)
        /\ NoAsync(fromGdb') => (Head(fromGdb).kind = "running" <=> target = "running")
    BY <2>1, TailLast DEF FlagInv
  <2>3. NoAsync(fromGdb') => Ends(eventLst', target) /\ ~NoAsync(eventLst')
    BY <2>1, <2>2, AppendAsync
  <2>4. ~NoAsync(eventLst')
    BY <2>1, AppendIndex DEF NoAsync
  <2>. QED
    BY <2>1, <2>2, <2>3, <2>4 DEF FlagInv
<1>8. CASE ReadEof
  <2>1. /\ eventLst' = Append(eventLst, Exit("none")) /\ ~Async(Exit("none"))
        /\ UNCHANGED <<fromGdb, target, isRunning>>
    BY <1>8 DEF ReadEof, ProcAsync, gdbVars, Async, Exit
  <2>2. /\ NoAsync(eventLst') <=> NoAsync(eventLst)
        /\ Ends(eventLst, target) => Ends(eventLst', target)
    BY <2>1, AppendOther
  <2>. QED
    BY <2>1, <2>2 DEF FlagInv
<1>9. CASE AbortInFlight
  BY <1>1, <1>9 DEF AbortInFlight, gdbVars, eventVars
<1>10. CASE EvTake
  <2>1. /\ eventLst # <<>> /\ Tail(eventLst) \in Seq(Events) /\ Head(eventLst) \in Events
        /\ UNCHANGED <<fromGdb, target>>
    BY <1>10, TakeType DEF gdbVars
  <2>2. \/ eventLst' = Tail(eventLst)
        \/ eventLst' = Append(Tail(eventLst), Exit("segv"))
    BY <1>10, Zenon DEF EvTake, EvtRunning, EvtStopped
  <2>3. ~Async(Exit("segv"))
    BY DEF Exit, Async
  <2>4. /\ NoAsync(eventLst') <=> NoAsync(Tail(eventLst))
        /\ Ends(Tail(eventLst), target) => Ends(eventLst', target)
    <3>1. CASE eventLst' = Tail(eventLst)
      BY <3>1
    <3>2. CASE eventLst' = Append(Tail(eventLst), Exit("segv"))
      BY <2>1, <2>3, <3>2, AppendOther
    <3>. QED
      BY <2>2, <3>1, <3>2
  <2>5. /\ Head(eventLst).kind = "running" => isRunning' = TRUE
        /\ Head(eventLst).kind = "stopped" => isRunning' = FALSE
        /\ ~Async(Head(eventLst)) => isRunning' = isRunning
    BY <1>10 DEF EvTake, EvtRunning, EvtStopped, Async
  <2>6. ASSUME NoAsync(fromGdb)
        PROVE  /\ Ends(eventLst', target)
               /\ NoAsync(eventLst') => (isRunning' <=> target = "running")
    <3>1. Ends(eventLst, target)
      BY <2>6 DEF FlagInv
    <3>2. /\ Ends(Tail(eventLst), target)
          /\ ~Async(Head(eventLst)) => (NoAsync(Tail(eventLst)) <=> NoAsync(eventLst))
          /\ Async(Head(eventLst)) /\ NoAsync(Tail(eventLst))
                => (Head(eventLst).kind = "running" <=> target = "running")
      BY <2>1, <3>1, TailLast
    <3>3. CASE Async(Head(eventLst))
      BY <2>4, <2>5, <3>2, <3>3 DEF Async
    <3>4. CASE ~Async(Head(eventLst))
      BY <2>4, <2>5, <2>6, <3>2, <3>4 DEF FlagInv
    <3>. QED
      BY <3>3, <3>4
  <2>. QED
    BY <2>1, <2>6 DEF FlagInv
<1>11. CASE EvSleep \/ UpdateIssue \/ UpdateReturn \/ UpdateSignal
  BY <1>1, <1>11 DEF EvSleep, UpdateIssue, UpdateReturn, UpdateSignal, gdbVars, eventVars
<1>12. CASE UNCHANGED vars
  BY <1>1, <1>12 DEF vars, gdbVars, eventVars
<1>. QED
  BY <1>2, <1>3, <1>4, <1>5, <1>6, <1>7, <1>8, <1>9, <1>10, <1>11, <1>12
  DEF Next, Gdb, Reader, EventThread

\* is_running lags behind the program but never diverges from it: whatever the
\* order of commands, stops and handlers, with every record parsed and every
\* event taken it says whether the program runs (gdb.cc:339-366, 524-585).
THEOREM FlagFollowsProgram == Spec => []FlagConverges
<1>1. Init => FlagInv
  BY DEF Init, FlagInv, NoAsync, Ends
<1>2. TypeInv /\ FlagInv /\ [Next]_vars => FlagInv'
  BY FlagStep
<1>3. FlagInv => FlagConverges
  BY DEF FlagInv, FlagConverges, NoAsync
<1>. QED
  BY <1>1, <1>2, <1>3, TypeCorrect, PTL DEF Spec

==============================================================================
