-------------------------------- MODULE GdbMi --------------------------------
(***************************************************************************)
(* The command/response half of class gdbif (src/gdb/gdb.cc): threads call *)
(* mi_issue_cmd, which writes a numbered line to the gdb pty and sleeps on *)
(* the condition variable resp_avail; the gdb-readline thread parses what  *)
(* gdb prints and hands each result record to mi_proc_result, which wakes  *)
(* the sleeper.  gdb itself and the pty are external.                      *)
(*                                                                         *)
(* Commands, their arguments and their results are abstracted to the token *)
(* they were issued under; a reply remembers in field "for" the command it *)
(* was computed for.  ^done and ^running are treated alike by the code and *)
(* are one class here.                                                     *)
(***************************************************************************)
EXTENDS Integers, Sequences, FiniteSets

CONSTANTS
    Issuers,            \* threads that call mi_issue_cmd (main, gdb-event)
    NoThread,           \* a free mutex
    RawWriters,         \* threads that also write unnumbered lines (cmd_exec)
    MaxCmds,            \* bound: number of commands issued
    MaxRaw,             \* bound: number of raw lines written
    GdbMayExit,         \* gdb may terminate at any time
    Unparsable,         \* gdb may answer with a record the grammar rejects
    SpuriousWakeups     \* pthread_cond_wait may return without a signal

ASSUME IssuersAssumption == NoThread \notin Issuers /\ RawWriters \subseteq Issuers
ASSUME BoundsAssumption  == MaxCmds \in Nat /\ MaxRaw \in Nat
ASSUME SwitchAssumption  == {GdbMayExit, Unparsable, SpuriousWakeups} \subseteq BOOLEAN

VARIABLES
    pc,         \* where each issuer is in mi_issue_cmd or in a raw write
    cmdMtx,     \* holder of the function-local mutex m
    respMtx,    \* holder of resp_mtx
    token,      \* gdbif::token, the number of the current command
    mine,       \* the token each issuer wrote at the head of its line
    resp,       \* gdbif::resp
    ret,        \* what the last call of each issuer returned: a result or Failed
    line,       \* the pieces written to the pty since the last newline
    toGdb,      \* complete lines gdb has not read yet
    fromGdb,    \* records gdb has printed and gdb-readline has not parsed yet
    gdbAlive,   \* the gdb process runs
    reader,     \* gdb-readline: running, past end-of-file, terminated
    rawSent     \* number of raw lines started

vars == <<pc, cmdMtx, respMtx, token, mine, resp, ret, line, toGdb, fromGdb,
          gdbAlive, reader, rawSent>>

pty == <<line, toGdb, fromGdb>>

Raw    == 0     \* a piece of a line that carries no token
Failed == 0     \* mi_issue_cmd returned -1

Reply(tok, class, for) == [token |-> tok, class |-> class, for |-> for]

Replies == [token : Nat, class : {"none", "done", "error", "exit"}, for : Nat]

Waiters == {t \in Issuers : pc[t] = "waiting"}

\* Mutant of Init: tokens start at 0, which records without token have.
InitZero ==
    /\ pc = [t \in Issuers |-> "idle"]
    /\ cmdMtx = NoThread
    /\ respMtx = NoThread
    /\ token = 0
    /\ mine = [t \in Issuers |-> 0]
    /\ resp = Reply(0, "none", 0)
    /\ ret = [t \in Issuers |-> Failed]
    /\ line = <<>>
    /\ toGdb = <<>>
    /\ fromGdb = <<>>
    /\ gdbAlive = TRUE
    /\ reader = "run"
    /\ rawSent = 0

Init ==
    /\ pc = [t \in Issuers |-> "idle"]
    /\ cmdMtx = NoThread
    /\ respMtx = NoThread
    /\ token = 1
    /\ mine = [t \in Issuers |-> 0]
    /\ resp = Reply(0, "none", 0)
    /\ ret = [t \in Issuers |-> Failed]
    /\ line = <<>>
    /\ toGdb = <<>>
    /\ fromGdb = <<>>
    /\ gdbAlive = TRUE
    /\ reader = "run"
    /\ rawSent = 0

------------------------------------------------------------------------------
(* mi_issue_cmd *)

\* The newline that completes the current line; writing to a dead gdb has no
\* effect (the result of write is ignored).
Newline ==
    /\ line' = <<>>
    /\ toGdb' = IF gdbAlive THEN Append(toGdb, line) ELSE toGdb
    /\ UNCHANGED fromGdb

\* Mutant of Lock: the mutex m is not waited for.
LockAnyway(t) ==
    /\ pc[t] = "idle"
    /\ token <= MaxCmds
    /\ cmdMtx' = t
    /\ mine' = [mine EXCEPT ![t] = token]
    /\ line' = Append(line, token)
    /\ pc' = [pc EXCEPT ![t] = "compose"]
    /\ UNCHANGED <<respMtx, token, resp, ret, toGdb, fromGdb, gdbAlive, reader, rawSent>>

\* Take the mutex m, write token, command and arguments.
Lock(t) ==
    /\ pc[t] = "idle"
    /\ cmdMtx = NoThread
    /\ token <= MaxCmds
    /\ cmdMtx' = t
    /\ mine' = [mine EXCEPT ![t] = token]
    /\ line' = Append(line, token)
    /\ pc' = [pc EXCEPT ![t] = "compose"]
    /\ UNCHANGED <<respMtx, token, resp, ret, toGdb, fromGdb, gdbAlive, reader, rawSent>>

\* Mutant of LockResp: resp_mtx is not held while the line is completed.
LockRespLate(t) ==
    /\ pc[t] = "compose"
    /\ pc' = [pc EXCEPT ![t] = "send"]
    /\ UNCHANGED <<cmdMtx, respMtx, token, mine, resp, ret, pty, gdbAlive, reader, rawSent>>

\* Take resp_mtx before the line is completed.
LockResp(t) ==
    /\ pc[t] = "compose"
    /\ respMtx = NoThread
    /\ respMtx' = t
    /\ pc' = [pc EXCEPT ![t] = "send"]
    /\ UNCHANGED <<cmdMtx, token, mine, resp, ret, pty, gdbAlive, reader, rawSent>>

\* Write the newline: from here on gdb can answer.
Send(t) ==
    /\ pc[t] = "send"
    /\ Newline
    /\ pc' = [pc EXCEPT ![t] = "sent"]
    /\ UNCHANGED <<cmdMtx, respMtx, token, mine, resp, ret, gdbAlive, reader, rawSent>>

\* pthread_cond_wait: sleep and release resp_mtx in one step.
Wait(t) ==
    /\ pc[t] = "sent"
    /\ respMtx' = NoThread
    /\ pc' = [pc EXCEPT ![t] = "waiting"]
    /\ UNCHANGED <<cmdMtx, token, mine, resp, ret, pty, gdbAlive, reader, rawSent>>

\* pthread_cond_wait returns although nobody signalled resp_avail.
SpuriousWake(t) ==
    /\ SpuriousWakeups
    /\ pc[t] = "waiting"
    /\ pc' = [pc EXCEPT ![t] = "woken"]
    /\ UNCHANGED <<cmdMtx, respMtx, token, mine, resp, ret, pty, gdbAlive, reader, rawSent>>

\* Woken: regain resp_mtx, copy resp, advance the token, release both mutexes
\* and process the copy.  There is no predicate to re-check.
Return(t) ==
    /\ pc[t] = "woken"
    /\ respMtx = NoThread
    /\ ret' = [ret EXCEPT ![t] = IF resp.class \in {"error", "exit"}
                                 THEN Failed ELSE resp.for]
    /\ token' = token + 1
    /\ cmdMtx' = NoThread
    /\ pc' = [pc EXCEPT ![t] = "idle"]
    /\ UNCHANGED <<respMtx, mine, resp, pty, gdbAlive, reader, rawSent>>

------------------------------------------------------------------------------
(* cmd_exec forwards a command it does not know to gdb, without any lock *)

RawText(t) ==
    /\ t \in RawWriters
    /\ pc[t] = "idle"
    /\ rawSent < MaxRaw
    /\ rawSent' = rawSent + 1
    /\ line' = Append(line, Raw)
    /\ pc' = [pc EXCEPT ![t] = "raw"]
    /\ UNCHANGED <<cmdMtx, respMtx, token, mine, resp, ret, toGdb, fromGdb, gdbAlive, reader>>

RawNewline(t) ==
    /\ pc[t] = "raw"
    /\ Newline
    /\ pc' = [pc EXCEPT ![t] = "idle"]
    /\ UNCHANGED <<cmdMtx, respMtx, token, mine, resp, ret, gdbAlive, reader, rawSent>>

------------------------------------------------------------------------------
(* gdb (external): answers each line it reads, or exits *)

\* A line that starts with a token is a machine interface command and answered
\* under that token, with an error when foreign text is mixed into it.  Any
\* other line goes to the command line interpreter; its ^done has no token.
Answers(l) ==
    IF l = <<>> \/ Head(l) = Raw THEN {Reply(0, "done", 0)}
    ELSE IF Len(l) > 1           THEN {Reply(Head(l), "error", 0)}
    ELSE {Reply(Head(l), c, Head(l)) : c \in {"done", "error"}}
         \union IF Unparsable THEN {Reply(0, "error", 0)} ELSE {}

GdbAnswer ==
    /\ gdbAlive
    /\ toGdb # <<>>
    /\ \E r \in Answers(Head(toGdb)) : fromGdb' = Append(fromGdb, r)
    /\ toGdb' = Tail(toGdb)
    /\ UNCHANGED <<pc, cmdMtx, respMtx, token, mine, resp, ret, line, gdbAlive, reader, rawSent>>

GdbExit ==
    /\ GdbMayExit
    /\ gdbAlive
    /\ gdbAlive' = FALSE
    /\ toGdb' = <<>>
    /\ UNCHANGED <<pc, cmdMtx, respMtx, token, mine, resp, ret, line, fromGdb, reader, rawSent>>

------------------------------------------------------------------------------
(* gdb-readline thread *)

\* Mutant of SignalResp: the signal is forgotten.
SignalNobody == UNCHANGED pc

\* pthread_cond_signal(&resp_avail)
SignalResp ==
    IF Waiters = {} THEN UNCHANGED pc
    ELSE \E w \in Waiters : pc' = [pc EXCEPT ![w] = "woken"]

\* Mutant of ProcResult: the token of an exit record is checked as well.
ProcResultStrict(r) ==
    /\ respMtx = NoThread
    /\ IF r.token # token THEN UNCHANGED <<resp, pc>> ELSE resp' = r /\ SignalResp

\* mi_proc_result, whole: it holds resp_mtx from start to end.
ProcResult(r) ==
    /\ respMtx = NoThread
    /\ IF r.token # token /\ r.class # "exit"
       THEN UNCHANGED <<resp, pc>>
       ELSE resp' = r /\ SignalResp

\* Parse one record.  A record the grammar rejects arrives as an error under
\* token 0.
ReadRecord ==
    /\ reader = "run"
    /\ fromGdb # <<>>
    /\ ProcResult(Head(fromGdb))
    /\ fromGdb' = Tail(fromGdb)
    /\ UNCHANGED <<cmdMtx, respMtx, token, mine, ret, line, toGdb, gdbAlive, reader, rawSent>>

\* End of file on the pty, after all output has been parsed.
ReadEof ==
    /\ reader = "run"
    /\ fromGdb = <<>>
    /\ ~gdbAlive
    /\ reader' = "eof"
    /\ UNCHANGED <<pc, cmdMtx, respMtx, token, mine, resp, ret, pty, gdbAlive, rawSent>>

\* "abort any in-fly mi_issue_cmd()", then the thread terminates.
AbortInFlight ==
    /\ reader = "eof"
    /\ ProcResult(Reply(0, "exit", 0))
    /\ reader' = "gone"
    /\ UNCHANGED <<cmdMtx, respMtx, token, mine, ret, pty, gdbAlive, rawSent>>

------------------------------------------------------------------------------

Issue(t) ==
    \/ Lock(t) \/ LockResp(t) \/ Send(t) \/ Wait(t) \/ SpuriousWake(t) \/ Return(t)
    \/ RawText(t) \/ RawNewline(t)

Reader == ReadRecord \/ ReadEof \/ AbortInFlight

\* The end of a bounded run: every command issued and answered.
Quiescent ==
    /\ token > MaxCmds
    /\ \A t \in Issuers : pc[t] = "idle"
    /\ fromGdb = <<>> /\ toGdb = <<>>
    /\ UNCHANGED vars

Next ==
    \/ \E t \in Issuers : Issue(t)
    \/ GdbAnswer
    \/ GdbExit
    \/ Reader
    \/ Quiescent

Spec == Init /\ [][Next]_vars

\* A thread inside a call or a raw write keeps running, gdb answers what it
\* reads as long as it lives, and gdb-readline keeps reading.  Nobody has to
\* start a command and gdb does not have to exit.
Fairness ==
    /\ \A t \in Issuers :
          WF_vars(LockResp(t) \/ Send(t) \/ Wait(t) \/ Return(t) \/ RawNewline(t))
    /\ WF_vars(GdbAnswer)
    /\ WF_vars(Reader)

FairSpec == Spec /\ Fairness

------------------------------------------------------------------------------
(* Properties *)

\* Types of all variables.
TypeOK ==
    /\ pc \in [Issuers -> {"idle", "compose", "send", "sent", "waiting", "woken", "raw"}]
    /\ cmdMtx \in Issuers \union {NoThread}
    /\ respMtx \in Issuers \union {NoThread}
    /\ token \in Nat \ {0}
    /\ mine \in [Issuers -> Nat]
    /\ resp \in Replies
    /\ ret \in [Issuers -> Nat]
    /\ line \in Seq(Nat)
    /\ toGdb \in Seq(Seq(Nat))
    /\ fromGdb \in Seq(Replies)
    /\ gdbAlive \in BOOLEAN
    /\ reader \in {"run", "eof", "gone"}
    /\ rawSent \in Nat

\* A thread between taking the mutex m and releasing it.
Calling(t) == pc[t] \in {"compose", "send", "sent", "waiting", "woken"}

\* One command at a time: a thread inside mi_issue_cmd holds m, and the number
\* replies are compared with is the one it wrote, whatever gdb, other writers
\* and the condition variable do (gdb.cc:193-199, 296-300, 322).
CallerOwnsToken ==
    \A t \in Issuers : Calling(t) => cmdMtx = t /\ mine[t] = token

\* The request or the reply of the command issued under tok is in a pipe.
InPipe(tok) ==
    \/ \E i \in DOMAIN toGdb : toGdb[i] = <<tok>>
    \/ \E i \in DOMAIN fromGdb : fromGdb[i].token = tok

\* A sleeping caller will be signalled: its request or the reply to it is still
\* in a pipe, or gdb has exited and gdb-readline is yet to abort the command.
\* This is what taking resp_mtx before the newline is for (gdb.cc:286-293).
NoLostReply ==
    \A t \in Waiters : reader # "gone" => InPipe(mine[t]) \/ ~gdbAlive

\* A call that returns success hands out the result gdb computed for this very
\* call, not that of an earlier or of another thread's call (gdb.cc:296-316).
ReplyMatchesRequest ==
    [][\A t \in Issuers : pc[t] = "woken" /\ pc'[t] = "idle"
                          => ret'[t] \in {Failed, mine[t]}]_vars

\* Terminating, gdb-readline leaves no caller asleep (gdb.cc:517-518).
AbortReachesWaiter ==
    [][reader' = "gone" /\ reader # "gone" => \A t \in Issuers : pc'[t] # "waiting"]_vars

\* Every call returns: the caller does not sleep forever, unless the call was
\* made after gdb had exited and gdb-readline had ended (gdb.cc:517-521).
CommandReturns ==
    \A t \in Issuers :
        pc[t] \in {"compose", "waiting"} ~> pc[t] = "idle" \/ reader = "gone"

\* Why a command is answered exactly once, when nothing but numbered commands
\* is written, gdb's answers parse and nobody wakes without a signal: at most
\* one request or reply exists at a time, it carries the current token, and
\* it exists exactly while its caller is about to sleep or sleeps.
Sound == MaxRaw = 0 /\ ~Unparsable /\ ~SpuriousWakeups

MutexInv ==
    /\ CallerOwnsToken
    /\ \A t \in Issuers : /\ cmdMtx = t => Calling(t)
                          /\ respMtx = t <=> pc[t] \in {"send", "sent"}

PipeInv ==
    /\ \A t \in Issuers : pc[t] # "raw"
    /\ line = IF \E t \in Issuers : pc[t] \in {"compose", "send"} THEN <<token>> ELSE <<>>
    /\ \/ toGdb = <<>> /\ fromGdb = <<>>
       \/ /\ \E t \in Issuers : pc[t] \in {"sent", "waiting"}
          /\ \/ toGdb = << <<token>> >> /\ fromGdb = <<>>
             \/ /\ toGdb = <<>>
                /\ \E c \in {"done", "error"} : fromGdb = <<Reply(token, c, token)>>
    /\ \A t \in Issuers : pc[t] \in {"sent", "waiting"} /\ gdbAlive
                            => toGdb # <<>> \/ fromGdb # <<>>
    /\ reader # "run" => ~gdbAlive /\ fromGdb = <<>>
    /\ ~gdbAlive => toGdb = <<>>
    /\ \A t \in Issuers : pc[t] = "woken" =>
          resp.class \in {"error", "exit"} \/ (resp.class = "done" /\ resp.for = token)

ReplyInv == MutexInv /\ PipeInv

\* The outcome that waits for the thread inside mi_issue_cmd.
Outcome == IF cmdMtx = NoThread \/ pc[cmdMtx] # "woken" THEN "none"
           ELSE IF resp.class = "done" THEN "ok" ELSE "failed"

\* The number of the last command issued.
Current == IF cmdMtx = NoThread THEN token - 1 ELSE token

\* The calls of all threads together are remote procedure calls: one at a time,
\* each returning the reply to its own command (gdb.cc:164-181).
Call == INSTANCE Rpc WITH
    Threads <- Issuers,
    owner   <- cmdMtx,
    current <- Current,
    reply   <- Outcome,
    last    <- ret

ImplementsRpc == Call!Spec

==============================================================================
