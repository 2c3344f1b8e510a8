----------------------------- MODULE GdbMiProofs -----------------------------
(***************************************************************************)
(* Theorems about GdbMi, for any set of issuing threads and any bounds.    *)
(***************************************************************************)
EXTENDS GdbMi, TLAPS

\* Every variable keeps its type through every step of mi_issue_cmd,
\* mi_proc_result, the raw writer, gdb and gdb-readline.
THEOREM TypeCorrect == Spec => []TypeOK
<1>1. Init => TypeOK
  BY DEF Init, TypeOK, Reply, Replies, Failed
<1>2. TypeOK /\ [Next]_vars => TypeOK'
  <2> SUFFICES ASSUME TypeOK, [Next]_vars PROVE TypeOK'
    OBVIOUS
  <2> USE DEF TypeOK
  <2>1. ASSUME NEW t \in Issuers, Lock(t) PROVE TypeOK'
    BY <2>1 DEF Lock
  <2>2. ASSUME NEW t \in Issuers, LockResp(t) PROVE TypeOK'
    BY <2>2 DEF LockResp, pty
  <2>3. ASSUME NEW t \in Issuers, Send(t) PROVE TypeOK'
    BY <2>3 DEF Send, Newline
  <2>4. ASSUME NEW t \in Issuers, Wait(t) PROVE TypeOK'
    BY <2>4 DEF Wait, pty
  <2>5. ASSUME NEW t \in Issuers, SpuriousWake(t) PROVE TypeOK'
    BY <2>5 DEF SpuriousWake, pty
  <2>6. ASSUME NEW t \in Issuers, Return(t) PROVE TypeOK'
    BY <2>6 DEF Return, pty, Failed, Replies
  <2>7. ASSUME NEW t \in Issuers, RawText(t) PROVE TypeOK'
    BY <2>7 DEF RawText, Raw
  <2>8. ASSUME NEW t \in Issuers, RawNewline(t) PROVE TypeOK'
    BY <2>8 DEF RawNewline, Newline
  <2>9. CASE GdbAnswer
    <3>1. Head(toGdb) \in Seq(Nat) /\ Tail(toGdb) \in Seq(Seq(Nat))
      BY <2>9 DEF GdbAnswer
    <3>2. ASSUME NEW l \in Seq(Nat) PROVE Answers(l) \subseteq Replies
      BY DEF Answers, Reply, Replies, Raw
    <3>. QED
      BY <2>9, <3>1, <3>2 DEF GdbAnswer
  <2>10. CASE GdbExit
    <3>1. /\ gdbAlive' = FALSE
          /\ toGdb' = <<>>
          /\ UNCHANGED <<pc, cmdMtx, respMtx, token, mine, resp, ret, line, fromGdb,
                         reader, rawSent>>
      BY <2>10, Zenon DEF GdbExit
    <3>2. gdbAlive' \in BOOLEAN
      BY <3>1
    <3>3. toGdb' \in Seq(Seq(Nat))
      BY <3>1
    <3>. QED
      BY <3>1, <3>2, <3>3
  <2>11. ASSUME NEW r \in Replies, ProcResult(r)
         PROVE  resp' \in Replies /\ pc' \in [Issuers -> {"idle", "compose", "send",
                                               "sent", "waiting", "woken", "raw"}]
    BY <2>11 DEF ProcResult, SignalResp, Waiters
  <2>12. CASE ReadRecord
    <3>1. Head(fromGdb) \in Replies /\ Tail(fromGdb) \in Seq(Replies)
      BY <2>12 DEF ReadRecord
    <3>. QED
      BY <2>11, <2>12, <3>1 DEF ReadRecord, ProcResult
  <2>13. CASE ReadEof
    BY <2>13 DEF ReadEof, pty
  <2>14. CASE AbortInFlight
    <3>1. Reply(0, "exit", 0) \in Replies
      BY DEF Reply, Replies
    <3>. QED
      BY <2>11, <2>14, <3>1 DEF AbortInFlight, ProcResult, pty
  <2>15. CASE Quiescent
    BY <2>15 DEF Quiescent, vars
  <2>16. CASE UNCHANGED vars
    BY <2>16 DEF vars
  <2>. QED
    BY <2>1, <2>2, <2>3, <2>4, <2>5, <2>6, <2>7, <2>8, <2>9, <2>10, <2>12, <2>13,
       <2>14, <2>15, <2>16 DEF Next, Issue, Reader
<1>. QED
  BY <1>1, <1>2, PTL DEF Spec

------------------------------------------------------------------------------
(* Mutual exclusion.  This part needs nothing of gdb or of the condition    *)
(* variable: it holds with raw lines, bad records and spurious wakeups too.   *)

\* A signal moves one sleeper on and touches no other thread.
LEMMA SignalMoves ==
    ASSUME TypeOK, NEW r \in Replies, ProcResult(r)
    PROVE  \A t \in Issuers :
              pc'[t] = pc[t] \/ (pc[t] = "waiting" /\ pc'[t] = "woken")
BY DEF TypeOK, ProcResult, SignalResp, Waiters

\* Both mutexes are held by whoever is between their lock and unlock.
LEMMA MutexStep ==
    ASSUME TypeOK, MutexInv, [Next]_vars
    PROVE  MutexInv'
<1> USE DEF TypeOK, MutexInv, CallerOwnsToken, Calling
<1>1. ASSUME NEW t \in Issuers, Lock(t) PROVE MutexInv'
  BY <1>1, IssuersAssumption DEF Lock
<1>2. ASSUME NEW t \in Issuers, LockResp(t) PROVE MutexInv'
  BY <1>2, IssuersAssumption DEF LockResp
<1>3. ASSUME NEW t \in Issuers, Send(t) PROVE MutexInv'
  BY <1>3 DEF Send
<1>4. ASSUME NEW t \in Issuers, Wait(t) PROVE MutexInv'
  BY <1>4, IssuersAssumption DEF Wait
<1>5. ASSUME NEW t \in Issuers, SpuriousWake(t) PROVE MutexInv'
  BY <1>5 DEF SpuriousWake
<1>6. ASSUME NEW t \in Issuers, Return(t) PROVE MutexInv'
  BY <1>6, IssuersAssumption DEF Return
<1>7. ASSUME NEW t \in Issuers, RawText(t) \/ RawNewline(t) PROVE MutexInv'
  BY <1>7 DEF RawText, RawNewline
<1>8. ASSUME NEW r \in Replies, ProcResult(r), UNCHANGED <<cmdMtx, respMtx, token, mine>>
      PROVE  MutexInv'
  BY <1>8, SignalMoves
<1>9. CASE ReadRecord
  <2>1. Head(fromGdb) \in Replies
    BY <1>9 DEF ReadRecord
  <2>. QED
    BY <1>8, <1>9, <2>1 DEF ReadRecord, ProcResult
<1>10. CASE AbortInFlight
  <2>1. Reply(0, "exit", 0) \in Replies
    BY DEF Reply, Replies
  <2>. QED
    BY <1>8, <1>10, <2>1 DEF AbortInFlight, ProcResult
<1>11. CASE GdbAnswer \/ GdbExit \/ ReadEof \/ Quiescent \/ UNCHANGED vars
  BY <1>11 DEF GdbAnswer, GdbExit, ReadEof, Quiescent, vars
<1>. QED
  BY <1>1, <1>2, <1>3, <1>4, <1>5, <1>6, <1>7, <1>9, <1>10, <1>11
  DEF Next, Issue, Reader

\* mi_issue_cmd runs one command at a time, and the token it compares replies
\* with is that command's, whatever gdb answers (gdb.cc:193-300).
THEOREM OneCommandAtATime == Spec => []CallerOwnsToken
<1>1. Init => MutexInv
  BY IssuersAssumption DEF Init, MutexInv, CallerOwnsToken, Calling
<1>2. TypeOK /\ MutexInv /\ [Next]_vars => MutexInv'
  BY MutexStep
<1>3. MutexInv => CallerOwnsToken
  BY DEF MutexInv
<1>. QED
  BY <1>1, <1>2, <1>3, TypeCorrect, PTL DEF Spec

------------------------------------------------------------------------------
(* Replies.  This part assumes Sound: nothing but numbered commands is      *)
(* written, gdb's answers parse, and nobody wakes without a signal.           *)

\* Two threads are never inside mi_issue_cmd together.
LEMMA OnlyCaller ==
    ASSUME MutexInv, NEW t \in Issuers, Calling(t), NEW u \in Issuers, Calling(u)
    PROVE  t = u
BY DEF MutexInv, CallerOwnsToken

\* The pipes hold the request of the current call, or the reply to it, exactly
\* from the newline until gdb-readline has taken the reply.
LEMMA PipeStep ==
    ASSUME Sound, TypeOK, MutexInv, PipeInv, [Next]_vars
    PROVE  PipeInv'
<1> DEFINE InFlight(t) == pc[t] \in {"sent", "waiting"}
<1>1. ASSUME NEW t \in Issuers, Lock(t) PROVE PipeInv'
  <2>1. \A u \in Issuers : ~Calling(u)
    BY <1>1, IssuersAssumption DEF Lock, MutexInv, CallerOwnsToken
  <2>2. line = <<>> /\ toGdb = <<>> /\ fromGdb = <<>>
    BY <2>1 DEF PipeInv, Calling
  <2>3. line' = <<token>>
    BY <1>1, <2>2 DEF Lock, TypeOK
  <2>. QED
    BY <1>1, <2>1, <2>2, <2>3 DEF Lock, PipeInv, TypeOK, Calling
<1>2. ASSUME NEW t \in Issuers, LockResp(t) PROVE PipeInv'
  BY <1>2, OnlyCaller DEF LockResp, PipeInv, TypeOK, pty, Calling
<1>3. ASSUME NEW t \in Issuers, Send(t) PROVE PipeInv'
  <2>1. \A u \in Issuers : u # t => ~Calling(u)
    BY <1>3, OnlyCaller DEF Send, Calling
  <2>2. line = <<token>> /\ toGdb = <<>> /\ fromGdb = <<>>
    BY <1>3, <2>1 DEF Send, PipeInv, Calling
  <2>3. line' = <<>> /\ fromGdb' = <<>>
    BY <1>3, <2>2 DEF Send, Newline
  <2>4. toGdb' = IF gdbAlive THEN << <<token>> >> ELSE <<>>
    BY <1>3, <2>2 DEF Send, Newline, TypeOK
  <2>. QED
    BY <1>3, <2>1, <2>3, <2>4 DEF Send, PipeInv, TypeOK, Calling
<1>4. ASSUME NEW t \in Issuers, Wait(t) PROVE PipeInv'
  BY <1>4, OnlyCaller DEF Wait, PipeInv, TypeOK, pty, Calling
<1>5. ASSUME NEW t \in Issuers, SpuriousWake(t) PROVE PipeInv'
  BY <1>5 DEF SpuriousWake, Sound
<1>6. ASSUME NEW t \in Issuers, Return(t) PROVE PipeInv'
  <2>1. \A u \in Issuers : u # t => ~Calling(u)
    BY <1>6, OnlyCaller DEF Return, Calling
  <2>2. line = <<>> /\ toGdb = <<>> /\ fromGdb = <<>>
    BY <1>6, <2>1 DEF Return, PipeInv, Calling
  <2>. QED
    BY <1>6, <2>1, <2>2 DEF Return, PipeInv, TypeOK, pty, Calling
<1>7. ASSUME NEW t \in Issuers, RawText(t) \/ RawNewline(t) PROVE PipeInv'
  BY <1>7 DEF RawText, RawNewline, Sound, PipeInv, TypeOK
<1>8. CASE GdbAnswer
  <2>1. toGdb = << <<token>> >> /\ fromGdb = <<>>
    BY <1>8 DEF GdbAnswer, PipeInv
  <2>2. PICK t \in Issuers : InFlight(t)
    BY <2>1 DEF PipeInv
  <2>3. Answers(Head(toGdb)) = {Reply(token, c, token) : c \in {"done", "error"}}
    BY <2>1, SwitchAssumption DEF Answers, Sound, TypeOK, Raw
  <2>4. \E c \in {"done", "error"} : fromGdb' = <<Reply(token, c, token)>>
    BY <1>8, <2>1, <2>3 DEF GdbAnswer
  <2>5. toGdb' = <<>>
    BY <1>8, <2>1 DEF GdbAnswer
  <2>. QED
    BY <1>8, <2>2, <2>4, <2>5 DEF GdbAnswer, PipeInv
<1>9. CASE GdbExit
  BY <1>9 DEF GdbExit, PipeInv
<1>10. CASE ReadRecord
  <2>1. PICK t \in Issuers, c \in {"done", "error"} :
            InFlight(t) /\ toGdb = <<>> /\ fromGdb = <<Reply(token, c, token)>>
    BY <1>10 DEF ReadRecord, PipeInv
  <2>2. Head(fromGdb) = Reply(token, c, token) /\ fromGdb' = <<>>
    BY <1>10, <2>1 DEF ReadRecord
  <2>3. respMtx = NoThread /\ resp' = Reply(token, c, token) /\ SignalResp
    <3>1. ProcResult(Reply(token, c, token))
      BY <1>10, <2>2 DEF ReadRecord
    <3>2. Reply(token, c, token).token = token
      BY DEF Reply
    <3>. QED
      BY <3>1, <3>2 DEF ProcResult
  <2>4. pc[t] = "waiting"
    BY <2>1, <2>3, IssuersAssumption DEF MutexInv
  <2>5. Waiters = {t}
    BY <2>4, OnlyCaller DEF Waiters, Calling
  <2>6. pc' = [pc EXCEPT ![t] = "woken"]
    BY <2>3, <2>5 DEF SignalResp
  <2>7. \A u \in Issuers : u # t => ~Calling(u)
    BY <2>4, OnlyCaller DEF Calling
  <2>. QED
    BY <1>10, <2>1, <2>2, <2>3, <2>4, <2>6, <2>7
    DEF ReadRecord, PipeInv, TypeOK, Calling, Reply
<1>11. CASE ReadEof
  BY <1>11 DEF ReadEof, PipeInv, pty
<1>12. CASE AbortInFlight
  <2>1. respMtx = NoThread /\ resp' = Reply(0, "exit", 0)
    BY <1>12 DEF AbortInFlight, ProcResult, Reply
  <2>2. Reply(0, "exit", 0) \in Replies
    BY DEF Reply, Replies
  <2>3. \A u \in Issuers :
           pc'[u] = pc[u] \/ (pc[u] = "waiting" /\ pc'[u] = "woken")
    BY <1>12, <2>2, SignalMoves DEF AbortInFlight
  <2>4. toGdb = <<>> /\ fromGdb = <<>> /\ ~gdbAlive
    BY <1>12 DEF AbortInFlight, PipeInv
  <2>. QED
    BY <1>12, <2>1, <2>3, <2>4 DEF AbortInFlight, PipeInv, pty, Reply
<1>13. CASE Quiescent \/ UNCHANGED vars
  BY <1>13 DEF Quiescent, vars, PipeInv
<1>. QED
  BY <1>1, <1>2, <1>3, <1>4, <1>5, <1>6, <1>7, <1>8, <1>9, <1>10, <1>11, <1>12, <1>13
  DEF Next, Issue, Reader

\* The inductive invariant behind the theorems below.
LEMMA ReplyInvariant == ASSUME Sound PROVE Spec => []ReplyInv
<1>1. Init => ReplyInv
  BY IssuersAssumption
  DEF Init, ReplyInv, MutexInv, CallerOwnsToken, Calling, PipeInv
<1>2. TypeOK /\ ReplyInv /\ [Next]_vars => ReplyInv'
  BY MutexStep, PipeStep DEF ReplyInv
<1>. QED
  BY <1>1, <1>2, TypeCorrect, PTL DEF Spec

\* No reply is lost between a caller's newline and its sleep: while
\* gdb-readline runs, a sleeping caller has its request or its reply in a pipe,
\* or gdb is gone and the abort is to come (gdb.cc:286-293, 319-337).
THEOREM RepliesAreNotLost == ASSUME Sound PROVE Spec => []NoLostReply
<1>1. ReplyInv => NoLostReply
  <2> SUFFICES ASSUME ReplyInv, NEW t \in Waiters, gdbAlive PROVE InPipe(mine[t])
    BY DEF NoLostReply
  <2>1. t \in Issuers /\ pc[t] = "waiting" /\ mine[t] = token
    BY DEF Waiters, ReplyInv, MutexInv, CallerOwnsToken, Calling
  <2>2. CASE toGdb = << <<token>> >>
    BY <2>1, <2>2 DEF InPipe
  <2>3. ASSUME NEW c \in {"done", "error"}, fromGdb = <<Reply(token, c, token)>>
        PROVE  InPipe(mine[t])
    BY <2>1, <2>3 DEF InPipe, Reply
  <2>. QED
    BY <2>1, <2>2, <2>3 DEF ReplyInv, PipeInv
<1>. QED
  BY <1>1, ReplyInvariant, PTL

\* A call that succeeds returns the result of its own command
\* (gdb.cc:296-316, 322).
THEOREM RepliesMatchRequests == ASSUME Sound PROVE Spec => ReplyMatchesRequest
<1>1. ASSUME TypeOK, ReplyInv, Next, NEW t \in Issuers, pc[t] = "woken", pc'[t] = "idle"
      PROVE  ret'[t] \in {Failed, mine[t]}
  <2>1. PICK u \in Issuers : Return(u) \/ RawNewline(u)
    <3>1. ASSUME NEW u \in Issuers, Issue(u), ~Return(u), ~RawNewline(u)
          PROVE  pc'[t] # "idle"
      BY <1>1, <3>1 DEF Issue, Lock, LockResp, Send, Wait, SpuriousWake, RawText, TypeOK
    <3>2. ASSUME NEW r \in Replies, ProcResult(r) PROVE pc'[t] # "idle"
      BY <1>1, <3>2, SignalMoves
    <3>3. ~ReadRecord
      BY <1>1, <3>2 DEF ReadRecord, TypeOK
    <3>4. ~AbortInFlight
      BY <1>1, <3>2 DEF AbortInFlight, Reply, Replies
    <3>. QED
      BY <1>1, <3>1, <3>3, <3>4
      DEF Next, Reader, GdbAnswer, GdbExit, ReadEof, Quiescent, vars
  <2>2. ~RawNewline(u)
    BY <1>1 DEF RawNewline, ReplyInv, PipeInv
  <2>3. u = t
    BY <1>1, <2>1, <2>2 DEF Return, TypeOK
  <2>4. mine[t] = token
    BY <1>1 DEF ReplyInv, MutexInv, CallerOwnsToken, Calling
  <2>. QED
    BY <1>1, <2>1, <2>2, <2>3, <2>4 DEF Return, ReplyInv, PipeInv, TypeOK
<1>2. TypeOK /\ ReplyInv /\ [Next]_vars
      => [\A t \in Issuers : pc[t] = "woken" /\ pc'[t] = "idle"
                             => ret'[t] \in {Failed, mine[t]}]_vars
  BY <1>1
<1>. QED
  BY <1>2, TypeCorrect, ReplyInvariant, PTL DEF Spec, ReplyMatchesRequest

------------------------------------------------------------------------------
(* Refinement *)

\* Steps that leave the mapped variables alone.
LEMMA Stutter ==
    ASSUME UNCHANGED <<cmdMtx, token, ret>>, Outcome' = Outcome
    PROVE  UNCHANGED Call!vars
BY DEF Outcome, Current, Call!vars

\* mi_issue_cmd, the condition variable and gdb-readline together implement
\* the remote procedure call of Rpc: one call at a time, each returning the
\* reply to its own request or a failure (gdb.cc:164-337).
THEOREM MiImplementsRpc == ASSUME Sound PROVE Spec => ImplementsRpc
<1>1. Init => Call!Init
  BY DEF Init, Call!Init, Call!None, Call!Failed, Failed, Outcome, Current
<1>2. ASSUME TypeOK, ReplyInv, [Next]_vars PROVE [Call!Next]_(Call!vars)
  <2> USE <1>2 DEF TypeOK
  <2>1. ASSUME NEW t \in Issuers, Lock(t) PROVE Call!Begin(t)
    BY <2>1, IssuersAssumption DEF Lock, Call!Begin, Outcome, Current
  <2>2. ASSUME NEW t \in Issuers, LockResp(t) PROVE UNCHANGED Call!vars
    <3>1. cmdMtx = t
      BY <2>2 DEF LockResp, ReplyInv, MutexInv, CallerOwnsToken, Calling
    <3>. QED
      BY <2>2, <3>1, Stutter DEF LockResp, Outcome
  <2>3. ASSUME NEW t \in Issuers, Send(t) PROVE UNCHANGED Call!vars
    <3>1. cmdMtx = t
      BY <2>3 DEF Send, ReplyInv, MutexInv, CallerOwnsToken, Calling
    <3>. QED
      BY <2>3, <3>1, Stutter DEF Send, Outcome
  <2>4. ASSUME NEW t \in Issuers, Wait(t) PROVE UNCHANGED Call!vars
    <3>1. cmdMtx = t
      BY <2>4 DEF Wait, ReplyInv, MutexInv, CallerOwnsToken, Calling
    <3>. QED
      BY <2>4, <3>1, Stutter DEF Wait, Outcome
  <2>5. ASSUME NEW t \in Issuers, Return(t) PROVE Call!End(t)
    <3>1. cmdMtx = t
      BY <2>5 DEF Return, ReplyInv, MutexInv, CallerOwnsToken, Calling
    <3>2. \/ resp.class \in {"error", "exit"}
          \/ resp.class = "done" /\ resp.for = token
      BY <2>5 DEF Return, ReplyInv, PipeInv
    <3>3. /\ cmdMtx # NoThread /\ cmdMtx' = NoThread
          /\ pc[cmdMtx] = "woken"
          /\ token' = token + 1
          /\ ret' = [ret EXCEPT ![t] = IF resp.class \in {"error", "exit"}
                                       THEN Failed ELSE resp.for]
      BY <2>5, <3>1, IssuersAssumption DEF Return
    <3>4. Current = token /\ Current' = token
      BY <3>3 DEF Current
    <3>5. Outcome' = Call!None
      BY <3>3 DEF Outcome, Call!None
    <3>6. CASE resp.class \in {"error", "exit"}
      <4>1. Outcome = "failed"
        BY <3>3, <3>6 DEF Outcome
      <4>2. ret' = [ret EXCEPT ![t] = Failed]
        BY <3>3, <3>6
      <4>. QED
        BY <3>1, <3>3, <3>4, <3>5, <4>1, <4>2 DEF Call!End, Call!None, Call!Failed, Failed
    <3>7. CASE resp.class = "done" /\ resp.for = token
      <4>1. Outcome = "ok"
        BY <3>3, <3>7 DEF Outcome
      <4>2. ret' = [ret EXCEPT ![t] = token]
        BY <3>3, <3>7
      <4>. QED
        BY <3>1, <3>3, <3>4, <3>5, <4>1, <4>2 DEF Call!End, Call!None
    <3>. QED
      BY <3>2, <3>6, <3>7
  <2>6. CASE ReadRecord \/ AbortInFlight
    <3>1. PICK r \in Replies : ProcResult(r) /\ UNCHANGED <<cmdMtx, token, ret>>
      <4>1. CASE ReadRecord
        <5>1. Head(fromGdb) \in Replies
          BY <4>1 DEF ReadRecord
        <5>. QED
          BY <4>1, <5>1 DEF ReadRecord
      <4>2. CASE AbortInFlight
        <5>1. Reply(0, "exit", 0) \in Replies
          BY DEF Reply, Replies
        <5>. QED
          BY <4>2, <5>1 DEF AbortInFlight
      <4>. QED
        BY <2>6, <4>1, <4>2
    <3>2. \A t \in Issuers :
             pc'[t] = pc[t] \/ (pc[t] = "waiting" /\ pc'[t] = "woken")
      BY <3>1, SignalMoves
    <3>3. CASE cmdMtx = NoThread
      BY <3>1, <3>3, Stutter DEF Outcome
    <3>4. CASE cmdMtx # NoThread /\ pc[cmdMtx] \notin {"waiting", "woken"}
      BY <3>1, <3>2, <3>4, Stutter DEF Outcome
    <3>5. CASE cmdMtx # NoThread /\ pc[cmdMtx] = "waiting"
      <4>1. CASE pc'[cmdMtx] = "waiting"
        BY <3>1, <3>5, <4>1, Stutter DEF Outcome
      <4>2. CASE pc'[cmdMtx] = "woken"
        BY <3>1, <3>5, <4>2 DEF Call!Next, Call!Answer, Call!None, Outcome, Current
      <4>. QED
        BY <3>2, <3>5, <4>1, <4>2
    <3>6. CASE cmdMtx # NoThread /\ pc[cmdMtx] = "woken"
      <4>1. pc'[cmdMtx] = "woken"
        BY <3>2, <3>6
      <4>2. fromGdb = <<>>
        BY <3>6, OnlyCaller DEF ReplyInv, PipeInv, Calling
      <4>3. AbortInFlight
        BY <2>6, <4>2 DEF ReadRecord
      <4>4. resp' = Reply(0, "exit", 0)
        BY <4>3 DEF AbortInFlight, ProcResult, Reply
      <4>5. resp'.class = "exit"
        BY <4>4 DEF Reply
      <4>. QED
        BY <3>1, <3>6, <4>1, <4>5 DEF Call!Next, Call!Abort, Outcome, Current
    <3>. QED
      BY <3>3, <3>4, <3>5, <3>6
  <2>7. CASE GdbAnswer \/ GdbExit \/ ReadEof \/ Quiescent \/ UNCHANGED vars
    BY <2>7, Stutter DEF GdbAnswer, GdbExit, ReadEof, Quiescent, vars, Outcome
  <2>8. ASSUME NEW t \in Issuers
        PROVE  ~SpuriousWake(t) /\ ~RawText(t) /\ ~RawNewline(t)
    BY DEF SpuriousWake, RawText, RawNewline, Sound, ReplyInv, PipeInv
  <2>. QED
    BY <2>1, <2>2, <2>3, <2>4, <2>5, <2>6, <2>7, <2>8
    DEF Next, Issue, Reader, Call!Next
<1>. QED
  BY <1>1, <1>2, TypeCorrect, ReplyInvariant, PTL DEF Spec, ImplementsRpc, Call!Spec

==============================================================================
