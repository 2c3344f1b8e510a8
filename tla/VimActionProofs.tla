---------------------------- MODULE VimActionProofs ----------------------------
(***************************************************************************)
(* Theorems about VimAction, for any set of callers and any bounds.        *)
(***************************************************************************)
EXTENDS VimAction, TLAPS

Requests == [kind : {"cmd", "fct"}, no : Nat]
Replies  == [kind : {"value", "empty"}, no : Nat]
Lines    == [kind : {"value", "empty", "key"}, no : Nat]
Events   == [kind : {"key", "disconnect"}, no : Nat]

MainOnly == {"read", "asleep", "signalled", "quit"}

TypeOK ==
    /\ pc \in [Callers -> MainOnly \union {"out", "in"} \union InFct]
    /\ uiMtx \in Callers \union {NoThread}
    /\ replyMtx \in Callers \union {NoThread}
    /\ seq \in Nat
    /\ mine \in [Callers -> Nat]
    /\ reply \in Replies
    /\ got \in [Callers -> Nat]
    /\ toVim \in Seq(Requests)
    /\ fromVim \in Seq(Lines)
    /\ linkUp \in BOOLEAN
    /\ reader \in {"run", "gone"}
    /\ events \in Seq(Events)
    /\ spurious \in BOOLEAN

\* readline does not look at the queue again after a signal.
NoNullEvent ==
    /\ pc[Main] = "asleep" => events = <<>>
    /\ pc[Main] = "signalled" => events # <<>>

TypeInv == TypeOK /\ NoNullEvent

\* What is taken from a queue, and what is put into one.
LEMMA HeadTail ==
    ASSUME NEW S, NEW s \in Seq(S), s # <<>>
    PROVE  Head(s) \in S /\ Tail(s) \in Seq(S)
OBVIOUS

LEMMA AppendType ==
    ASSUME NEW S, NEW s \in Seq(S), NEW x \in S
    PROVE  Append(s, x) \in Seq(S) /\ Append(s, x) # <<>>
OBVIOUS

\* A line is sent, or lost on a closed connection.
LEMMA TransmitType ==
    ASSUME TypeOK, NEW msg \in Requests, Transmit(msg)
    PROVE  toVim' \in Seq(Requests) /\ UNCHANGED <<fromVim, linkUp>>
<1>1. toVim' = Append(toVim, msg) \/ toVim' = toVim
  BY Zenon DEF Transmit
<1>2. toVim' \in Seq(Requests)
  BY <1>1, AppendType DEF TypeOK
<1>. QED
  BY <1>2, Zenon DEF Transmit

\* A signal moves one sleeper on and touches no other thread.
LEMMA SignalMoves ==
    ASSUME TypeOK, NEW r, ProcReply(r)
    PROVE  /\ pc' \in [Callers -> MainOnly \union {"out", "in"} \union InFct]
           /\ \A t \in Callers :
                 pc'[t] = pc[t] \/ (pc[t] = "waiting" /\ pc'[t] = "woken")
BY DEF TypeOK, ProcReply, Waiters, Goto, InFct

\* An event is queued, and a sleeping main thread is signalled.
LEMMA EventQueued ==
    ASSUME TypeInv, NEW e \in Events, ProcEvent(e)
    PROVE  /\ events' \in Seq(Events) /\ events' # <<>>
           /\ pc' \in [Callers -> MainOnly \union {"out", "in"} \union InFct]
           /\ pc'[Main] # "asleep"
           /\ \A t \in Callers :
                 pc'[t] = pc[t] \/ (pc[t] = "asleep" /\ pc'[t] = "signalled")
BY CallersAssumption, AppendType DEF TypeInv, TypeOK, ProcEvent, Goto, MainOnly, InFct

\* Every variable keeps its type, and the main thread never takes an event
\* from an empty queue, although readline (vimui.cc) does not look at the queue
\* again after it was signalled.
THEOREM TypeCorrect == Spec => []TypeInv
<1>1. Init => TypeInv
  <2> SUFFICES ASSUME Init PROVE TypeInv
    OBVIOUS
  <2>1. linkUp \in BOOLEAN /\ spurious \in BOOLEAN
    BY Zenon DEF Init
  <2>2. reply \in Replies
    BY DEF Init, Reply, Replies
  <2>3. /\ toVim \in Seq(Requests)
        /\ fromVim \in Seq(Lines)
        /\ events \in Seq(Events)
    BY DEF Init
  <2>4. pc \in [Callers -> MainOnly \union {"out", "in"} \union InFct]
    BY DEF Init, MainOnly, InFct
  <2>5. NoNullEvent
    BY CallersAssumption DEF Init, NoNullEvent
  <2>6. /\ uiMtx \in Callers \union {NoThread} /\ replyMtx \in Callers \union {NoThread}
        /\ seq \in Nat /\ mine \in [Callers -> Nat] /\ got \in [Callers -> Nat]
        /\ reader \in {"run", "gone"}
    BY DEF Init, Failed
  <2>. QED
    BY <2>1, <2>2, <2>3, <2>4, <2>5, <2>6 DEF TypeInv, TypeOK
<1>2. TypeInv /\ [Next]_vars => TypeInv'
  <2> SUFFICES ASSUME TypeInv, [Next]_vars PROVE TypeInv'
    OBVIOUS
  <2> USE CallersAssumption DEF TypeInv, TypeOK, NoNullEvent, Goto, MainOnly, InFct
  <2>1. ASSUME NEW t \in Callers, Enter(t) PROVE TypeInv'
    BY <2>1 DEF Enter, locals, link
  <2>2. ASSUME NEW t \in Callers, IssueCmd(t) PROVE TypeInv'
    <3>1. Cmd(seq + 1) \in Requests
      BY DEF Cmd, Requests
    <3>. QED
      BY <2>2, <3>1, TransmitType DEF IssueCmd, locals
  <2>3. ASSUME NEW t \in Callers, IssueFct(t) PROVE TypeInv'
    BY <2>3 DEF IssueFct, link
  <2>4. ASSUME NEW t \in Callers, SpuriousWake(t) PROVE TypeInv'
    BY <2>4 DEF SpuriousWake, locals, link
  <2>5. ASSUME NEW t \in Callers, LockReply(t) PROVE TypeInv'
    BY <2>5 DEF LockReply, locals, link
  <2>6. ASSUME NEW t \in Callers, Send(t) PROVE TypeInv'
    <3>1. Fct(mine[t]) \in Requests
      BY DEF Fct, Requests
    <3>. QED
      BY <2>6, <3>1, TransmitType DEF Send, locals
  <2>7. ASSUME NEW t \in Callers, Wait(t) PROVE TypeInv'
    BY <2>7 DEF Wait, locals, link
  <2>8. ASSUME NEW t \in Callers, Regain(t) PROVE TypeInv'
    BY <2>8 DEF Regain, locals, link
  <2>9. ASSUME NEW t \in Callers, Fetch(t) PROVE TypeInv'
    BY <2>9 DEF Fetch, link, Replies, Failed
  <2>10. ASSUME NEW t \in Callers, Leave(t) PROVE TypeInv'
    BY <2>10 DEF Leave, locals, link
  <2>11. CASE ReadSleep
    BY <2>11 DEF ReadSleep, locals, link
  <2>12. CASE ReadEvent
    BY <2>12 DEF ReadEvent, locals, link
  <2>13. CASE NextLine
    BY <2>13 DEF NextLine, locals, link
  <2>14. CASE VimExecute
    <3>1. Head(toVim) \in Requests /\ Tail(toVim) \in Seq(Requests)
      BY <2>14, HeadTail DEF VimExecute
    <3>2. ASSUME NEW value \in BOOLEAN PROVE Reply(Head(toVim).no, value) \in Lines
      BY <3>1 DEF Reply, Requests, Lines
    <3>3. fromVim' \in Seq(Lines)
      <4>1. \/ fromVim' = fromVim
            \/ \E value \in BOOLEAN : fromVim' = Append(fromVim, Reply(Head(toVim).no, value))
        BY <2>14, Zenon DEF VimExecute
      <4>2. ASSUME NEW value \in BOOLEAN
            PROVE  Append(fromVim, Reply(Head(toVim).no, value)) \in Seq(Lines)
        BY <3>2, AppendType
      <4>. QED
        BY <4>1, <4>2
    <3>. QED
      BY <2>14, <3>1, <3>3 DEF VimExecute, locals
  <2>15. CASE VimEvent
    BY <2>15 DEF VimEvent, Event, Lines, locals
  <2>16. CASE VimClose
    <3>1. linkUp' \in BOOLEAN
      BY <2>16, Zenon DEF VimClose
    <3>. QED
      BY <2>16, <3>1 DEF VimClose, locals
  <2>17. CASE ParseReply
    <3>0. Head(fromVim) \in Lines /\ Tail(fromVim) \in Seq(Lines)
      BY <2>17, HeadTail DEF ParseReply
    <3>1. Head(fromVim) \in Replies
      BY <2>17, <3>0 DEF ParseReply, Lines, Replies
    <3>2. reply' \in Replies
      BY <2>17, <3>1 DEF ParseReply, ProcReply
    <3>3. ProcReply(Head(fromVim))
      BY <2>17 DEF ParseReply
    <3>. QED
      BY <2>17, <3>0, <3>2, <3>3, SignalMoves DEF ParseReply, locals
  <2>18. CASE ParseEvent
    <3>1. Head(fromVim) \in Lines /\ Tail(fromVim) \in Seq(Lines)
      BY <2>18, HeadTail DEF ParseEvent
    <3>2. Head(fromVim) \in Events
      BY <2>18, <3>1 DEF ParseEvent, Lines, Events
    <3>. QED
      BY <2>18, <3>1, <3>2, EventQueued DEF ParseEvent, locals
  <2>19. CASE ReadEof
    <3>1. Event("disconnect") \in Events
      BY DEF Event, Events
    <3>. QED
      BY <2>19, <3>1, EventQueued DEF ReadEof, locals, link
  <2>20. CASE UNCHANGED vars
    BY <2>20 DEF vars, locals, link
  <2>. QED
    BY <2>1, <2>2, <2>3, <2>4, <2>5, <2>6, <2>7, <2>8, <2>9, <2>10, <2>11, <2>12, <2>13,
       <2>14, <2>15, <2>16, <2>17, <2>18, <2>19, <2>20
    DEF Next, Window, Proceed, MainLoop, Reader, Vim
<1>. QED
  BY <1>1, <1>2, PTL DEF Spec

------------------------------------------------------------------------------
(* Mutual exclusion.  This part needs nothing of vim or of the condition     *)
(* variable: it holds with spurious wakeups and closed connections too.       *)

\* ui_mtx is held by whoever is inside a window function, reply_mtx from before
\* the newline to the wait.
LEMMA MutexStep ==
    ASSUME TypeInv, MutexInv, [Next]_vars
    PROVE  MutexInv'
<1> USE CallersAssumption DEF TypeInv, TypeOK, MutexInv, CallerOwnsSeq, Goto, InFct
<1>1. ASSUME NEW t \in Callers, Enter(t) PROVE MutexInv'
  BY <1>1 DEF Enter, locals
<1>2. ASSUME NEW t \in Callers, Leave(t) PROVE MutexInv'
  BY <1>2 DEF Leave, locals
<1>3. ASSUME NEW t \in Callers, IssueCmd(t) PROVE MutexInv'
  BY <1>3 DEF IssueCmd, locals
<1>4. ASSUME NEW t \in Callers, IssueFct(t) PROVE MutexInv'
  BY <1>4 DEF IssueFct
<1>5. ASSUME NEW t \in Callers, LockReply(t) PROVE MutexInv'
  BY <1>5 DEF LockReply, locals
<1>6. ASSUME NEW t \in Callers, Send(t) PROVE MutexInv'
  BY <1>6 DEF Send, locals
<1>7. ASSUME NEW t \in Callers, Wait(t) PROVE MutexInv'
  BY <1>7 DEF Wait, locals
<1>8. ASSUME NEW t \in Callers, SpuriousWake(t) PROVE MutexInv'
  BY <1>8 DEF SpuriousWake, locals
<1>9. ASSUME NEW t \in Callers, Regain(t) PROVE MutexInv'
  BY <1>9 DEF Regain, locals
<1>10. ASSUME NEW t \in Callers, Fetch(t) PROVE MutexInv'
  BY <1>10 DEF Fetch
<1>11. CASE MainLoop
  BY <1>11 DEF MainLoop, ReadSleep, ReadEvent, NextLine, locals
<1>12. ASSUME UNCHANGED <<pc, uiMtx, replyMtx, seq, mine>> PROVE MutexInv'
  BY <1>12
<1>13. CASE Vim
  BY <1>12, <1>13 DEF Vim, VimExecute, VimEvent, VimClose, locals
<1>14. CASE ParseReply
  <2>1. \A t \in Callers : pc'[t] = pc[t] \/ (pc[t] = "waiting" /\ pc'[t] = "woken")
    BY <1>14, SignalMoves DEF ParseReply
  <2>. QED
    BY <1>14, <2>1 DEF ParseReply, ProcReply, locals
<1>15. CASE ParseEvent \/ ReadEof
  <2>1. PICK e \in Events : ProcEvent(e)
    <3>1. ASSUME ParseEvent PROVE Head(fromVim) \in Events
      <4>1. Head(fromVim) \in Lines
        BY <3>1, HeadTail DEF ParseEvent
      <4>. QED
        BY <3>1, <4>1 DEF ParseEvent, Lines, Events
    <3>2. Event("disconnect") \in Events
      BY DEF Event, Events
    <3>. QED
      BY <1>15, <3>1, <3>2 DEF ParseEvent, ReadEof
  <2>2. \A t \in Callers :
           pc'[t] = pc[t] \/ (pc[t] = "asleep" /\ pc'[t] = "signalled")
    BY <2>1, EventQueued
  <2>. QED
    BY <1>15, <2>2 DEF ParseEvent, ReadEof, locals
<1>16. CASE UNCHANGED vars
  BY <1>12, <1>16 DEF vars, locals
<1>. QED
  BY <1>1, <1>2, <1>3, <1>4, <1>5, <1>6, <1>7, <1>8, <1>9, <1>10, <1>11, <1>13,
     <1>14, <1>15, <1>16
  DEF Next, Window, Proceed, Reader

\* action() does not take ui_mtx: all of its callers hold it, and while one is
\* inside a function the number proc_reply compares with is the one it sent,
\* whatever vim, the condition variable and the connection do
\* (vimui.cc:740, 769-781).
THEOREM OneFunctionAtATime == Spec => []CallerOwnsSeq
<1>1. Init => MutexInv
  BY CallersAssumption DEF Init, MutexInv, CallerOwnsSeq, InFct
<1>2. TypeInv /\ MutexInv /\ [Next]_vars => MutexInv'
  BY MutexStep
<1>3. MutexInv => CallerOwnsSeq
  BY DEF MutexInv
<1>. QED
  BY <1>1, <1>2, <1>3, TypeCorrect, PTL DEF Spec

------------------------------------------------------------------------------
(* Replies.  This part holds until a caller wakes without a signal.          *)

\* The messages of a queue after one is taken, and after one is put into it.
LEMMA TailIndex ==
    ASSUME NEW S, NEW s \in Seq(S), s # <<>>
    PROVE  /\ 1 \in DOMAIN s /\ s[1] = Head(s)
           /\ \A i \in DOMAIN Tail(s) :
                 i + 1 \in DOMAIN s /\ i + 1 # 1 /\ Tail(s)[i] = s[i + 1]
           /\ \A i \in DOMAIN s : i # 1 => i - 1 \in DOMAIN Tail(s) /\ Tail(s)[i - 1] = s[i]
           /\ \A i, j \in DOMAIN Tail(s) : i + 1 = j + 1 => i = j
OBVIOUS

LEMMA AppendIndex ==
    ASSUME NEW S, NEW s \in Seq(S), NEW x
    PROVE  /\ \A i \in DOMAIN Append(s, x) :
                 \/ i \in DOMAIN s /\ Append(s, x)[i] = s[i]
                 \/ i = Len(s) + 1 /\ i \notin DOMAIN s /\ Append(s, x)[i] = x
           /\ \A i \in DOMAIN s : i \in DOMAIN Append(s, x) /\ Append(s, x)[i] = s[i]
           /\ Len(s) + 1 \in DOMAIN Append(s, x) /\ Append(s, x)[Len(s) + 1] = x
OBVIOUS

\* Whoever is inside a window function is the only one.
LEMMA OnlyCaller ==
    ASSUME MutexInv, NEW t \in Callers, pc[t] \in {"in"} \union InFct,
           NEW u \in Callers, pc[u] \in {"in"} \union InFct
    PROVE  t = u
BY DEF MutexInv

\* Before the newline and after the reply the pipes hold nothing of a function.
LEMMA QuietPipes ==
    ASSUME MutexInv, PipeInv, NEW t \in Callers,
           pc[t] \in {"in", "fct", "locked", "woken", "fetch"}
    PROVE  /\ \A u \in Callers : pc[u] \notin {"sent", "waiting"}
           /\ \A u \in Callers : u # t => pc[u] \notin {"in"} \union InFct
           /\ \A i \in DOMAIN toVim : toVim[i].kind # "fct"
           /\ \A i \in DOMAIN fromVim : ~IsReply(fromVim[i])
<1>1. \A u \in Callers : u # t => pc[u] \notin {"in"} \union InFct
  BY OnlyCaller DEF InFct
<1>2. \A u \in Callers : pc[u] \notin {"sent", "waiting"}
  BY <1>1 DEF InFct
<1>. QED
  BY <1>1, <1>2 DEF PipeInv

\* A step that moves nobody into or out of the two halves of a call, and
\* leaves the pipes alone, keeps PipeInv.
LEMMA PipeKept ==
    ASSUME PipeInv, UNCHANGED <<seq, reply, toVim, fromVim>>, linkUp' => linkUp,
           \A t \in Callers :
              /\ pc'[t] \in {"sent", "waiting"} <=> pc[t] \in {"sent", "waiting"}
              /\ pc'[t] \in {"woken", "fetch"} => pc[t] \in {"woken", "fetch"}
    PROVE  PipeInv'
BY DEF PipeInv, Asked, Answered, IsReply

\* A reply meets its caller asleep: the caller holds reply_mtx from before the
\* newline to the wait (vimui.cc:769-781), so that the signal is never early.
LEMMA ReplyMeetsCaller ==
    ASSUME TypeInv, MutexInv, PipeInv, ParseReply
    PROVE  \E t \in Callers :
              /\ pc[t] = "waiting" /\ pc' = [pc EXCEPT ![t] = "woken"]
              /\ reply' = Head(fromVim)
<1> USE DEF TypeInv, TypeOK
<1>1. /\ fromVim # <<>> /\ IsReply(Head(fromVim)) /\ ProcReply(Head(fromVim))
  BY DEF ParseReply, IsReply
<1>2. 1 \in DOMAIN fromVim /\ fromVim[1] = Head(fromVim)
  BY <1>1, TailIndex
<1>3. PICK t \in Callers : pc[t] \in {"sent", "waiting"} /\ Head(fromVim).no = seq
  BY <1>1, <1>2 DEF PipeInv
<1>4. /\ replyMtx = NoThread /\ reply' = Head(fromVim)
      /\ IF Waiters = {} THEN UNCHANGED pc ELSE \E w \in Waiters : Goto(w, "woken")
  BY <1>1, <1>3 DEF ProcReply
<1>5. pc[t] = "waiting"
  BY <1>3, <1>4, CallersAssumption DEF MutexInv
<1>6. Waiters = {t}
  BY <1>5, OnlyCaller DEF Waiters, InFct
<1>. QED
  BY <1>4, <1>5, <1>6 DEF Goto

\* The pipes hold the request of the current call, or the reply to it, at most
\* once, from the newline until vim-readline has taken the reply.
LEMMA PipeStep ==
    ASSUME TypeInv, MutexInv, PipeInv, [Next]_vars, ~spurious'
    PROVE  PipeInv'
<1> USE CallersAssumption DEF TypeInv, TypeOK
<1>1. ASSUME NEW t \in Callers, Enter(t) \/ Leave(t) \/ LockReply(t) \/ Wait(t) PROVE PipeInv'
  BY <1>1, PipeKept DEF Enter, Leave, LockReply, Wait, Goto, link
<1>2. ASSUME NEW t \in Callers, Regain(t) \/ Fetch(t) PROVE PipeInv'
  BY <1>2, PipeKept DEF Regain, Fetch, Goto, link
<1>3. CASE MainLoop
  BY <1>3, PipeKept DEF MainLoop, ReadSleep, ReadEvent, NextLine, Goto, link
<1>4. ASSUME NEW t \in Callers, IssueCmd(t) PROVE PipeInv'
  <2>1. /\ \A u \in Callers : pc[u] \notin {"sent", "waiting"}
        /\ \A u \in Callers : u # t => pc[u] \notin {"in"} \union InFct
        /\ \A i \in DOMAIN toVim : toVim[i].kind # "fct"
        /\ \A i \in DOMAIN fromVim : ~IsReply(fromVim[i])
    BY <1>4, QuietPipes DEF IssueCmd
  <2>2. toVim' = Append(toVim, Cmd(seq + 1)) \/ toVim' = toVim
    BY <1>4, Zenon DEF IssueCmd, Transmit
  <2>3. \A i \in DOMAIN toVim' : toVim'[i].kind # "fct"
    <3>1. Cmd(seq + 1).kind # "fct"
      BY DEF Cmd
    <3>. QED
      <4>1. CASE toVim' = toVim
        BY <2>1, <4>1
      <4>2. CASE toVim' = Append(toVim, Cmd(seq + 1))
        BY <2>1, <3>1, <4>2, AppendIndex
      <4>. QED
        BY <2>2, <4>1, <4>2
  <2>4. UNCHANGED <<pc, fromVim, reply>> /\ pc[t] = "in"
    BY <1>4 DEF IssueCmd, Transmit
  <2>. QED
    BY <2>1, <2>3, <2>4 DEF PipeInv, InFct, IsReply
<1>5. ASSUME NEW t \in Callers, IssueFct(t) PROVE PipeInv'
  <2>1. /\ \A u \in Callers : pc[u] \notin {"sent", "waiting"}
        /\ \A u \in Callers : u # t => pc[u] \notin {"in"} \union InFct
        /\ \A i \in DOMAIN toVim : toVim[i].kind # "fct"
        /\ \A i \in DOMAIN fromVim : ~IsReply(fromVim[i])
    BY <1>5, QuietPipes DEF IssueFct
  <2>2. UNCHANGED <<toVim, fromVim, reply>> /\ pc' = [pc EXCEPT ![t] = "fct"]
    BY <1>5 DEF IssueFct, Goto, link
  <2>. QED
    BY <2>1, <2>2 DEF PipeInv, InFct, IsReply
<1>6. ASSUME NEW t \in Callers, Send(t) PROVE PipeInv'
  <2>1. /\ \A u \in Callers : pc[u] \notin {"sent", "waiting"}
        /\ \A u \in Callers : u # t => pc[u] \notin {"in"} \union InFct
        /\ \A i \in DOMAIN toVim : toVim[i].kind # "fct"
        /\ \A i \in DOMAIN fromVim : ~IsReply(fromVim[i])
    BY <1>6, QuietPipes DEF Send
  <2>2. mine[t] = seq
    BY <1>6 DEF Send, MutexInv, CallerOwnsSeq, InFct
  <2>3. /\ toVim' = Append(toVim, Fct(seq)) \/ (toVim' = toVim /\ ~linkUp)
        /\ UNCHANGED <<fromVim, linkUp>>
    BY <1>6, <2>2, Zenon DEF Send, Transmit
  <2>4. /\ UNCHANGED <<seq, fromVim, reply>> /\ pc' = [pc EXCEPT ![t] = "sent"]
    BY <1>6 DEF Send, Transmit, Goto
  <2>5. CASE toVim' = toVim /\ ~linkUp
    BY <2>1, <2>3, <2>4, <2>5 DEF PipeInv, InFct, IsReply
  <2>6. CASE toVim' = Append(toVim, Fct(seq))
    <3>1. \A i \in DOMAIN toVim' : toVim'[i].kind = "fct" => i = Len(toVim) + 1 /\ toVim'[i] = Fct(seq)
      BY <2>1, <2>6, AppendIndex
    <3>2. Len(toVim) + 1 \in DOMAIN toVim' /\ toVim'[Len(toVim) + 1] = Fct(seq)
      BY <2>6, AppendIndex
    <3>3. Fct(seq).no = seq
      BY DEF Fct
    <3>4. Asked(seq)' /\ ~Answered(seq)'
      BY <2>1, <2>4, <3>2 DEF Asked, Answered, IsReply, Fct
    <3>5. pc'[t] = "sent" /\ \A u \in Callers : pc'[u] \notin {"woken", "fetch"}
      BY <1>6, <2>1, <2>4 DEF Send, InFct
    <3>. QED
      BY <2>1, <2>4, <3>1, <3>3, <3>4, <3>5 DEF PipeInv, IsReply
  <2>. QED
    BY <2>3, <2>5, <2>6
<1>7. ASSUME NEW t \in Callers, SpuriousWake(t) PROVE PipeInv'
  BY <1>7 DEF SpuriousWake
<1>8. CASE VimEvent
  <2>1. fromVim' = Append(fromVim, Event("key")) /\ UNCHANGED <<pc, seq, reply, toVim, linkUp>>
    BY <1>8 DEF VimEvent
  <2>2. ~IsReply(Event("key"))
    BY DEF IsReply, Event
  <2>3. \A i \in DOMAIN fromVim' : IsReply(fromVim'[i]) => i \in DOMAIN fromVim /\ fromVim'[i] = fromVim[i]
    BY <2>1, <2>2, AppendIndex
  <2>4. \A i \in DOMAIN fromVim : i \in DOMAIN fromVim' /\ fromVim'[i] = fromVim[i]
    BY <2>1, AppendIndex
  <2>5. Answered(seq)' <=> Answered(seq)
    BY <2>1, <2>3, <2>4 DEF Answered
  <2>. QED
    BY <2>1, <2>3, <2>5 DEF PipeInv, Asked, IsReply
<1>9. CASE VimClose
  <2>1. toVim' = <<>> /\ ~linkUp' /\ UNCHANGED <<pc, seq, reply, fromVim>>
    BY <1>9 DEF VimClose
  <2>. QED
    BY <2>1 DEF PipeInv, IsReply
<1>10. CASE VimExecute
  <2>1. /\ toVim # <<>> /\ toVim' = Tail(toVim)
        /\ UNCHANGED <<pc, seq, reply, linkUp>>
    BY <1>10, Zenon DEF VimExecute
  <2>2. 1 \in DOMAIN toVim /\ toVim[1] = Head(toVim)
    BY <2>1, TailIndex
  <2>3. \A i \in DOMAIN toVim' : i + 1 \in DOMAIN toVim /\ i + 1 # 1 /\ toVim'[i] = toVim[i + 1]
    BY <2>1, TailIndex
  <2>4. CASE Head(toVim).kind = "cmd"
    <3>1. fromVim' = fromVim
      BY <1>10, <2>4 DEF VimExecute
    <3>2. Asked(seq) => Asked(seq)'
      <4> SUFFICES ASSUME NEW i \in DOMAIN toVim, toVim[i] = Fct(seq) PROVE Asked(seq)'
        BY DEF Asked
      <4>1. i # 1
        BY <2>2, <2>4 DEF Fct
      <4>2. i - 1 \in DOMAIN toVim' /\ toVim'[i - 1] = Fct(seq)
        BY <2>1, <4>1, TailIndex
      <4>. QED
        BY <2>1, <4>2 DEF Asked, Fct
    <3>3. \A i, j \in DOMAIN toVim' : i + 1 = j + 1 => i = j
      BY <2>1, TailIndex
    <3>. QED
      BY <2>1, <2>3, <3>1, <3>2, <3>3 DEF PipeInv, Answered, IsReply
  <2>5. CASE Head(toVim).kind = "fct"
    <3>1. /\ Head(toVim).no = seq
          /\ \E t \in Callers : pc[t] \in {"sent", "waiting"}
          /\ ~Answered(seq)
          /\ \A j \in DOMAIN toVim : toVim[j].kind = "fct" => j = 1
      BY <2>2, <2>5 DEF PipeInv
    <3>2. \A i \in DOMAIN toVim' : toVim'[i].kind # "fct"
      BY <2>3, <3>1
    <3>3. \A i \in DOMAIN fromVim : ~IsReply(fromVim[i])
      BY <3>1 DEF PipeInv, Answered
    <3>4. PICK value \in BOOLEAN : fromVim' = Append(fromVim, Reply(seq, value))
      BY <1>10, <2>5, <3>1, Zenon DEF VimExecute
    <3>5. IsReply(Reply(seq, value)) /\ Reply(seq, value).no = seq
      BY DEF IsReply, Reply
    <3>6. \A i \in DOMAIN fromVim' : IsReply(fromVim'[i]) =>
             i = Len(fromVim) + 1 /\ fromVim'[i] = Reply(seq, value)
      BY <3>3, <3>4, AppendIndex
    <3>7. Answered(seq)'
      <4>1. Len(fromVim) + 1 \in DOMAIN fromVim'
            /\ fromVim'[Len(fromVim) + 1] = Reply(seq, value)
        BY <3>4, AppendIndex
      <4>. QED
        BY <2>1, <3>5, <4>1 DEF Answered, IsReply
    <3>. QED
      BY <2>1, <3>1, <3>2, <3>5, <3>6, <3>7 DEF PipeInv, IsReply
  <2>. QED
    BY <1>10, <2>4, <2>5, Zenon DEF VimExecute
<1>11. CASE ParseReply
  <2>1. /\ fromVim # <<>> /\ fromVim' = Tail(fromVim) /\ UNCHANGED <<seq, toVim>>
        /\ IsReply(Head(fromVim))
    BY <1>11 DEF ParseReply, IsReply
  <2>2. 1 \in DOMAIN fromVim /\ fromVim[1] = Head(fromVim)
    BY <2>1, TailIndex
  <2>3. /\ Head(fromVim).no = seq
        /\ \A j \in DOMAIN fromVim : IsReply(fromVim[j]) => j = 1
    BY <2>1, <2>2 DEF PipeInv
  <2>4. PICK t \in Callers :
            pc[t] = "waiting" /\ pc' = [pc EXCEPT ![t] = "woken"] /\ reply' = Head(fromVim)
    BY <1>11, ReplyMeetsCaller
  <2>5. \A u \in Callers : pc'[u] \notin {"sent", "waiting"}
    BY <2>4, OnlyCaller DEF InFct
  <2>6. \A i \in DOMAIN fromVim' : ~IsReply(fromVim'[i])
    BY <2>1, <2>3, TailIndex
  <2>7. \A i \in DOMAIN toVim : toVim[i].kind # "fct"
    BY <2>1, <2>2, <2>3 DEF PipeInv, Answered
  <2>. QED
    BY <2>1, <2>3, <2>4, <2>5, <2>6, <2>7 DEF PipeInv, IsReply
<1>12. CASE ParseEvent
  <2>1. /\ fromVim # <<>> /\ fromVim' = Tail(fromVim) /\ Head(fromVim).kind = "key"
        /\ ProcEvent(Head(fromVim)) /\ UNCHANGED <<seq, reply, toVim, linkUp>>
    BY <1>12 DEF ParseEvent
  <2>2. \A t \in Callers : pc'[t] = pc[t] \/ (pc[t] = "asleep" /\ pc'[t] = "signalled")
    BY <2>1 DEF ProcEvent, Goto
  <2>3. 1 \in DOMAIN fromVim /\ ~IsReply(fromVim[1])
    BY <2>1, TailIndex DEF IsReply
  <2>4. \A i \in DOMAIN fromVim' :
           i + 1 \in DOMAIN fromVim /\ i + 1 # 1 /\ fromVim'[i] = fromVim[i + 1]
    BY <2>1, TailIndex
  <2>5. Answered(seq)' <=> Answered(seq)
    <3>1. ASSUME Answered(seq)' PROVE Answered(seq)
      BY <2>1, <2>4, <3>1 DEF Answered, IsReply
    <3>2. ASSUME NEW i \in DOMAIN fromVim, IsReply(fromVim[i]), fromVim[i].no = seq
          PROVE  Answered(seq)'
      <4>1. i # 1
        BY <2>3, <3>2
      <4>2. i - 1 \in DOMAIN fromVim' /\ fromVim'[i - 1] = fromVim[i]
        BY <2>1, <4>1, TailIndex
      <4>. QED
        BY <2>1, <3>2, <4>2 DEF Answered, IsReply
    <3>. QED
      BY <3>1, <3>2 DEF Answered
  <2>6. \A i, j \in DOMAIN fromVim' : i + 1 = j + 1 => i = j
    BY <2>1, TailIndex
  <2>. QED
    BY <2>1, <2>2, <2>4, <2>5, <2>6 DEF PipeInv, Asked, IsReply
<1>13. CASE ReadEof
  <2>1. \A t \in Callers : pc'[t] = pc[t] \/ (pc[t] = "asleep" /\ pc'[t] = "signalled")
    BY <1>13 DEF ReadEof, ProcEvent, Goto
  <2>. QED
    BY <1>13, <2>1, PipeKept DEF ReadEof, link
<1>14. CASE UNCHANGED vars
  BY <1>14, PipeKept DEF vars, link
<1>. QED
  BY <1>1, <1>2, <1>3, <1>4, <1>5, <1>6, <1>7, <1>8, <1>9, <1>10, <1>11, <1>12, <1>13, <1>14
  DEF Next, Window, Proceed, Reader, Vim
\* The inductive invariant behind the theorems below.
LEMMA ReplyInvStep ==
    ASSUME TypeInv, ReplyInv, [Next]_vars
    PROVE  ReplyInv'
<1>1. spurious => spurious'
  BY DEF Next, Window, Proceed, Reader, Vim, MainLoop, Enter, IssueCmd, IssueFct,
     SpuriousWake, LockReply, Send, Wait, Regain, Fetch, Leave, ReadSleep, ReadEvent,
     NextLine, VimExecute, VimEvent, VimClose, ParseReply, ParseEvent, ReadEof, vars
<1>. QED
  BY <1>1, MutexStep, PipeStep DEF ReplyInv

\* Every reply that arrives is for the function that waits: dropping one under
\* another number "is safe since there can only be one outstanding action()"
\* (vimui.cc:601-602), until a caller wakes without a signal.
THEOREM OneOutstandingAction == Spec => []ReplyInv
<1>1. Init => ReplyInv
  <2>1. Init => IsReply(reply)
    BY DEF Init, Reply, IsReply
  <2>2. Init => MutexInv
    BY CallersAssumption DEF Init, MutexInv, CallerOwnsSeq, InFct
  <2>3. Init => toVim = <<>> /\ fromVim = <<>>
                /\ \A t \in Callers : pc[t] \in {"read", "out"}
    BY DEF Init
  <2>. QED
    BY <2>1, <2>2, <2>3 DEF ReplyInv, PipeInv
<1>2. TypeInv /\ ReplyInv /\ [Next]_vars => ReplyInv'
  BY ReplyInvStep
<1>. QED
  BY <1>1, <1>2, TypeCorrect, PTL DEF Spec

\* A function that yields a value yields the one vim sent for this very call,
\* although the reply is read without the mutex and never reset
\* (vimui.cc:785-790), until a caller wakes without a signal.
THEOREM RepliesMatchActions == Spec => ReplyMatchesAction
<1>1. ASSUME TypeInv, ReplyInv, Next, ~spurious, NEW t \in Callers,
             pc[t] = "fetch", pc'[t] = "in"
      PROVE  got'[t] \in {Failed, mine[t]}
  <2> USE CallersAssumption DEF TypeInv, TypeOK
  <2>1. mine[t] = seq /\ (reply.kind = "value" => reply.no = seq)
    BY <1>1 DEF ReplyInv, MutexInv, CallerOwnsSeq, PipeInv, InFct
  <2>2. ASSUME NEW u \in Callers, Window(u) PROVE Fetch(t)
    BY <1>1, <2>2 DEF Window, Proceed, Enter, IssueCmd, IssueFct, SpuriousWake, LockReply,
       Send, Wait, Regain, Fetch, Leave, Goto
  <2>3. ~MainLoop
    BY <1>1 DEF MainLoop, ReadSleep, ReadEvent, NextLine, Goto
  <2>4. ~Vim
    BY <1>1 DEF Vim, VimExecute, VimEvent, VimClose
  <2>5. ~Reader
    BY <1>1, SignalMoves DEF Reader, ParseReply, ParseEvent, ReadEof, ProcEvent, Goto
  <2>. QED
    BY <1>1, <2>1, <2>2, <2>3, <2>4, <2>5 DEF Next, Fetch, Failed
<1>2. TypeInv /\ ReplyInv /\ [Next]_vars
      => [~spurious => \A t \in Callers : pc[t] = "fetch" /\ pc'[t] = "in"
                              => got'[t] \in {Failed, mine[t]}]_vars
  BY <1>1
<1>. QED
  BY <1>2, TypeCorrect, OneOutstandingAction, PTL DEF Spec, ReplyMatchesAction

------------------------------------------------------------------------------
(* Refinement *)

\* Steps that leave the mapped variables alone: the holder of ui_mtx, if it is
\* inside a function, stays inside, on the same side of the wakeup.
LEMMA Stutter ==
    ASSUME UNCHANGED <<seq, reply, got>>,
           InCall' = InCall,
           InCall # NoThread =>
              (pc'[InCall] \in {"woken", "fetch"} <=> pc[InCall] \in {"woken", "fetch"})
    PROVE  UNCHANGED Call!vars
<1>1. Outcome' = Outcome
  BY DEF Outcome
<1>. QED
  BY <1>1 DEF Call!vars

\* The caller inside a function holds ui_mtx, and nobody else is inside one.
LEMMA InCallIs ==
    ASSUME TypeOK, MutexInv
    PROVE  /\ \A t \in Callers : pc[t] \in InFct => InCall = t
           /\ InCall # NoThread => InCall \in Callers /\ pc[InCall] \in InFct /\ uiMtx = InCall
BY CallersAssumption DEF TypeOK, MutexInv, InCall, InFct

\* A step that changes neither who holds ui_mtx nor any place in or next to a
\* function.
LEMMA StutterOutside ==
    ASSUME TypeInv, MutexInv, UNCHANGED <<uiMtx, seq, reply, got>>,
           \A t \in Callers : pc'[t] = pc[t] \/ (pc[t] \notin InFct /\ pc'[t] \notin InFct)
    PROVE  UNCHANGED Call!vars
<1>1. uiMtx # NoThread => uiMtx \in Callers
  BY DEF TypeInv, TypeOK
<1>2. InCall' = InCall
  BY <1>1 DEF InCall
<1>3. InCall # NoThread => pc'[InCall] = pc[InCall]
  BY InCallIs DEF TypeInv
<1>. QED
  BY <1>2, <1>3, Stutter

\* The functions of all threads together, the condition variable and
\* vim-readline implement the remote procedure calls of Rpc: one at a time, each
\* returning the value vim sent for it or a failure; commands only use up
\* numbers (vimui.cc:592-619, 718-795), until a caller wakes without a signal.
THEOREM ActionImplementsRpc == Spec => ImplementsRpc
<1>1. Init => Call!Init
  <2> SUFFICES ASSUME Init PROVE Call!Init
    OBVIOUS
  <2>1. InCall = NoThread
    BY DEF Init, InCall
  <2>2. Outcome = Call!None
    BY <2>1 DEF Outcome, Call!None
  <2>3. seq \in Nat /\ got = [t \in Callers |-> Failed]
    BY DEF Init
  <2>. QED
    BY <2>1, <2>2, <2>3 DEF Call!Init, Call!Failed, Failed
<1>2. ASSUME TypeInv, ReplyInv, [Next]_vars, ~spurious' PROVE [Call!Next]_(Call!vars)
  <2> USE <1>2, CallersAssumption DEF TypeInv, TypeOK
  <2>0. MutexInv /\ (~spurious => PipeInv)
    BY DEF ReplyInv
  <2>1. ASSUME NEW t \in Callers, Enter(t) \/ Leave(t) PROVE UNCHANGED Call!vars
    <3>1. InCall = NoThread /\ InCall' = NoThread
      <4>1. CASE Enter(t)
        <5>1. uiMtx = NoThread /\ uiMtx' = t /\ pc'[t] = "in"
          BY <4>1 DEF Enter, Goto
        <5>. QED
          BY <5>1 DEF InCall, InFct
      <4>2. CASE Leave(t)
        <5>1. uiMtx' = NoThread /\ pc[t] = "in"
          BY <4>2 DEF Leave
        <5>2. uiMtx = t
          BY <2>0, <5>1 DEF MutexInv
        <5>. QED
          BY <5>1, <5>2 DEF InCall, InFct
      <4>. QED
        BY <2>1, <4>1, <4>2
    <3>. QED
      BY <2>1, <3>1, Stutter DEF Enter, Leave, locals
  <2>2. ASSUME NEW t \in Callers, IssueCmd(t) PROVE Call!Skip
    <3>1. uiMtx = t /\ UNCHANGED <<pc, uiMtx, reply, got>> /\ pc[t] = "in"
      BY <2>0, <2>2 DEF MutexInv, IssueCmd, locals
    <3>2. InCall = NoThread /\ InCall' = NoThread
      BY <3>1 DEF InCall, InFct
    <3>3. Outcome' = Outcome
      BY <3>2 DEF Outcome
    <3>. QED
      BY <2>2, <3>1, <3>2, <3>3 DEF IssueCmd, Call!Skip
  <2>3. ASSUME NEW t \in Callers, IssueFct(t) PROVE Call!Begin(t)
    <3>1. uiMtx = t /\ UNCHANGED <<uiMtx, reply, got>> /\ pc[t] = "in" /\ pc'[t] = "fct"
      BY <2>0, <2>3 DEF MutexInv, IssueFct, Goto
    <3>2. InCall = NoThread /\ InCall' = t
      BY <3>1 DEF InCall, InFct
    <3>3. Outcome' = Outcome
      BY <3>1, <3>2 DEF Outcome
    <3>. QED
      BY <2>3, <3>1, <3>2, <3>3 DEF IssueFct, Call!Begin
  <2>4. ASSUME NEW t \in Callers, LockReply(t) \/ Send(t) \/ Wait(t) \/ Regain(t)
        PROVE  UNCHANGED Call!vars
    <3>1. /\ UNCHANGED <<uiMtx, seq, reply, got>> /\ pc[t] \in InFct /\ pc'[t] \in InFct
          /\ pc'[t] \in {"woken", "fetch"} <=> pc[t] \in {"woken", "fetch"}
      BY <2>4 DEF LockReply, Send, Wait, Regain, Goto, InFct, locals
    <3>2. uiMtx = t
      BY <2>0, <3>1 DEF MutexInv
    <3>3. InCall = t /\ InCall' = t
      BY <3>1, <3>2 DEF InCall
    <3>. QED
      BY <3>1, <3>3, Stutter
  <2>5. ASSUME NEW t \in Callers, Fetch(t) PROVE Call!End(t)
    <3>1. /\ uiMtx = t /\ UNCHANGED <<uiMtx, seq, reply>> /\ pc[t] = "fetch" /\ pc'[t] = "in"
          /\ got' = [got EXCEPT ![t] = IF reply.kind = "value" THEN reply.no ELSE Failed]
      BY <2>0, <2>5 DEF MutexInv, Fetch, Goto, InFct
    <3>2. InCall = t /\ InCall' = NoThread
      BY <3>1 DEF InCall, InFct
    <3>3. Outcome = (IF reply.kind = "value" THEN "ok" ELSE "failed") /\ Outcome' = "none"
      BY <3>1, <3>2 DEF Outcome
    <3>4. reply.kind = "value" => reply.no = seq
      BY <2>0, <2>5, <3>1 DEF PipeInv, Fetch
    <3>5. CASE reply.kind = "value"
      BY <3>1, <3>2, <3>3, <3>4, <3>5 DEF Call!End, Call!None, Call!Failed, Failed
    <3>6. CASE reply.kind # "value"
      BY <3>1, <3>2, <3>3, <3>6 DEF Call!End, Call!None, Call!Failed, Failed
    <3>. QED
      BY <3>5, <3>6
  <2>6. ASSUME NEW t \in Callers PROVE ~SpuriousWake(t)
    BY DEF SpuriousWake
  <2>7. CASE MainLoop
    <3>1. \A t \in Callers : pc'[t] = pc[t] \/ (pc[t] \notin InFct /\ pc'[t] \notin InFct)
      BY <2>7 DEF MainLoop, ReadSleep, ReadEvent, NextLine, Goto, InFct
    <3>. QED
      BY <2>0, <2>7, <3>1, StutterOutside DEF MainLoop, ReadSleep, ReadEvent, NextLine, locals
  <2>8. CASE Vim
    BY <2>0, <2>8, StutterOutside DEF Vim, VimExecute, VimEvent, VimClose, locals
  <2>9. CASE ParseReply
    <3>1. PICK t \in Callers :
              pc[t] = "waiting" /\ pc' = [pc EXCEPT ![t] = "woken"] /\ reply' = Head(fromVim)
      BY <2>0, <2>9, ReplyMeetsCaller DEF ParseReply
    <3>2. UNCHANGED <<uiMtx, seq, got>> /\ pc'[t] = "woken"
      BY <2>9, <3>1 DEF ParseReply, locals
    <3>3. InCall = t /\ InCall' = t
      BY <2>0, <3>1, <3>2 DEF MutexInv, InCall, InFct
    <3>4. Outcome = "none" /\ Outcome' \in {"ok", "failed"}
      BY <3>1, <3>2, <3>3 DEF Outcome
    <3>. QED
      BY <3>2, <3>3, <3>4 DEF Call!Next, Call!Answer, Call!None
  <2>10. CASE ParseEvent \/ ReadEof
    <3>1. \A t \in Callers : pc'[t] = pc[t] \/ (pc[t] \notin InFct /\ pc'[t] \notin InFct)
      BY <2>10 DEF ParseEvent, ReadEof, ProcEvent, Goto, InFct
    <3>. QED
      BY <2>0, <2>10, <3>1, StutterOutside DEF ParseEvent, ReadEof, locals
  <2>11. CASE UNCHANGED vars
    BY <2>0, <2>11, StutterOutside DEF vars, locals
  <2>. QED
    BY <2>1, <2>2, <2>3, <2>4, <2>5, <2>6, <2>7, <2>8, <2>9, <2>10, <2>11
    DEF Next, Window, Proceed, Reader, Call!Next
<1>3. TypeInv /\ ReplyInv /\ [Next]_vars => [spurious' \/ Call!Next]_(Call!vars)
  BY <1>2
<1>. QED
  BY <1>1, <1>3, TypeCorrect, OneOutstandingAction, PTL DEF Spec, ImplementsRpc

==============================================================================
