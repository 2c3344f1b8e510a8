------------------------------ MODULE VimAction ------------------------------
(***************************************************************************)
(* The connection of class vimui (src/gui/vim/vimui.cc) to vim.  Window    *)
(* functions hold the recursive mutex ui_mtx while they issue actions:     *)
(* commands, which vim does not answer, and functions, whose reply they    *)
(* wait for.  The vim-readline thread hands replies to proc_reply and      *)
(* events to proc_event; the main thread takes the events in readline.     *)
(*                                                                         *)
(* An action is abstracted to its number and to whether it is a function,  *)
(* a reply to the number it was sent for and whether it has a value (the   *)
(* cursor position) or is empty or an error.  vim is external.  Its end of *)
(* the connection is closed orderly; writing to a closed connection has no *)
(* effect here (the signal this may raise ends the program).               *)
(***************************************************************************)
EXTENDS Integers, Sequences

CONSTANTS
    Callers,            \* threads that use the window functions
    Main,               \* the one that also reads the events
    NoThread,           \* a free mutex
    MaxSeq,             \* bound: largest number given to an action
    MaxKeys,            \* bound: number of key commands and opened files
    VimMayClose,        \* vim may close the connection
    SpuriousWakeups     \* pthread_cond_wait may return without a signal

ASSUME CallersAssumption == Main \in Callers /\ NoThread \notin Callers
ASSUME SeqAssumption     == MaxSeq \in Nat /\ MaxKeys \in Nat
ASSUME VimAssumption     == {VimMayClose, SpuriousWakeups} \subseteq BOOLEAN

VARIABLES
    pc,         \* where each caller is
    uiMtx,      \* holder of ui_mtx
    replyMtx,   \* holder of reply_mtx
    seq,        \* vimui::seq_num
    mine,       \* the number each caller sent its last function under (history)
    reply,      \* vimui::reply
    got,        \* the number whose value each caller got last, or Failed (history)
    toVim,      \* lines vim has not read yet
    fromVim,    \* lines vim-readline has not parsed yet
    linkUp,     \* vim has not closed the connection
    reader,     \* vim-readline: running or terminated
    events,     \* vimui::event_lst
    keys,       \* number of events vim has sent
    spurious    \* a wakeup without signal has happened (history)

locals == <<mine, got>>
link   == <<toVim, fromVim, linkUp, keys>>
vars   == <<pc, uiMtx, replyMtx, seq, reply, locals, link, reader, events, spurious>>

Failed == 0

Cmd(n)          == [kind |-> "cmd", no |-> n]
Fct(n)          == [kind |-> "fct", no |-> n]
Reply(n, value) == [kind |-> IF value THEN "value" ELSE "empty", no |-> n]
Event(e)        == [kind |-> e, no |-> 0]

\* Inside a window function; inside the function action().
InFct == {"fct", "locked", "sent", "waiting", "woken", "fetch"}

Waiters == {t \in Callers : pc[t] = "waiting"}

Init ==
    /\ pc = [t \in Callers |-> IF t = Main THEN "read" ELSE "out"]
    /\ uiMtx = NoThread
    /\ replyMtx = NoThread
    /\ seq = 1
    /\ mine = [t \in Callers |-> 0]
    /\ reply = Reply(0, FALSE)
    /\ got = [t \in Callers |-> Failed]
    /\ toVim = <<>>
    /\ fromVim = <<>>
    /\ linkUp = TRUE
    /\ reader = "run"
    /\ events = <<>>
    /\ keys = 0
    /\ spurious = FALSE

Goto(t, where) == pc' = [pc EXCEPT ![t] = where]

------------------------------------------------------------------------------
(* Window functions *)

\* Mutant of Enter: ui_mtx is not waited for.
EnterAnyway(t) ==
    /\ pc[t] = "out"
    /\ uiMtx' = t
    /\ Goto(t, "in")
    /\ UNCHANGED <<replyMtx, seq, reply, locals, link, reader, events, spurious>>

Enter(t) ==
    /\ pc[t] = "out"
    /\ uiMtx = NoThread
    /\ uiMtx' = t
    /\ Goto(t, "in")
    /\ UNCHANGED <<replyMtx, seq, reply, locals, link, reader, events, spurious>>

Leave(t) ==
    /\ pc[t] = "in"
    /\ uiMtx' = NoThread
    /\ Goto(t, "out")
    /\ UNCHANGED <<replyMtx, seq, reply, locals, link, reader, events, spurious>>

\* The newline completes the line, and the socket sends it.
Transmit(msg) ==
    /\ toVim' = IF linkUp THEN Append(toVim, msg) ELSE toVim
    /\ UNCHANGED <<fromVim, linkUp, keys>>

\* action(CMD, ...)
IssueCmd(t) ==
    /\ pc[t] = "in"
    /\ seq < MaxSeq
    /\ seq' = seq + 1
    /\ Transmit(Cmd(seq + 1))
    /\ UNCHANGED <<pc, uiMtx, replyMtx, reply, locals, reader, events, spurious>>

\* action(FCT, ...): everything but the newline goes to the output buffer.
IssueFct(t) ==
    /\ pc[t] = "in"
    /\ seq < MaxSeq
    /\ seq' = seq + 1
    /\ mine' = [mine EXCEPT ![t] = seq + 1]
    /\ Goto(t, "fct")
    /\ UNCHANGED <<uiMtx, replyMtx, reply, got, link, reader, events, spurious>>

\* Mutant of LockReply: reply_mtx is not held while the action is issued.
LockReplyLate(t) ==
    /\ pc[t] = "fct"
    /\ Goto(t, "locked")
    /\ UNCHANGED <<uiMtx, replyMtx, seq, reply, locals, link, reader, events, spurious>>

LockReply(t) ==
    /\ pc[t] = "fct"
    /\ replyMtx = NoThread
    /\ replyMtx' = t
    /\ Goto(t, "locked")
    /\ UNCHANGED <<uiMtx, seq, reply, locals, link, reader, events, spurious>>

\* "issue action after mutex has been locked"
Send(t) ==
    /\ pc[t] = "locked"
    /\ Transmit(Fct(mine[t]))
    /\ Goto(t, "sent")
    /\ UNCHANGED <<uiMtx, replyMtx, seq, reply, locals, reader, events, spurious>>

\* pthread_cond_wait: sleep and release reply_mtx in one step.
Wait(t) ==
    /\ pc[t] = "sent"
    /\ replyMtx' = NoThread
    /\ Goto(t, "waiting")
    /\ UNCHANGED <<uiMtx, seq, reply, locals, link, reader, events, spurious>>

SpuriousWake(t) ==
    /\ SpuriousWakeups
    /\ pc[t] = "waiting"
    /\ spurious' = TRUE
    /\ Goto(t, "woken")
    /\ UNCHANGED <<uiMtx, replyMtx, seq, reply, locals, link, reader, events>>

\* Regain reply_mtx and release it at once.
Regain(t) ==
    /\ pc[t] = "woken"
    /\ replyMtx = NoThread
    /\ Goto(t, "fetch")
    /\ UNCHANGED <<uiMtx, replyMtx, seq, reply, locals, link, reader, events, spurious>>

\* Take this->reply, without reply_mtx; it is not reset.
Fetch(t) ==
    /\ pc[t] = "fetch"
    /\ got' = [got EXCEPT ![t] = IF reply.kind = "value" THEN reply.no ELSE Failed]
    /\ Goto(t, "in")
    /\ UNCHANGED <<uiMtx, replyMtx, seq, reply, mine, link, reader, events, spurious>>

------------------------------------------------------------------------------
(* Main thread: readline and the main loop *)

\* An empty queue is waited for once; after a signal it is not looked at again.
ReadSleep ==
    /\ pc[Main] = "read"
    /\ events = <<>>
    /\ Goto(Main, "asleep")
    /\ UNCHANGED <<uiMtx, replyMtx, seq, reply, locals, link, reader, events, spurious>>

\* A key command is executed, for an opened file a window is created, and a
\* disconnect ends the program.
ReadEvent ==
    /\ \/ pc[Main] = "read" /\ events # <<>>
       \/ pc[Main] = "signalled"
    /\ events' = Tail(events)
    /\ Goto(Main, IF Head(events).kind = "disconnect" THEN "quit" ELSE "out")
    /\ UNCHANGED <<uiMtx, replyMtx, seq, reply, locals, link, reader, spurious>>

NextLine ==
    /\ pc[Main] = "out"
    /\ Goto(Main, "read")
    /\ UNCHANGED <<uiMtx, replyMtx, seq, reply, locals, link, reader, events, spurious>>

------------------------------------------------------------------------------
(* vim (external) *)

\* vim executes the lines in order and answers functions under their number.
VimExecute ==
    /\ linkUp
    /\ toVim # <<>>
    /\ toVim' = Tail(toVim)
    /\ \/ Head(toVim).kind = "cmd" /\ UNCHANGED fromVim
       \/ /\ Head(toVim).kind = "fct"
          /\ \E value \in BOOLEAN : fromVim' = Append(fromVim, Reply(Head(toVim).no, value))
    /\ UNCHANGED <<pc, uiMtx, replyMtx, seq, reply, locals, linkUp, reader, events, keys, spurious>>

\* The user enters a command, opens or closes a file.
VimEvent ==
    /\ linkUp
    /\ keys < MaxKeys
    /\ keys' = keys + 1
    /\ fromVim' = Append(fromVim, Event("key"))
    /\ UNCHANGED <<pc, uiMtx, replyMtx, seq, reply, locals, toVim, linkUp, reader, events, spurious>>

VimClose ==
    /\ VimMayClose
    /\ linkUp
    /\ linkUp' = FALSE
    /\ toVim' = <<>>
    /\ UNCHANGED <<pc, uiMtx, replyMtx, seq, reply, locals, fromVim, reader, events, keys, spurious>>

------------------------------------------------------------------------------
(* vim-readline *)

\* proc_reply: a reply under another number than the last is dropped.
ProcReply(r) ==
    /\ replyMtx = NoThread
    /\ IF r.no # seq THEN UNCHANGED <<reply, pc>>
       ELSE /\ reply' = r
            /\ IF Waiters = {} THEN UNCHANGED pc
               ELSE \E w \in Waiters : Goto(w, "woken")

\* Mutant of ProcEvent: the signal is forgotten.
ProcEventSilent(e) == events' = Append(events, e) /\ UNCHANGED pc

\* proc_event: queue the event and signal event_avail.
ProcEvent(e) ==
    /\ events' = Append(events, e)
    /\ IF pc[Main] = "asleep" THEN Goto(Main, "signalled") ELSE UNCHANGED pc

ParseReply ==
    /\ reader = "run"
    /\ fromVim # <<>>
    /\ Head(fromVim).kind \in {"value", "empty"}
    /\ ProcReply(Head(fromVim))
    /\ fromVim' = Tail(fromVim)
    /\ UNCHANGED <<uiMtx, replyMtx, seq, locals, toVim, linkUp, reader, events, keys, spurious>>

ParseEvent ==
    /\ reader = "run"
    /\ fromVim # <<>>
    /\ Head(fromVim).kind = "key"
    /\ ProcEvent(Head(fromVim))
    /\ fromVim' = Tail(fromVim)
    /\ UNCHANGED <<uiMtx, replyMtx, seq, reply, locals, toVim, linkUp, reader, keys, spurious>>

\* "trigger shutdown of main thread", then the thread terminates.
ReadEof ==
    /\ reader = "run"
    /\ fromVim = <<>>
    /\ ~linkUp
    /\ ProcEvent(Event("disconnect"))
    /\ reader' = "gone"
    /\ UNCHANGED <<uiMtx, replyMtx, seq, reply, locals, link, spurious>>

------------------------------------------------------------------------------

\* The steps of action() and of a window function that takes place.
Proceed(t) == \/ LockReply(t) \/ Send(t) \/ Wait(t) \/ Regain(t) \/ Fetch(t) \/ Leave(t)

Window(t) == Enter(t) \/ IssueCmd(t) \/ IssueFct(t) \/ SpuriousWake(t) \/ Proceed(t)

MainLoop == ReadSleep \/ ReadEvent \/ NextLine

Reader == ParseReply \/ ParseEvent \/ ReadEof

Vim == VimExecute \/ VimEvent \/ VimClose

Next ==
    \/ \E t \in Callers : Window(t)
    \/ MainLoop
    \/ Reader
    \/ Vim

Spec == Init /\ [][Next]_vars

\* A window function that has begun is finished, a command of the user consists
\* of finitely many of them (hence the strong fairness), the main thread goes
\* through its loop, vim executes what it is sent and vim-readline parses the
\* answers.
Fairness ==
    /\ \A t \in Callers : WF_vars(Proceed(t))
    /\ WF_vars(ReadSleep \/ ReadEvent)
    /\ SF_vars(NextLine)
    /\ WF_vars(VimExecute)
    /\ WF_vars(Reader)

FairSpec == Spec /\ Fairness

------------------------------------------------------------------------------
(* Properties *)

\* One function at a time: a thread inside action(FCT) holds ui_mtx, which
\* action() itself does not take, and the number proc_reply compares with is the
\* one it sent, whatever vim and the condition variable do
\* (vimui.cc:740, 769-781).
CallerOwnsSeq ==
    \A t \in Callers : pc[t] \in InFct => uiMtx = t /\ mine[t] = seq

IsReply(msg) == msg.kind \in {"value", "empty"}

\* A function that yields a value yields the one vim sent for this very call,
\* although this->reply is read after reply_mtx was released and a reply
\* without a value leaves the caller nothing to compare (vimui.cc:785-790), as
\* long as no caller wakes without a signal.
ReplyMatchesAction ==
    [][~spurious => \A t \in Callers : pc[t] = "fetch" /\ pc'[t] = "in"
                          => got'[t] \in {Failed, mine[t]}]_vars

\* Every function returns, unless vim closes the connection meanwhile.
ActionReturns ==
    \A t \in Callers : pc[t] = "fct" ~> pc[t] \notin InFct \/ ~linkUp

\* Whatever vim's user entered is executed by the main thread, however its
\* window functions interleave with those of other threads, unless vim closes
\* the connection meanwhile.
EventsAreServed == events # <<>> ~> events = <<>> \/ ~linkUp

\* Why: while a thread is inside a function there is at most one request or
\* reply, it has the current number, and it exists exactly while the caller is
\* about to sleep or sleeps.
MutexInv ==
    /\ CallerOwnsSeq
    /\ \A t \in Callers :
          /\ uiMtx = t <=> pc[t] \in {"in"} \union InFct
          /\ replyMtx = t <=> pc[t] \in {"locked", "sent"}

Asked(n)    == \E i \in DOMAIN toVim : toVim[i] = Fct(n)
Answered(n) == \E i \in DOMAIN fromVim : IsReply(fromVim[i]) /\ fromVim[i].no = n

PipeInv ==
    /\ \A i \in DOMAIN toVim : toVim[i].kind = "fct" =>
          /\ toVim[i].no = seq
          /\ \E t \in Callers : pc[t] \in {"sent", "waiting"}
          /\ ~Answered(seq)
          /\ \A j \in DOMAIN toVim : toVim[j].kind = "fct" => i = j
    /\ \A i \in DOMAIN fromVim : IsReply(fromVim[i]) =>
          /\ fromVim[i].no = seq
          /\ \E t \in Callers : pc[t] \in {"sent", "waiting"}
          /\ \A j \in DOMAIN fromVim : IsReply(fromVim[j]) => i = j
    /\ \A t \in Callers : pc[t] \in {"sent", "waiting"} /\ linkUp => Asked(seq) \/ Answered(seq)
    /\ \A t \in Callers : pc[t] \in {"woken", "fetch"} /\ reply.kind = "value" => reply.no = seq
    /\ IsReply(reply)

\* Dropping replies "is safe since there can only be one outstanding action()"
\* (vimui.cc:601-602): no reply that arrives has another number than the last, as
\* long as no caller wakes without a signal.
ReplyInv == MutexInv /\ (~spurious => PipeInv)

\* The call in progress and the outcome that waits for its caller.
InCall  == IF uiMtx # NoThread /\ pc[uiMtx] \in InFct THEN uiMtx ELSE NoThread
Outcome == IF InCall = NoThread \/ pc[InCall] \notin {"woken", "fetch"} THEN "none"
           ELSE IF reply.kind = "value" THEN "ok" ELSE "failed"

\* The functions of all threads together are remote procedure calls, and the
\* commands between them only use up numbers (vimui.cc:718-795), as long as no
\* caller wakes without a signal.
Call == INSTANCE Rpc WITH
    Threads <- Callers,
    owner   <- InCall,
    current <- seq,
    reply   <- Outcome,
    last    <- got

ImplementsRpc == Call!Init /\ [][spurious' \/ Call!Next]_(Call!vars)

\* Violated when vim closes the connection while a function waits for its
\* answer: vim-readline queues the event that is to "trigger shutdown of main
\* thread" (vimui.cc:832), but nobody wakes the caller, and the main thread
\* is the caller or waits for ui_mtx, which the caller holds.
ShutdownReachesMain == reader = "gone" ~> pc[Main] = "quit"

==============================================================================
