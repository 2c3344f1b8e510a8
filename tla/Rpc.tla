--------------------------------- MODULE Rpc ---------------------------------
(***************************************************************************)
(* What the two request/reply channels of the program promise their        *)
(* callers: gdbif::mi_issue_cmd towards gdb (src/gdb/gdb.cc:164-181) and   *)
(* vimui::action towards vim (src/gui/vim/vimui.cc:718-795).  Each is a    *)
(* remote procedure call: the calls of all threads are executed one after  *)
(* the other, and a call returns the reply to its own request, or fails.   *)
(* GdbMi and VimAction implement this specification.                       *)
(***************************************************************************)
EXTENDS Naturals

CONSTANTS
    Threads,    \* the threads that issue requests
    NoThread    \* "no thread": no call is in progress

VARIABLES
    owner,      \* the thread whose call is in progress
    current,    \* the number of the last request issued
    reply,      \* "none", or the outcome that waits for the owner
    last        \* the request whose reply each thread got last, or Failed

vars == <<owner, current, reply, last>>

None   == "none"
Failed == 0

Init ==
    /\ owner = NoThread
    /\ current \in Nat
    /\ reply = None
    /\ last = [t \in Threads |-> Failed]

\* A thread issues a request under a fresh number; nobody else is in a call.
Begin(t) ==
    /\ owner = NoThread
    /\ owner' = t
    /\ current' \in Nat /\ current' > current
    /\ UNCHANGED <<reply, last>>

\* Numbers are used up by messages that have no reply.
Skip ==
    /\ owner = NoThread
    /\ current' \in Nat /\ current' > current
    /\ UNCHANGED <<owner, reply, last>>

\* The peer executes the request in progress.
Answer ==
    /\ owner # NoThread
    /\ reply = None
    /\ reply' \in {"ok", "failed"}
    /\ UNCHANGED <<owner, current, last>>

\* The peer is gone: the call fails, even if its answer is already there.
Abort ==
    /\ owner # NoThread
    /\ reply' = "failed"
    /\ UNCHANGED <<owner, current, last>>

\* The call returns: the reply to its own request, or a failure.
End(t) ==
    /\ owner = t
    /\ reply # None
    /\ last' = [last EXCEPT ![t] = IF reply = "ok" THEN current ELSE Failed]
    /\ owner' = NoThread
    /\ reply' = None
    /\ UNCHANGED current

Next ==
    \/ \E t \in Threads : Begin(t) \/ End(t)
    \/ Skip
    \/ Answer
    \/ Abort

Spec == Init /\ [][Next]_vars

==============================================================================
