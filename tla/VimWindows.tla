------------------------------ MODULE VimWindows ------------------------------
(***************************************************************************)
(* The window functions of class vimui (src/gui/vim/vimui.cc): the two     *)
(* maps of buffers, what is kept per buffer about vim's copy of it, and    *)
(* atomic sections.  The main thread and the gdb-event thread both create, *)
(* annotate, print and clear windows; the maps and the buffers in them are *)
(* looked up under buf_mtx, changed and used under ui_mtx.                 *)
(*                                                                         *)
(* Each call of action() is executed by vim before the next, as VimAction  *)
(* shows of functions and the connection's order of commands.  A function  *)
(* returns only after vim's reply, so the steps of a window function are   *)
(* cut there.  Text is abstracted to its length, an annotation to its type *)
(* (sign and colours).  Vim (external) refuses text for a read-only or a   *)
(* closed buffer, and numbers the annotation types of a buffer from 1.     *)
(***************************************************************************)
EXTENDS Integers, Sequences, FiniteSets

CONSTANTS
    NoThread,       \* a free mutex
    Names,          \* buffers the user opens; the main thread registers them
    Sources,        \* those the event thread creates too, on a stop
    AnnoTypes,      \* annotation types
    MaxBufs,        \* bound: number of buffers created
    MaxLen,         \* bound: length of a buffer
    UserCloses,     \* the user may close buffers
    Panels          \* threads print into atomic sections and set flags

ASSUME SourcesAssumption == Sources \subseteq Names
ASSUME LimitsAssumption  == MaxBufs \in Nat /\ MaxLen \in Nat
ASSUME UserAssumption    == {UserCloses, Panels} \subseteq BOOLEAN
ASSUME ThreadAssumption  == NoThread \notin {"main", "event"}
\* A type is also a place of a thread.
ASSUME PlacesAssumption  ==
    AnnoTypes \intersect {"idle", "create", "print", "clear", "printed", "cleared"} = {}

VARIABLES
    pc,         \* where each thread is
    win,        \* the window id each thread works on, -1 for none
    name,       \* the name each thread is creating a buffer for, or NoName
    uiMtx,      \* holder of ui_mtx
    bufs,       \* vimui::bufid_map
    byName,     \* vimui::bufname_map
    nextId,     \* bufid
    inAtomic,   \* vimui::in_atomic
    section,    \* the window of the atomic section each thread is in, or -1
    vim,        \* vim's buffers, by id
    killed,     \* buffers vim has closed, the event not yet handled
    depth,      \* startAtomic commands minus endAtomic commands
    fault       \* "none", or the memory error that ended the program

thread == <<pc, win, name>>
tables == <<bufs, byName, nextId>>
vars   == <<thread, uiMtx, tables, inAtomic, section, vim, killed, depth, fault>>

Threads == {"main", "event"}

NoWin  == -1
NoName == ""

Init ==
    /\ pc = [t \in Threads |-> "idle"]
    /\ win = [t \in Threads |-> NoWin]
    /\ name = [t \in Threads |-> NoName]
    /\ uiMtx = NoThread
    /\ bufs = <<>> /\ byName = <<>> /\ nextId = 1
    /\ inAtomic = FALSE
    /\ section = [t \in Threads |-> NoWin]
    /\ vim = <<>> /\ killed = {} /\ depth = 0
    /\ fault = "none"

\* Functions with one more, one less element.
With(f, x, v) == [y \in DOMAIN f \union {x} |-> IF y = x THEN v ELSE f[y]]
Without(f, x) == [y \in DOMAIN f \ {x} |-> f[y]]

At(t, where) == fault = "none" /\ pc[t] = where

Goto(t, where) == pc' = [pc EXCEPT ![t] = where]

\* Mutant of Lock: the mutex is not waited for.
LockAnyway(t) == uiMtx' = t

\* A thread takes ui_mtx, releases it, or does both within the step.
Lock(t) == uiMtx = NoThread /\ uiMtx' = t
Unlock  == uiMtx' = NoThread
Locked  == uiMtx = NoThread /\ UNCHANGED uiMtx

------------------------------------------------------------------------------
(* atomic() *)

\* The start of a section: focus a window whose cursor is preserved, get the
\* cursor.  Within a section of whatever thread, apply = FALSE has no effect.
Start(w, apply) ==
    IF inAtomic /\ ~apply THEN UNCHANGED <<bufs, depth, inAtomic>>
    ELSE /\ depth' = depth + 1
         /\ inAtomic' = (inAtomic \/ apply)
         /\ bufs' = IF w \in DOMAIN bufs /\ bufs[w].preserve
                    THEN [bufs EXCEPT ![w].cursor = TRUE] ELSE bufs

\* Its end: move the cursor back, to where the pointer buf->cursor tells.
StopFaults(w, apply) ==
    /\ ~inAtomic \/ apply
    /\ w \in DOMAIN bufs
    /\ bufs[w].preserve /\ ~bufs[w].cursor

\* Mutant of Stop: in_atomic is not reset.
StopForgetful(apply) ==
    IF inAtomic /\ ~apply THEN UNCHANGED <<depth, inAtomic>>
    ELSE depth' = depth - 1 /\ UNCHANGED inAtomic

Stop(apply) ==
    IF inAtomic /\ ~apply THEN UNCHANGED <<depth, inAtomic>>
    ELSE /\ depth' = depth - 1
         /\ inAtomic' = (inAtomic /\ ~apply)

------------------------------------------------------------------------------
(* win_create, win_getid *)

NewBuf(n) == [name |-> n, len |-> 0, ro |-> FALSE, preserve |-> FALSE,
              cursor |-> FALSE, types |-> <<>>]

NewVim == [open |-> TRUE, len |-> 0, ro |-> FALSE, types |-> <<>>]

\* Look the name up; a known one is the thread's window from then on.
GetId(t, n) ==
    /\ At(t, "idle")
    /\ section[t] = NoWin
    /\ IF n \in DOMAIN byName
       THEN win' = [win EXCEPT ![t] = byName[n]] /\ UNCHANGED <<pc, name>>
       ELSE /\ t = "main" \/ n \in Sources
            /\ nextId <= MaxBufs
            /\ name' = [name EXCEPT ![t] = n]
            /\ Goto(t, "create")
            /\ UNCHANGED win
    /\ UNCHANGED <<uiMtx, tables, inAtomic, section, vim, killed, depth, fault>>

\* An unknown one gets a new buffer, under ui_mtx, without a second look.
Create(t) ==
    /\ At(t, "create")
    /\ Locked
    /\ nextId' = nextId + 1
    /\ bufs' = With(bufs, nextId, NewBuf(name[t]))
    /\ byName' = With(byName, name[t], nextId)
    /\ vim' = With(vim, nextId, NewVim)
    /\ win' = [win EXCEPT ![t] = nextId]
    /\ name' = [name EXCEPT ![t] = NoName]
    /\ Goto(t, "idle")
    /\ UNCHANGED <<inAtomic, section, killed, depth, fault>>

\* Mutant of Destroy: the name is forgotten to be erased.
DestroyKeepName(w) ==
    /\ At("main", "idle")
    /\ Locked
    /\ w \in killed
    /\ killed' = killed \ {w}
    /\ bufs' = Without(bufs, w)
    /\ UNCHANGED <<thread, uiMtx, byName, nextId, inAtomic, section, vim, depth, fault>>

\* The main thread handles a killed event: win_destroy.  The entry of
\* bufname_map is erased whichever buffer it leads to; erasing one that is not
\* there is an error.
Destroy(w) ==
    /\ At("main", "idle")
    /\ Locked
    /\ w \in killed
    /\ killed' = killed \ {w}
    /\ IF w \notin DOMAIN bufs THEN UNCHANGED <<bufs, byName, fault>>
       ELSE IF bufs[w].name \notin DOMAIN byName
       THEN fault' = "erase" /\ UNCHANGED <<bufs, byName>>
       ELSE /\ bufs' = Without(bufs, w)
            /\ byName' = Without(byName, bufs[w].name)
            /\ UNCHANGED fault
    /\ UNCHANGED <<thread, uiMtx, nextId, inAtomic, section, vim, depth>>

------------------------------------------------------------------------------
(* win_vprint, win_clear *)

\* The buffer is looked up before ui_mtx is taken.
Find(t, op) ==
    /\ At(t, "idle")
    /\ win[t] \in DOMAIN bufs
    /\ op = "print" => bufs[win[t]].len < MaxLen
    /\ Goto(t, op)
    /\ UNCHANGED <<win, name, uiMtx, tables, inAtomic, section, vim, killed, depth, fault>>

Writable(w) == vim[w].open /\ (bufs[w].ro \/ ~vim[w].ro)

\* The buffer was deleted in the meantime and is used nevertheless.  vim does not
\* know its id any more, so what is printed is lost, or the program crashes.
Gone(t) ==
    /\ fault = "none"
    /\ pc[t] \in {"print", "clear"}
    /\ win[t] \notin DOMAIN bufs
    /\ Locked
    /\ fault' \in {"none", "freed"}
    /\ Goto(t, "idle")
    /\ UNCHANGED <<win, name, tables, inAtomic, section, vim, killed, depth>>

\* Take ui_mtx, start a section, make the buffer writable, insert at its end.
PrintInsert(t) ==
    LET w == win[t] IN
    /\ At(t, "print")
    /\ w \in DOMAIN bufs
    /\ Lock(t)
    /\ Start(w, FALSE)
    /\ vim' = [vim EXCEPT ![w].len = IF Writable(w) THEN @ + 1 ELSE @,
                          ![w].ro  = @ /\ ~bufs[w].ro]
    /\ Goto(t, "printed")
    /\ UNCHANGED <<win, name, byName, nextId, section, killed, fault>>

\* Take ui_mtx, start a section, make the buffer writable, remove its length.
ClearRemove(t) ==
    LET w == win[t] IN
    /\ At(t, "clear")
    /\ w \in DOMAIN bufs
    /\ Lock(t)
    /\ Start(w, FALSE)
    /\ vim' = [vim EXCEPT ![w].len = IF Writable(w) THEN @ - bufs[w].len ELSE @,
                          ![w].ro  = @ /\ ~bufs[w].ro]
    /\ Goto(t, "cleared")
    /\ UNCHANGED <<win, name, byName, nextId, section, killed, fault>>

\* The reply is there: record the length, restore the flag, end the section.
Written(t, len) ==
    LET w == win[t] IN
    /\ w \in DOMAIN bufs
    /\ Unlock
    /\ bufs' = [bufs EXCEPT ![w].len = len]
    /\ vim' = [vim EXCEPT ![w].ro = bufs[w].ro]
    /\ IF StopFaults(w, FALSE)
       THEN fault' = "cursor" /\ UNCHANGED <<depth, inAtomic>>
       ELSE Stop(FALSE) /\ UNCHANGED fault
    /\ Goto(t, "idle")
    /\ UNCHANGED <<win, name, byName, nextId, section, killed>>

PrintDone(t) == At(t, "printed") /\ Written(t, bufs[win[t]].len + 1)
ClearDone(t) == At(t, "cleared") /\ Written(t, 0)

------------------------------------------------------------------------------
(* win_anno_add *)

\* A window without buffer: the section that was not started is ended.
AnnoFails(t) ==
    /\ At(t, "idle")
    /\ Locked
    /\ win[t] # NoWin /\ win[t] \notin DOMAIN bufs
    /\ Stop(FALSE)
    /\ win' = [win EXCEPT ![t] = NoWin]
    /\ UNCHANGED <<pc, name, tables, section, vim, killed, fault>>

\* A type the buffer does not have yet is defined before it is used.  The
\* annotation itself changes nothing that is modelled.
AnnoDefine(t, type) ==
    LET w == win[t] IN
    /\ At(t, "idle")
    /\ w \in DOMAIN bufs
    /\ type \notin DOMAIN bufs[w].types
    /\ Lock(t)
    /\ Start(w, FALSE)
    /\ vim' = [vim EXCEPT ![w].types = IF vim[w].open THEN Append(@, type) ELSE @]
    /\ Goto(t, type)
    /\ UNCHANGED <<win, name, byName, nextId, section, killed, fault>>

\* The new type gets the number of types known, plus one.
AnnoNumber(t, type) ==
    LET w == win[t] IN
    /\ At(t, type)
    /\ w \in DOMAIN bufs
    /\ Unlock
    /\ bufs' = [bufs EXCEPT ![w].types =
                   With(@, type, Cardinality(DOMAIN @) + 1)]
    /\ IF StopFaults(w, FALSE)
       THEN fault' = "cursor" /\ UNCHANGED <<depth, inAtomic>>
       ELSE Stop(FALSE) /\ UNCHANGED fault
    /\ Goto(t, "idle")
    /\ UNCHANGED <<win, name, byName, nextId, section, vim, killed>>

------------------------------------------------------------------------------
(* win_atomic and the flags the user sets *)

SectionStart(t) ==
    /\ Panels
    /\ At(t, "idle")
    /\ section[t] = NoWin /\ win[t] # NoWin
    /\ Locked
    /\ Start(win[t], TRUE)
    /\ section' = [section EXCEPT ![t] = win[t]]
    /\ UNCHANGED <<thread, byName, nextId, vim, killed, fault>>

SectionStop(t) ==
    /\ At(t, "idle")
    /\ section[t] # NoWin
    /\ Locked
    /\ IF StopFaults(section[t], TRUE)
       THEN fault' = "cursor" /\ UNCHANGED <<depth, inAtomic>>
       ELSE Stop(TRUE) /\ UNCHANGED fault
    /\ section' = [section EXCEPT ![t] = NoWin]
    /\ UNCHANGED <<thread, tables, vim, killed>>

\* cmd_ui_exec: win_readonly and win_cursor_preserve.
SetReadonly(ro) ==
    LET w == win["main"] IN
    /\ Panels
    /\ At("main", "idle") /\ section["main"] = NoWin
    /\ Locked
    /\ w \in DOMAIN bufs
    /\ bufs' = [bufs EXCEPT ![w].ro = ro]
    /\ vim' = [vim EXCEPT ![w].ro = ro]
    /\ UNCHANGED <<thread, byName, nextId, inAtomic, section, killed, depth, fault>>

SetPreserve(preserve) ==
    LET w == win["main"] IN
    /\ Panels
    /\ At("main", "idle") /\ section["main"] = NoWin
    /\ Locked
    /\ w \in DOMAIN bufs
    /\ bufs' = [bufs EXCEPT ![w].preserve = preserve]
    /\ UNCHANGED <<thread, byName, nextId, inAtomic, section, vim, killed, depth, fault>>

------------------------------------------------------------------------------
(* vim (external) *)

UserClose(w) ==
    /\ UserCloses
    /\ fault = "none"
    /\ w \in DOMAIN vim /\ vim[w].open
    /\ vim' = [vim EXCEPT ![w].open = FALSE]
    /\ killed' = killed \union {w}
    /\ UNCHANGED <<thread, uiMtx, tables, inAtomic, section, depth, fault>>

------------------------------------------------------------------------------

Window(t) ==
    \/ \E n \in Names : GetId(t, n)
    \/ Create(t)
    \/ \E op \in {"print", "clear"} : Find(t, op)
    \/ PrintInsert(t) \/ PrintDone(t) \/ ClearRemove(t) \/ ClearDone(t) \/ Gone(t)
    \/ AnnoFails(t)
    \/ \E type \in AnnoTypes : AnnoDefine(t, type) \/ AnnoNumber(t, type)
    \/ SectionStart(t) \/ SectionStop(t)

Next ==
    \/ \E t \in Threads : Window(t)
    \/ \E w \in 1..MaxBufs : Destroy(w) \/ UserClose(w)
    \/ \E b \in BOOLEAN : SetReadonly(b) \/ SetPreserve(b)

Spec == Init /\ [][Next]_vars

------------------------------------------------------------------------------
(* Properties *)

AtRest == uiMtx = NoThread /\ fault = "none"

\* What is remembered of vim's buffer is what vim has: text is inserted at
\* buf->len and removed up to it, so a difference would garble the buffer
\* (vimui.cc:549-559, 581-591).
LenMatches ==
    AtRest => \A w \in DOMAIN bufs : vim[w].open =>
                 bufs[w].len = vim[w].len /\ bufs[w].ro = vim[w].ro

\* The number an annotation type gets is the one vim has given it: "acquiring
\* the annotation id through the size of the map is an indirect relation (vim
\* starts numbering annotations by 1 and simply increments)" (vimui.cc:394-396).
AnnoTypesMatch ==
    AtRest => \A w \in DOMAIN bufs : vim[w].open =>
                 /\ Len(vim[w].types) = Cardinality(DOMAIN bufs[w].types)
                 /\ \A type \in DOMAIN bufs[w].types :
                       vim[w].types[bufs[w].types[type]] = type

\* win_getid never yields the id of a buffer that has been deleted, even if two
\* buffers were created for one name (vimui.cc:348-356).
NamesLive == \A n \in DOMAIN byName : byName[n] \in DOMAIN bufs

\* Once all threads have left their sections vim is in none, however sections of
\* two threads and those of single functions overlap (vimui.cc:646-705), as long
\* as the user has closed no buffer (AnnoFails ends a section it never started).
AtomicBalanced ==
    /\ AtRest
    /\ \A t \in Threads : section[t] = NoWin
    /\ \A w \in DOMAIN vim : vim[w].open
    => depth = 0 /\ ~inAtomic

==============================================================================
