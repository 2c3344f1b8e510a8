--------------------------------- MODULE Break ---------------------------------
(***************************************************************************)
(* Breakpoints (src/user_cmd/break.cc, src/gdb/breakpoint.cc) and the signs *)
(* that mark them in vim's buffer of the source file (win_anno_add and      *)
(* win_anno_delete, src/gui/vim/vimui.cc).  There are four records of a     *)
(* breakpoint: gdb's own, the program's list by location, the sign that vim *)
(* shows, and the program's map from a line to the number of its sign.      *)
(*                                                                         *)
(* A location is a line of one source file, or 0 for a place without        *)
(* source.  A list of breakpoints printed into a window adds no state and   *)
(* is left out.  gdb, which may refuse a command, and vim are external.     *)
(***************************************************************************)
EXTENDS Integers, FiniteSets

CONSTANTS
    BreakLines,     \* bound: the locations used
    AnnoKeys,       \* 256: the key of a sign holds the line as one character
    MaxBreaks       \* bound: breakpoints that gdb creates

VARIABLES
    breakpt_lst,    \* location to [num, temporary, enabled]
    gdbBreaks,      \* gdb's table: number to [at, temporary, enabled]
    brkCreated,     \* the last number gdb has given
    annos,          \* key of a line to the number of its sign
    signs,          \* what vim shows: number of a sign to [line, enabled]
    brkHit,         \* history: numbers of the temporary breakpoints that were hit
    brkRefused,     \* history: breakpoints that gdb refused to delete right after it created them
    brkCollided,    \* history: lines that had a breakpoint together with another of the same key
    brkClosed       \* history: the file was closed, the signs went with it

brkVars == <<breakpt_lst, gdbBreaks, brkCreated, annos, signs, brkHit, brkRefused,
             brkCollided, brkClosed>>

NoSource == 0

BreakInit ==
    /\ breakpt_lst = <<>> /\ gdbBreaks = <<>> /\ brkCreated = 0
    /\ annos = <<>> /\ signs = <<>>
    /\ brkHit = {} /\ brkRefused = {} /\ brkCollided = {} /\ brkClosed = FALSE

With(f, x, v)  == [y \in DOMAIN f \union {x} |-> IF y = x THEN v ELSE f[y]]
Without(f, x) == [y \in DOMAIN f \ {x} |-> f[y]]

------------------------------------------------------------------------------
(* Signs *)

AnnoKey(line) == line % AnnoKeys

\* The least number no sign has: a number is not reused while vim shows its sign.
NewSign(m) == CHOOSE n \in 1..(Cardinality(DOMAIN m.signs) + 1) : n \notin DOMAIN m.signs

\* win_anno_add: the map leads to the sign added last for the key.
AnnoAdd(m, line, enabled) ==
    [signs |-> With(m.signs, NewSign(m), [line |-> line, enabled |-> enabled]),
     annos |-> With(m.annos, AnnoKey(line), NewSign(m))]

\* Mutant of AnnoDelete: the sign is not removed, only the entry of the map.
AnnoForget(m, line) == [m EXCEPT !.annos = Without(m.annos, AnnoKey(line))]

\* win_anno_delete
AnnoDelete(m, line) ==
    IF AnnoKey(line) \in DOMAIN m.annos
    THEN [signs |-> Without(m.signs, m.annos[AnnoKey(line)]),
          annos |-> Without(m.annos, AnnoKey(line))]
    ELSE m

\* The signs before the step, and after it.  There is no buffer without a source.
Marks == [signs |-> signs, annos |-> annos]
MarksBecome(at, m) == IF at = NoSource THEN UNCHANGED <<signs, annos>>
                      ELSE signs' = m.signs /\ annos' = m.annos

------------------------------------------------------------------------------
(* Commands of the user *)

\* History only: lines whose keys have met in the list.
NoteCollisions ==
    brkCollided' = brkCollided \union
        {k \in DOMAIN breakpt_lst' \ {NoSource} :
            \E other \in DOMAIN breakpt_lst' \ {k, NoSource} : AnnoKey(other) = AnnoKey(k)}

\* gdb creates a breakpoint whether or not there is one.
Insert == brkCreated < MaxBreaks /\ brkCreated' = brkCreated + 1

NewBreak(at, temporary) == [at |-> at, temporary |-> temporary, enabled |-> TRUE]

\* At a new location it is listed and marked.
BreakAdd(at, temporary) ==
    /\ Insert /\ at \notin DOMAIN breakpt_lst
    /\ gdbBreaks' = With(gdbBreaks, brkCreated', NewBreak(at, temporary))
    /\ breakpt_lst' = With(breakpt_lst, at,
           [num |-> brkCreated', temporary |-> temporary, enabled |-> TRUE])
    /\ MarksBecome(at, AnnoAdd(Marks, at, TRUE))
    /\ NoteCollisions
    /\ UNCHANGED <<brkHit, brkRefused, brkClosed>>

\* Mutant of BreakAddAgain: the breakpoint that was listed is deleted.
BreakAddAgainOld(at, temporary) ==
    /\ Insert /\ at \in DOMAIN breakpt_lst
    /\ gdbBreaks' = With(Without(gdbBreaks, breakpt_lst[at].num), brkCreated',
                         NewBreak(at, temporary))
    /\ UNCHANGED <<breakpt_lst, signs, annos, brkHit, brkRefused, brkCollided, brkClosed>>

\* At a location that is listed the new one is deleted, which gdb may refuse.
BreakAddAgain(at, temporary) ==
    /\ Insert /\ at \in DOMAIN breakpt_lst
    /\ \/ UNCHANGED <<gdbBreaks, brkRefused>>
       \/ /\ gdbBreaks' = With(gdbBreaks, brkCreated', NewBreak(at, temporary))
          /\ brkRefused' = brkRefused \union {brkCreated'}
    /\ UNCHANGED <<breakpt_lst, signs, annos, brkHit, brkCollided, brkClosed>>

\* gdb knows the breakpoint; if it does not, or refuses, nothing is done.
Known(at) == at \in DOMAIN breakpt_lst /\ breakpt_lst[at].num \in DOMAIN gdbBreaks

BreakDelete(at) ==
    /\ Known(at)
    /\ gdbBreaks' = Without(gdbBreaks, breakpt_lst[at].num)
    /\ breakpt_lst' = Without(breakpt_lst, at)
    /\ MarksBecome(at, AnnoDelete(Marks, at))
    /\ UNCHANGED <<brkCreated, brkHit, brkRefused, brkCollided, brkClosed>>

\* Enable or disable: the sign is replaced by one of the other colour.
BreakSwitch(at, enabled) ==
    /\ Known(at)
    /\ gdbBreaks' = [gdbBreaks EXCEPT ![breakpt_lst[at].num].enabled = enabled]
    /\ breakpt_lst' = [breakpt_lst EXCEPT ![at].enabled = enabled]
    /\ MarksBecome(at, AnnoAdd(AnnoDelete(Marks, at), at, enabled))
    /\ UNCHANGED <<brkCreated, brkHit, brkRefused, brkCollided, brkClosed>>

\* A temporary breakpoint is hit: gdb deletes it and reports that, which the grammar of
\* its events takes in and drops (parser.y:309).
BreakHit(n) ==
    /\ n \in DOMAIN gdbBreaks /\ gdbBreaks[n].temporary /\ gdbBreaks[n].enabled
    /\ gdbBreaks' = Without(gdbBreaks, n)
    /\ brkHit' = brkHit \union {n}
    /\ UNCHANGED <<breakpt_lst, brkCreated, annos, signs, brkRefused, brkCollided, brkClosed>>

\* The user closes the buffer of the source file.
BreakFileClosed ==
    /\ signs' = <<>> /\ annos' = <<>> /\ brkClosed' = TRUE
    /\ UNCHANGED <<breakpt_lst, gdbBreaks, brkCreated, brkHit, brkRefused, brkCollided>>

BreakNext ==
    \/ \E at \in BreakLines :
          \/ \E b \in BOOLEAN : BreakAdd(at, b) \/ BreakAddAgain(at, b) \/ BreakSwitch(at, b)
          \/ BreakDelete(at)
    \/ \E n \in 1..MaxBreaks : BreakHit(n)
    \/ BreakFileClosed

BreakSpec == BreakInit /\ [][BreakNext]_brkVars

------------------------------------------------------------------------------
(* Properties *)

(* The list and gdb's table agree after any commands: a breakpoint that is listed is  *)
(* gdb's, at its location and enabled alike, and gdb has no other, so that a location *)
(* is never armed twice although gdb lets the user do so (break.cc:63).  Exceptions   *)
(* are a temporary one that was hit, which stays listed, and a duplicate that gdb     *)
(* refused to delete.                                                                *)
BreaksMirrorGdb ==
    /\ \A at \in DOMAIN breakpt_lst :
          LET b == breakpt_lst[at] IN
          IF b.num \in DOMAIN gdbBreaks
          THEN gdbBreaks[b.num] = [at |-> at, temporary |-> b.temporary, enabled |-> b.enabled]
          ELSE b.temporary /\ b.num \in brkHit
    /\ \A n \in DOMAIN gdbBreaks \ brkRefused :
          gdbBreaks[n].at \in DOMAIN breakpt_lst /\ breakpt_lst[gdbBreaks[n].at].num = n

(* The signs in the source file are those of the breakpoints listed, one for each, in *)
(* the colour of its state, after any of adding, deleting and switching; but for lines *)
(* that shared the character in the key of their sign (vimui.cc:401, 432), whose signs *)
(* may stay for good, and for breakpoints older than the buffer.                      *)
SignsMatchBreaks ==
    LET sure == BreakLines \ (brkCollided \union {NoSource})
        shown(at) == {n \in DOMAIN signs : signs[n].line = at}
    IN  \A at \in sure :
            IF at \in DOMAIN breakpt_lst
            THEN /\ Cardinality(shown(at)) <= 1
                 /\ \A n \in shown(at) : signs[n].enabled = breakpt_lst[at].enabled
                 /\ ~brkClosed => shown(at) # {}
            ELSE shown(at) = {}
==============================================================================
