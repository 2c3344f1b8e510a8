------------------------------- MODULE LineMap -------------------------------
(***************************************************************************)
(* What the windows of the program have in common: line_map                *)
(* (src/common/linemap.cc), which leads from a line of a window to the     *)
(* object printed there.  A window is printed from its first line on, so a *)
(* map is a sequence of records [line, data] with ascending lines.         *)
(***************************************************************************)
EXTENDS Integers, Sequences, SequencesExt, FiniteSetsExt

\* The data of the last entry at or above a line: a set, empty if there is none.
LineFind(map, n) ==
    LET above == {i \in DOMAIN map : map[i].line <= n}
    IN  IF above = {} THEN {} ELSE {map[Max(above)].data}

\* Objects printed one below the other, given how many lines the code counts for
\* each: the line on which number i begins.
LineOf(heights, i) ==
    LET line[k \in 1..i] == IF k = 1 THEN 1 ELSE line[k - 1] + heights[k - 1]
    IN  line[i]

\* A number of equal lines.
Repeat(text, n) == [i \in 1..n |-> text]
==============================================================================
