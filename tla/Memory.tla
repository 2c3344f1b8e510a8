-------------------------------- MODULE Memory --------------------------------
(***************************************************************************)
(* The memory segments of the user (src/user_cmd/memory.cc,                *)
(* src/gdb/memory.cc): a list of them, each with the content read last and *)
(* the one before, a window in which they are dumped one below the other   *)
(* with the bytes that changed marked, and the map that leads from a line  *)
(* of the window to its segment.  A command of the user, and every stop of *)
(* the program debugged, reads all of them from gdb, which may fail at any *)
(* of them.                                                                *)
(*                                                                         *)
(* The content of the target's memory is a version number.  A segment      *)
(* keeps its address and size, which say how many lines it takes.  gdb is  *)
(* external; it answers with as many bytes as asked for.                   *)
(***************************************************************************)
EXTENDS LineMap

CONSTANTS
    MemRequests,    \* what the user may add: records [addr, length, align]
    MaxSegments,    \* bound: number of segments added
    MaxVersion      \* bound: versions of the target's memory are 0..MaxVersion

\* gdb refuses to read no bytes.
ASSUME MemRequestsAssumption ==
    \A req \in MemRequests : req.addr \in Int /\ req.length \in Nat \ {0}

VARIABLES
    mem_lst,        \* the segments
    line_mems,      \* the line map
    memAdded,       \* number of segments added, which names the next one
    memWindow,      \* the buffer of the window exists
    memShown,       \* its content: the segment of each line, and whether it is marked
    memTarget,      \* version of the target's memory
    memState,       \* "running", "ended", or how the program went wrong
    memSeen,        \* history: what the user saw last, segment to version
    memSkipped      \* history: an update ended early after that

memVars == <<mem_lst, line_mems, memAdded, memWindow, memShown, memTarget, memState,
             memSeen, memSkipped>>

MemInit ==
    /\ mem_lst = <<>> /\ line_mems = <<>> /\ memAdded = 0
    /\ memWindow = FALSE /\ memShown = <<>>
    /\ memTarget = 0 /\ memState = "running"
    /\ memSeen = <<>> /\ memSkipped = FALSE

MemIds == {mem_lst[i].id : i \in DOMAIN mem_lst}

\* An alignment that is no power of two is replaced.
Alignment(n) == IF \E k \in 0..n : 2^k = n THEN n ELSE 8

------------------------------------------------------------------------------
(* The dump of a segment *)

\* Rows that end within the segment, and whether the last one has to be filled up.
FullRows(seg) == Cardinality({a \in seg.addr..(seg.addr + seg.length - 1) : (a + 1) % seg.align = 0})
Rest(seg)     == (seg.addr + seg.length) % seg.align # 0

\* The lines that are printed: header, names of the columns, the bytes and an empty
\* line, or a header and an empty line.  Lines of bytes are marked if these changed.
DumpText(seg) ==
    LET plain == [seg |-> seg.id, marked |-> FALSE]
        bytes == [seg |-> seg.id, marked |-> seg.ver # seg.old]
    IN  IF seg.expanded
        THEN Repeat(plain, 2) \o Repeat(bytes, FullRows(seg) + (IF Rest(seg) THEN 1 ELSE 0))
             \o Repeat(plain, 1)
        ELSE Repeat(plain, 2)

\* Mutant of LinesCounted: the empty line behind an unfilled row is not counted.
LinesCountedFull(seg) == IF seg.expanded THEN FullRows(seg) + 3 ELSE 2

\* The lines the code counts while it prints them.
LinesCounted(seg) ==
    IF seg.expanded THEN 2 + FullRows(seg) + 1 + (IF Rest(seg) THEN 1 ELSE 0) ELSE 2

\* Mutant of Reread: the content before is kept for good.
RereadOnce(seg, version) == [seg EXCEPT !.ver = version]

\* gdb_memory_t::update
Reread(seg, version) == [seg EXCEPT !.old = seg.ver, !.ver = version]

\* cmd_memory_update of a list of segments, of which gdb answers the first ones with the
\* memory as it is.  The map is filled on the way, the window printed when all is done.
Update(list, version, answered) ==
    LET now  == [i \in DOMAIN list |-> IF i <= answered THEN Reread(list[i], version) ELSE list[i]]
        tall == [i \in DOMAIN list |-> LinesCounted(now[i])]
    IN  IF ~memWindow
        THEN /\ mem_lst' = list
             /\ UNCHANGED <<line_mems, memShown, memSeen, memSkipped>>
        ELSE /\ mem_lst' = now
             /\ line_mems' = [i \in 1..answered |-> [line |-> LineOf(tall, i), data |-> list[i].id]]
             /\ IF answered = Len(list)
                THEN /\ memShown' = FlattenSeq([i \in DOMAIN now |-> DumpText(now[i])])
                     /\ memSeen' = [id \in {s.id : s \in Range(now)} |-> version]
                     /\ memSkipped' = FALSE
                ELSE memSkipped' = TRUE /\ UNCHANGED <<memShown, memSeen>>

UpdateAll(list, version) == \E answered \in 0..Len(list) : Update(list, version, answered)

------------------------------------------------------------------------------
(* The commands of the user, and the stop of the target *)

Running == memState = "running"

\* What a command does that reaches into a segment that was deleted.
MemGoesWrong(how) ==
    /\ memState' = how
    /\ UNCHANGED <<mem_lst, line_mems, memAdded, memWindow, memShown, memTarget, memSeen, memSkipped>>

MemAdd(req) ==
    /\ Running /\ memAdded < MaxSegments
    /\ memAdded' = memAdded + 1
    /\ UNCHANGED <<memWindow, memTarget, memState>>
    /\ UpdateAll(Append(mem_lst,
           [id |-> memAdded + 1, addr |-> req.addr, length |-> req.length,
            align |-> Alignment(req.align), expanded |-> TRUE,
            ver |-> memTarget, old |-> memTarget]), memTarget)

MemDelete(n) ==
    /\ Running
    /\ \E seg \in LineFind(line_mems, n) :
       IF seg \in MemIds
       THEN /\ \E i \in DOMAIN mem_lst : /\ mem_lst[i].id = seg
                                        /\ UpdateAll(RemoveAt(mem_lst, i), memTarget)
            /\ UNCHANGED <<memAdded, memWindow, memTarget, memState>>
       ELSE MemGoesWrong("used a deleted segment")

MemFold(n) ==
    /\ Running
    /\ \E seg \in LineFind(line_mems, n) :
       IF seg \in MemIds
       THEN /\ UpdateAll([i \in DOMAIN mem_lst |->
                   IF mem_lst[i].id = seg THEN [mem_lst[i] EXCEPT !.expanded = ~@] ELSE mem_lst[i]], memTarget)
            /\ UNCHANGED <<memAdded, memWindow, memTarget, memState>>
       ELSE MemGoesWrong("used a deleted segment")

MemView == /\ Running
           /\ UpdateAll(mem_lst, memTarget)
           /\ UNCHANGED <<memAdded, memWindow, memTarget, memState>>

\* gdb_memory_t::set: a value in quotes has to end with one.  The length of what they
\* enclose is unsigned, so a lone quote encloses 2^32 - 1 characters.
MemSet(value) ==
    /\ Running
    /\ CASE value = "lone quote" -> MemGoesWrong("read beyond the value")
         [] value = "unclosed"   -> UNCHANGED memVars
         [] value = "hex"        -> /\ memTarget' \in 0..MaxVersion
                                    /\ UNCHANGED <<mem_lst, line_mems, memAdded, memWindow, memShown,
                                                   memState, memSeen, memSkipped>>

\* The target has run, or the user has changed something: cmd_memory_update follows.
MemStop == /\ Running
           /\ \E version \in 0..MaxVersion : memTarget' = version /\ UpdateAll(mem_lst, version)
           /\ UNCHANGED <<memAdded, memWindow, memState>>

\* The user opens or closes the window.
MemSwitchWindow ==
    /\ Running
    /\ memWindow' = ~memWindow /\ memShown' = <<>>
    /\ UNCHANGED <<mem_lst, line_mems, memAdded, memTarget, memState, memSeen, memSkipped>>

MemCleanup ==
    /\ Running
    /\ memState' = "ended" /\ line_mems' = <<>> /\ mem_lst' = <<>>
    /\ UNCHANGED <<memAdded, memWindow, memShown, memTarget, memSeen, memSkipped>>

\* Lines the user may name: those of the window, or any if he cannot see it.
MemLines == 1..Max({Len(memShown), 2})

MemNext ==
    \/ \E req \in MemRequests : MemAdd(req)
    \/ \E n \in MemLines : MemDelete(n) \/ MemFold(n)
    \/ \E value \in {"hex", "unclosed", "lone quote"} : MemSet(value)
    \/ MemView \/ MemStop \/ MemSwitchWindow \/ MemCleanup

MemSpec == MemInit /\ [][MemNext]_memVars

------------------------------------------------------------------------------
(* Properties *)

(* A command that names a line acts on the segment the user sees there              *)
(* (vimgdb.txt: {line} refers to the line in the memory buffer), as long as the last *)
(* update has reached the window; and it never reaches a segment that was deleted as *)
(* long as something is seen at all.  Without a window line_mems keeps what it had    *)
(* (memory.cc:270), deleted segments included.                                       *)
LinesLeadToSegments ==
    /\ Running /\ ~memSkipped =>
          \A n \in DOMAIN memShown : LineFind(line_mems, n) = {memShown[n].seg}
    /\ memState = "used a deleted segment" => memShown = <<>>

(* What changed since the user saw the window last is marked, and nothing else,       *)
(* whatever commands and stops lie in between (memory.cc:308, gdb/memory.cc:108).     *)
(* An update that ends early loses the marks of the segments it had read.            *)
ChangesAreMarked ==
    [][ (memSeen' # memSeen \/ memShown' # memShown) /\ memShown' # <<>> /\ ~memSkipped =>
            \A seg \in Range(mem_lst') :
                seg.id \in DOMAIN memSeen /\ seg.expanded =>
                    ([seg |-> seg.id, marked |-> TRUE] \in Range(memShown')
                        <=> memTarget' # memSeen[seg.id]) ]_memVars
==============================================================================
