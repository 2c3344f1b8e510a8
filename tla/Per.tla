---------------------------------- MODULE Per ----------------------------------
(***************************************************************************)
(* Peripherals: memory-mapped registers (src/user_cmd/per.cc,              *)
(* src/user_cmd/per.y, src/user_cmd/pertypes.cc).  A file describes ranges *)
(* of memory; in a range there are sections, in a section registers with   *)
(* their bits, and headings.  A window shows the sections, and two maps    *)
(* lead from its lines to sections and to registers.                       *)
(*                                                                         *)
(* An object is known by its place in the file: <<range, section>> or      *)
(* <<range, section, register>>.  That is enough to tell the objects of a  *)
(* file from deleted ones, as ranges and maps are only cleared together.   *)
(* Addresses, values and texts are left out; gdb is external.              *)
(***************************************************************************)
EXTENDS LineMap

CONSTANT
    PerFiles    \* records [ranges, parses]: the ranges up to an error, or all of them.
                \* A range is a sequence of sections, a section one of registers.

PerRegisters == [kind : {"register", "heading"}, bits : Nat, fits : BOOLEAN]

ASSUME PerFilesAssumption == \A file \in PerFiles : file.ranges \in Seq(Seq(Seq(PerRegisters)))

VARIABLES
    range_lst,      \* the ranges: records [mem, sections]
    line_secs,      \* the maps from lines to sections
    line_regs,      \* and to registers
    per_file,       \* a file is loaded (the name of the file)
    perWindow,      \* the buffer of the window exists
    perShown,       \* its content: the place printed on each line
    perState,       \* "running", "ended", or how the program went wrong
    perStale        \* history: the window was not printed although something had changed

perVars == <<range_lst, line_secs, line_regs, per_file, perWindow, perShown, perState, perStale>>

PerInit ==
    /\ range_lst = <<>> /\ line_secs = <<>> /\ line_regs = <<>>
    /\ per_file = FALSE /\ perWindow = FALSE /\ perShown = <<>>
    /\ perState = "running" /\ perStale = FALSE

\* Bit fields are printed four to a line.
BitLines(n) == (n + 3) \div 4

------------------------------------------------------------------------------
(* What is printed, from top to bottom *)

\* A section: its name, and the registers, if it is unfolded, before an empty line.
SectionItems(r, s, section) ==
    LET item(kind, at, bits) == [kind |-> kind, at |-> at, bits |-> bits]
        register(k) == item(section.regs[k].kind, <<r, s, k>>, section.regs[k].bits)
    IN  <<item("section", <<r, s>>, 0)>>
        \o (IF section.expanded THEN [k \in DOMAIN section.regs |-> register(k)] ELSE <<>>)
        \o <<item("empty", <<r, s>>, 0)>>

Items(list) ==
    FlattenSeq([r \in DOMAIN list |->
        FlattenSeq([s \in DOMAIN list[r].sections |-> SectionItems(r, s, list[r].sections[s])])])

ItemText(item) == Repeat(item.at, 1 + (IF item.bits > 0 THEN BitLines(item.bits) + 1 ELSE 0))

\* Mutant of ItemHeight: a line break is counted behind the fourth bit field too.
ItemHeightFour(item) == IF item.bits = 0 THEN 1 ELSE 1 + item.bits \div 4 + 2

\* A break is counted before every fourth bit field but the first, two after the last.
ItemHeight(item) ==
    IF item.bits = 0 THEN 1 ELSE 1 + Cardinality({i \in 1..(item.bits - 1) : i % 4 = 0}) + 2

\* The entries for the items of some kinds.
Entries(items, kinds) ==
    LET tall == [i \in DOMAIN items |-> ItemHeight(items[i])]
    IN  FlattenSeq([i \in DOMAIN items |->
            IF items[i].kind \in kinds
            THEN <<[line |-> LineOf(tall, i), data |-> items[i].at]>> ELSE <<>>])

------------------------------------------------------------------------------
(* cmd_per_update *)

PerGoesWrong(how) ==
    /\ perState' = how
    /\ UNCHANGED <<range_lst, line_secs, line_regs, per_file, perWindow, perShown, perStale>>

\* Sections and registers of the first ranges are entered in the maps, all of them
\* have to be read for the window to be printed.
UpdateOf(list, answered) ==
    LET items == Items(SubSeq(list, 1, answered)) IN
    /\ range_lst' = list
    /\ IF ~perWindow
       THEN /\ perStale' = TRUE
            /\ UNCHANGED <<line_secs, line_regs, perShown>>
       ELSE /\ line_secs' = Entries(items, {"section"})
            /\ line_regs' = Entries(items, {"register", "heading"})
            /\ perStale' = (answered < Len(list))
            /\ IF answered = Len(list)
               THEN perShown' = FlattenSeq([i \in DOMAIN items |-> ItemText(items[i])])
               ELSE UNCHANGED perShown

\* A range whose memory was never read is used as if it had been.
PerUpdate(list) ==
    \E answered \in 0..Len(list) :
        IF perWindow /\ \E r \in 1..Min({answered + 1, Len(list)}) : ~list[r].mem
        THEN PerGoesWrong("updated a range without memory")
        ELSE /\ UpdateOf(list, answered)
             /\ UNCHANGED <<per_file, perWindow, perState>>

------------------------------------------------------------------------------
(* Loading a file *)

NewSection(regs) == [expanded |-> FALSE, regs |-> regs]
NewRange(sections, mem) == [mem |-> mem, sections |-> [s \in DOMAIN sections |-> NewSection(sections[s])]]

RangeFits(sections) ==
    \A s \in DOMAIN sections : \A k \in DOMAIN sections[s] : sections[s][k].fits

\* Mutant of FileFits: the first range only is checked.
FileFitsFirst(file) == file.ranges # <<>> => RangeFits(file.ranges[1])

FileFits(file) == \A r \in DOMAIN file.ranges : RangeFits(file.ranges[r])

PerRunning == perState = "running"

\* cmd_per_cleanup has emptied everything; the new ranges have no memory yet.
PerUnread(ranges) ==
    /\ range_lst' = [r \in DOMAIN ranges |-> NewRange(ranges[r], FALSE)]
    /\ line_secs' = <<>> /\ line_regs' = <<>> /\ per_file' = FALSE /\ perStale' = TRUE
    /\ UNCHANGED <<perWindow, perShown, perState>>

\* Everything is deleted once more, and an empty window is printed.
PerReject ==
    /\ range_lst' = <<>> /\ line_secs' = <<>> /\ line_regs' = <<>> /\ per_file' = FALSE
    /\ perShown' = <<>> /\ perStale' = ~perWindow
    /\ UNCHANGED <<perWindow, perState>>

PerCannotOpen == PerRunning /\ PerUnread(<<>>)

\* What was parsed before the error stays.
PerParseError(file) == /\ PerRunning /\ ~file.parses
                       /\ PerUnread(file.ranges)

\* gdb cannot read a range: the message names the section at hand, of which there is
\* none.  For the first range that is any address, then the end of a list.
PerNoMemory(file) ==
    /\ PerRunning /\ file.parses
    /\ \E r \in DOMAIN file.ranges :
          /\ \A q \in 1..(r - 1) : RangeFits(file.ranges[q])
          /\ \/ PerGoesWrong("named a section that does not exist")
             \/ r = 1 /\ PerReject

\* A register exceeds its range, or bits exceed their register.
PerMisfit(file) == /\ PerRunning /\ file.parses
                   /\ ~FileFits(file)
                   /\ PerReject

\* The file is taken over and shown.
PerLoad(file) ==
    LET list == [r \in DOMAIN file.ranges |-> NewRange(file.ranges[r], TRUE)] IN
    /\ PerRunning /\ file.parses /\ FileFits(file)
    /\ per_file' = TRUE
    /\ UNCHANGED <<perWindow, perState>>
    /\ \E answered \in 0..Len(list) :
          IF perWindow THEN UpdateOf(list, answered)
          ELSE /\ range_lst' = list /\ line_secs' = <<>> /\ line_regs' = <<>>
               /\ perStale' = TRUE /\ UNCHANGED perShown

------------------------------------------------------------------------------
(* The other commands *)

\* The range of a register is entered when its file is loaded, but not in headings.
PerSet(n) ==
    /\ PerRunning
    /\ \E at \in LineFind(line_regs, n) :
          IF range_lst[at[1]].sections[at[2]].regs[at[3]].kind = "heading"
          THEN PerGoesWrong("set a heading")
          ELSE UNCHANGED perVars

PerFold(n) ==
    /\ PerRunning
    /\ \E at \in LineFind(line_secs, n) :
          PerUpdate([range_lst EXCEPT ![at[1]].sections[at[2]].expanded = ~@])

\* The command to view, and the stop of the target, or the user has set something.
PerView == PerRunning /\ PerUpdate(range_lst)

PerSwitchWindow ==
    /\ PerRunning
    /\ perWindow' = ~perWindow /\ perShown' = <<>> /\ perStale' = TRUE
    /\ UNCHANGED <<range_lst, line_secs, line_regs, per_file, perState>>

PerCleanup ==
    /\ PerRunning
    /\ perState' = "ended" /\ range_lst' = <<>> /\ line_secs' = <<>> /\ line_regs' = <<>>
    /\ per_file' = FALSE
    /\ UNCHANGED <<perWindow, perShown, perStale>>

PerLines == 1..Max({Len(perShown), 2})

PerNext ==
    \/ \E file \in PerFiles : \/ PerParseError(file) \/ PerNoMemory(file)
                              \/ PerMisfit(file) \/ PerLoad(file)
    \/ \E n \in PerLines : PerSet(n) \/ PerFold(n)
    \/ PerCannotOpen \/ PerView \/ PerSwitchWindow \/ PerCleanup

PerSpec == PerInit /\ [][PerNext]_perVars

------------------------------------------------------------------------------
(* Properties *)

\* The kind of what is printed at a place.
IsSection(at) == Len(at) = 2
SectionOf(at) == SubSeq(at, 1, 2)

(* The user folds and sets what he sees: in a window that is up to date a line of a   *)
(* section or of a register leads to it, however many lines of bits, headings and     *)
(* folded sections are above it (per.cc:326, 340).                                   *)
PerLinesLead ==
    PerRunning /\ ~perStale =>
        \A n \in DOMAIN perShown :
            /\ LineFind(line_secs, n) = {SectionOf(perShown[n])}
            /\ ~IsSection(perShown[n]) => LineFind(line_regs, n) = {perShown[n]}

(* A file that is loaded can be used: every range has memory and every register lies  *)
(* in its range, so that the program goes wrong only over a file it has refused or    *)
(* not loaded yet (per.cc:82 keeps the ranges of a file that does not parse), or when *)
(* the user sets a heading (per.cc:158, parent is 0).                                *)
LoadedFileIsUsable ==
    /\ per_file => \A r \in DOMAIN range_lst :
          /\ range_lst[r].mem
          /\ RangeFits([s \in DOMAIN range_lst[r].sections |-> range_lst[r].sections[s].regs])
    /\ perState = "updated a range without memory" => ~per_file
==============================================================================
