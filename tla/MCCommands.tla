------------------------------ MODULE MCCommands ------------------------------
(***************************************************************************)
(* Instances for TLC of what the commands of the user keep: texts, memory  *)
(* segments, peripherals, breakpoints, the callstack and the inferior, and *)
(* of the end of the program.  They share no state and are run one at a    *)
(* time: group names the one that steps, the others stay as they begin.    *)
(***************************************************************************)
EXTENDS Strings, Memory, Per, Break, Callstack, Inferior, Shutdown

VARIABLE group

vars == <<group, strVars, memVars, perVars, brkVars, csVars, infVars, shutVars>>

Groups == {"strings", "memory", "per", "break", "callstack", "inferior", "shutdown"}

Init == /\ group \in Groups
        /\ StrInit /\ MemInit /\ PerInit /\ BreakInit /\ CsInit /\ InfInit /\ ShutInit

\* All but one group stay as they are.
Others(g) ==
    /\ group = g /\ UNCHANGED group
    /\ g # "strings"   => UNCHANGED strVars
    /\ g # "memory"    => UNCHANGED memVars
    /\ g # "per"       => UNCHANGED perVars
    /\ g # "break"     => UNCHANGED brkVars
    /\ g # "callstack" => UNCHANGED csVars
    /\ g # "inferior"  => UNCHANGED infVars
    /\ g # "shutdown"  => UNCHANGED shutVars

Next == \/ Others("strings") /\ StrNext
        \/ Others("memory") /\ MemNext
        \/ Others("per") /\ PerNext
        \/ Others("break") /\ BreakNext
        \/ Others("callstack") /\ CsNext
        \/ Others("inferior") /\ InfNext
        \/ Others("shutdown") /\ ShutNext

Spec == Init /\ [][Next]_vars

CallstackSpec == Init /\ group = "callstack" /\ [][Next]_vars

------------------------------------------------------------------------------
(* Constants *)

\* One segment that is aligned at neither end, one with an alignment to be replaced.
MCMemRequests == {[addr |-> 3, length |-> 3, align |-> 2], [addr |-> 2, length |-> 2, align |-> 3]}

Reg(n) == [kind |-> "register", bits |-> n, fits |-> TRUE]
Misfit == [kind |-> "register", bits |-> 0, fits |-> FALSE]
Heading == [kind |-> "heading", bits |-> 0, fits |-> TRUE]

\* Two ranges with a heading and registers of 0, 4 and 5 bit fields, a misfit in the
\* second range, and files that do not parse.
MCPerFiles ==
    {[parses |-> TRUE,  ranges |-> << << <<Heading, Reg(4), Reg(0)>>, <<Reg(5)>> >>, << <<Reg(0)>> >> >>],
     [parses |-> TRUE,  ranges |-> << << <<Reg(0)>> >>, << <<Misfit>> >> >>],
     [parses |-> FALSE, ranges |-> << << <<Reg(0)>> >> >>],
     [parses |-> FALSE, ranges |-> <<>>]}

MCFunctions == {[name |-> "f", args |-> 1, locals |-> 1], [name |-> "g", args |-> 0, locals |-> 0]}

==============================================================================
