------------------------------- MODULE Callstack -------------------------------
(***************************************************************************)
(* The callstack (src/user_cmd/callstack.cc, src/gdb/frame.cc).  When the  *)
(* target has stopped gdb is asked for its frames and for the variables of *)
(* each.  A frame is known by the chain of functions that leads to it; it  *)
(* is created when a chain is met first, and used again ever after.  The   *)
(* window shows the frames, innermost first, with their variables, and two *)
(* maps lead from its lines to frames and to variables.                    *)
(*                                                                         *)
(* gdb's stack is here listed from the outermost frame on, the order in    *)
(* which its answer is parsed (parser.y:380) and handled.  A variable is   *)
(* its position in its frame, arguments first, and has no members.  gdb is *)
(* external.                                                               *)
(***************************************************************************)
EXTENDS LineMap

CONSTANTS
    Functions,      \* functions: records [name, args, locals] with numbers of variables
    MaxDepth,       \* bound: frames on the stack
    SrcLines,       \* bound: lines of a function
    MaxCalls        \* bound: number of calls

ASSUME FunctionsAssumption == \A fn \in Functions : fn.args \in Nat /\ fn.locals \in Nat

VARIABLES
    csStack,        \* gdb's stack: frames [fn, line, call], outermost first
    csCalls,        \* number of calls made; a frame of gdb is known by its call
    gdb_frame_lst,  \* chain of functions to [line, call, got, expanded]: got variables
    callstack,      \* the program's stack: chains, outermost first
    line_frames,    \* the maps from lines to frames
    cs_line_vars,   \* and to variables
    csWindow,       \* the buffer of the window exists
    csShown,        \* its content: what each line shows
    csFresh,        \* history: gdb has been asked, and has answered, since it stopped last
    csFirst         \* history: what gdb said of a chain when it was met first

csVars == <<csStack, csCalls, gdb_frame_lst, callstack, line_frames, cs_line_vars,
            csWindow, csShown, csFresh, csFirst>>

CsInit ==
    /\ csStack = <<>> /\ csCalls = 0
    /\ gdb_frame_lst = <<>> /\ callstack = <<>>
    /\ line_frames = <<>> /\ cs_line_vars = <<>>
    /\ csWindow = FALSE /\ csShown = <<>>
    /\ csFresh = FALSE /\ csFirst = <<>>

VarsOf(fn) == fn.args + fn.locals

\* Mutant of Chain: the function alone identifies a frame.
ChainOfOne(i) == <<csStack[i].fn>>

\* The context of the frame at a position of the stack.
Chain(i) == [k \in 1..i |-> csStack[k].fn]

------------------------------------------------------------------------------
(* cmd_callstack_print, for frames as lst has them *)

Fn(chain) == chain[Len(chain)]

\* Variables the frame has: of its arguments, and of its locals.
Args(chain, lst)   == Min({Fn(chain).args, lst[chain].got})
Locals(chain, lst) == lst[chain].got - Args(chain, lst)

\* Arguments have lines of their own if the frame is unfolded.
ArgLines(chain, lst) == IF lst[chain].expanded THEN Args(chain, lst) ELSE 0

\* The lines of a frame: its call, to be closed behind arguments that have lines, its
\* locals and an empty one.
FrameText(chain, lst) ==
    LET of(what, n) == [chain |-> chain, what |-> what, var |-> n,
                        line |-> lst[chain].line, call |-> lst[chain].call]
        args == ArgLines(chain, lst)
    IN  <<of("frame", 0)>>
        \o [k \in 1..args |-> of("variable", k)]
        \o (IF args > 0 THEN <<of("end", 0)>> ELSE <<>>)
        \o [k \in 1..Locals(chain, lst) |-> of("variable", Args(chain, lst) + k)]
        \o <<of("empty", 0)>>

\* Mutant of CallHeight: the line that closes the arguments is not counted.
CallHeightOpen(chain, lst) == 1 + ArgLines(chain, lst)

\* What the code counts for the call and its arguments, and for the whole frame.
CallHeight(chain, lst) ==
    (IF ArgLines(chain, lst) > 0 THEN 1 + ArgLines(chain, lst) ELSE 0) + 1

FrameHeight(chain, lst) == CallHeight(chain, lst) + Locals(chain, lst) + 1

\* The entries of a frame's variables, the frame being printed from a line on.
VarEntries(chain, lst, line) ==
    [k \in 1..ArgLines(chain, lst) |-> [line |-> line + k, data |-> <<chain, k>>]]
    \o [k \in 1..Locals(chain, lst) |->
            [line |-> line + CallHeight(chain, lst) + k - 1,
             data |-> <<chain, Args(chain, lst) + k>>]]

\* From the innermost frame of the program's stack to the outermost.
CsPrint(stack, lst) ==
    LET order == Reverse(stack)
        tall  == [i \in DOMAIN order |-> FrameHeight(order[i], lst)]
    IN  /\ line_frames' = [i \in DOMAIN order |-> [line |-> LineOf(tall, i), data |-> order[i]]]
        /\ cs_line_vars' = FlattenSeq([i \in DOMAIN order |->
                                          VarEntries(order[i], lst, LineOf(tall, i))])
        /\ csShown' = FlattenSeq([i \in DOMAIN order |-> FrameText(order[i], lst)])

NoPrint == UNCHANGED <<line_frames, cs_line_vars, csShown>>

------------------------------------------------------------------------------
(* cmd_callstack_update *)

\* gdb_frame_t::acquire: the frame known by the chain, or the one gdb has reported,
\* with the variables that could be acquired.
Acquire(chain, got) ==
    IF chain \in DOMAIN gdb_frame_lst THEN gdb_frame_lst[chain]
    ELSE [line |-> csStack[Len(chain)].line, call |-> csStack[Len(chain)].call,
          got |-> got, expanded |-> FALSE]

\* The first frames have been handled; got variables of the last one could be acquired.
Handled(n, got) ==
    [chain \in {Chain(i) : i \in 1..n} \union DOMAIN gdb_frame_lst |->
        Acquire(chain, IF Len(chain) = n THEN got ELSE VarsOf(Fn(chain)))]

\* What gdb said of a frame when it was met first is remembered.
Remember(lst) ==
    csFirst' = [chain \in DOMAIN lst |-> IF chain \in DOMAIN csFirst THEN csFirst[chain] ELSE lst[chain]]

\* gdb refuses a command on the way: the stack ends with the frame at hand.
CsUpdateFails ==
    /\ csWindow
    /\ \E n \in 0..Len(csStack) : \E got \in 0..(IF n = 0 THEN 0 ELSE VarsOf(csStack[n].fn)) :
          /\ n = Len(csStack) /\ n > 0 => /\ Chain(n) \notin DOMAIN gdb_frame_lst
                                          /\ got < VarsOf(csStack[n].fn)
          /\ gdb_frame_lst' = Handled(n, got)
          /\ Remember(Handled(n, got))
          /\ callstack' = [i \in 1..n |-> Chain(i)]
    /\ csFresh' = FALSE
    /\ NoPrint
    /\ UNCHANGED <<csStack, csCalls, csWindow>>

CsUpdate ==
    LET n   == Len(csStack)
        lst == Handled(n, IF n = 0 THEN 0 ELSE VarsOf(csStack[n].fn))
    IN  /\ csWindow
        /\ gdb_frame_lst' = lst
        /\ Remember(lst)
        /\ callstack' = [i \in 1..n |-> Chain(i)]
        /\ csFresh' = TRUE
        /\ CsPrint([i \in 1..n |-> Chain(i)], lst)
        /\ UNCHANGED <<csStack, csCalls, csWindow>>

------------------------------------------------------------------------------
(* The user's commands, and the target *)

\* A variable at or above the line is taken first; one without members has nothing to
\* unfold.  Only if there is none the frame is looked up.
CsFold(n) ==
    /\ \/ LineFind(cs_line_vars, n) # {} /\ UNCHANGED gdb_frame_lst
       \/ /\ LineFind(cs_line_vars, n) = {}
          /\ \E chain \in LineFind(line_frames, n) :
                gdb_frame_lst' = [gdb_frame_lst EXCEPT ![chain].expanded = ~@]
    /\ IF csWindow THEN CsPrint(callstack, gdb_frame_lst') ELSE NoPrint
    /\ UNCHANGED <<csStack, csCalls, callstack, csWindow, csFresh, csFirst>>

CsSwitchWindow ==
    /\ csWindow' = ~csWindow /\ csShown' = <<>> /\ csFresh' = FALSE
    /\ UNCHANGED <<csStack, csCalls, gdb_frame_lst, callstack, line_frames, cs_line_vars, csFirst>>

\* The target runs to another line, into a function or out of one, and stops.
TargetMoves(stack) ==
    /\ csStack' = stack /\ csFresh' = FALSE
    /\ UNCHANGED <<gdb_frame_lst, callstack, line_frames, cs_line_vars, csWindow, csShown, csFirst>>

TargetSteps(line) ==
    /\ csStack # <<>>
    /\ TargetMoves([csStack EXCEPT ![Len(csStack)].line = line])
    /\ UNCHANGED csCalls

TargetCalls(fn) ==
    /\ Len(csStack) < MaxDepth /\ csCalls < MaxCalls
    /\ csCalls' = csCalls + 1
    /\ TargetMoves(Append(csStack, [fn |-> fn, line |-> 1, call |-> csCalls']))

TargetReturns ==
    /\ Len(csStack) > 1
    /\ TargetMoves(SubSeq(csStack, 1, Len(csStack) - 1))
    /\ UNCHANGED csCalls

CsNext ==
    \/ CsUpdate \/ CsUpdateFails \/ CsSwitchWindow
    \/ \E n \in DOMAIN csShown : CsFold(n)
    \/ \E line \in SrcLines : TargetSteps(line)
    \/ \E fn \in Functions : TargetCalls(fn)
    \/ TargetReturns

CsSpec == CsInit /\ [][CsNext]_csVars

------------------------------------------------------------------------------
(* Properties *)

\* What is shown of the frames, innermost first.
FramesShown ==
    FlattenSeq([n \in DOMAIN csShown |-> IF csShown[n].what = "frame" THEN <<csShown[n]>> ELSE <<>>])

(* After gdb has answered everything the window shows gdb's stack, its frames in      *)
(* order whichever of them were known before, and of each what gdb said when its      *)
(* chain of functions was met first (callstack.cc:250).  The frames known come before *)
(* the new ones, on which re-linking them (callstack.cc:253) relies.                  *)
StackIsShown ==
    /\ csFresh =>
          /\ Len(FramesShown) = Len(csStack)
          /\ \A i \in DOMAIN csStack :
                LET l == FramesShown[Len(csStack) - i + 1] IN
                /\ l.chain = [k \in 1..i |-> csStack[k].fn]
                /\ l.line = csFirst[l.chain].line /\ l.call = csFirst[l.chain].call
    /\ \A chain \in DOMAIN gdb_frame_lst :
          \A k \in 1..(Len(chain) - 1) : SubSeq(chain, 1, k) \in DOMAIN gdb_frame_lst

(* The line of a variable leads to it and the line of a frame to the frame, with      *)
(* arguments on lines of their own or not (callstack.cc:313-333).                     *)
CsLinesLead ==
    \A n \in DOMAIN csShown :
        /\ csShown[n].what = "frame" => LineFind(line_frames, n) = {csShown[n].chain}
        /\ csShown[n].what = "variable" =>
              LineFind(cs_line_vars, n) = {<<csShown[n].chain, csShown[n].var>>}

(* The window shows where the target is: every frame with the line it is at           *)
(* (callstack.cc:250 "get frame and update callstack").                              *)
LinesAreCurrent ==
    csFresh => \A i \in DOMAIN csStack :
        FramesShown[Len(csStack) - i + 1].line = csStack[i].line
==============================================================================
