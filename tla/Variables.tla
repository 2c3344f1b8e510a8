------------------------------ MODULE Variables ------------------------------
(***************************************************************************)
(* User variables (src/gdb/variable.cc, src/user_cmd/variable.cc).  For an *)
(* expression the user adds there is a variable object in gdb and a        *)
(* gdb_variable_t in the program, found by name in gdb_var_lst and         *)
(* gdb_user_var; one that has been unfolded has a child per member.  After *)
(* every stop gdb tells what has changed (get_changed), and the variables  *)
(* window is printed anew; line_vars then leads from its lines to objects, *)
(* which is how the commands of the user find them.                        *)
(*                                                                         *)
(* The main thread executes the commands, the gdb-event thread the update  *)
(* after a stop, without a lock between them.  Here a step reaches from    *)
(* one command issued to gdb to the next, and any of those may fail.  An   *)
(* expression is its place in the maps; values, and the flag "modified"    *)
(* that saves evaluations, are left out, so any evaluation may fail.       *)
(* The window's buffer exists.  gdb is external.                           *)
(***************************************************************************)
EXTENDS Integers, Sequences, FiniteSets

CONSTANTS
    NumExprs,       \* bound: expressions are 1..NumExprs
    MaxKids,        \* bound: number of members of a value
    RefMod,         \* 2^32, the range of refcnt
    Overlap         \* a stop may be handled while a command is executed

ASSUME BoundsAssumption == NumExprs \in Nat /\ MaxKids \in Nat
ASSUME RefAssumption    == RefMod \in Nat /\ RefMod > 1
ASSUME OverlapAssumption == Overlap \in BOOLEAN

VARIABLES
    objs,       \* the gdb_variable_t that exist, by address
    lst,        \* gdb_var_lst: name to address
    user,       \* gdb_user_var: expression to address
    gdb,        \* gdb's variable objects: expression to number of members
    lines,      \* line_vars
    obuf,       \* the output buffer of cmd_var_print
    shown,      \* the content of the variables window: a name per line
    pc,         \* where each thread is
    cur,        \* the object it works on, an address or an expression
    updating,   \* it does so inside get_changed
    todo,       \* what gdb reported changed and get_changed has not handled
    at,         \* the iterator of cmd_var_print: the expression printed last
    line,       \* its line counter
    fault       \* an object was used after it was deleted

maps  == <<objs, lst, user>>
\* What a thread does, and what it sets up when it begins to print.
work  == <<pc, cur>>
panel == <<lines, obuf, at, line, updating>>
vars  == <<maps, gdb, panel, shown, work, todo, fault>>

Threads == {"main", "event"}
Exprs   == 1..NumExprs

\* Names of variables and of their members.
Root(e)    == <<e, 0>>
Kid(e, i)  == <<e, i>>

NoObj == <<>>

\* Functions with one more element, and restricted to fewer.
With(f, x, v) == [y \in DOMAIN f \union {x} |-> IF y = x THEN v ELSE f[y]]
Only(f, S)    == [y \in DOMAIN f \intersect S |-> f[y]]

Init ==
    /\ objs = <<>> /\ lst = <<>> /\ user = <<>> /\ gdb = <<>>
    /\ lines = <<>> /\ obuf = <<>> /\ shown = <<>>
    /\ pc = [t \in Threads |-> "idle"]
    /\ cur = [t \in Threads |-> NoObj]
    /\ updating = [t \in Threads |-> FALSE]
    /\ todo = [t \in Threads |-> {}]
    /\ at = [t \in Threads |-> 0]
    /\ line = [t \in Threads |-> 1]
    /\ fault = FALSE

At(t, where) == ~fault /\ pc[t] = where

\* A thread begins only if the other one is idle, unless they may overlap.
Start(t) == At(t, "idle") /\ (Overlap \/ \A u \in Threads : pc[u] = "idle")

Goto(t, where, x) == pc' = [pc EXCEPT ![t] = where] /\ cur' = [cur EXCEPT ![t] = x]

\* The object is gone: what happens from here on is undefined.
Crash == /\ fault' = TRUE
         /\ UNCHANGED <<maps, gdb, panel, shown, work, todo>>

------------------------------------------------------------------------------
(* Objects *)

New(name, parent, n) ==
    [name |-> name, parent |-> parent, refs |-> 1, nchilds |-> n, kids |-> <<>>, open |-> FALSE]

KidsOf(id) == {objs[id].kids[i] : i \in DOMAIN objs[id].kids}

\* Addresses in use.  One that something still refers to is not handed out anew, so
\* that a reference to a deleted object is told from one to its successor.
Used ==
    DOMAIN objs \union {lst[n] : n \in DOMAIN lst} \union {user[e] : e \in DOMAIN user}
    \union {lines[i].obj : i \in DOMAIN lines} \union {cur[t] : t \in Threads}
    \union UNION {KidsOf(id) : id \in DOMAIN objs}

\* An address is the name of the object and a number that tells it from those of
\* its predecessors.
Fresh(name) ==
    Append(name, CHOOSE g \in 0..Cardinality(Used) : Append(name, g) \notin Used)

Unnamed(names) == {n \in DOMAIN lst : n \notin names}

\* Mutant of Free: the children are not deleted.
FreeParent(id) ==
    /\ objs' = Only(objs, DOMAIN objs \ {id})
    /\ lst' = Only(lst, Unnamed({objs[id].name}))
    /\ user' = Only(user, DOMAIN user \ {objs[id].name[1]})

\* Delete the object and its children, taking their names out of the maps.
Free(id) ==
    LET gone == {id} \union KidsOf(id) IN
    /\ objs' = Only(objs, DOMAIN objs \ gone)
    /\ lst' = Only(lst, Unnamed({objs[x].name : x \in gone}))
    /\ user' = Only(user, DOMAIN user \ {objs[id].name[1]})

\* erase_childs, and the number of members gdb reports now.
EraseKids(id, n) ==
    LET gone == KidsOf(id) IN
    /\ objs' = [Only(objs, DOMAIN objs \ gone) EXCEPT ![id].kids = <<>>, ![id].nchilds = n]
    /\ lst' = Only(lst, Unnamed({objs[x].name : x \in gone}))
    /\ UNCHANGED user

\* The first half of release: the counter is unsigned.
Unref(id) ==
    /\ objs' = [objs EXCEPT ![id].refs = (@ - 1) % RefMod]
    /\ UNCHANGED <<lst, user>>

Unreferenced(id) == (objs[id].refs - 1) % RefMod = 0

------------------------------------------------------------------------------
(* cmd_var_print *)

\* Mutant of BeginPrint: the output buffer is not cleared.
BeginPrintMore(t) ==
    /\ lines' = <<>>
    /\ at' = [at EXCEPT ![t] = 0]
    /\ line' = [line EXCEPT ![t] = 1]
    /\ updating' = [updating EXCEPT ![t] = FALSE]
    /\ Goto(t, "print", NoObj)
    /\ UNCHANGED obuf

\* Clear line_vars and the output buffer, and begin to iterate.
BeginPrint(t) ==
    /\ lines' = <<>>
    /\ obuf' = <<>>
    /\ at' = [at EXCEPT ![t] = 0]
    /\ line' = [line EXCEPT ![t] = 1]
    /\ updating' = [updating EXCEPT ![t] = FALSE]
    /\ Goto(t, "print", NoObj)

Increasing(p) == \A i, j \in DOMAIN p : i < j => p[i] < p[j]

\* What a sequence can become when elements of it are left out.
Thinned(s) ==
    UNION {{[i \in 1..n |-> s[p[i]]] : p \in {q \in [1..n -> 1..Len(s)] : Increasing(q)}} :
           n \in 0..Len(s)}

\* The lines a variable may have: none if it cannot be evaluated, else its own and
\* those of the children, if they are visible, that can.
Printed(id) ==
    {<<>>} \union {<<id>> \o kids : kids \in IF objs[id].open THEN Thinned(objs[id].kids) ELSE {<<>>}}

\* An iterator whose element has been erased may not be used.
PrintNext(t) ==
    /\ At(t, "print")
    /\ IF at[t] # 0 /\ at[t] \notin DOMAIN user THEN Crash
       ELSE \E e \in DOMAIN user :
            /\ e > at[t]
            /\ \A f \in DOMAIN user : f > at[t] => e <= f
            /\ \E out \in Printed(user[e]) :
               /\ lines' = lines \o [i \in 1..Len(out) |-> [line |-> line[t] + i - 1, obj |-> out[i]]]
               /\ obuf' = obuf \o [i \in 1..Len(out) |-> objs[out[i]].name]
               /\ line' = [line EXCEPT ![t] = @ + Len(out)]
            /\ at' = [at EXCEPT ![t] = e]
            /\ UNCHANGED <<maps, gdb, shown, work, updating, todo, fault>>

\* All printed: replace the content of the window.
PrintEnd(t) ==
    /\ At(t, "print")
    /\ \A e \in DOMAIN user : e <= at[t]
    /\ shown' = obuf
    /\ at' = [at EXCEPT ![t] = 0]
    /\ line' = [line EXCEPT ![t] = 1]
    /\ Goto(t, "idle", NoObj)
    /\ UNCHANGED <<maps, gdb, lines, obuf, updating, todo, fault>>

------------------------------------------------------------------------------
(* gdb_variable_t::acquire: "Variable add" *)

\* A known variable is never referenced more than once; it is printed if an
\* attempt to delete it had failed.
AddKnown(e) ==
    /\ Start("main")
    /\ Root(e) \in DOMAIN lst
    /\ LET id == lst[Root(e)] IN
          /\ objs' = [objs EXCEPT ![id].refs = 1]
          /\ IF (objs[id].refs + 1) % RefMod = 1
             THEN BeginPrint("main") ELSE UNCHANGED <<panel, work>>
    /\ UNCHANGED <<lst, user, gdb, shown, todo, fault>>

AddUnknown(e) ==
    /\ Start("main")
    /\ Root(e) \notin DOMAIN lst
    /\ Goto("main", "create", Root(e))
    /\ UNCHANGED <<maps, gdb, panel, shown, todo, fault>>

\* var-create
CreateOk(n) ==
    LET e == cur["main"][1] IN
    /\ At("main", "create")
    /\ e \notin DOMAIN gdb
    /\ gdb' = With(gdb, e, n)
    /\ LET id == Fresh(Root(e)) IN
          /\ objs' = With(objs, id, New(Root(e), NoObj, n))
          /\ lst' = With(lst, Root(e), id)
          /\ user' = With(user, e, id)
          /\ Goto("main", "info", id)
    /\ UNCHANGED <<panel, shown, todo, fault>>

CreateFails ==
    /\ At("main", "create")
    /\ Goto("main", "idle", NoObj)
    /\ UNCHANGED <<maps, gdb, panel, shown, todo, fault>>

\* var-info-expression.  If it fails the object stays, though the user has
\* been told nothing of it.
InfoOk ==
    LET id == cur["main"] IN
    /\ At("main", "info")
    /\ IF id \notin DOMAIN objs THEN Crash
       ELSE /\ objs' = [objs EXCEPT ![id].refs = 1]
            /\ IF objs[id].refs = 1 THEN BeginPrint("main")
               ELSE Goto("main", "idle", NoObj) /\ UNCHANGED panel
            /\ UNCHANGED <<lst, user, gdb, shown, todo, fault>>

InfoFails ==
    /\ At("main", "info")
    /\ Goto("main", "idle", NoObj)
    /\ UNCHANGED <<maps, gdb, panel, shown, todo, fault>>

------------------------------------------------------------------------------
(* Commands on a line *)

\* line_map::find: the last entry at or before the line.
Find(l) ==
    LET S == {i \in DOMAIN lines : lines[i].line <= l}
    IN  IF S = {} THEN NoObj ELSE lines[CHOOSE i \in S : \A j \in S : j <= i].obj

\* "Variable delete": of a child, the variable it belongs to.
Delete(l) ==
    /\ Start("main")
    /\ Find(l) # NoObj
    /\ IF Find(l) \notin DOMAIN objs THEN Crash
       ELSE LET id == IF objs[Find(l)].parent = NoObj THEN Find(l) ELSE objs[Find(l)].parent
            IN  /\ Unref(id)
                /\ IF Unreferenced(id)
                   THEN Goto("main", "delete", id) /\ UNCHANGED panel
                   ELSE BeginPrint("main")
                /\ UNCHANGED <<gdb, shown, todo, fault>>

\* "Variable fold": members are listed when they are first seen.
Fold(l) ==
    LET id == Find(l) IN
    /\ Start("main")
    /\ id # NoObj
    /\ IF id \notin DOMAIN objs THEN Crash
       ELSE /\ IF objs[id].nchilds > 0 /\ objs[id].kids = <<>>
               THEN Goto("main", "kids", id) /\ UNCHANGED <<objs, panel>>
               ELSE /\ objs' = IF objs[id].nchilds > 0 THEN [objs EXCEPT ![id].open = ~@]
                               ELSE IF objs[id].parent # NoObj
                               THEN [objs EXCEPT ![objs[id].parent].open = FALSE]
                               ELSE objs
                    /\ BeginPrint("main")
            /\ UNCHANGED <<lst, user, gdb, shown, todo, fault>>

\* "Variable format" and "Variable set" change a value, whether gdb agrees or not;
\* set is followed by inf_update.
Change(l, set) ==
    /\ Start("main")
    /\ Find(l) # NoObj
    /\ IF Find(l) \notin DOMAIN objs THEN Crash
       ELSE /\ IF set THEN Goto("main", "changed", NoObj) /\ UNCHANGED panel
               ELSE BeginPrint("main")
            /\ UNCHANGED <<maps, gdb, shown, todo, fault>>

View ==
    /\ Start("main")
    /\ BeginPrint("main")
    /\ UNCHANGED <<maps, gdb, shown, todo, fault>>

------------------------------------------------------------------------------
(* get_changed *)

\* The gdb-event thread handles a stop: inf_update.
Stop ==
    /\ Start("event")
    /\ Goto("event", "changed", NoObj)
    /\ UNCHANGED <<maps, gdb, panel, shown, todo, fault>>

Same     == [kind |-> "same", n |-> 0]
Invalid  == [kind |-> "invalid", n |-> 0]
Retyped(n) == [kind |-> "type", n |-> n]
Changes  == {Same, Invalid} \union {Retyped(n) : n \in 0..MaxKids}

\* var-update: variables may have another type, or be invalid.
UpdateOk(t) ==
    /\ At(t, "changed")
    /\ \E c \in [DOMAIN gdb -> Changes] :
          /\ gdb' = [e \in DOMAIN gdb |-> IF c[e].kind = "type" THEN c[e].n ELSE gdb[e]]
          /\ todo' = [todo EXCEPT ![t] = {<<e, c[e]>> : e \in {f \in DOMAIN gdb : c[f] # Same}}]
    /\ updating' = [updating EXCEPT ![t] = TRUE]
    /\ Goto(t, "entries", NoObj)
    /\ UNCHANGED <<maps, lines, obuf, at, line, shown, fault>>

UpdateFails(t) ==
    /\ At(t, "changed")
    /\ BeginPrint(t)
    /\ UNCHANGED <<maps, gdb, shown, todo, fault>>

\* One entry.  A variable the program does not know is skipped; one of another
\* type gets new children; an invalid one is released.
Entry(t) ==
    /\ At(t, "entries")
    /\ \E x \in todo[t] :
          /\ todo' = [todo EXCEPT ![t] = @ \ {x}]
          /\ IF Root(x[1]) \notin DOMAIN lst THEN UNCHANGED <<maps, work>>
             ELSE LET id == lst[Root(x[1])] IN
                  \/ x[2].kind = "type" /\ EraseKids(id, x[2].n) /\ Goto(t, "kids", id)
                  \/ /\ x[2].kind = "invalid"
                     /\ Unref(id)
                     /\ IF Unreferenced(id) THEN Goto(t, "delete", id) ELSE UNCHANGED work
    /\ UNCHANGED <<gdb, panel, shown, fault>>

EntriesDone(t) ==
    /\ At(t, "entries")
    /\ todo[t] = {}
    /\ BeginPrint(t)
    /\ UNCHANGED <<maps, gdb, shown, todo, fault>>

------------------------------------------------------------------------------
(* Second halves of release and init_childs *)

\* Back to get_changed, or to the command.
Proceed(t) ==
    IF updating[t] THEN Goto(t, "entries", NoObj) /\ UNCHANGED panel ELSE BeginPrint(t)

\* Mutant of DeleteOk: "Variable delete" does not print.
DeleteOkSilent(t) ==
    LET id == cur[t] IN
    /\ At(t, "delete")
    /\ IF id \notin DOMAIN objs THEN Crash
       ELSE /\ objs[id].name[1] \in DOMAIN gdb
            /\ gdb' = Only(gdb, DOMAIN gdb \ {objs[id].name[1]})
            /\ Free(id)
            /\ Goto(t, IF updating[t] THEN "entries" ELSE "idle", NoObj)
            /\ UNCHANGED <<panel, shown, todo, fault>>

\* var-delete
DeleteOk(t) ==
    LET id == cur[t] IN
    /\ At(t, "delete")
    /\ IF id \notin DOMAIN objs THEN Crash
       ELSE /\ objs[id].name[1] \in DOMAIN gdb
            /\ gdb' = Only(gdb, DOMAIN gdb \ {objs[id].name[1]})
            /\ Free(id)
            /\ Proceed(t)
            /\ UNCHANGED <<shown, todo, fault>>

\* Mutant of DeleteFails: the object is deleted, though gdb keeps its own.
DeleteAnyway(t) ==
    /\ At(t, "delete")
    /\ IF cur[t] \notin DOMAIN objs THEN Crash
       ELSE /\ Free(cur[t])
            /\ Proceed(t)
            /\ UNCHANGED <<gdb, shown, todo, fault>>

\* The object stays, unreferenced.  The command ends without printing, get_changed
\* without looking at the other entries.
DeleteFails(t) ==
    /\ At(t, "delete")
    /\ IF updating[t] THEN BeginPrint(t) ELSE Goto(t, "idle", NoObj) /\ UNCHANGED panel
    /\ todo' = [todo EXCEPT ![t] = {}]
    /\ UNCHANGED <<maps, gdb, shown, fault>>

\* var-list-children: a child per member.  A member has no members here.
ListOk(t) ==
    LET id == cur[t] IN
    /\ At(t, "kids")
    /\ IF id \notin DOMAIN objs THEN Crash
       ELSE LET e   == objs[id].name[1]
                n   == gdb[e]
                new == [i \in 1..n |-> Fresh(Kid(e, i))]
            IN  /\ e \in DOMAIN gdb
                /\ objs' = [x \in DOMAIN objs \union {new[i] : i \in 1..n} |->
                              IF x \notin DOMAIN objs THEN New(SubSeq(x, 1, 2), id, 0)
                              ELSE IF x = id
                              THEN [objs[id] EXCEPT !.kids = @ \o new,
                                                    !.open = IF updating[t] THEN @ ELSE ~@]
                              ELSE objs[x]]
                /\ lst' = [m \in DOMAIN lst \union {Kid(e, i) : i \in 1..n} |->
                              IF m[1] = e /\ m[2] \in 1..n THEN new[m[2]] ELSE lst[m]]
                /\ Proceed(t)
                /\ UNCHANGED <<user, gdb, shown, todo, fault>>

ListFails(t) ==
    LET id == cur[t] IN
    /\ At(t, "kids")
    /\ IF id \notin DOMAIN objs THEN Crash
       ELSE /\ objs' = [objs EXCEPT ![id].open = IF updating[t] THEN @ ELSE ~@]
            /\ Proceed(t)
            /\ UNCHANGED <<lst, user, gdb, shown, todo, fault>>

------------------------------------------------------------------------------

Command ==
    \/ \E e \in Exprs : AddKnown(e) \/ AddUnknown(e)
    \/ \E l \in 1..Len(lines) : Delete(l) \/ Fold(l) \/ \E b \in BOOLEAN : Change(l, b)
    \/ View

Step(t) ==
    \/ PrintNext(t) \/ PrintEnd(t)
    \/ UpdateOk(t) \/ UpdateFails(t) \/ Entry(t) \/ EntriesDone(t)
    \/ DeleteOk(t) \/ DeleteFails(t) \/ ListOk(t) \/ ListFails(t)

Next ==
    \/ Command
    \/ (\E n \in 0..MaxKids : CreateOk(n)) \/ CreateFails \/ InfoOk \/ InfoFails
    \/ Stop
    \/ \E t \in Threads : Step(t)

Spec == Init /\ [][Next]_vars

------------------------------------------------------------------------------
(* Properties *)

AtRest == ~fault /\ \A t \in Threads : pc[t] = "idle"

\* Every object is reached by its name, a child by its parent, and neither map
\* nor list of children leads to a deleted object, whatever gdb refuses and
\* whatever changes its type (variable.cc:44-72, 190-204, 269-301).
TreeIntact ==
    /\ \A id \in DOMAIN objs :
          /\ objs[id].name \in DOMAIN lst /\ lst[objs[id].name] = id
          /\ objs[id].parent # NoObj =>
                objs[id].parent \in DOMAIN objs /\ id \in KidsOf(objs[id].parent)
          /\ KidsOf(id) \subseteq DOMAIN objs
    /\ \A n \in DOMAIN lst : lst[n] \in DOMAIN objs
    /\ \A e \in DOMAIN user : Root(e) \in DOMAIN lst /\ user[e] = lst[Root(e)]

\* Between commands the program has an object for each of gdb's, and no other:
\* neither a failed command nor an invalid variable leaves one behind on one
\* side (variable.cc:113-139, 156-170).
MapsMirrorGdb == AtRest => DOMAIN user = DOMAIN gdb

\* "{line} arguments refer to the respective line in the variables buffer"
\* (vimgdb.txt:260-261): the object a command finds by a line of the window exists
\* and is the one shown there.
LinesReferToBuffer ==
    AtRest => \A l \in 1..Len(shown) :
                 Find(l) \in DOMAIN objs /\ objs[Find(l)].name = shown[l]

\* No command touches an object that has been deleted (variable.cc:57, 145, 166).
NoUseAfterFree == ~fault

==============================================================================
