--------------------------- MODULE VariablesProofs ---------------------------
(***************************************************************************)
(* Theorems about the user's variables, for any number of expressions,     *)
(* members and additions: the maps and the lists of children agree with    *)
(* each other and with gdb's variable objects, and the lines of the window *)
(* lead to what they show.  All but MapsAgree hold as long as a stop is    *)
(* not handled while a command is executed; VariablesOverlap shows what    *)
(* happens otherwise.                                                      *)
(***************************************************************************)
EXTENDS Variables, SequenceTheorems, FiniteSetTheorems, TLAPS

Fields == {"name", "parent", "refs", "nchilds", "kids", "open"}

IsSeq(s) == s \in Seq(Range(s))

\* A variable the user has added, and a member of one.
IsRoot(id) ==
    /\ objs[id].parent = NoObj
    /\ objs[id].name = Root(objs[id].name[1])

IsMember(id) ==
    LET p == objs[id].parent IN
    /\ p \in DOMAIN objs
    /\ objs[p].parent = NoObj
    /\ id \in KidsOf(p)
    /\ objs[id].kids = <<>>
    /\ objs[id].nchilds = 0
    /\ objs[id].name = Kid(objs[p].name[1], objs[id].name[2])
    /\ objs[id].name[2] # 0

Objects ==
    /\ IsFiniteSet(DOMAIN objs)
    /\ NoObj \notin DOMAIN objs
    /\ \A id \in DOMAIN objs :
          /\ Fields \subseteq DOMAIN objs[id]
          /\ IsSeq(objs[id].kids)
          /\ IsRoot(id) \/ IsMember(id)
          /\ \A k \in KidsOf(id) : k \in DOMAIN objs /\ objs[k].parent = id

\* Names lead to the objects that have them.
Named ==
    /\ \A id \in DOMAIN objs : objs[id].name \in DOMAIN lst /\ lst[objs[id].name] = id
    /\ \A n \in DOMAIN lst : lst[n] \in DOMAIN objs /\ objs[lst[n]].name = n
    /\ \A e \in DOMAIN user : Root(e) \in DOMAIN lst /\ user[e] = lst[Root(e)]

TreeInv == Objects /\ Named

Busy == {"create", "info", "kids", "delete", "changed", "entries", "print"}

\* What a thread knows of the object it waits for.
Waiting(t) ==
    /\ pc[t] \in {"info", "delete", "kids"} => cur[t] \in DOMAIN objs
    /\ pc[t] \in {"delete", "kids"} => objs[cur[t]].parent = NoObj
    /\ pc[t] = "kids" => objs[cur[t]].kids = <<>>
    /\ pc[t] = "create" => \E e \in Exprs : cur[t] = Root(e) /\ Root(e) \notin DOMAIN lst
    /\ pc[t] = "print" => at[t] = 0 \/ at[t] \in DOMAIN user
    /\ pc[t] = "entries" => updating[t]
    /\ updating[t] => pc[t] \in {"entries", "delete", "kids"}

PlaceInv ==
    /\ DOMAIN pc = Threads /\ DOMAIN cur = Threads /\ DOMAIN at = Threads
    /\ DOMAIN line = Threads /\ updating \in [Threads -> BOOLEAN]
    /\ \A t \in Threads : pc[t] \in Busy \union {"idle"}
    /\ \A t, u \in Threads : pc[t] # "idle" /\ pc[u] # "idle" => t = u
    /\ \A t \in Threads : Waiting(t)

\* The lines lead to what the output buffer says, but while objects are deleted after
\* a stop, and the window shows it once it is printed.
Settled == \A t \in Threads : ~updating[t]

LinesInv ==
    /\ IsSeq(lines) /\ IsSeq(obuf)
    /\ Settled =>
          /\ Len(obuf) = Len(lines)
          /\ \A i \in DOMAIN lines :
                /\ lines[i].line = i
                /\ lines[i].obj \in DOMAIN objs
                /\ obuf[i] = objs[lines[i].obj].name
    /\ \A t \in Threads : pc[t] = "print" => line[t] = Len(lines) + 1
    /\ Settled /\ (\A t \in Threads : pc[t] # "print") => shown = obuf

MemberCounts == \A e \in DOMAIN gdb : gdb[e] \in Nat

VarInv == ~fault /\ TreeInv /\ PlaceInv /\ LinesInv /\ MemberCounts

------------------------------------------------------------------------------
(* Names and addresses *)

LEMMA Names ==
    ASSUME NEW e, NEW i
    PROVE  /\ Kid(e, i)[1] = e /\ Kid(e, i)[2] = i
           /\ Root(e)[1] = e /\ Root(e)[2] = 0
           /\ Root(e) = Kid(e, 0)
BY DEF Root, Kid

LEMMA KidsDiffer ==
    ASSUME NEW e, NEW i, NEW f, NEW j, Kid(e, i) = Kid(f, j)
    PROVE  e = f /\ i = j
BY Names

\* An address tells the name it was made for, and its number.
LEMMA Addresses ==
    ASSUME NEW e, NEW i, NEW g
    PROVE  /\ Append(Kid(e, i), g)[3] = g
           /\ Append(Kid(e, i), g) # NoObj
           /\ SubSeq(Append(Kid(e, i), g), 1, 2) = Kid(e, i)
<1> DEFINE S == {e, i, g}
           name == Kid(e, i)
           a == Append(name, g)
<1>1. name \in Seq(S) /\ Len(name) = 2
  BY DEF Kid
<1>2. g \in S
  OBVIOUS
<1> HIDE DEF name, S
<1>3. /\ a \in Seq(S) /\ a # <<>> /\ Len(a) = 3
      /\ \A k \in 1..2 : a[k] = name[k]
      /\ a[3] = g
  <2>1. /\ a \in Seq(S) /\ a # <<>> /\ Len(a) = Len(name) + 1
        /\ \A k \in 1..Len(name) : a[k] = name[k]
        /\ a[Len(name) + 1] = g
    <3>1. \A T : \A q \in Seq(T) : \A x \in T :
              /\ Append(q, x) \in Seq(T) /\ Append(q, x) # <<>> /\ Len(Append(q, x)) = Len(q) + 1
              /\ \A k \in 1..Len(q) : Append(q, x)[k] = q[k]
              /\ Append(q, x)[Len(q) + 1] = x
      BY AppendProperties
    <3>. QED
      BY <1>1, <1>2, <3>1
  <2>. QED
    BY <1>1, <2>1
<1> HIDE DEF a
<1>4. \A k \in 1..2 : a[k] \in S
  BY <1>1, <1>3, ElementOfSeq
<1>5. /\ SubSeq(a, 1, 2) \in Seq(S) /\ Len(SubSeq(a, 1, 2)) = 2
      /\ \A k \in 1..2 : SubSeq(a, 1, 2)[k] = a[k]
  <2>1. /\ SubSeq(a, 1, 2) \in Seq(S)
        /\ Len(SubSeq(a, 1, 2)) = IF 1 <= 2 THEN 2 - 1 + 1 ELSE 0
        /\ \A k \in 1 .. 2 - 1 + 1 : SubSeq(a, 1, 2)[k] = a[1 + k - 1]
    BY <1>4, SubSeqProperties
  <2>. QED
    BY <2>1
<1>6. SubSeq(a, 1, 2) = name
  BY <1>1, <1>3, <1>5, SeqEqual
<1>. QED
  BY <1>3, <1>6 DEF NoObj, a, name

\* Addresses in use are finitely many, so there is another one for a name.
LEMMA FreshIs ==
    ASSUME NEW e, NEW i, IsFiniteSet(Used)
    PROVE  \E g : Fresh(Kid(e, i)) = Append(Kid(e, i), g) /\ Fresh(Kid(e, i)) \notin Used
<1> DEFINE n == Cardinality(Used)
           f == [g \in 0..n |-> Append(Kid(e, i), g)]
<1>1. n \in Nat
  BY FS_CardinalityType
<1>2. IsFiniteSet(0..n) /\ Cardinality(0..n) = n + 1
  BY <1>1, FS_Interval
<1>3. \E g \in 0..n : Append(Kid(e, i), g) \notin Used
  <2> SUFFICES ASSUME \A g \in 0..n : Append(Kid(e, i), g) \in Used PROVE FALSE
    OBVIOUS
  <2>1. f \in [0..n -> Used]
    OBVIOUS
  <2>2. Cardinality(Used) < Cardinality(0..n)
    BY <1>1, <1>2
  <2> HIDE DEF f, n
  <2>3. PICK x, y \in 0..n : x # y /\ f[x] = f[y]
    BY <1>2, <2>1, <2>2, FS_PigeonHole
  <2>4. Append(Kid(e, i), x) = Append(Kid(e, i), y)
    BY <2>3 DEF f
  <2>5. Append(Kid(e, i), x)[3] = x /\ Append(Kid(e, i), y)[3] = y
    BY Addresses
  <2>. QED
    BY <2>3, <2>4, <2>5
<1>4. Fresh(Kid(e, i)) = Append(Kid(e, i), CHOOSE g \in 0..n : Append(Kid(e, i), g) \notin Used)
  BY DEF Fresh
<1> HIDE DEF n
<1>. QED
  BY <1>3, <1>4

LEMMA ImageIsFinite ==
    ASSUME NEW f, IsFiniteSet(DOMAIN f), f = [x \in DOMAIN f |-> f[x]]
    PROVE  IsFiniteSet({f[x] : x \in DOMAIN f})
<1> DEFINE T == {f[x] : x \in DOMAIN f}
<1>1. f \in Surjection(DOMAIN f, T)
  BY DEF Surjection
<1>. QED
  BY <1>1, FS_Surjection

LEMMA UsedIsFinite ==
    ASSUME TreeInv, PlaceInv, LinesInv
    PROVE  IsFiniteSet(Used)
<1> DEFINE objects == [i \in DOMAIN lines |-> lines[i].obj]
           S == DOMAIN objs \union {cur["main"]} \union {cur["event"]}
                \union {objects[i] : i \in DOMAIN objects}
<1>1. IsFiniteSet(DOMAIN lines)
  BY LenProperties, FS_Interval DEF LinesInv, IsSeq
<1>2. IsFiniteSet({objects[i] : i \in DOMAIN objects})
  BY <1>1, ImageIsFinite
<1>3. IsFiniteSet(S)
  <2> HIDE DEF objects
  <2>1. IsFiniteSet(DOMAIN objs)
    BY DEF TreeInv, Objects
  <2>2. IsFiniteSet(DOMAIN objs \union {cur["main"]})
    BY <2>1, FS_AddElement
  <2>3. IsFiniteSet(DOMAIN objs \union {cur["main"]} \union {cur["event"]})
    BY <2>2, FS_AddElement
  <2>. QED
    BY <2>3, <1>2, FS_Union
<1>4. \A x \in Used : x \in S
  <2> TAKE x \in Used
  <2>1. CASE x \in DOMAIN objs
    BY <2>1
  <2>2. CASE \E n \in DOMAIN lst : x = lst[n]
    BY <2>2 DEF TreeInv, Named
  <2>3. CASE \E e \in DOMAIN user : x = user[e]
    BY <2>3 DEF TreeInv, Named
  <2>4. CASE \E i \in DOMAIN lines : x = lines[i].obj
    BY <2>4
  <2>5. CASE \E t \in Threads : x = cur[t]
    BY <2>5 DEF Threads
  <2>6. CASE \E id \in DOMAIN objs : x \in KidsOf(id)
    BY <2>6 DEF TreeInv, Objects
  <2> HIDE DEF S
  <2>. QED
    BY <2>1, <2>2, <2>3, <2>4, <2>5, <2>6 DEF Used
<1>. QED
  BY <1>3, <1>4, FS_Subset

------------------------------------------------------------------------------
(* What a step does to the tree *)

\* Names, parents and children stay.
SameTree ==
    /\ DOMAIN objs' = DOMAIN objs /\ lst' = lst /\ user' = user
    /\ \A id \in DOMAIN objs :
          /\ DOMAIN objs'[id] = DOMAIN objs[id]
          /\ objs'[id].name = objs[id].name /\ objs'[id].parent = objs[id].parent
          /\ objs'[id].kids = objs[id].kids /\ objs'[id].nchilds = objs[id].nchilds

LEMMA SameTreeInv ==
    ASSUME TreeInv, SameTree
    PROVE  TreeInv'
<1>1. Named'
  BY DEF TreeInv, Named, SameTree
<1>2. \A id \in DOMAIN objs : KidsOf(id)' = KidsOf(id)
  BY DEF SameTree, KidsOf
<1>3. \A id \in DOMAIN objs : IsRoot(id) => IsRoot(id)'
  BY DEF IsRoot, SameTree
<1>4. \A id \in DOMAIN objs : IsMember(id) => IsMember(id)'
  BY <1>2 DEF IsMember, SameTree
<1>5. \A id \in DOMAIN objs : /\ Fields \subseteq DOMAIN objs'[id]
                              /\ IsSeq(objs'[id].kids)
                              /\ \A k \in KidsOf(id)' : k \in DOMAIN objs' /\ objs'[k].parent = id
  BY <1>2 DEF TreeInv, Objects, SameTree
<1>6. Objects'
  BY <1>3, <1>4, <1>5 DEF TreeInv, Objects, SameTree
<1>. QED
  BY <1>1, <1>6 DEF TreeInv

LEMMA RefsSet ==
    ASSUME TreeInv, NEW id, NEW x, objs' = [objs EXCEPT ![id].refs = x], UNCHANGED <<lst, user>>
    PROVE  SameTree
BY DEF SameTree, TreeInv, Objects, Fields

LEMMA OpenSet ==
    ASSUME TreeInv, NEW id, NEW x, objs' = [objs EXCEPT ![id].open = x], UNCHANGED <<lst, user>>
    PROVE  SameTree
BY DEF SameTree, TreeInv, Objects, Fields

\* What is found by the name of a variable is no member.
LEMMA RootFound ==
    ASSUME TreeInv, NEW e, Root(e) \in DOMAIN lst
    PROVE  /\ lst[Root(e)] \in DOMAIN objs
           /\ objs[lst[Root(e)]].parent = NoObj
           /\ objs[lst[Root(e)]].name = Root(e)
<1>1. lst[Root(e)] \in DOMAIN objs /\ objs[lst[Root(e)]].name = Root(e)
  BY DEF TreeInv, Named
<1>2. ~IsMember(lst[Root(e)])
  BY <1>1, Names DEF IsMember
<1>. QED
  BY <1>1, <1>2 DEF TreeInv, Objects, IsRoot

\* To take names out of the list is to take out the objects that have them.
LEMMA Unlisted ==
    ASSUME TreeInv, NEW S, S \subseteq DOMAIN objs,
           lst' = Only(lst, Unnamed({objs[x].name : x \in S}))
    PROVE  /\ \A n : n \in DOMAIN lst' <=> n \in DOMAIN lst /\ lst[n] \notin S
           /\ \A n \in DOMAIN lst' : lst'[n] = lst[n]
BY DEF TreeInv, Named, Only, Unnamed

LEMMA RootAdded ==
    ASSUME TreeInv, NEW e, NEW id, NEW n,
           id \notin DOMAIN objs, id # NoObj, Root(e) \notin DOMAIN lst,
           objs' = With(objs, id, New(Root(e), NoObj, n)),
           lst' = With(lst, Root(e), id), user' = With(user, e, id)
    PROVE  TreeInv'
<1> DEFINE r == New(Root(e), NoObj, n)
<1>1. /\ DOMAIN r = Fields /\ r.name = Root(e) /\ r.parent = NoObj
      /\ r.kids = <<>>
  BY DEF New, Fields
<1> HIDE DEF r
<1>2. /\ DOMAIN objs' = DOMAIN objs \union {id}
      /\ objs'[id] = r
      /\ \A x \in DOMAIN objs : objs'[x] = objs[x]
  BY DEF With, r
<1>3. Named'
  <2>1. /\ DOMAIN lst' = DOMAIN lst \union {Root(e)} /\ lst'[Root(e)] = id
        /\ \A m \in DOMAIN lst : lst'[m] = lst[m]
    BY DEF With
  <2>2. /\ DOMAIN user' = DOMAIN user \union {e} /\ user'[e] = id
        /\ \A f \in DOMAIN user : user'[f] = user[f] \/ f = e
    BY DEF With
  <2>. QED
    BY <1>1, <1>2, <2>1, <2>2 DEF TreeInv, Named
<1>4. \A x \in DOMAIN objs : KidsOf(x)' = KidsOf(x)
  BY <1>2 DEF KidsOf
<1>5. KidsOf(id)' = {}
  BY <1>1, <1>2 DEF KidsOf
<1>6. IsRoot(id)'
  BY <1>1, <1>2, Names DEF IsRoot
<1>7. \A x \in DOMAIN objs : (IsRoot(x) => IsRoot(x)') /\ (IsMember(x) => IsMember(x)')
  BY <1>2, <1>4 DEF IsRoot, IsMember
<1>8. \A x \in DOMAIN objs : \A k \in KidsOf(x)' : k \in DOMAIN objs' /\ objs'[k].parent = x
  BY <1>2, <1>4 DEF TreeInv, Objects
<1>9. IsSeq(<<>>)
  BY DEF IsSeq
<1>10. IsFiniteSet(DOMAIN objs')
  BY <1>2, FS_AddElement DEF TreeInv, Objects
<1>11. Objects'
  BY <1>1, <1>2, <1>5, <1>6, <1>7, <1>8, <1>9, <1>10 DEF TreeInv, Objects
<1>. QED
  BY <1>3, <1>11 DEF TreeInv

\* The members of a variable have no others.
LEMMA MembersOf ==
    ASSUME TreeInv, NEW id \in DOMAIN objs
    PROVE  /\ KidsOf(id) \subseteq DOMAIN objs /\ id \notin KidsOf(id)
           /\ \A k \in KidsOf(id) : IsMember(k) /\ objs[k].parent = id
<1>1. \A k \in KidsOf(id) : k \in DOMAIN objs /\ objs[k].parent = id
  BY DEF TreeInv, Objects
<1>2. \A k \in KidsOf(id) : IsMember(k)
  BY <1>1 DEF TreeInv, Objects, IsRoot
<1>3. \A k \in KidsOf(id) : objs[id].parent = NoObj
  BY <1>1, <1>2 DEF IsMember
<1>. QED
  BY <1>1, <1>2, <1>3 DEF TreeInv, Objects

\* The objects of a set are deleted and their names taken out, a variable with its
\* members; what else there is of the tree stays.
Pruned(S) ==
    /\ \A x : x \in DOMAIN objs' <=> x \in DOMAIN objs /\ x \notin S
    /\ \A x \in DOMAIN objs' :
          /\ DOMAIN objs'[x] = DOMAIN objs[x]
          /\ objs'[x].name = objs[x].name /\ objs'[x].parent = objs[x].parent
    /\ lst' = Only(lst, Unnamed({objs[x].name : x \in S}))

LEMMA PrunedNames ==
    ASSUME TreeInv, NEW S, S \subseteq DOMAIN objs, Pruned(S)
    PROVE  /\ \A id \in DOMAIN objs' : objs'[id].name \in DOMAIN lst' /\ lst'[objs'[id].name] = id
           /\ \A n \in DOMAIN lst' : lst'[n] \in DOMAIN objs' /\ objs'[lst'[n]].name = n
<1>1. /\ \A n : n \in DOMAIN lst' <=> n \in DOMAIN lst /\ lst[n] \notin S
      /\ \A n \in DOMAIN lst' : lst'[n] = lst[n]
  BY Unlisted DEF Pruned
<1>2. /\ \A x : x \in DOMAIN objs' <=> x \in DOMAIN objs /\ x \notin S
      /\ \A x \in DOMAIN objs' : objs'[x].name = objs[x].name
  BY DEF Pruned
<1>. QED
  BY <1>1, <1>2 DEF TreeInv, Named

LEMMA Freed ==
    ASSUME TreeInv, NEW id \in DOMAIN objs, objs[id].parent = NoObj, Free(id)
    PROVE  TreeInv'
<1> DEFINE gone == {id} \union KidsOf(id)
<1>1. /\ \A x : x \in DOMAIN objs' <=> x \in DOMAIN objs /\ x \notin gone
      /\ \A x \in DOMAIN objs' : objs'[x] = objs[x]
      /\ lst' = Only(lst, Unnamed({objs[x].name : x \in gone}))
  BY DEF Free, Only
<1>2. \A e : e \in DOMAIN user' => e \in DOMAIN user /\ e # objs[id].name[1] /\ user'[e] = user[e]
  BY DEF Free, Only
<1>3. /\ gone \subseteq DOMAIN objs
      /\ \A k \in KidsOf(id) : IsMember(k) /\ objs[k].parent = id
  BY MembersOf
<1> HIDE DEF gone
<1>4. Pruned(gone)
  BY <1>1 DEF Pruned
<1>5. \A e \in DOMAIN user' : Root(e) \in DOMAIN lst' /\ user'[e] = lst'[Root(e)]
  <2> TAKE e \in DOMAIN user'
  <2>1. /\ Root(e) \in DOMAIN lst /\ user'[e] = lst[Root(e)] /\ e # objs[id].name[1]
    BY <1>2 DEF TreeInv, Named
  <2>2. objs[lst[Root(e)]].name = Root(e)
    BY <2>1, RootFound
  <2>3. lst[Root(e)] # id
    BY <2>1, <2>2, Names
  <2>4. lst[Root(e)] \notin KidsOf(id)
    BY <1>3, <2>2, Names DEF IsMember
  <2>5. lst[Root(e)] \notin gone
    BY <2>3, <2>4 DEF gone
  <2>. QED
    BY <1>1, <1>3, <2>1, <2>5, Unlisted
<1>6. Named'
  BY <1>3, <1>4, <1>5, PrunedNames DEF Named
<1>7. \A x \in DOMAIN objs' : KidsOf(x)' = KidsOf(x) /\ x # id /\ x \in DOMAIN objs
  BY <1>1 DEF KidsOf, gone
<1>8. \A x \in DOMAIN objs' : IsRoot(x) => IsRoot(x)'
  BY <1>1 DEF IsRoot
<1>9. \A x \in DOMAIN objs' : \A k \in KidsOf(x) : k \in DOMAIN objs' /\ objs[k].parent = x
  BY <1>1, <1>3, <1>7 DEF TreeInv, Objects, gone
<1>10. \A x \in DOMAIN objs' : IsMember(x) => IsMember(x)'
  <2> TAKE x \in DOMAIN objs'
  <2> HAVE IsMember(x)
  <2> DEFINE p == objs[x].parent
  <2>1. p \in DOMAIN objs /\ x \in KidsOf(p) /\ objs[p].parent = NoObj
    BY DEF IsMember
  <2>2. p # id
    BY <1>1, <2>1 DEF gone
  <2>3. p \notin KidsOf(id)
    BY <1>3, <2>1 DEF TreeInv, Objects
  <2>4. p \in DOMAIN objs'
    BY <1>1, <2>1, <2>2, <2>3 DEF gone
  <2>. QED
    BY <1>1, <1>7, <2>4 DEF IsMember
<1>11. IsFiniteSet(DOMAIN objs')
  <2>1. DOMAIN objs' \subseteq DOMAIN objs
    BY <1>1
  <2>. QED
    BY <2>1, FS_Subset DEF TreeInv, Objects
<1>12. Objects'
  BY <1>1, <1>7, <1>8, <1>9, <1>10, <1>11 DEF TreeInv, Objects
<1>. QED
  BY <1>6, <1>12 DEF TreeInv

LEMMA Erased ==
    ASSUME TreeInv, NEW id \in DOMAIN objs, NEW n, objs[id].parent = NoObj, EraseKids(id, n)
    PROVE  /\ TreeInv'
           /\ id \in DOMAIN objs' /\ objs'[id].parent = NoObj /\ objs'[id].kids = <<>>
           /\ user' = user
<1> DEFINE gone == KidsOf(id)
           rest == Only(objs, DOMAIN objs \ gone)
           bare == [[rest[id] EXCEPT !.kids = <<>>] EXCEPT !.nchilds = n]
<1>1. /\ objs' = [rest EXCEPT ![id] = bare]
      /\ lst' = Only(lst, Unnamed({objs[x].name : x \in gone}))
      /\ user' = user
  BY Zenon DEF EraseKids
<1>2. /\ gone \subseteq DOMAIN objs /\ id \notin gone
      /\ \A k \in gone : IsMember(k) /\ objs[k].parent = id
  BY MembersOf
<1>3. /\ \A x : x \in DOMAIN rest <=> x \in DOMAIN objs /\ x \notin gone
      /\ \A x \in DOMAIN rest : rest[x] = objs[x]
  BY DEF Only
<1>4. /\ DOMAIN bare = DOMAIN objs[id] /\ bare.name = objs[id].name
      /\ bare.parent = objs[id].parent /\ bare.kids = <<>>
  BY <1>2, <1>3 DEF TreeInv, Objects, Fields
<1> HIDE DEF gone, rest, bare
<1>5. /\ \A x : x \in DOMAIN objs' <=> x \in DOMAIN objs /\ x \notin gone
      /\ id \in DOMAIN objs' /\ objs'[id] = bare
      /\ \A x \in DOMAIN objs' : x # id => objs'[x] = objs[x]
  BY <1>1, <1>2, <1>3
<1>6. Pruned(gone)
  BY <1>1, <1>4, <1>5 DEF Pruned
<1>7. \A e \in DOMAIN user' : Root(e) \in DOMAIN lst' /\ user'[e] = lst'[Root(e)]
  <2> TAKE e \in DOMAIN user'
  <2>1. Root(e) \in DOMAIN lst /\ user'[e] = lst[Root(e)]
    BY <1>1 DEF TreeInv, Named
  <2>2. lst[Root(e)] \notin gone
    BY <1>2, <2>1, RootFound, Names DEF IsMember
  <2>. QED
    BY <1>1, <1>2, <2>1, <2>2, Unlisted
<1>8. Named'
  BY <1>2, <1>6, <1>7, PrunedNames DEF Named
<1>9. \A x \in DOMAIN objs' : x # id => KidsOf(x)' = KidsOf(x)
  BY <1>5 DEF KidsOf
<1>10. KidsOf(id)' = {}
  BY <1>4, <1>5 DEF KidsOf
<1>11. \A x \in DOMAIN objs' : IsRoot(x) => IsRoot(x)'
  BY <1>4, <1>5 DEF IsRoot
<1>12. \A x \in DOMAIN objs' : \A k \in KidsOf(x)' : k \in DOMAIN objs' /\ objs'[k].parent = x
  <2> TAKE x \in DOMAIN objs'
  <2> TAKE k \in KidsOf(x)'
  <2>1. x # id /\ k \in KidsOf(x)
    BY <1>9, <1>10
  <2>2. k \in DOMAIN objs /\ objs[k].parent = x
    BY <1>5, <2>1 DEF TreeInv, Objects
  <2>3. k \notin gone /\ k # id
    BY <1>2, <2>1, <2>2, <1>5 DEF TreeInv, Objects
  <2>. QED
    BY <1>5, <2>2, <2>3
<1>13. \A x \in DOMAIN objs' : IsMember(x) => IsMember(x)'
  <2> TAKE x \in DOMAIN objs'
  <2> HAVE IsMember(x)
  <2> DEFINE p == objs[x].parent
  <2>1. p \in DOMAIN objs /\ x \in KidsOf(p) /\ objs[p].parent = NoObj /\ x # id
    BY DEF IsMember, TreeInv, Objects
  <2>2. p # id
    BY <1>5, <2>1 DEF gone
  <2>3. p \in DOMAIN objs'
    BY <1>2, <1>5, <2>1 DEF TreeInv, Objects
  <2>. QED
    BY <1>5, <1>9, <2>1, <2>2, <2>3 DEF IsMember
<1>14. \A x \in DOMAIN objs' : Fields \subseteq DOMAIN objs'[x] /\ IsSeq(objs'[x].kids)
  <2>1. IsSeq(<<>>)
    BY DEF IsSeq
  <2>. QED
    BY <1>4, <1>5, <2>1 DEF TreeInv, Objects
<1>15. IsFiniteSet(DOMAIN objs') /\ NoObj \notin DOMAIN objs'
  <2>1. DOMAIN objs' \subseteq DOMAIN objs
    BY <1>5
  <2>. QED
    BY <2>1, FS_Subset DEF TreeInv, Objects
<1>16. Objects'
  BY <1>5, <1>11, <1>12, <1>13, <1>14, <1>15 DEF TreeInv, Objects
<1>. QED
  BY <1>1, <1>4, <1>5, <1>8, <1>16 DEF TreeInv

\* A variable without members gets some.
Listed(id, new) ==
    LET e == objs[id].name[1] IN
    /\ IsSeq(new) /\ DOMAIN new \subseteq Nat \ {0}
    /\ DOMAIN objs' = DOMAIN objs \union {new[i] : i \in DOMAIN new}
    /\ \A x \in DOMAIN objs : x # id => objs'[x] = objs[x]
    /\ DOMAIN objs'[id] = DOMAIN objs[id]
    /\ objs'[id].name = objs[id].name /\ objs'[id].parent = NoObj /\ objs'[id].kids = new
    /\ \A i \in DOMAIN new : /\ new[i] \notin DOMAIN objs
                             /\ new[i] # NoObj
                             /\ objs'[new[i]] = New(Kid(e, i), id, 0)
    /\ DOMAIN lst' = DOMAIN lst \union {Kid(e, i) : i \in DOMAIN new}
    /\ \A i \in DOMAIN new : lst'[Kid(e, i)] = new[i]
    /\ \A m \in DOMAIN lst : lst'[m] = lst[m]
    /\ user' = user

LEMMA ListedTree ==
    ASSUME TreeInv, NEW id \in DOMAIN objs, objs[id].parent = NoObj, objs[id].kids = <<>>,
           NEW new, Listed(id, new)
    PROVE  TreeInv'
<1> DEFINE e == objs[id].name[1]
<1>1. /\ IsSeq(new) /\ DOMAIN new \subseteq Nat \ {0}
      /\ DOMAIN objs' = DOMAIN objs \union {new[i] : i \in DOMAIN new}
      /\ \A x \in DOMAIN objs : x # id => objs'[x] = objs[x]
      /\ DOMAIN objs'[id] = DOMAIN objs[id]
      /\ objs'[id].name = objs[id].name /\ objs'[id].parent = NoObj /\ objs'[id].kids = new
      /\ \A i \in DOMAIN new : /\ new[i] \notin DOMAIN objs
                               /\ new[i] # NoObj
                               /\ objs'[new[i]] = New(Kid(e, i), id, 0)
  BY DEF Listed
<1>2. /\ DOMAIN lst' = DOMAIN lst \union {Kid(e, i) : i \in DOMAIN new}
      /\ \A i \in DOMAIN new : lst'[Kid(e, i)] = new[i]
      /\ \A m \in DOMAIN lst : lst'[m] = lst[m]
      /\ user' = user
  BY DEF Listed
<1>3. \A i \in DOMAIN new : /\ DOMAIN objs'[new[i]] = Fields
                            /\ objs'[new[i]].name = Kid(e, i)
                            /\ objs'[new[i]].parent = id
                            /\ objs'[new[i]].kids = <<>>
                            /\ objs'[new[i]].nchilds = 0
  <2> TAKE i \in DOMAIN new
  <2>1. objs'[new[i]] = New(Kid(e, i), id, 0)
    BY <1>1
  <2> HIDE DEF e
  <2>. QED
    BY <2>1 DEF New, Fields
<1> HIDE DEF e
<1>4. Named'
  <2>1. \A x \in DOMAIN objs : objs'[x].name = objs[x].name
    BY <1>1
  <2>. QED
    BY <1>1, <1>2, <1>3, <2>1 DEF TreeInv, Named
<1>5. KidsOf(id) = {} /\ KidsOf(id)' = {new[i] : i \in DOMAIN new}
  BY <1>1 DEF KidsOf
<1>6. \A x \in DOMAIN objs : x # id => KidsOf(x)' = KidsOf(x)
  BY <1>1 DEF KidsOf
<1>7. \A i \in DOMAIN new : KidsOf(new[i])' = {}
  BY <1>3 DEF KidsOf
<1>8. \A x \in DOMAIN objs : IsRoot(x) => IsRoot(x)'
  BY <1>1 DEF IsRoot
<1>9. \A x \in DOMAIN objs : IsMember(x) => IsMember(x)'
  <2> TAKE x \in DOMAIN objs
  <2> HAVE IsMember(x)
  <2> DEFINE p == objs[x].parent
  <2>1. p \in DOMAIN objs /\ x \in KidsOf(p) /\ p # NoObj
    BY DEF IsMember, TreeInv, Objects
  <2>2. p # id /\ x # id
    BY <1>5, <2>1
  <2>. QED
    BY <1>1, <1>6, <2>1, <2>2 DEF IsMember
<1>10. \A i \in DOMAIN new : IsMember(new[i])'
  <2> TAKE i \in DOMAIN new
  <2>1. objs'[new[i]].name = Kid(objs'[id].name[1], objs'[new[i]].name[2])
        /\ objs'[new[i]].name[2] # 0
    BY <1>1, <1>3, Names DEF e
  <2>. QED
    BY <1>1, <1>3, <1>5, <2>1 DEF IsMember
<1>11. \A x \in DOMAIN objs' : \A k \in KidsOf(x)' : k \in DOMAIN objs' /\ objs'[k].parent = x
  <2> TAKE x \in DOMAIN objs'
  <2>1. CASE x = id
    BY <1>1, <1>3, <1>5, <2>1
  <2>2. CASE x \in DOMAIN objs /\ x # id
    <3> TAKE k \in KidsOf(x)'
    <3>1. k \in DOMAIN objs /\ objs[k].parent = x /\ x # NoObj
      BY <1>6, <2>2 DEF TreeInv, Objects
    <3>2. k # id
      BY <3>1
    <3>. QED
      BY <1>1, <3>1, <3>2
  <2>3. CASE x \notin DOMAIN objs
    BY <1>1, <1>7, <2>3
  <2>. QED
    BY <2>1, <2>2, <2>3
<1>12. \A x \in DOMAIN objs' : Fields \subseteq DOMAIN objs'[x] /\ IsSeq(objs'[x].kids)
  <2>1. IsSeq(<<>>)
    BY DEF IsSeq
  <2>. QED
    BY <1>1, <1>3, <2>1 DEF TreeInv, Objects
<1>13. IsFiniteSet(DOMAIN objs') /\ NoObj \notin DOMAIN objs'
  <2>1. DOMAIN new = 1..Len(new) /\ Len(new) \in Nat
    BY <1>1, LenProperties DEF IsSeq
  <2>2. IsFiniteSet(DOMAIN new)
    BY <2>1, FS_Interval
  <2>3. new = [i \in DOMAIN new |-> new[i]]
    BY <1>1, LenProperties DEF IsSeq
  <2>4. IsFiniteSet({new[i] : i \in DOMAIN new})
    BY <2>2, <2>3, ImageIsFinite
  <2>5. IsFiniteSet(DOMAIN objs) /\ NoObj \notin DOMAIN objs
    BY DEF TreeInv, Objects
  <2>6. IsFiniteSet(DOMAIN objs')
    <3>1. IsFiniteSet(DOMAIN objs \union {new[i] : i \in DOMAIN new})
      BY <2>4, <2>5, FS_Union
    <3>. QED
      BY <1>1, <3>1
  <2>. QED
    BY <1>1, <2>5, <2>6
<1>14. Objects'
  BY <1>1, <1>8, <1>9, <1>10, <1>11, <1>12, <1>13 DEF TreeInv, Objects
<1>. QED
  BY <1>4, <1>14 DEF TreeInv

\* The names that lead to a variable and its members.
LEMMA NameOfMember ==
    ASSUME TreeInv, NEW m \in DOMAIN lst, NEW id \in DOMAIN objs, objs[id].parent = NoObj,
           m[1] = objs[id].name[1], m[2] # 0
    PROVE  lst[m] \in KidsOf(id)
<1> DEFINE x == lst[m]
           p == objs[x].parent
<1>1. x \in DOMAIN objs /\ objs[x].name = m
  BY DEF TreeInv, Named
<1>2. IsMember(x)
  BY <1>1, Names DEF TreeInv, Objects, IsRoot
<1>3. /\ p \in DOMAIN objs /\ objs[p].parent = NoObj /\ x \in KidsOf(p)
      /\ objs[x].name = Kid(objs[p].name[1], objs[x].name[2])
  BY <1>2 DEF IsMember
<1>4. objs[p].name[1] = objs[id].name[1]
  BY <1>1, <1>3, Names
<1>5. objs[p].name = Root(objs[p].name[1]) /\ objs[id].name = Root(objs[id].name[1])
  BY <1>3 DEF TreeInv, Objects, IsRoot, IsMember
<1>6. objs[p].name = objs[id].name
  BY <1>4, <1>5
<1>7. p = id
  BY <1>3, <1>6 DEF TreeInv, Named
<1>. QED
  BY <1>3, <1>7

\* var-list-children finds a variable without members.
LEMMA ListOkLists ==
    ASSUME TreeInv, IsFiniteSet(Used), NEW t \in Threads, ListOk(t),
           cur[t] \in DOMAIN objs, objs[cur[t]].parent = NoObj, objs[cur[t]].kids = <<>>,
           \A e \in DOMAIN gdb : gdb[e] \in Nat
    PROVE  \E new : Listed(cur[t], new)
<1> DEFINE id == cur[t]
           e == objs[id].name[1]
           n == gdb[e]
           new == [i \in 1..n |-> Fresh(Kid(e, i))]
           open == IF updating[t] THEN objs[id].open ELSE ~objs[id].open
           full == [[objs[id] EXCEPT !.kids = objs[id].kids \o new] EXCEPT !.open = open]
<1>1. /\ e \in DOMAIN gdb
      /\ objs' = [x \in DOMAIN objs \union {new[i] : i \in 1..n} |->
                    IF x \notin DOMAIN objs THEN New(SubSeq(x, 1, 2), id, 0)
                    ELSE IF x = id THEN full ELSE objs[x]]
      /\ lst' = [m \in DOMAIN lst \union {Kid(e, i) : i \in 1..n} |->
                    IF m[1] = e /\ m[2] \in 1..n THEN new[m[2]] ELSE lst[m]]
      /\ user' = user
  BY Zenon DEF ListOk
<1>2. n \in Nat
  BY <1>1
<1> HIDE DEF open
<1>3. \A i \in 1..n : /\ new[i] \notin DOMAIN objs
                      /\ new[i] # NoObj
                      /\ SubSeq(new[i], 1, 2) = Kid(e, i)
  <2> TAKE i \in 1..n
  <2>1. PICK g : Fresh(Kid(e, i)) = Append(Kid(e, i), g) /\ Fresh(Kid(e, i)) \notin Used
    BY FreshIs
  <2>2. new[i] = Fresh(Kid(e, i))
    OBVIOUS
  <2> HIDE DEF e, new
  <2>. QED
    BY <2>1, <2>2, Addresses DEF Used
<1>4. /\ IsSeq(new) /\ Len(new) = n /\ DOMAIN new = 1..n
  <2>1. DOMAIN new = 1..n
    OBVIOUS
  <2>2. \A i \in 1..n : new[i] \in Range(new)
    BY <2>1 DEF Range
  <2>3. new \in [1..n -> Range(new)]
    BY <2>2
  <2> HIDE DEF new, n
  <2>4. new \in Seq(Range(new))
    BY <1>2, <2>3, SeqDef
  <2>. QED
    BY <1>2, <2>1, <2>4, LenProperties DEF IsSeq
<1>5. /\ DOMAIN full = DOMAIN objs[id] /\ full.name = objs[id].name
      /\ full.parent = objs[id].parent /\ full.kids = new
  <2>1. <<>> \o new = new
    BY <1>4, ConcatEmptySeq DEF IsSeq
  <2> HIDE DEF new
  <2>. QED
    BY <2>1 DEF TreeInv, Objects, Fields
<1> HIDE DEF n, new, full, e
<1>6. /\ DOMAIN objs' = DOMAIN objs \union {new[i] : i \in DOMAIN new}
      /\ \A x \in DOMAIN objs : x # id => objs'[x] = objs[x]
      /\ objs'[id] = full
      /\ \A i \in DOMAIN new : objs'[new[i]] = New(Kid(e, i), id, 0)
  BY <1>1, <1>3, <1>4
<1>7. /\ DOMAIN lst' = DOMAIN lst \union {Kid(e, i) : i \in DOMAIN new}
      /\ \A i \in DOMAIN new : lst'[Kid(e, i)] = new[i]
  BY <1>1, <1>4, Names
<1>8. \A m \in DOMAIN lst : ~(m[1] = e /\ m[2] \in 1..n)
  <2> SUFFICES ASSUME NEW m \in DOMAIN lst, m[1] = e, m[2] \in 1..n PROVE FALSE
    OBVIOUS
  <2>1. lst[m] \in KidsOf(id)
    BY <1>2, NameOfMember DEF e
  <2>. QED
    BY <2>1 DEF KidsOf
<1>9. \A m \in DOMAIN lst : lst'[m] = lst[m]
  BY <1>1, <1>8
<1>10. DOMAIN new \subseteq Nat \ {0}
  BY <1>2, <1>4
<1>11. /\ DOMAIN objs'[id] = DOMAIN objs[id]
       /\ objs'[id].name = objs[id].name /\ objs'[id].parent = NoObj /\ objs'[id].kids = new
  BY <1>5, <1>6
<1>12. \A i \in DOMAIN new : new[i] \notin DOMAIN objs /\ new[i] # NoObj
  BY <1>3, <1>4
<1>13. Listed(id, new)
  BY <1>1, <1>4, <1>6, <1>7, <1>9, <1>10, <1>11, <1>12 DEF Listed, e
<1>. QED
  BY <1>13

------------------------------------------------------------------------------
(* What a step does to the threads and to the lines *)

\* The thread may take a step: no other one does anything.
Turn(t) == \A u \in Threads : u # t => pc[u] = "idle"

Moved(t, where, x) ==
    /\ DOMAIN pc' = Threads /\ DOMAIN cur' = Threads
    /\ \A u \in Threads : u # t => pc'[u] = pc[u]
    /\ pc'[t] = where /\ cur'[t] = x

\* No object is deleted.
Grows == \A id \in DOMAIN objs : id \in DOMAIN objs' /\ objs'[id].name = objs[id].name

LEMMA TurnOf ==
    ASSUME PlaceInv, NEW t \in Threads, pc[t] # "idle" \/ (\A u \in Threads : pc[u] = "idle")
    PROVE  Turn(t)
BY DEF PlaceInv, Turn

LEMMA GotoMoves ==
    ASSUME PlaceInv, NEW t \in Threads, NEW where, NEW x, Goto(t, where, x)
    PROVE  Moved(t, where, x)
BY DEF PlaceInv, Goto, Moved

\* To begin to print is fine at any time.
LEMMA Prints ==
    ASSUME PlaceInv, NEW t \in Threads, Turn(t), BeginPrint(t)
    PROVE  PlaceInv' /\ LinesInv'
<1>1. Moved(t, "print", NoObj)
  BY GotoMoves DEF BeginPrint
<1>2. /\ updating' \in [Threads -> BOOLEAN] /\ ~updating'[t]
      /\ \A u \in Threads : u # t => updating'[u] = updating[u]
  BY DEF BeginPrint, PlaceInv
<1>3. \A u \in Threads : u # t => pc'[u] = "idle" /\ ~updating'[u]
  BY <1>1, <1>2 DEF Turn, Moved, PlaceInv, Waiting
<1>4. /\ DOMAIN at' = Threads /\ at'[t] = 0 /\ DOMAIN line' = Threads /\ line'[t] = 1
      /\ lines' = <<>> /\ obuf' = <<>>
  BY DEF BeginPrint, PlaceInv
<1>5. \A u \in Threads : Waiting(u)'
  BY <1>1, <1>2, <1>3, <1>4 DEF Waiting, Moved
<1>6. PlaceInv'
  BY <1>1, <1>2, <1>3, <1>4, <1>5 DEF PlaceInv, Moved, Busy
<1>7. IsSeq(lines') /\ IsSeq(obuf') /\ Len(lines') = 0 /\ Len(obuf') = 0 /\ DOMAIN lines' = {}
  BY <1>4 DEF IsSeq
<1>8. LinesInv'
  BY <1>1, <1>3, <1>4, <1>7 DEF LinesInv, Moved
<1>. QED
  BY <1>6, <1>8

\* To go on without printing is as long as nothing is deleted that a line leads to.
LEMMA Moves ==
    ASSUME PlaceInv, LinesInv, NEW t \in Threads, Turn(t), pc[t] # "print",
           NEW where \in (Busy \ {"print"}) \union {"idle"}, NEW x, Moved(t, where, x),
           UNCHANGED <<panel, shown>>, Waiting(t)', Settled => Grows
    PROVE  PlaceInv' /\ LinesInv'
<1>1. /\ UNCHANGED <<lines, obuf, at, line, updating, shown>>
  BY DEF panel
<1>2. \A u \in Threads : u # t => pc'[u] = "idle" /\ ~updating'[u]
  BY <1>1 DEF Turn, Moved, PlaceInv, Waiting
<1>3. \A u \in Threads : Waiting(u)'
  BY <1>2 DEF Waiting
<1>4. PlaceInv'
  BY <1>1, <1>2, <1>3 DEF PlaceInv, Moved
<1>5. Settled' <=> Settled
  BY <1>1, Zenon DEF Settled
<1>6. \A u \in Threads : pc[u] # "print" /\ pc'[u] # "print"
  BY <1>2 DEF Turn, Moved
<1>7. Settled => \A i \in DOMAIN lines :
          /\ lines[i].line = i
          /\ lines[i].obj \in DOMAIN objs'
          /\ obuf[i] = objs'[lines[i].obj].name
  BY DEF LinesInv, Grows
<1>8. LinesInv'
  BY <1>1, <1>5, <1>6, <1>7 DEF LinesInv
<1>. QED
  BY <1>4, <1>8

LEMMA Begins ==
    ASSUME VarInv, ~Overlap, NEW t \in Threads, Start(t)
    PROVE  pc[t] = "idle" /\ Turn(t) /\ Settled /\ (\A u \in Threads : pc[u] = "idle" /\ ~updating[u])
<1>1. pc[t] = "idle" /\ \A u \in Threads : pc[u] = "idle"
  BY Zenon DEF Start, At
<1>2. \A u \in Threads : ~updating[u]
  BY <1>1 DEF VarInv, PlaceInv, Waiting
<1>. QED
  BY <1>1, <1>2 DEF Turn, Settled

LEMMA Continues ==
    ASSUME VarInv, NEW t \in Threads, NEW where, where # "idle", At(t, where)
    PROVE  pc[t] = where /\ Turn(t)
BY TurnOf DEF At, VarInv

LEMMA SameGrows ==
    ASSUME SameTree
    PROVE  Grows
BY DEF SameTree, Grows

\* Where nothing is known of an object.
LEMMA WaitsPlainly ==
    ASSUME NEW t \in Threads,
           \/ pc'[t] \in {"idle", "changed"} /\ ~updating'[t]
           \/ pc'[t] = "entries" /\ updating'[t]
    PROVE  Waiting(t)'
BY DEF Waiting

LEMMA AddKnownStep ==
    ASSUME VarInv, ~Overlap, NEW e, AddKnown(e)
    PROVE  VarInv'
<1> DEFINE id == lst[Root(e)]
<1>1. /\ Start("main") /\ "main" \in Threads
      /\ objs' = [objs EXCEPT ![id].refs = 1]
      /\ UNCHANGED <<lst, user, gdb, shown, fault>>
      /\ BeginPrint("main") \/ UNCHANGED <<panel, work>>
  BY Zenon DEF AddKnown, Threads
<1>2. pc["main"] = "idle" /\ Turn("main") /\ \A u \in Threads : ~updating[u]
  BY <1>1, Begins
<1> HIDE DEF id
<1>3. SameTree
  BY <1>1, RefsSet DEF VarInv
<1>4. CASE BeginPrint("main")
  BY <1>1, <1>2, <1>3, <1>4, Prints, SameTreeInv DEF VarInv, MemberCounts
<1>5. CASE UNCHANGED <<panel, work>>
  <2>1. Moved("main", "idle", cur["main"])
    BY <1>2, <1>5 DEF Moved, work, VarInv, PlaceInv
  <2>2. Waiting("main")'
    BY <1>1, <1>2, <1>5, WaitsPlainly DEF work, panel
  <2>3. PlaceInv' /\ LinesInv'
    BY <1>1, <1>2, <1>3, <1>5, <2>1, <2>2, Moves, SameGrows DEF VarInv
  <2>. QED
    BY <1>1, <1>3, <2>3, SameTreeInv DEF VarInv, MemberCounts
<1>. QED
  BY <1>1, <1>4, <1>5

\* To go where nothing is known of an object.
LEMMA GoesPlainly ==
    ASSUME PlaceInv, LinesInv, NEW t \in Threads, Turn(t), pc[t] # "print",
           NEW where, NEW x, Goto(t, where, x), UNCHANGED <<panel, shown>>, Settled => Grows,
           \/ where \in {"idle", "changed"} /\ ~updating[t]
           \/ where = "entries" /\ updating[t]
    PROVE  PlaceInv' /\ LinesInv'
<1>1. Moved(t, where, x)
  BY GotoMoves
<1>2. Waiting(t)'
  BY <1>1, WaitsPlainly DEF Moved, panel
<1>3. where \in (Busy \ {"print"}) \union {"idle"}
  BY DEF Busy
<1>. QED
  BY <1>1, <1>2, <1>3, Moves

LEMMA UnchangedTree ==
    ASSUME TreeInv, UNCHANGED maps
    PROVE  TreeInv' /\ Grows
<1>1. SameTree
  BY DEF SameTree, maps
<1>. QED
  BY <1>1, SameTreeInv, SameGrows

LEMMA AddUnknownStep ==
    ASSUME VarInv, ~Overlap, NEW e \in Exprs, AddUnknown(e)
    PROVE  VarInv'
<1>1. /\ Start("main") /\ "main" \in Threads
      /\ Root(e) \notin DOMAIN lst
      /\ Goto("main", "create", Root(e))
      /\ UNCHANGED <<maps, gdb, panel, shown, fault>>
  BY DEF AddUnknown, Threads
<1>2. pc["main"] = "idle" /\ Turn("main") /\ \A u \in Threads : ~updating[u]
  BY <1>1, Begins
<1>3. TreeInv' /\ Grows
  BY <1>1, UnchangedTree DEF VarInv
<1>4. Moved("main", "create", Root(e))
  BY <1>1, GotoMoves DEF VarInv
<1>5. Waiting("main")'
  BY <1>1, <1>2, <1>4 DEF Waiting, Moved, panel, maps
<1>6. PlaceInv' /\ LinesInv'
  BY <1>1, <1>2, <1>3, <1>4, <1>5, Moves DEF VarInv, Busy
<1>. QED
  BY <1>1, <1>3, <1>6 DEF VarInv, MemberCounts

\* What waits for gdb to create a variable, or to tell its expression, gives up.
LEMMA AddFailsStep ==
    ASSUME VarInv, CreateFails \/ InfoFails
    PROVE  VarInv'
<1>1. /\ pc["main"] \in {"create", "info"} /\ "main" \in Threads
      /\ Goto("main", "idle", NoObj)
      /\ UNCHANGED <<maps, gdb, panel, shown, fault>>
  BY DEF CreateFails, InfoFails, Threads, At
<1>2. Turn("main") /\ ~updating["main"]
  BY <1>1, TurnOf DEF VarInv, PlaceInv, Waiting
<1>3. TreeInv' /\ Grows
  BY <1>1, UnchangedTree DEF VarInv
<1>4. PlaceInv' /\ LinesInv'
  BY <1>1, <1>2, <1>3, GoesPlainly DEF VarInv
<1>. QED
  BY <1>1, <1>3, <1>4 DEF VarInv, MemberCounts

LEMMA CreateOkStep ==
    ASSUME VarInv, NEW n \in Nat, CreateOk(n)
    PROVE  VarInv'
<1> DEFINE e == cur["main"][1]
           id == Fresh(Root(e))
<1>1. /\ At("main", "create") /\ "main" \in Threads
      /\ gdb' = With(gdb, e, n)
      /\ objs' = With(objs, id, New(Root(e), NoObj, n))
      /\ lst' = With(lst, Root(e), id)
      /\ user' = With(user, e, id)
      /\ Goto("main", "info", id)
      /\ UNCHANGED <<panel, shown, fault>>
  BY DEF CreateOk, Threads
<1>2. /\ pc["main"] = "create" /\ Turn("main") /\ ~updating["main"]
      /\ Root(e) \notin DOMAIN lst
  BY <1>1, Continues, Names DEF VarInv, PlaceInv, Waiting
<1>3. id \notin DOMAIN objs /\ id # NoObj
  <2>1. IsFiniteSet(Used)
    BY UsedIsFinite DEF VarInv
  <2>2. Root(e) = Kid(e, 0)
    BY Names
  <2>3. PICK g : Fresh(Kid(e, 0)) = Append(Kid(e, 0), g) /\ Fresh(Kid(e, 0)) \notin Used
    BY <2>1, FreshIs
  <2>4. id = Append(Kid(e, 0), g) /\ id \notin Used
    BY <2>2, <2>3
  <2> HIDE DEF id, e
  <2>. QED
    BY <2>4, Addresses DEF Used
<1> HIDE DEF id, e
<1>4. TreeInv'
  BY <1>1, <1>2, <1>3, RootAdded DEF VarInv
<1>5. Grows /\ id \in DOMAIN objs'
  BY <1>1, <1>3 DEF Grows, With
<1>6. Moved("main", "info", id)
  BY <1>1, GotoMoves DEF VarInv
<1>7. Waiting("main")'
  BY <1>1, <1>2, <1>5, <1>6 DEF Waiting, Moved, panel
<1>8. PlaceInv' /\ LinesInv'
  BY <1>1, <1>2, <1>5, <1>6, <1>7, Moves DEF VarInv, Busy
<1>9. MemberCounts'
  BY <1>1 DEF VarInv, MemberCounts, With
<1>. QED
  BY <1>1, <1>4, <1>8, <1>9 DEF VarInv

LEMMA InfoOkStep ==
    ASSUME VarInv, InfoOk
    PROVE  VarInv'
<1> DEFINE id == cur["main"]
<1>1. /\ At("main", "info") /\ "main" \in Threads
      /\ id \in DOMAIN objs =>
            /\ objs' = [objs EXCEPT ![id].refs = 1]
            /\ BeginPrint("main") \/ (Goto("main", "idle", NoObj) /\ UNCHANGED panel)
            /\ UNCHANGED <<lst, user, gdb, shown, fault>>
  BY Zenon DEF InfoOk, Threads
<1>2. /\ pc["main"] = "info" /\ Turn("main") /\ ~updating["main"] /\ id \in DOMAIN objs
  BY <1>1, Continues DEF VarInv, PlaceInv, Waiting
<1> HIDE DEF id
<1>3. SameTree
  BY <1>1, <1>2, RefsSet DEF VarInv
<1>4. CASE BeginPrint("main")
  BY <1>1, <1>2, <1>3, <1>4, Prints, SameTreeInv DEF VarInv, MemberCounts
<1>5. CASE Goto("main", "idle", NoObj) /\ UNCHANGED panel
  <2>1. PlaceInv' /\ LinesInv'
    BY <1>1, <1>2, <1>3, <1>5, GoesPlainly, SameGrows DEF VarInv
  <2>. QED
    BY <1>1, <1>2, <1>3, <2>1, SameTreeInv DEF VarInv, MemberCounts
<1>. QED
  BY <1>1, <1>2, <1>4, <1>5

\* A line leads to the object that was printed there.
LEMMA Found ==
    ASSUME LinesInv, Settled, NEW l \in 1..Len(lines)
    PROVE  l \in DOMAIN lines /\ Find(l) = lines[l].obj /\ Find(l) \in DOMAIN objs
<1>1. DOMAIN lines = 1..Len(lines) /\ Len(lines) \in Nat
  BY LenProperties DEF LinesInv, IsSeq
<1>2. \A i \in DOMAIN lines : lines[i].line = i /\ lines[i].obj \in DOMAIN objs
  BY DEF LinesInv
<1> DEFINE S == {i \in DOMAIN lines : lines[i].line <= l}
           last == CHOOSE i \in S : \A j \in S : j <= i
<1>3. S = 1..l
  BY <1>1, <1>2
<1>4. l \in S /\ \A j \in S : j <= l
  BY <1>3
<1>5. last \in S /\ \A j \in S : j <= last
  BY <1>4
<1>6. last = l
  BY <1>3, <1>4, <1>5
<1>7. Find(l) = lines[last].obj
  BY <1>4 DEF Find
<1>. QED
  BY <1>1, <1>2, <1>6, <1>7

LEMMA DeleteStep ==
    ASSUME VarInv, ~Overlap, NEW l \in 1..Len(lines), Delete(l)
    PROVE  VarInv'
<1> DEFINE id == IF objs[Find(l)].parent = NoObj THEN Find(l) ELSE objs[Find(l)].parent
<1>1. Start("main") /\ "main" \in Threads
  BY DEF Delete, Threads
<1>2. /\ pc["main"] = "idle" /\ Turn("main") /\ Settled /\ \A u \in Threads : ~updating[u]
  BY <1>1, Begins
<1>3. Find(l) \in DOMAIN objs
  BY <1>2, Found DEF VarInv
<1>4. /\ Unref(id) /\ UNCHANGED <<gdb, shown, fault>>
      /\ (Goto("main", "delete", id) /\ UNCHANGED panel) \/ BeginPrint("main")
  BY <1>3, Zenon DEF Delete
<1>5. id \in DOMAIN objs /\ objs[id].parent = NoObj
  BY <1>3 DEF VarInv, TreeInv, Objects, IsRoot, IsMember
<1> HIDE DEF id
<1>6. SameTree
  BY <1>4, RefsSet DEF VarInv, Unref
<1>7. CASE BeginPrint("main")
  BY <1>1, <1>2, <1>4, <1>6, <1>7, Prints, SameTreeInv DEF VarInv, MemberCounts
<1>8. CASE Goto("main", "delete", id) /\ UNCHANGED panel
  <2>1. Moved("main", "delete", id)
    BY <1>8, GotoMoves, <1>1 DEF VarInv
  <2>2. Waiting("main")'
    BY <1>2, <1>5, <1>6, <1>8, <2>1 DEF Waiting, Moved, SameTree, panel, Threads
  <2>3. PlaceInv' /\ LinesInv'
    BY <1>1, <1>2, <1>4, <1>6, <1>8, <2>1, <2>2, Moves, SameGrows DEF VarInv, Busy
  <2>. QED
    BY <1>4, <1>6, <2>3, SameTreeInv DEF VarInv, MemberCounts
<1>. QED
  BY <1>4, <1>7, <1>8

LEMMA FoldStep ==
    ASSUME VarInv, ~Overlap, NEW l \in 1..Len(lines), Fold(l)
    PROVE  VarInv'
<1> DEFINE id == Find(l)
<1>1. Start("main") /\ "main" \in Threads
  BY DEF Fold, Threads
<1>2. /\ pc["main"] = "idle" /\ Turn("main") /\ Settled /\ \A u \in Threads : ~updating[u]
  BY <1>1, Begins
<1>3. id \in DOMAIN objs
  BY <1>2, Found DEF VarInv
<1>4. /\ UNCHANGED <<lst, user, gdb, shown, fault>>
      /\ \/ /\ objs[id].nchilds > 0 /\ objs[id].kids = <<>>
            /\ Goto("main", "kids", id) /\ UNCHANGED <<objs, panel>>
         \/ /\ \/ objs' = [objs EXCEPT ![id].open = ~@]
               \/ objs' = [objs EXCEPT ![objs[id].parent].open = FALSE]
               \/ objs' = objs
            /\ BeginPrint("main")
  BY <1>3, Zenon DEF Fold
<1>5. CASE /\ objs[id].nchilds > 0 /\ objs[id].kids = <<>>
           /\ Goto("main", "kids", id) /\ UNCHANGED <<objs, panel>>
  <2>1. objs[id].parent = NoObj
    BY <1>3, <1>5 DEF VarInv, TreeInv, Objects, IsRoot, IsMember
  <2>2. Moved("main", "kids", id)
    BY <1>1, <1>5, GotoMoves DEF VarInv
  <2>3. Waiting("main")'
    BY <1>2, <1>3, <1>5, <2>1, <2>2 DEF Waiting, Moved, panel, Threads
  <2>4. SameTree
    BY <1>4, <1>5 DEF SameTree
  <2>5. PlaceInv' /\ LinesInv'
    BY <1>1, <1>2, <1>4, <1>5, <2>2, <2>3, <2>4, Moves, SameGrows DEF VarInv, Busy
  <2>. QED
    BY <1>4, <2>4, <2>5, SameTreeInv DEF VarInv, MemberCounts
<1>6. CASE /\ \/ objs' = [objs EXCEPT ![id].open = ~@]
              \/ objs' = [objs EXCEPT ![objs[id].parent].open = FALSE]
              \/ objs' = objs
           /\ BeginPrint("main")
  <2>1. CASE objs' = [objs EXCEPT ![id].open = ~@]
    <3>1. SameTree
      BY <1>4, <2>1, OpenSet DEF VarInv
    <3>. QED
      BY <1>1, <1>2, <1>4, <1>6, <3>1, Prints, SameTreeInv DEF VarInv, MemberCounts
  <2>2. CASE objs' = [objs EXCEPT ![objs[id].parent].open = FALSE]
    <3>1. SameTree
      BY <1>4, <2>2, OpenSet DEF VarInv
    <3>. QED
      BY <1>1, <1>2, <1>4, <1>6, <3>1, Prints, SameTreeInv DEF VarInv, MemberCounts
  <2>3. CASE objs' = objs
    <3>1. SameTree
      BY <1>4, <2>3 DEF SameTree
    <3>. QED
      BY <1>1, <1>2, <1>4, <1>6, <3>1, Prints, SameTreeInv DEF VarInv, MemberCounts
  <2>. QED
    BY <1>6, <2>1, <2>2, <2>3
<1>. QED
  BY <1>4, <1>5, <1>6

\* A value is changed, the window printed anew, or a stop arrives: the objects stay.
LEMMA TreeStays ==
    ASSUME VarInv, NEW t \in Threads, Turn(t), pc[t] # "print", Settled,
           UNCHANGED <<maps, gdb, shown, fault>>,
           BeginPrint(t) \/ (Goto(t, "changed", NoObj) /\ UNCHANGED panel)
    PROVE  VarInv'
<1>1. TreeInv' /\ Grows
  BY UnchangedTree DEF VarInv
<1>2. ~updating[t]
  BY DEF Settled
<1>3. PlaceInv' /\ LinesInv'
  BY <1>1, <1>2, Prints, GoesPlainly DEF VarInv
<1>. QED
  BY <1>1, <1>3 DEF VarInv, MemberCounts

LEMMA ChangeStep ==
    ASSUME VarInv, ~Overlap, NEW l \in 1..Len(lines), NEW b \in BOOLEAN, Change(l, b)
    PROVE  VarInv'
<1>1. Start("main") /\ "main" \in Threads
  BY Zenon DEF Change, Threads
<1>2. pc["main"] = "idle" /\ Turn("main") /\ Settled
  BY <1>1, Begins
<1>3. Find(l) \in DOMAIN objs
  BY <1>2, Found DEF VarInv
<1>4. /\ UNCHANGED <<maps, gdb, shown, fault>>
      /\ BeginPrint("main") \/ (Goto("main", "changed", NoObj) /\ UNCHANGED panel)
  BY <1>3, Zenon DEF Change
<1>. QED
  BY <1>1, <1>2, <1>4, TreeStays

LEMMA ViewStep ==
    ASSUME VarInv, ~Overlap, View \/ Stop
    PROVE  VarInv'
<1>1. CASE View
  <2>1. /\ Start("main") /\ "main" \in Threads /\ BeginPrint("main")
        /\ UNCHANGED <<maps, gdb, shown, fault>>
    BY <1>1, Zenon DEF View, Threads
  <2>2. pc["main"] = "idle" /\ Turn("main") /\ Settled
    BY <2>1, Begins
  <2>. QED
    BY <2>1, <2>2, TreeStays
<1>2. CASE Stop
  <2>1. /\ Start("event") /\ "event" \in Threads /\ Goto("event", "changed", NoObj)
        /\ UNCHANGED <<maps, gdb, panel, shown, fault>>
    BY <1>2, Zenon DEF Stop, Threads
  <2>2. pc["event"] = "idle" /\ Turn("event") /\ Settled
    BY <2>1, Begins
  <2>. QED
    BY <2>1, <2>2, TreeStays
<1>. QED
  BY <1>1, <1>2

------------------------------------------------------------------------------
(* The update after a stop *)

\* A thread that is not in the update leaves the lines in order.
LEMMA SettledIs ==
    ASSUME PlaceInv, NEW t \in Threads, Turn(t)
    PROVE  Settled <=> ~updating[t]
<1>1. \A u \in Threads : u # t => ~updating[u]
  BY DEF Turn, PlaceInv, Waiting
<1>. QED
  BY <1>1 DEF Settled

LEMMA UpdateOkStep ==
    ASSUME VarInv, NEW t \in Threads, UpdateOk(t)
    PROVE  VarInv'
<1>1. /\ At(t, "changed")
      /\ updating' = [updating EXCEPT ![t] = TRUE]
      /\ Goto(t, "entries", NoObj)
      /\ UNCHANGED <<maps, lines, obuf, at, line, shown, fault>>
  BY Zenon DEF UpdateOk
<1>2. pc[t] = "changed" /\ Turn(t)
  BY <1>1, Continues
<1>3. PICK c \in [DOMAIN gdb -> Changes] :
          gdb' = [e \in DOMAIN gdb |-> IF c[e].kind = "type" THEN c[e].n ELSE gdb[e]]
  BY DEF UpdateOk
<1>4. \A x \in Changes : x.n \in Nat
  BY BoundsAssumption DEF Changes, Same, Invalid, Retyped
<1>5. MemberCounts'
  BY <1>3, <1>4 DEF VarInv, MemberCounts
<1>6. Moved(t, "entries", NoObj)
  BY <1>1, GotoMoves DEF VarInv
<1>7. /\ updating' \in [Threads -> BOOLEAN] /\ updating'[t]
      /\ \A u \in Threads : u # t => updating'[u] = updating[u]
  BY <1>1 DEF VarInv, PlaceInv
<1>8. \A u \in Threads : u # t => pc'[u] = "idle" /\ ~updating'[u]
  BY <1>2, <1>6, <1>7 DEF Turn, Moved, VarInv, PlaceInv, Waiting
<1>9. \A u \in Threads : Waiting(u)'
  BY <1>6, <1>7, <1>8 DEF Waiting, Moved
<1>10. PlaceInv'
  BY <1>1, <1>6, <1>7, <1>8, <1>9 DEF VarInv, PlaceInv, Moved, Busy
<1>11. ~Settled'
  BY <1>7 DEF Settled
<1>12. LinesInv'
  BY <1>1, <1>6, <1>8, <1>11 DEF VarInv, LinesInv, Moved
<1>13. TreeInv'
  BY <1>1, UnchangedTree DEF VarInv
<1>. QED
  BY <1>1, <1>5, <1>10, <1>12, <1>13 DEF VarInv

\* gdb does not answer, or nothing is left to do: print.
LEMMA UpdateEndsStep ==
    ASSUME VarInv, NEW t \in Threads, UpdateFails(t) \/ EntriesDone(t)
    PROVE  VarInv'
<1>1. /\ At(t, "changed") \/ At(t, "entries")
      /\ BeginPrint(t)
      /\ UNCHANGED <<maps, gdb, shown, fault>>
  BY DEF UpdateFails, EntriesDone
<1>2. Turn(t)
  BY <1>1, Continues
<1>3. PlaceInv' /\ LinesInv'
  BY <1>1, <1>2, Prints DEF VarInv
<1>. QED
  BY <1>1, <1>3, UnchangedTree DEF VarInv, MemberCounts

\* In the update the lines may lead anywhere.
LEMMA UpdateMoves ==
    ASSUME VarInv, NEW t \in Threads, pc[t] = "entries",
           NEW where \in {"kids", "delete", "entries"}, NEW x, Moved(t, where, x),
           UNCHANGED <<panel, shown, gdb, fault>>, TreeInv', Waiting(t)'
    PROVE  VarInv'
<1>1. Turn(t) /\ updating[t]
  BY TurnOf DEF VarInv, PlaceInv, Waiting
<1>2. ~Settled
  BY <1>1, SettledIs DEF VarInv
<1>3. PlaceInv' /\ LinesInv'
  BY <1>1, <1>2, Moves DEF VarInv, Busy
<1>. QED
  BY <1>3 DEF VarInv, MemberCounts

LEMMA EntryStep ==
    ASSUME VarInv, NEW t \in Threads, Entry(t)
    PROVE  VarInv'
<1>1. PICK x \in todo[t] :
        IF Root(x[1]) \notin DOMAIN lst THEN UNCHANGED <<maps, work>>
        ELSE LET id == lst[Root(x[1])] IN
             \/ x[2].kind = "type" /\ EraseKids(id, x[2].n) /\ Goto(t, "kids", id)
             \/ /\ x[2].kind = "invalid"
                /\ Unref(id)
                /\ IF Unreferenced(id) THEN Goto(t, "delete", id) ELSE UNCHANGED work
  BY Zenon DEF Entry
<1>2. At(t, "entries") /\ UNCHANGED <<gdb, panel, shown, fault>>
  BY DEF Entry
<1>3. pc[t] = "entries" /\ Turn(t) /\ updating[t] /\ updating'[t]
  BY <1>2, Continues DEF VarInv, PlaceInv, Waiting, panel
<1> DEFINE id == lst[Root(x[1])]
<1>4. \/ UNCHANGED <<maps, work>>
      \/ /\ Root(x[1]) \in DOMAIN lst
         /\ EraseKids(id, x[2].n) /\ Goto(t, "kids", id)
      \/ /\ Root(x[1]) \in DOMAIN lst
         /\ Unref(id)
         /\ Goto(t, "delete", id) \/ UNCHANGED work
  BY <1>1, Zenon
<1>5. Root(x[1]) \in DOMAIN lst => id \in DOMAIN objs /\ objs[id].parent = NoObj
  BY RootFound DEF VarInv
<1> HIDE DEF id
<1>6. UNCHANGED work => Moved(t, "entries", cur[t]) /\ Waiting(t)'
  BY <1>3 DEF work, Moved, Waiting, VarInv, PlaceInv
<1>7. CASE UNCHANGED <<maps, work>>
  BY <1>2, <1>3, <1>6, <1>7, UpdateMoves, UnchangedTree DEF VarInv
<1>8. CASE Root(x[1]) \in DOMAIN lst /\ EraseKids(id, x[2].n) /\ Goto(t, "kids", id)
  <2>1. TreeInv' /\ id \in DOMAIN objs' /\ objs'[id].parent = NoObj /\ objs'[id].kids = <<>>
    BY <1>5, <1>8, Erased DEF VarInv
  <2>2. Moved(t, "kids", id)
    BY <1>8, GotoMoves DEF VarInv
  <2>3. Waiting(t)'
    BY <1>3, <2>1, <2>2 DEF Waiting, Moved
  <2>. QED
    BY <1>2, <1>3, <2>1, <2>2, <2>3, UpdateMoves
<1>9. CASE Root(x[1]) \in DOMAIN lst /\ Unref(id) /\ (Goto(t, "delete", id) \/ UNCHANGED work)
  <2>1. SameTree
    BY <1>9, RefsSet DEF VarInv, Unref
  <2>2. TreeInv'
    BY <2>1, SameTreeInv DEF VarInv
  <2>3. CASE UNCHANGED work
    BY <1>2, <1>3, <1>6, <2>2, <2>3, UpdateMoves
  <2>4. CASE Goto(t, "delete", id)
    <3>1. Moved(t, "delete", id)
      BY <2>4, GotoMoves DEF VarInv
    <3>2. Waiting(t)'
      BY <1>3, <1>5, <1>9, <2>1, <3>1 DEF Waiting, Moved, SameTree
    <3>. QED
      BY <1>2, <1>3, <2>2, <3>1, <3>2, UpdateMoves
  <2>. QED
    BY <1>9, <2>3, <2>4
<1>. QED
  BY <1>4, <1>7, <1>8, <1>9

------------------------------------------------------------------------------
(* What waits for gdb to delete a variable or to list its members *)

LEMMA Proceeds ==
    ASSUME PlaceInv, LinesInv, NEW t \in Threads, Turn(t), pc[t] # "print",
           Proceed(t), UNCHANGED shown
    PROVE  PlaceInv' /\ LinesInv'
<1>1. \/ updating[t] /\ Goto(t, "entries", NoObj) /\ UNCHANGED panel
      \/ BeginPrint(t)
  BY Zenon DEF Proceed
<1>2. CASE updating[t] /\ Goto(t, "entries", NoObj) /\ UNCHANGED panel
  BY <1>2, GoesPlainly, SettledIs
<1>. QED
  BY <1>1, <1>2, Prints

LEMMA DeleteOkStep ==
    ASSUME VarInv, NEW t \in Threads, DeleteOk(t)
    PROVE  VarInv'
<1> DEFINE id == cur[t]
<1>1. pc[t] = "delete" /\ Turn(t)
  BY Continues DEF DeleteOk
<1>2. id \in DOMAIN objs /\ objs[id].parent = NoObj
  BY <1>1 DEF VarInv, PlaceInv, Waiting
<1>3. /\ gdb' = Only(gdb, DOMAIN gdb \ {objs[id].name[1]})
      /\ Free(id) /\ Proceed(t) /\ UNCHANGED <<shown, fault>>
  BY <1>2, Zenon DEF DeleteOk
<1> HIDE DEF id
<1>4. TreeInv'
  BY <1>2, <1>3, Freed DEF VarInv
<1>5. PlaceInv' /\ LinesInv'
  BY <1>1, <1>3, Proceeds DEF VarInv
<1>6. MemberCounts'
  BY <1>3 DEF VarInv, MemberCounts, Only
<1>. QED
  BY <1>3, <1>4, <1>5, <1>6 DEF VarInv

LEMMA DeleteFailsStep ==
    ASSUME VarInv, NEW t \in Threads, DeleteFails(t)
    PROVE  VarInv'
<1>1. pc[t] = "delete" /\ Turn(t)
  BY Continues DEF DeleteFails
<1>2. /\ BeginPrint(t) \/ (~updating[t] /\ Goto(t, "idle", NoObj) /\ UNCHANGED panel)
      /\ UNCHANGED <<maps, gdb, shown, fault>>
  BY Zenon DEF DeleteFails
<1>3. TreeInv' /\ Grows
  BY <1>2, UnchangedTree DEF VarInv
<1>4. PlaceInv' /\ LinesInv'
  BY <1>1, <1>2, <1>3, Prints, GoesPlainly DEF VarInv
<1>. QED
  BY <1>2, <1>3, <1>4 DEF VarInv, MemberCounts

LEMMA ListOkStep ==
    ASSUME VarInv, NEW t \in Threads, ListOk(t)
    PROVE  VarInv'
<1> DEFINE id == cur[t]
<1>1. pc[t] = "kids" /\ Turn(t)
  BY Continues DEF ListOk
<1>2. id \in DOMAIN objs /\ objs[id].parent = NoObj /\ objs[id].kids = <<>>
  BY <1>1 DEF VarInv, PlaceInv, Waiting
<1>3. Proceed(t) /\ UNCHANGED <<gdb, shown, fault>>
  BY <1>2, Zenon DEF ListOk
<1>4. \E new : Listed(id, new)
  BY <1>2, ListOkLists, UsedIsFinite DEF VarInv, MemberCounts
<1>5. TreeInv'
  BY <1>2, <1>4, ListedTree DEF VarInv
<1>6. PlaceInv' /\ LinesInv'
  BY <1>1, <1>3, Proceeds DEF VarInv
<1>. QED
  BY <1>3, <1>5, <1>6 DEF VarInv, MemberCounts

LEMMA ListFailsStep ==
    ASSUME VarInv, NEW t \in Threads, ListFails(t)
    PROVE  VarInv'
<1> DEFINE id == cur[t]
           open == IF updating[t] THEN objs[id].open ELSE ~objs[id].open
<1>1. pc[t] = "kids" /\ Turn(t)
  BY Continues DEF ListFails
<1>2. id \in DOMAIN objs
  BY <1>1 DEF VarInv, PlaceInv, Waiting
<1>3. /\ objs' = [objs EXCEPT ![id].open = open]
      /\ Proceed(t) /\ UNCHANGED <<lst, user, gdb, shown, fault>>
  BY <1>2, Zenon DEF ListFails
<1> HIDE DEF id, open
<1>4. SameTree
  BY <1>3, OpenSet DEF VarInv
<1>5. PlaceInv' /\ LinesInv'
  BY <1>1, <1>3, Proceeds DEF VarInv
<1>. QED
  BY <1>3, <1>4, <1>5, SameTreeInv DEF VarInv, MemberCounts

------------------------------------------------------------------------------
(* Printing *)

\* What a variable prints are its own line and its members'.
LEMMA PrintedIs ==
    ASSUME NEW id, IsSeq(objs[id].kids), NEW out \in Printed(id)
    PROVE  /\ IsSeq(out)
           /\ \A i \in DOMAIN out : out[i] = id \/ out[i] \in KidsOf(id)
<1> DEFINE kids == objs[id].kids
<1>1. \A s \in Thinned(kids) : s \in Seq(Range(kids))
  <2> TAKE s \in Thinned(kids)
  <2>1. PICK n \in 0..Len(kids) :
            s \in {[i \in 1..n |-> kids[p[i]]] : p \in {q \in [1..n -> 1..Len(kids)] : Increasing(q)}}
    BY Zenon DEF Thinned
  <2>5. PICK p \in [1..n -> 1..Len(kids)] : s = [i \in 1..n |-> kids[p[i]]]
    BY <2>1, Zenon
  <2>2. n \in Nat /\ DOMAIN kids = 1..Len(kids)
    BY LenProperties DEF IsSeq
  <2>3. \A i \in 1..n : kids[p[i]] \in Range(kids)
    BY <2>2 DEF Range
  <2>4. s \in [1..n -> Range(kids)]
    BY <2>5, <2>3
  <2>. QED
    BY <2>2, <2>4, SeqDef
<1>2. out = <<>> \/ \E s \in Thinned(kids) \union {<<>>} : out = <<id>> \o s
  BY DEF Printed
<1>3. Range(kids) = KidsOf(id)
  BY DEF KidsOf, Range
<1> DEFINE S == KidsOf(id) \union {id}
<1>4. out \in Seq(S)
  <2>1. \A s \in Thinned(kids) \union {<<>>} : s \in Seq(S)
    <3> HIDE DEF kids
    <3>1. <<>> \in Seq(S)
      OBVIOUS
    <3>2. \A s \in Thinned(kids) : s \in Seq(S)
      BY <1>1, <1>3, SeqMonotonic
    <3>. QED
      BY <3>1, <3>2
  <2>2. <<id>> \in Seq(S) /\ <<>> \in Seq(S)
    OBVIOUS
  <2> HIDE DEF S, kids
  <2>. QED
    BY <1>2, <2>1, <2>2, ConcatProperties
<1> HIDE DEF S
<1>5. IsSeq(out)
  BY <1>4, SeqOfRange DEF IsSeq
<1>6. \A i \in DOMAIN out : out[i] \in S
  BY <1>4, ElementOfSeq, LenProperties
<1>. QED
  BY <1>5, <1>6 DEF S

\* Sequences that are made, and put together.
LEMMA MadeSeq ==
    ASSUME NEW n \in Nat, NEW f, f = [i \in 1..n |-> f[i]]
    PROVE  IsSeq(f) /\ Len(f) = n
<1>1. \A i \in 1..n : f[i] \in Range(f)
  BY DEF Range
<1>2. f \in [1..n -> Range(f)]
  BY <1>1
<1>3. f \in Seq(Range(f))
  BY <1>2, SeqDef
<1>4. DOMAIN f = 1..n
  BY <1>2
<1> HIDE DEF IsSeq
<1>5. Len(f) \in Nat /\ DOMAIN f = 1..Len(f)
  BY <1>3, LenProperties
<1>6. Len(f) = n
  BY <1>4, <1>5
<1>. QED
  BY <1>3, <1>6 DEF IsSeq

(* c is the sequence a with b appended, element by element.  *)
Joined(a, b, c) ==
    /\ IsSeq(c)
    /\ Len(a) \in Nat /\ Len(b) \in Nat /\ Len(c) = Len(a) + Len(b)
    /\ DOMAIN a = 1..Len(a) /\ DOMAIN b = 1..Len(b)
    /\ DOMAIN c = 1..(Len(a) + Len(b))
    /\ \A i \in DOMAIN a : c[i] = a[i]
    /\ \A i \in DOMAIN b : c[Len(a) + i] = b[i]

LEMMA Together ==
    ASSUME NEW a, NEW b, NEW c, IsSeq(a), IsSeq(b), c = a \o b
    PROVE  Joined(a, b, c)
<1> DEFINE S == Range(a) \union Range(b)
<1>1. a \in Seq(S) /\ b \in Seq(S)
  BY SeqMonotonic DEF IsSeq
<1> HIDE DEF S
<1>2. /\ c \in Seq(S) /\ Len(c) = Len(a) + Len(b)
      /\ \A i \in 1 .. Len(a) + Len(b) : c[i] = IF i <= Len(a) THEN a[i] ELSE b[i - Len(a)]
  BY <1>1, ConcatProperties
<1>3. /\ Len(a) \in Nat /\ Len(b) \in Nat
      /\ DOMAIN a = 1..Len(a) /\ DOMAIN b = 1..Len(b) /\ DOMAIN c = 1..Len(c)
  BY <1>1, <1>2, LenProperties
<1>4. IsSeq(c)
  BY <1>2, SeqOfRange DEF IsSeq
<1>5. \A i \in DOMAIN a : c[i] = a[i]
  BY <1>2, <1>3
<1>6. \A i \in DOMAIN b : c[Len(a) + i] = b[i]
  BY <1>2, <1>3
<1>. QED
  BY <1>2, <1>3, <1>4, <1>5, <1>6 DEF Joined

LEMMA PrintNextStep ==
    ASSUME VarInv, NEW t \in Threads, PrintNext(t)
    PROVE  VarInv'
<1>1. pc[t] = "print" /\ Turn(t)
  BY Continues DEF PrintNext
<1>2. ~(at[t] # 0 /\ at[t] \notin DOMAIN user) /\ Settled /\ line[t] = Len(lines) + 1
  BY <1>1, SettledIs DEF VarInv, PlaceInv, Waiting, LinesInv
<1>3. PICK e \in DOMAIN user : \E out \in Printed(user[e]) :
          /\ lines' = lines \o [i \in 1..Len(out) |-> [line |-> line[t] + i - 1, obj |-> out[i]]]
          /\ obuf' = obuf \o [i \in 1..Len(out) |-> objs[out[i]].name]
          /\ line' = [line EXCEPT ![t] = @ + Len(out)]
          /\ at' = [at EXCEPT ![t] = e]
          /\ UNCHANGED <<maps, gdb, shown, work, updating, todo, fault>>
  BY <1>2, Zenon DEF PrintNext
<1>4. PICK out \in Printed(user[e]) :
          /\ lines' = lines \o [i \in 1..Len(out) |-> [line |-> line[t] + i - 1, obj |-> out[i]]]
          /\ obuf' = obuf \o [i \in 1..Len(out) |-> objs[out[i]].name]
          /\ line' = [line EXCEPT ![t] = @ + Len(out)]
          /\ at' = [at EXCEPT ![t] = e]
          /\ UNCHANGED <<maps, gdb, shown, work, updating, todo, fault>>
  BY <1>3
<1>5. user[e] \in DOMAIN objs
  BY DEF VarInv, TreeInv, Named
<1>6. IsSeq(out) /\ \A i \in DOMAIN out : out[i] \in DOMAIN objs
  BY <1>5, PrintedIs DEF VarInv, TreeInv, Objects
<1>7. Len(out) \in Nat /\ DOMAIN out = 1..Len(out)
  BY <1>6, LenProperties DEF IsSeq
<1> DEFINE more == [i \in 1..Len(out) |-> [line |-> line[t] + i - 1, obj |-> out[i]]]
           names == [i \in 1..Len(out) |-> objs[out[i]].name]
<1>8. /\ IsSeq(more) /\ Len(more) = Len(out)
      /\ IsSeq(names) /\ Len(names) = Len(out)
  BY <1>7, MadeSeq
<1>9. \A i \in 1..Len(out) : /\ more[i].line = Len(lines) + i
                             /\ more[i].obj \in DOMAIN objs
                             /\ names[i] = objs[more[i].obj].name
  <2>1. Len(lines) \in Nat
    BY LenProperties DEF VarInv, LinesInv, IsSeq
  <2>. QED
    BY <1>2, <1>6, <1>7, <2>1
<1>10. lines' = lines \o more /\ obuf' = obuf \o names
  BY <1>4
<1> HIDE DEF more, names
<1>11. /\ UNCHANGED <<objs, lst, user, gdb, shown, pc, cur, updating, fault>>
       /\ at' = [at EXCEPT ![t] = e] /\ line' = [line EXCEPT ![t] = @ + Len(out)]
  BY <1>4 DEF maps, work
<1>12. PlaceInv'
  <2>1. \A u \in Threads : at'[u] = at[u] \/ at'[u] \in DOMAIN user
    BY <1>11 DEF VarInv, PlaceInv
  <2>2. \A u \in Threads : Waiting(u)'
    BY <1>11, <2>1 DEF VarInv, PlaceInv, Waiting
  <2>. QED
    BY <1>11, <2>2 DEF VarInv, PlaceInv
<1>13. /\ IsSeq(lines) /\ IsSeq(obuf) /\ Len(obuf) = Len(lines)
       /\ \A i \in DOMAIN lines :
             /\ lines[i].line = i
             /\ lines[i].obj \in DOMAIN objs
             /\ obuf[i] = objs[lines[i].obj].name
  BY <1>2 DEF VarInv, LinesInv
<1>14. /\ IsSeq(lines') /\ IsSeq(obuf')
       /\ Len(lines') = Len(lines) + Len(out) /\ Len(obuf') = Len(lines')
       /\ Len(lines) \in Nat
       /\ DOMAIN lines = 1..Len(lines) /\ DOMAIN obuf = 1..Len(lines)
       /\ DOMAIN lines' = 1..(Len(lines) + Len(out))
       /\ \A i \in DOMAIN lines : lines'[i] = lines[i] /\ obuf'[i] = obuf[i]
       /\ \A i \in 1..Len(out) : lines'[Len(lines) + i] = more[i] /\ obuf'[Len(lines) + i] = names[i]
  <2>1. /\ IsSeq(lines') /\ Len(lines) \in Nat /\ Len(more) \in Nat /\ Len(lines') = Len(lines) + Len(more)
        /\ DOMAIN lines = 1..Len(lines) /\ DOMAIN more = 1..Len(more)
        /\ DOMAIN lines' = 1..(Len(lines) + Len(more))
        /\ \A i \in DOMAIN lines : lines'[i] = lines[i]
        /\ \A i \in DOMAIN more : lines'[Len(lines) + i] = more[i]
    <3>1. lines' = lines \o more /\ IsSeq(lines) /\ IsSeq(more)
      BY <1>8, <1>10, <1>13
    <3>2. \A a : \A b : \A c : IsSeq(a) /\ IsSeq(b) /\ c = a \o b => Joined(a, b, c)
      BY Together
    <3>3. Joined(lines, more, lines')
      BY <3>1, <3>2, Zenon
    <3>. QED
      BY <3>3 DEF Joined
  <2>2. /\ IsSeq(obuf') /\ Len(obuf) \in Nat /\ Len(names) \in Nat /\ Len(obuf') = Len(obuf) + Len(names)
        /\ DOMAIN obuf = 1..Len(obuf) /\ DOMAIN names = 1..Len(names)
        /\ DOMAIN obuf' = 1..(Len(obuf) + Len(names))
        /\ \A i \in DOMAIN obuf : obuf'[i] = obuf[i]
        /\ \A i \in DOMAIN names : obuf'[Len(obuf) + i] = names[i]
    <3>1. obuf' = obuf \o names /\ IsSeq(obuf) /\ IsSeq(names)
      BY <1>8, <1>10, <1>13
    <3>2. \A a : \A b : \A c : IsSeq(a) /\ IsSeq(b) /\ c = a \o b => Joined(a, b, c)
      BY Together
    <3>3. Joined(obuf, names, obuf')
      BY <3>1, <3>2, Zenon
    <3>. QED
      BY <3>3 DEF Joined
  <2>. QED
    BY <1>8, <1>13, <2>1, <2>2
<1>15. \A i \in DOMAIN lines' :
             /\ lines'[i].line = i
             /\ lines'[i].obj \in DOMAIN objs
             /\ obuf'[i] = objs[lines'[i].obj].name
  <2> TAKE i \in DOMAIN lines'
  <2>1. CASE i \in DOMAIN lines
    BY <1>13, <1>14, <2>1
  <2>2. CASE i \notin DOMAIN lines
    <3>1. i - Len(lines) \in 1..Len(out) /\ i = Len(lines) + (i - Len(lines))
      BY <1>7, <1>14, <2>2
    <3>. QED
      BY <1>9, <1>14, <3>1
  <2>. QED
    BY <2>1, <2>2
<1>16. \A u \in Threads : pc'[u] = "print" => line'[u] = Len(lines') + 1
  <2>1. \A u \in Threads : pc'[u] = "print" => u = t
    BY <1>1, <1>11 DEF Turn
  <2>2. line'[t] = line[t] + Len(out)
    BY <1>11 DEF VarInv, PlaceInv
  <2>. QED
    BY <1>2, <1>7, <1>14, <2>1, <2>2
<1>17. LinesInv'
  BY <1>1, <1>11, <1>14, <1>15, <1>16 DEF LinesInv
<1>18. TreeInv'
  BY <1>11, UnchangedTree DEF VarInv, maps
<1>. QED
  BY <1>11, <1>12, <1>17, <1>18 DEF VarInv, MemberCounts

LEMMA PrintEndStep ==
    ASSUME VarInv, NEW t \in Threads, PrintEnd(t)
    PROVE  VarInv'
<1>1. /\ At(t, "print")
      /\ shown' = obuf
      /\ at' = [at EXCEPT ![t] = 0] /\ line' = [line EXCEPT ![t] = 1]
      /\ Goto(t, "idle", NoObj)
      /\ UNCHANGED <<objs, lst, user, gdb, lines, obuf, updating, fault>>
  BY DEF PrintEnd, maps
<1>2. pc[t] = "print" /\ Turn(t) /\ ~updating[t]
  BY <1>1, Continues DEF VarInv, PlaceInv, Waiting
<1>3. Moved(t, "idle", NoObj)
  BY <1>1, GotoMoves DEF VarInv
<1>4. \A u \in Threads : pc'[u] = "idle" /\ ~updating'[u]
  BY <1>1, <1>2, <1>3 DEF Moved, Turn, VarInv, PlaceInv, Waiting
<1>5. PlaceInv'
  BY <1>1, <1>3, <1>4 DEF VarInv, PlaceInv, Waiting, Moved
<1>6. Settled
  BY <1>2, SettledIs DEF VarInv
<1>7. LinesInv'
  BY <1>1, <1>4, <1>6 DEF VarInv, LinesInv
<1>8. TreeInv'
  BY <1>1, UnchangedTree DEF VarInv, maps
<1>. QED
  BY <1>1, <1>5, <1>7, <1>8 DEF VarInv, MemberCounts

------------------------------------------------------------------------------

LEMMA VarStep ==
    ASSUME VarInv, ~Overlap, [Next]_vars
    PROVE  VarInv'
<1>1. ASSUME NEW e \in Exprs, AddKnown(e) \/ AddUnknown(e) PROVE VarInv'
  BY <1>1, AddKnownStep, AddUnknownStep
<1>2. ASSUME NEW l \in 1..Len(lines), Delete(l) \/ Fold(l) \/ \E b \in BOOLEAN : Change(l, b)
      PROVE  VarInv'
  BY <1>2, DeleteStep, FoldStep, ChangeStep
<1>3. CASE View \/ Stop
  BY <1>3, ViewStep
<1>4. ASSUME NEW n \in 0..MaxKids, CreateOk(n) PROVE VarInv'
  BY <1>4, BoundsAssumption, CreateOkStep
<1>5. CASE CreateFails \/ InfoFails \/ InfoOk
  BY <1>5, AddFailsStep, InfoOkStep
<1>6. ASSUME NEW t \in Threads, Step(t) PROVE VarInv'
  BY <1>6, PrintNextStep, PrintEndStep, UpdateOkStep, UpdateEndsStep, EntryStep,
     DeleteOkStep, DeleteFailsStep, ListOkStep, ListFailsStep DEF Step
<1>7. CASE UNCHANGED vars
  <2>1. UNCHANGED <<objs, lst, user, gdb, lines, obuf, at, line, updating, shown, pc, cur, fault>>
    BY <1>7 DEF vars, maps, panel, work
  <2>2. TreeInv'
    BY <2>1, UnchangedTree DEF VarInv, maps
  <2>3. PlaceInv'
    BY <2>1 DEF VarInv, PlaceInv, Waiting
  <2>4. LinesInv'
    BY <2>1 DEF VarInv, LinesInv, Settled
  <2>. QED
    BY <2>1, <2>2, <2>3, <2>4 DEF VarInv, MemberCounts
<1>8. CASE Next
  BY <1>1, <1>2, <1>3, <1>4, <1>5, <1>6, <1>8, Zenon DEF Next, Command
<1>. QED
  BY <1>7, <1>8

LEMMA VarAlways == ASSUME ~Overlap PROVE Spec => []VarInv
<1>1. Init => VarInv
  <2> SUFFICES ASSUME Init PROVE VarInv
    OBVIOUS
  <2>1. IsSeq(<<>>)
    BY DEF IsSeq
  <2>2. TreeInv
    BY FS_EmptySet DEF Init, TreeInv, Objects, Named
  <2>3. \A t \in Threads : ~updating[t]
    BY DEF Init
  <2>4. PlaceInv
    BY <2>3 DEF Init, PlaceInv, Waiting
  <2>5. LinesInv
    BY <2>1 DEF Init, LinesInv
  <2>6. ~fault
    BY Zenon DEF Init
  <2>7. MemberCounts
    BY DEF Init, MemberCounts
  <2>. QED
    BY <2>2, <2>4, <2>5, <2>6, <2>7 DEF VarInv
<1>2. VarInv /\ [Next]_vars => VarInv'
  BY VarStep
<1>. QED
  BY <1>1, <1>2, PTL DEF Spec

\* The maps, the parents and the lists of children agree with each other at every
\* step, and none of them leads to a deleted object, whatever gdb refuses and
\* whatever changes its type (variable.cc:44-72, 190-204, 269-301).
THEOREM TreeStaysIntact == ASSUME ~Overlap PROVE Spec => []TreeIntact
<1>1. VarInv => TreeIntact
  BY DEF VarInv, TreeInv, Objects, Named, IsRoot, IsMember, TreeIntact
<1>. QED
  BY <1>1, VarAlways, PTL

\* No command touches an object that was deleted, although names of objects, line
\* numbers and the elements of get_changed are all it has to find them by
\* (variable.cc:57, 145, 166).
THEOREM NothingUsedAfterFree == ASSUME ~Overlap PROVE Spec => []NoUseAfterFree
<1>1. VarInv => NoUseAfterFree
  BY Zenon DEF VarInv, NoUseAfterFree
<1>. QED
  BY <1>1, VarAlways, PTL

\* A command on a line of the window finds the object that is shown there
\* (user_cmd/variable.cc:253-283, vimgdb.txt:260-261).
THEOREM LinesLeadToVariables == ASSUME ~Overlap PROVE Spec => []LinesReferToBuffer
<1>1. VarInv => LinesReferToBuffer
  <2> SUFFICES ASSUME VarInv, AtRest, NEW l \in 1..Len(shown)
               PROVE  Find(l) \in DOMAIN objs /\ objs[Find(l)].name = shown[l]
    BY DEF LinesReferToBuffer
  <2>1. \A t \in Threads : pc[t] = "idle"
    BY Zenon DEF AtRest
  <2>2. Settled
    BY <2>1 DEF VarInv, PlaceInv, Waiting, Settled
  <2>3. /\ shown = obuf /\ Len(obuf) = Len(lines)
        /\ \A i \in DOMAIN lines : obuf[i] = objs[lines[i].obj].name
    BY <2>1, <2>2 DEF VarInv, LinesInv
  <2>. QED
    BY <2>2, <2>3, Found DEF VarInv
<1>. QED
  BY <1>1, VarAlways, PTL

\* Only three steps change what gdb has or what the user has.
LEMMA OtherSteps ==
    ASSUME [Next]_vars
    PROVE  \/ UNCHANGED <<user, gdb>>
           \/ \E n : CreateOk(n)
           \/ \E t \in Threads : DeleteOk(t) \/ UpdateOk(t)
<1>1. ASSUME NEW e, AddKnown(e) \/ AddUnknown(e) PROVE UNCHANGED <<user, gdb>>
  BY <1>1, Zenon DEF AddKnown, AddUnknown, maps
<1>2. ASSUME NEW l, Delete(l) \/ Fold(l) \/ \E b \in BOOLEAN : Change(l, b)
      PROVE  UNCHANGED <<user, gdb>>
  BY <1>2, Zenon DEF Delete, Fold, Change, Crash, Unref, maps
<1>3. ASSUME View \/ Stop \/ CreateFails \/ InfoFails \/ InfoOk PROVE UNCHANGED <<user, gdb>>
  BY <1>3, Zenon DEF View, Stop, CreateFails, InfoFails, InfoOk, Crash, maps
<1>4. ASSUME NEW t, PrintNext(t) \/ PrintEnd(t) \/ UpdateFails(t) \/ Entry(t) \/ EntriesDone(t)
                    \/ DeleteFails(t) \/ ListOk(t) \/ ListFails(t)
      PROVE  UNCHANGED <<user, gdb>>
  BY <1>4, Zenon DEF PrintNext, PrintEnd, UpdateFails, Entry, EntriesDone, DeleteFails,
     ListOk, ListFails, Crash, Unref, EraseKids, maps
<1>5. CASE UNCHANGED vars
  BY <1>5, Zenon DEF vars, maps
<1>6. CASE Next
  BY <1>1, <1>2, <1>3, <1>4, <1>6, Zenon DEF Next, Command, Step
<1>. QED
  BY <1>5, <1>6

\* The user's variables are those gdb has objects for, between commands and during
\* them, whether a stop is handled meanwhile or not (variable.cc:113-139, 156-170).
THEOREM MapsAgree == Spec => []MapsMirrorGdb
<1> DEFINE Mirror == DOMAIN user = DOMAIN gdb
<1>1. Init => Mirror
  BY DEF Init
<1>2. Mirror /\ [Next]_vars => Mirror'
  <2> SUFFICES ASSUME Mirror, [Next]_vars PROVE Mirror'
    OBVIOUS
  <2>1. CASE UNCHANGED <<user, gdb>>
    BY <2>1
  <2>2. ASSUME NEW n, CreateOk(n) PROVE Mirror'
    BY <2>2 DEF CreateOk, With
  <2>3. ASSUME NEW t \in Threads, DeleteOk(t) PROVE Mirror'
    <3>1. \/ UNCHANGED <<user, gdb>>
          \/ \E e : /\ gdb' = Only(gdb, DOMAIN gdb \ {e})
                    /\ user' = Only(user, DOMAIN user \ {e})
      BY <2>3, Zenon DEF DeleteOk, Crash, Free, maps
    <3>. QED
      BY <3>1 DEF Only
  <2>4. ASSUME NEW t \in Threads, UpdateOk(t) PROVE Mirror'
    BY <2>4 DEF UpdateOk, maps
  <2>. QED
    BY <2>1, <2>2, <2>3, <2>4, OtherSteps
<1>3. Mirror => MapsMirrorGdb
  BY DEF MapsMirrorGdb
<1>. QED
  BY <1>1, <1>2, <1>3, PTL DEF Spec

==============================================================================
