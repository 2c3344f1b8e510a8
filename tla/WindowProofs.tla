----------------------------- MODULE WindowProofs -----------------------------
(***************************************************************************)
(* Theorems about the windows of memory segments (Memory), peripherals     *)
(* (Per) and the callstack (Callstack): what a line of a window leads to,  *)
(* what is marked in it and whether it is up to date, for lists of any     *)
(* length with parts of any height.                                        *)
(*                                                                         *)
(* What a sequence is, on which line a part of a window begins (LineOf)   *)
(* and what parts put together are (Flattened) is in TextProofs.  The      *)
(* lemmas that follow from it (FindPart, AscendingTogether,                *)
(* FramesAreFirst) serve all three windows.                                *)
(***************************************************************************)
EXTENDS Memory, Per, Callstack, TextProofs, FiniteSetTheorems

\* A map with an entry for each of n parts.
EntryPerPart(n, h, map) ==
    /\ n \in Nat /\ \A i \in 1..n : h[i] \in Nat
    /\ DOMAIN map = 1..n /\ \A i \in 1..n : map[i].line = LineOf(h, i)

(* What line_map::find returns for a line within a part. *)
LEMMA FindPart ==
    ASSUME NEW n, NEW h, NEW map, EntryPerPart(n, h, map), NEW i \in 1..n, NEW k \in 1..h[i]
    PROVE  LineFind(map, LineOf(h, i) + k - 1) = {map[i].data}
<1>0. /\ n \in Nat /\ \A j \in 1..n : h[j] \in Nat
      /\ DOMAIN map = 1..n /\ \A j \in 1..n : map[j].line = LineOf(h, j)
  BY DEF EntryPerPart
<1> DEFINE above == {j \in DOMAIN map : map[j].line <= LineOf(h, i) + k - 1}
<1>1. /\ \A j \in 1..n : LineOf(h, j) \in Nat
      /\ \A j \in 1..n : i < j => LineOf(h, i) + h[i] <= LineOf(h, j)
  BY <1>0, LinesAscend
<1>2. i \in above
  BY <1>0, <1>1
<1>3. \A j \in above : i >= j
  BY <1>0, <1>1
<1> HIDE DEF above
<1>4. above \subseteq Int
  BY <1>0 DEF above
<1>5. Max(above) = i
  <2>1. Max(above) \in above /\ \A j \in above : Max(above) >= j
    BY <1>2, <1>3, Zenon DEF Max
  <2>2. PICK m : m = Max(above)
    OBVIOUS
  <2>3. m \in Int /\ i \in Int /\ m >= i /\ i >= m
    BY <1>2, <1>3, <1>4, <2>1, <2>2
  <2>4. m = i
    BY <2>3
  <2> QED BY <2>2, <2>4
<1>6. LineFind(map, LineOf(h, i) + k - 1) = {map[Max(above)].data}
  BY <1>2 DEF LineFind, above
<1> QED BY <1>5, <1>6

(* The last of some numbers. *)
LEMMA MaxIs ==
    ASSUME NEW n \in Nat, NEW S \in SUBSET (1..n), S # {}
    PROVE  Max(S) \in S
<1> DEFINE T == {n - x : x \in S}
<1>1. T \in SUBSET Nat /\ T # {}
  <2>1. \A x \in S : n - x \in Nat
    OBVIOUS
  <2>2. PICK x \in S : TRUE
    OBVIOUS
  <2>3. n - x \in T
    BY <2>2
  <2> QED BY <2>1, <2>3
<1> HIDE DEF T
<1>2. PICK m \in T : \A k \in T : m <= k
  BY <1>1, LeastNumber, Zenon
<1>3. PICK x \in S : m = n - x
  BY <1>2 DEF T
<1>4. \A y \in S : n - x <= n - y
  BY <1>2, <1>3 DEF T
<1>5. \A y \in S : x >= y
  BY <1>4
<1> QED BY <1>3, <1>5, Zenon DEF Max

LEMMA FindIsEntry ==
    ASSUME NEW map, IsSeq(map), NEW n
    PROVE  \A x \in LineFind(map, n) : \E i \in DOMAIN map : x = map[i].data
<1> DEFINE above == {i \in DOMAIN map : map[i].line <= n}
<1>1. CASE above = {}
  BY <1>1 DEF LineFind
<1>2. CASE above # {}
  <2>1. Len(map) \in Nat /\ above \in SUBSET (1..Len(map))
    BY SeqIs
  <2> HIDE DEF above
  <2>2. Max(above) \in above
    BY <1>2, <2>1, MaxIs
  <2>3. LineFind(map, n) = {map[Max(above)].data}
    BY <1>2 DEF LineFind, above
  <2> QED BY <2>2, <2>3 DEF above
<1> QED BY <1>1, <1>2

------------------------------------------------------------------------------
(* Memory *)

IsSegment(x) ==
    /\ {"id", "addr", "length", "expanded", "ver", "old"} \subseteq DOMAIN x
    /\ x.addr \in Int /\ x.length \in Nat \ {0}

\* A list of segments with ids of their own, none later than the last.
IsMemList(list, last) ==
    /\ IsSeq(list)
    /\ \A i \in DOMAIN list : IsSegment(list[i]) /\ list[i].id \in Nat /\ list[i].id <= last
    /\ \A i, j \in DOMAIN list : list[i].id = list[j].id => i = j

\* What the user has seen of a segment is what was read last.
SeenIsRead(list) ==
    \A i \in DOMAIN list : list[i].id \in DOMAIN memSeen => list[i].ver = memSeen[list[i].id]

MemInv ==
    /\ memAdded \in Nat
    /\ IsMemList(mem_lst, memAdded)
    /\ IsSeq(line_mems)
    /\ memShown # <<>> => memWindow
    /\ Running /\ memShown # <<>> => \A i \in DOMAIN line_mems : line_mems[i].data \in MemIds
    /\ Running /\ ~memSkipped =>
          \A n \in DOMAIN memShown : LineFind(line_mems, n) = {memShown[n].seg}
    /\ memState = "used a deleted segment" => memShown = <<>>
    /\ ~memSkipped => SeenIsRead(mem_lst)
    /\ \A id \in DOMAIN memSeen : id \in Nat /\ id <= memAdded

LEMMA RepeatIs ==
    ASSUME NEW v, NEW j \in Nat
    PROVE  IsSeq(Repeat(v, j)) /\ Len(Repeat(v, j)) = j /\ \A k \in 1..j : Repeat(v, j)[k] = v
<1>1. Repeat(v, j) = [k \in 1..j |-> Repeat(v, j)[k]] /\ \A k \in 1..j : Repeat(v, j)[k] = v
  BY DEF Repeat
<1> QED BY <1>1, MadeSeq

(* The lines of a segment, as many as the code counts, and how they are marked. *)
LEMMA DumpIs ==
    ASSUME NEW x, IsSegment(x)
    PROVE  LET d == DumpText(x)
               plain == [seg |-> x.id, marked |-> FALSE]
               bytes == [seg |-> x.id, marked |-> x.ver # x.old]
           IN  /\ IsSeq(d) /\ Len(d) = LinesCounted(x)
               /\ \A k \in DOMAIN d : d[k] \in {plain, bytes}
               /\ x.expanded => \E k \in DOMAIN d : d[k] = bytes
<1> DEFINE plain == [seg |-> x.id, marked |-> FALSE]
           bytes == [seg |-> x.id, marked |-> x.ver # x.old]
           more == IF Rest(x) THEN 1 ELSE 0
           n == FullRows(x) + more
           d == DumpText(x)
<1>1. FullRows(x) \in Nat /\ (FullRows(x) = 0 => Rest(x))
  <2> DEFINE I == x.addr..(x.addr + x.length - 1)
             S == {a \in I : (a + 1) % x.align = 0}
             z == x.addr + x.length - 1
  <2>1. IsFiniteSet(I)
    BY FS_Interval DEF IsSegment
  <2>2. IsFiniteSet(S)
    <3>1. S \in SUBSET I
      OBVIOUS
    <3> HIDE DEF S, I
    <3> QED BY <2>1, <3>1, FS_Subset
  <2>3. ASSUME Cardinality(S) = 0 PROVE Rest(x)
    <3>1. S = {}
      <4> HIDE DEF S
      <4> QED BY <2>2, <2>3, FS_EmptySet
    <3>2. z \in I /\ z + 1 = x.addr + x.length
      BY DEF IsSegment
    <3>3. (z + 1) % x.align # 0
      BY <3>1, <3>2
    <3> HIDE DEF z
    <3> QED BY <3>2, <3>3 DEF Rest
  <2>4. Cardinality(S) \in Nat
    <3> HIDE DEF S
    <3> QED BY <2>2, FS_CardinalityType
  <2>5. FullRows(x) = Cardinality(S)
    BY DEF FullRows
  <2> HIDE DEF S, z
  <2> QED BY <2>3, <2>4, <2>5
<1>2. more \in Nat /\ n \in Nat /\ n >= 1
  BY <1>1
<1> HIDE DEF plain, bytes
<1>4. CASE x.expanded
  <2> DEFINE a == Repeat(plain, 2)
             b == Repeat(bytes, n)
             c == Repeat(plain, 1)
             ab == a \o b
  <2>1. d = ab \o c /\ LinesCounted(x) = 2 + FullRows(x) + 1 + more
    BY <1>4 DEF DumpText, LinesCounted, plain, bytes
  <2>2. /\ IsSeq(a) /\ Len(a) = 2 /\ \A k \in 1..2 : a[k] = plain
        /\ IsSeq(b) /\ Len(b) = n /\ \A k \in 1..n : b[k] = bytes
        /\ IsSeq(c) /\ Len(c) = 1 /\ \A k \in 1..1 : c[k] = plain
    BY <1>2, RepeatIs
  <2> HIDE DEF a, b, c, d
  <2>3. Joined(a, b, ab)
    BY <2>2, Together
  <2> HIDE DEF ab
  <2>4. Joined(ab, c, d)
    <3>1. IsSeq(ab) /\ IsSeq(c)
      BY <2>2, <2>3 DEF Joined
    <3>2. Joined(ab, c, ab \o c)
      BY <3>1, Together
    <3> QED BY <2>1, <3>2
  <2> HIDE DEF n, more
  <2>5. Len(ab) = 2 + n /\ IsSeq(d) /\ Len(d) = 2 + n + 1 /\ DOMAIN d = 1..(2 + n + 1)
    BY <1>2, <2>2, <2>3, <2>4 DEF Joined
  <2>6. \A k \in 1..2 : ab[k] = plain
    BY <2>2, <2>3 DEF Joined
  <2>7. \A k \in 1..n : ab[2 + k] = bytes
    BY <2>2, <2>3 DEF Joined
  <2>8. \A k \in 1..(2 + n) : d[k] = ab[k]
    BY <2>4, <2>5 DEF Joined
  <2>9. d[2 + n + 1] = plain
    BY <2>2, <2>4, <2>5 DEF Joined
  <2>10. ASSUME NEW k \in DOMAIN d PROVE d[k] \in {plain, bytes}
    <3>1. k \in 1..2 \/ k \in 3..(2 + n) \/ k = 2 + n + 1
      BY <1>2, <2>5
    <3>2. CASE k \in 1..2
      BY <1>2, <2>6, <2>8, <3>2
    <3>3. CASE k \in 3..(2 + n)
      <4>1. k - 2 \in 1..n /\ 2 + (k - 2) = k /\ k \in 1..(2 + n)
        BY <1>2, <3>3
      <4> QED BY <2>7, <2>8, <4>1
    <3> QED BY <2>9, <3>1, <3>2, <3>3
  <2>11. 3 \in DOMAIN d /\ d[3] = bytes
    <3>1. 1 \in 1..n /\ 2 + 1 = 3 /\ 3 \in 1..(2 + n) /\ 3 \in 1..(2 + n + 1)
      BY <1>2
    <3> QED BY <2>5, <2>7, <2>8, <3>1
  <2>12. Len(d) = LinesCounted(x)
    BY <1>1, <1>2, <2>1, <2>5 DEF n
  <2> QED BY <2>5, <2>10, <2>11, <2>12, Zenon DEF plain, bytes, d
<1>5. CASE ~x.expanded
  <2>1. d = Repeat(plain, 2) /\ LinesCounted(x) = 2
    BY <1>5 DEF DumpText, LinesCounted, plain
  <2>2. IsSeq(d) /\ Len(d) = 2 /\ \A k \in 1..2 : d[k] = plain
    <3>1. LET r == Repeat(plain, 2) IN IsSeq(r) /\ Len(r) = 2 /\ \A k \in 1..2 : r[k] = plain
      BY RepeatIs
    <3> HIDE DEF d
    <3> QED BY <2>1, <3>1
  <2>3. DOMAIN d = 1..2
    BY <2>2, SeqIs
  <2> HIDE DEF d
  <2>4. IsSeq(d) /\ Len(d) = LinesCounted(x) /\ \A k \in DOMAIN d : d[k] \in {plain, bytes}
    BY <2>1, <2>2, <2>3
  <2> QED BY <1>5, <2>4, Zenon DEF plain, bytes, d
<1> QED BY <1>4, <1>5

\* Segments after the first ones have been read.
Answered(list, version, n) ==
    [i \in DOMAIN list |-> IF i <= n THEN Reread(list[i], version) ELSE list[i]]

LEMMA AnsweredIs ==
    ASSUME NEW list, NEW last, IsMemList(list, last), NEW version, NEW n
    PROVE  LET now == Answered(list, version, n) IN
           /\ IsMemList(now, last) /\ DOMAIN now = DOMAIN list /\ Len(now) = Len(list)
           /\ \A i \in DOMAIN list :
                 /\ now[i].id = list[i].id
                 /\ i <= n => now[i].ver = version /\ now[i].old = list[i].ver
<1> DEFINE now == Answered(list, version, n)
<1>1. Len(list) \in Nat /\ DOMAIN list = 1..Len(list)
  BY SeqIs DEF IsMemList
<1>2. DOMAIN now = DOMAIN list
  BY DEF Answered
<1>3. ASSUME NEW i \in DOMAIN list
      PROVE  /\ IsSegment(now[i]) /\ now[i].id = list[i].id
             /\ i <= n => now[i].ver = version /\ now[i].old = list[i].ver
  <2>1. IsSegment(list[i])
    BY DEF IsMemList
  <2>2. CASE i <= n
    <3>1. now[i] = [list[i] EXCEPT !.old = list[i].ver, !.ver = version]
      BY <2>2 DEF Answered, Reread
    <3> HIDE DEF now
    <3> QED BY <2>1, <3>1 DEF IsSegment
  <2>3. CASE ~(i <= n)
    <3>1. now[i] = list[i]
      BY <2>3 DEF Answered
    <3> QED BY <2>1, <2>3, <3>1
  <2> QED BY <2>2, <2>3
<1>4. now = [i \in 1..Len(list) |-> now[i]]
  BY <1>1 DEF Answered
<1> HIDE DEF now
<1>5. IsSeq(now) /\ Len(now) = Len(list)
  BY <1>1, <1>4, MadeSeq
<1>6. IsMemList(now, last)
  BY <1>2, <1>3, <1>5 DEF IsMemList
<1> QED BY <1>2, <1>3, <1>5, <1>6 DEF now

\* The map the code fills while it prints all of a list.
IsMapOf(list, map) ==
    LET tall == [i \in DOMAIN list |-> LinesCounted(list[i])] IN
    /\ IsSeq(map) /\ DOMAIN map = DOMAIN list
    /\ \A i \in DOMAIN list : map[i].line = LineOf(tall, i) /\ map[i].data = list[i].id

\* A window with every segment on the lines that lead to it, the changed ones marked.
Dumped(list, map, shown) ==
    /\ \A n \in DOMAIN shown : LineFind(map, n) = {shown[n].seg}
    /\ \A i \in DOMAIN list : list[i].expanded =>
          ([seg |-> list[i].id, marked |-> TRUE] \in Range(shown)
             <=> list[i].ver # list[i].old)

(* What an update prints that gdb answers. *)
LEMMA PrintedIs ==
    ASSUME NEW list, NEW last, IsMemList(list, last), NEW map, IsMapOf(list, map)
    PROVE  Dumped(list, map, FlattenSeq([i \in DOMAIN list |-> DumpText(list[i])]))
<1> DEFINE tall == [i \in DOMAIN list |-> LinesCounted(list[i])]
<1>0. /\ tall = [i \in DOMAIN list |-> LinesCounted(list[i])]
      /\ IsSeq(map) /\ DOMAIN map = DOMAIN list
      /\ \A i \in DOMAIN list : map[i].line = LineOf(tall, i) /\ map[i].data = list[i].id
  BY Zenon DEF IsMapOf
<1> HIDE DEF tall
<1> DEFINE parts == [i \in DOMAIN list |-> DumpText(list[i])]
           shown == FlattenSeq(parts)
           plain(i) == [seg |-> list[i].id, marked |-> FALSE]
           bytes(i) == [seg |-> list[i].id, marked |-> list[i].ver # list[i].old]
           L(i) == LineOf(tall, i)
<1>1. Len(list) \in Nat /\ DOMAIN list = 1..Len(list)
  BY SeqIs DEF IsMemList
<1>2. \A i \in DOMAIN list :
          /\ IsSeq(parts[i]) /\ Len(parts[i]) = tall[i] /\ DOMAIN parts[i] = 1..tall[i]
          /\ tall[i] \in Nat
          /\ \A k \in 1..tall[i] : parts[i][k] \in {plain(i), bytes(i)}
          /\ list[i].expanded => \E k \in 1..tall[i] : parts[i][k] = bytes(i)
  <2> SUFFICES ASSUME NEW i \in DOMAIN list
               PROVE  /\ IsSeq(parts[i]) /\ Len(parts[i]) = tall[i] /\ DOMAIN parts[i] = 1..tall[i]
                      /\ tall[i] \in Nat
                      /\ \A k \in 1..tall[i] : parts[i][k] \in {plain(i), bytes(i)}
                      /\ list[i].expanded => \E k \in 1..tall[i] : parts[i][k] = bytes(i)
    BY Zenon
  <2>1. /\ IsSeq(parts[i]) /\ Len(parts[i]) = tall[i]
        /\ \A k \in DOMAIN parts[i] : parts[i][k] \in {plain(i), bytes(i)}
        /\ list[i].expanded => \E k \in DOMAIN parts[i] : parts[i][k] = bytes(i)
    <3>1. IsSegment(list[i]) /\ parts[i] = DumpText(list[i]) /\ tall[i] = LinesCounted(list[i])
      BY <1>0 DEF IsMemList
    <3> HIDE DEF parts
    <3> QED BY <3>1, DumpIs
  <2> HIDE DEF parts
  <2>2. Len(parts[i]) \in Nat /\ DOMAIN parts[i] = 1..Len(parts[i])
    BY <2>1, SeqIs
  <2> QED BY <2>1, <2>2
<1>3. Parts(parts) /\ DOMAIN parts = DOMAIN list
  <2>1. IsSeq(parts)
    BY <1>1, MadeSeq
  <2> QED BY <1>2, <2>1 DEF Parts
<1> HIDE DEF parts
<1>4. /\ IsSeq(shown)
      /\ \A i \in DOMAIN list : \A k \in 1..tall[i] :
            L(i) + k - 1 \in DOMAIN shown /\ shown[L(i) + k - 1] = parts[i][k]
      /\ \A n \in DOMAIN shown : \E i \in DOMAIN list : \E k \in 1..tall[i] : n = L(i) + k - 1
  <2>1. \A i \in DOMAIN parts : tall[i] = Len(parts[i])
    BY <1>2, <1>3
  <2>2. Layout(parts, tall, shown)
    BY <1>3, <2>1, Flattened
  <2> HIDE DEF shown
  <2>3. /\ IsSeq(shown)
        /\ \A i \in DOMAIN parts : \A k \in 1..tall[i] :
              LineOf(tall, i) + k - 1 \in DOMAIN shown /\ shown[LineOf(tall, i) + k - 1] = parts[i][k]
        /\ \A n \in DOMAIN shown : \E i \in DOMAIN parts : \E k \in 1..tall[i] : n = LineOf(tall, i) + k - 1
    BY <2>2, Zenon DEF Layout
  <2> QED BY <1>3, <2>3
<1> HIDE DEF shown, L
<1>5. ASSUME NEW n \in DOMAIN shown PROVE LineFind(map, n) = {shown[n].seg}
  <2>1. PICK i \in DOMAIN list : \E k \in 1..tall[i] : n = L(i) + k - 1
    BY <1>4
  <2>2. PICK k \in 1..tall[i] : n = L(i) + k - 1
    BY <2>1
  <2>3. shown[n] = parts[i][k] /\ parts[i][k] \in {plain(i), bytes(i)}
    BY <1>2, <1>4, <2>2
  <2>4. shown[n].seg = list[i].id
    BY <2>3
  <2>5. LineFind(map, n) = {map[i].data}
    <3>1. EntryPerPart(Len(list), tall, map) /\ i \in 1..Len(list)
      BY <1>0, <1>1, <1>2 DEF EntryPerPart
    <3>2. LineFind(map, LineOf(tall, i) + k - 1) = {map[i].data}
      BY <3>1, FindPart
    <3> QED BY <2>2, <3>2 DEF L
  <2> QED BY <1>0, <2>4, <2>5
<1>6. ASSUME NEW i \in DOMAIN list, list[i].expanded
      PROVE  [seg |-> list[i].id, marked |-> TRUE] \in Range(shown) <=> list[i].ver # list[i].old
  <2> DEFINE mark == [seg |-> list[i].id, marked |-> TRUE]
  <2>1. ASSUME list[i].ver # list[i].old PROVE mark \in Range(shown)
    <3>1. PICK k \in 1..tall[i] : parts[i][k] = bytes(i)
      BY <1>2, <1>6
    <3>2. L(i) + k - 1 \in DOMAIN shown /\ shown[L(i) + k - 1] = mark
      BY <1>4, <2>1, <3>1
    <3> QED BY <3>2, Zenon DEF Range
  <2>2. ASSUME mark \in Range(shown) PROVE list[i].ver # list[i].old
    <3>1. PICK n \in DOMAIN shown : shown[n] = mark
      BY <2>2 DEF Range
    <3>2. PICK j \in DOMAIN list : \E k \in 1..tall[j] : n = L(j) + k - 1
      BY <1>4
    <3>3. PICK k \in 1..tall[j] : n = L(j) + k - 1
      BY <3>2
    <3>4. mark \in {plain(j), bytes(j)}
      BY <1>2, <1>4, <3>1, <3>3
    <3>5. list[j].id = list[i].id /\ list[j].ver # list[j].old
      BY <3>4
    <3>6. j = i
      BY <3>5 DEF IsMemList
    <3> QED BY <3>5, <3>6
  <2> QED BY <2>1, <2>2
<1> QED BY <1>5, <1>6, Zenon DEF shown, parts, Dumped

\* What a step does to the window that the user sees.
Marked ==
    (memSeen' # memSeen \/ memShown' # memShown) /\ memShown' # <<>> /\ ~memSkipped =>
        \A seg \in Range(mem_lst') :
            seg.id \in DOMAIN memSeen /\ seg.expanded =>
                ([seg |-> seg.id, marked |-> TRUE] \in Range(memShown')
                    <=> memTarget' # memSeen[seg.id])

(* cmd_memory_update, whatever gdb answers. *)
LEMMA UpdateKeeps ==
    ASSUME MemInv, memState = "running", NEW list, NEW version,
           memAdded' \in Nat, memAdded' >= memAdded, IsMemList(list, memAdded'),
           ~memSkipped => SeenIsRead(list),
           UpdateAll(list, version), memTarget' = version, UNCHANGED <<memWindow, memState>>
    PROVE  MemInv' /\ Marked
<1>1. PICK n \in 0..Len(list) : Update(list, version, n)
  BY DEF UpdateAll
<1>2. Len(list) \in Nat /\ DOMAIN list = 1..Len(list) /\ IsSeq(list)
  BY SeqIs DEF IsMemList
<1>3. memAdded \in Nat /\ \A id \in DOMAIN memSeen : id \in Nat /\ id <= memAdded'
  BY DEF MemInv
<1>4. CASE ~memWindow
  <2>1. /\ mem_lst' = list /\ line_mems' = line_mems /\ memShown' = memShown
        /\ memSeen' = memSeen /\ memSkipped' = memSkipped /\ memShown = <<>> /\ IsSeq(line_mems)
    BY <1>1, <1>4 DEF Update, MemInv
  <2>2. IsMemList(mem_lst, memAdded)'
    BY <2>1
  <2>3. (~memSkipped => SeenIsRead(mem_lst))'
    BY <2>1 DEF SeenIsRead
  <2>4. Marked
    BY <2>1 DEF Marked
  <2>5. memSeen' = memSeen /\ memShown' = <<>> /\ IsSeq(line_mems') /\ DOMAIN memShown' = {}
    BY <2>1
  <2> QED BY <1>3, <2>2, <2>3, <2>4, <2>5 DEF MemInv, Running
<1>5. CASE memWindow
  <2> DEFINE now  == Answered(list, version, n)
             tall == [i \in DOMAIN list |-> LinesCounted(now[i])]
             map  == [i \in 1..n |-> [line |-> LineOf(tall, i), data |-> list[i].id]]
  <2>1. /\ mem_lst' = now /\ line_mems' = map
        /\ IF n = Len(list)
           THEN /\ memShown' = FlattenSeq([i \in DOMAIN now |-> DumpText(now[i])])
                /\ memSeen' = [id \in {s.id : s \in Range(now)} |-> version]
                /\ memSkipped' = FALSE
           ELSE memSkipped' = TRUE /\ memShown' = memShown /\ memSeen' = memSeen
    BY <1>1, <1>5, Zenon DEF Update, Answered
  <2>2. /\ IsMemList(now, memAdded') /\ DOMAIN now = DOMAIN list /\ Len(now) = Len(list)
        /\ \A i \in DOMAIN list : /\ now[i].id = list[i].id
                                  /\ i <= n => now[i].ver = version /\ now[i].old = list[i].ver
    BY AnsweredIs
  <2>3. n \in Nat /\ n <= Len(list) /\ \A i \in 1..n : i \in DOMAIN list
    BY <1>2
  <2>4. IsSeq(map) /\ Len(map) = n /\ DOMAIN map = 1..n
        /\ \A i \in 1..n : map[i].line = LineOf(tall, i) /\ map[i].data = list[i].id
    <3> HIDE DEF tall
    <3>1. map = [i \in 1..n |-> map[i]] /\ DOMAIN map = 1..n
          /\ \A i \in 1..n : map[i].line = LineOf(tall, i) /\ map[i].data = list[i].id
      OBVIOUS
    <3> HIDE DEF map
    <3> QED BY <2>3, <3>1, MadeSeq
  <2>5. tall = [i \in DOMAIN now |-> LinesCounted(now[i])]
    BY <2>2
  <2> HIDE DEF now, tall, map
  <2>6. IsMemList(mem_lst, memAdded)' /\ IsSeq(line_mems')
    BY <2>1, <2>2, <2>4
  <2>7. \A i \in DOMAIN line_mems' : line_mems'[i].data \in MemIds'
    BY <2>1, <2>2, <2>3, <2>4 DEF MemIds
  <2>8. CASE n # Len(list)
    <3>1. memSkipped' = TRUE /\ memShown' = memShown /\ memSeen' = memSeen
      BY <2>1, <2>8
    <3>2. Marked
      BY <3>1 DEF Marked
    <3> QED BY <1>3, <1>5, <2>6, <2>7, <3>1, <3>2 DEF MemInv, Running
  <2>9. CASE n = Len(list)
    <3>1. /\ memShown' = FlattenSeq([i \in DOMAIN now |-> DumpText(now[i])])
          /\ memSeen' = [id \in {s.id : s \in Range(now)} |-> version]
          /\ memSkipped' = FALSE
      BY <2>1, <2>9
    <3>2. /\ \A k \in DOMAIN memShown' : LineFind(line_mems', k) = {memShown'[k].seg}
          /\ \A i \in DOMAIN now : now[i].expanded =>
                ([seg |-> now[i].id, marked |-> TRUE] \in Range(memShown')
                   <=> now[i].ver # now[i].old)
      <4>1. IsMapOf(now, map)
        BY <1>2, <2>2, <2>4, <2>5, <2>9 DEF IsMapOf
      <4>2. Dumped(now, map, memShown')
        BY <2>2, <3>1, <4>1, PrintedIs
      <4> QED BY <2>1, <4>2, Zenon DEF Dumped
    <3>3. \A i \in DOMAIN now : /\ now[i].ver = version /\ now[i].old = list[i].ver
                                /\ now[i].id = list[i].id /\ i \in DOMAIN list
                                /\ now[i].id \in Nat /\ now[i].id <= memAdded'
      BY <1>2, <2>2, <2>9 DEF IsMemList
    <3>4. \A id \in DOMAIN memSeen' : /\ memSeen'[id] = version
                                      /\ \E i \in DOMAIN now : id = now[i].id
      BY <3>1 DEF Range
    <3>5. SeenIsRead(mem_lst)'
      BY <2>1, <3>3, <3>4 DEF SeenIsRead
    <3>6. \A id \in DOMAIN memSeen' : id \in Nat /\ id <= memAdded'
      BY <3>3, <3>4
    <3>7. Marked
      <4> SUFFICES ASSUME ~memSkipped, NEW i \in DOMAIN now,
                          now[i].id \in DOMAIN memSeen, now[i].expanded
                   PROVE  [seg |-> now[i].id, marked |-> TRUE] \in Range(memShown')
                            <=> memTarget' # memSeen[now[i].id]
        BY <2>1, Zenon DEF Marked, Range
      <4>1. now[i].ver = version /\ now[i].old = memSeen[now[i].id]
        BY <3>3 DEF SeenIsRead
      <4> QED BY <3>2, <4>1
    <3> QED BY <1>3, <1>5, <2>6, <2>7, <3>1, <3>2, <3>5, <3>6, <3>7 DEF MemInv, Running
  <2> QED BY <2>8, <2>9
<1> QED BY <1>4, <1>5

\* What a step may do to the window and the invariant.
Kept == MemInv' /\ Marked

\* A list that a command may hand to the update.
MayFollow(list) ==
    /\ memAdded' \in Nat /\ memAdded' >= memAdded
    /\ IsMemList(list, memAdded')
    /\ ~memSkipped => SeenIsRead(list)

LEMMA Followed ==
    ASSUME MemInv, Running, NEW list, MayFollow(list), UpdateAll(list, memTarget'),
           UNCHANGED <<memWindow, memState>>
    PROVE  Kept
  BY UpdateKeeps DEF Kept, MayFollow, Running

LEMMA AddKeeps ==
    ASSUME MemInv, NEW req \in MemRequests, MemAdd(req)
    PROVE  Kept
<1> DEFINE seg == [id |-> memAdded + 1, addr |-> req.addr, length |-> req.length,
                   align |-> Alignment(req.align), expanded |-> TRUE,
                   ver |-> memTarget, old |-> memTarget]
           list == Append(mem_lst, seg)
<1>1. /\ Running /\ memAdded' = memAdded + 1 /\ UpdateAll(list, memTarget')
      /\ UNCHANGED <<memWindow, memState>>
  BY DEF MemAdd
<1>2. /\ memAdded \in Nat /\ memAdded' \in Nat /\ memAdded' >= memAdded /\ memAdded' = memAdded + 1
      /\ ~(memAdded' <= memAdded)
      /\ \A i \in Nat : i <= memAdded => i <= memAdded'
  <2>1. memAdded \in Nat
    BY Zenon DEF MemInv
  <2> QED BY <1>1, <2>1
<1>3. IsSegment(seg) /\ seg.id = memAdded'
  <2>1. req.addr \in Int /\ req.length \in Nat \ {0}
    BY MemRequestsAssumption
  <2>2. seg.id = memAdded' /\ seg.addr = req.addr /\ seg.length = req.length
        /\ {"id", "addr", "length", "expanded", "ver", "old"} \subseteq DOMAIN seg
    BY <1>1
  <2> HIDE DEF seg
  <2> QED BY <2>1, <2>2 DEF IsSegment
<1> HIDE DEF seg
<1>4. /\ IsSeq(mem_lst) /\ DOMAIN mem_lst = 1..Len(mem_lst)
      /\ \A i \in DOMAIN mem_lst : /\ IsSegment(mem_lst[i]) /\ mem_lst[i].id \in Nat
                                   /\ mem_lst[i].id <= memAdded /\ mem_lst[i].id # memAdded'
      /\ \A i, j \in DOMAIN mem_lst : mem_lst[i].id = mem_lst[j].id => i = j
  BY <1>2, SeqIs DEF MemInv, IsMemList
<1>5. /\ IsSeq(list) /\ Len(mem_lst) \in Nat /\ DOMAIN list = 1..(Len(mem_lst) + 1)
      /\ \A i \in 1..Len(mem_lst) : list[i] = mem_lst[i]
      /\ list[Len(mem_lst) + 1] = seg
  BY <1>4, Appended
<1> HIDE DEF list
<1>6. \A i \in DOMAIN list : \/ i \in DOMAIN mem_lst /\ list[i] = mem_lst[i]
                             \/ i = Len(mem_lst) + 1 /\ list[i] = seg
  BY <1>4, <1>5
<1>7. IsMemList(list, memAdded')
  <2>1. \A i \in DOMAIN list : IsSegment(list[i]) /\ list[i].id \in Nat /\ list[i].id <= memAdded'
    BY <1>2, <1>3, <1>4, <1>6
  <2>2. \A i, j \in DOMAIN list : list[i].id = list[j].id => i = j
    BY <1>3, <1>4, <1>6
  <2> QED BY <1>5, <2>1, <2>2 DEF IsMemList
<1>8. ~memSkipped => SeenIsRead(list)
  <2>1. memAdded' \notin DOMAIN memSeen
    BY <1>2 DEF MemInv
  <2> QED BY <1>3, <1>6, <2>1 DEF MemInv, SeenIsRead
<1> QED BY <1>1, <1>2, <1>7, <1>8, Followed DEF MayFollow

\* Every segment on the list is one of the segments, as it is there.
LEMMA PartFollows ==
    ASSUME MemInv, UNCHANGED memAdded, NEW list, IsSeq(list),
           \A i \in DOMAIN list : \E j \in DOMAIN mem_lst :
              /\ IsSegment(list[i]) /\ list[i].id = mem_lst[j].id /\ list[i].ver = mem_lst[j].ver,
           \A i, j \in DOMAIN list : list[i].id = list[j].id => i = j
    PROVE  MayFollow(list)
<1>0. memAdded \in Nat /\ IsMemList(mem_lst, memAdded) /\ (~memSkipped => SeenIsRead(mem_lst))
  BY Zenon DEF MemInv
<1>1. memAdded' \in Nat /\ memAdded' >= memAdded /\ memAdded' = memAdded
  BY <1>0
<1>2. IsMemList(list, memAdded')
  BY <1>0, <1>1 DEF IsMemList
<1>3. ~memSkipped => SeenIsRead(list)
  BY <1>0 DEF SeenIsRead
<1> QED BY <1>1, <1>2, <1>3 DEF MayFollow

LEMMA SameFollows ==
    ASSUME MemInv, UNCHANGED memAdded
    PROVE  MayFollow(mem_lst)
<1>1. /\ IsSeq(mem_lst) /\ \A i \in DOMAIN mem_lst : IsSegment(mem_lst[i])
      /\ \A i, j \in DOMAIN mem_lst : mem_lst[i].id = mem_lst[j].id => i = j
  BY DEF MemInv, IsMemList
<1> QED BY <1>1, PartFollows

LEMMA DeleteFollows ==
    ASSUME MemInv, UNCHANGED memAdded, NEW i \in DOMAIN mem_lst
    PROVE  MayFollow(RemoveAt(mem_lst, i))
<1> DEFINE list == RemoveAt(mem_lst, i)
<1>1. /\ IsSeq(mem_lst) /\ Len(mem_lst) \in Nat /\ DOMAIN mem_lst = 1..Len(mem_lst)
      /\ \A j \in DOMAIN mem_lst : IsSegment(mem_lst[j])
      /\ \A j, k \in DOMAIN mem_lst : mem_lst[j].id = mem_lst[k].id => j = k
  BY SeqIs DEF MemInv, IsMemList
<1>2. /\ IsSeq(list) /\ DOMAIN list = 1..(Len(mem_lst) - 1)
      /\ \A k \in 1..(Len(mem_lst) - 1) : list[k] = IF k < i THEN mem_lst[k] ELSE mem_lst[k + 1]
  BY <1>1, Removed
<1> HIDE DEF list
<1>3. \A k \in DOMAIN list : k \in DOMAIN mem_lst /\ k + 1 \in DOMAIN mem_lst /\ k \in Nat
  BY <1>1, <1>2
<1>4. \A k \in DOMAIN list : (list[k] = mem_lst[k] /\ k < i) \/ (list[k] = mem_lst[k + 1] /\ ~(k < i))
  BY <1>2
<1>5. i \in Nat
  BY <1>1
<1>6. \A k \in DOMAIN list : \E j \in DOMAIN mem_lst :
          IsSegment(list[k]) /\ list[k].id = mem_lst[j].id /\ list[k].ver = mem_lst[j].ver
  BY <1>1, <1>3, <1>4
<1>7. ASSUME NEW j \in DOMAIN list, NEW k \in DOMAIN list, list[j].id = list[k].id
      PROVE  j = k
  <2>1. PICK a \in DOMAIN mem_lst : list[j] = mem_lst[a] /\ ((a = j /\ j < i) \/ (a = j + 1 /\ ~(j < i)))
    BY <1>3, <1>4
  <2>2. PICK b \in DOMAIN mem_lst : list[k] = mem_lst[b] /\ ((b = k /\ k < i) \/ (b = k + 1 /\ ~(k < i)))
    BY <1>3, <1>4
  <2>3. a = b
    BY <1>1, <1>7, <2>1, <2>2
  <2> QED BY <1>3, <1>5, <2>1, <2>2, <2>3
<1>8. MayFollow(list)
  BY <1>2, <1>6, <1>7, PartFollows
<1> QED BY <1>8 DEF list

LEMMA FoldFollows ==
    ASSUME MemInv, UNCHANGED memAdded, NEW id
    PROVE  MayFollow([i \in DOMAIN mem_lst |->
               IF mem_lst[i].id = id THEN [mem_lst[i] EXCEPT !.expanded = ~@] ELSE mem_lst[i]])
<1> DEFINE list == [i \in DOMAIN mem_lst |->
               IF mem_lst[i].id = id THEN [mem_lst[i] EXCEPT !.expanded = ~@] ELSE mem_lst[i]]
<1>1. /\ IsSeq(mem_lst) /\ Len(mem_lst) \in Nat /\ DOMAIN mem_lst = 1..Len(mem_lst)
      /\ \A j \in DOMAIN mem_lst : IsSegment(mem_lst[j])
      /\ \A j, k \in DOMAIN mem_lst : mem_lst[j].id = mem_lst[k].id => j = k
  BY SeqIs DEF MemInv, IsMemList
<1>2. IsSeq(list) /\ DOMAIN list = DOMAIN mem_lst
  <2>1. list = [i \in 1..Len(mem_lst) |-> list[i]] /\ DOMAIN list = DOMAIN mem_lst
    BY <1>1
  <2> HIDE DEF list
  <2> QED BY <1>1, <2>1, MadeSeq
<1>3. ASSUME NEW i \in DOMAIN mem_lst
      PROVE  IsSegment(list[i]) /\ list[i].id = mem_lst[i].id /\ list[i].ver = mem_lst[i].ver
  <2>1. IsSegment(mem_lst[i])
    BY <1>1
  <2>2. CASE mem_lst[i].id = id
    <3>1. list[i] = [mem_lst[i] EXCEPT !.expanded = ~@]
      BY <2>2
    <3> HIDE DEF list
    <3> QED BY <2>1, <3>1 DEF IsSegment
  <2>3. CASE mem_lst[i].id # id
    BY <2>1, <2>3
  <2> QED BY <2>2, <2>3
<1> HIDE DEF list
<1>4. MayFollow(list)
  BY <1>1, <1>2, <1>3, PartFollows
<1> QED BY <1>4 DEF list

(* As long as something is seen, no line leads to a segment that is gone. *)
LEMMA SeenLineLeads ==
    ASSUME MemInv, Running, NEW n, NEW id \in LineFind(line_mems, n), id \notin MemIds
    PROVE  memShown = <<>>
<1>1. /\ IsSeq(line_mems)
      /\ memShown # <<>> => \A i \in DOMAIN line_mems : line_mems[i].data \in MemIds
  BY Zenon DEF MemInv
<1>2. PICK i \in DOMAIN line_mems : id = line_mems[i].data
  BY <1>1, FindIsEntry
<1> QED BY <1>1, <1>2

LEMMA GoesWrongKeeps ==
    ASSUME MemInv, NEW how, MemGoesWrong(how), how # "running",
           how = "used a deleted segment" => memShown = <<>>
    PROVE  Kept
  BY DEF MemInv, MemGoesWrong, Kept, Marked, IsMemList, SeenIsRead, MemIds, Running

LEMMA MemInvIsInductive ==
    /\ MemInit => MemInv
    /\ MemInv /\ [MemNext]_memVars => MemInv' /\ [Marked]_memVars
<1>1. MemInit => MemInv
  <2> SUFFICES ASSUME MemInit PROVE MemInv
    OBVIOUS
  <2>1. IsSeq(<<>>) /\ DOMAIN <<>> = {}
    BY DEF IsSeq, Range
  <2> QED BY <2>1 DEF MemInit, MemInv, IsMemList, SeenIsRead, Running
<1>2. ASSUME MemInv, MemNext PROVE Kept
  <2>1. CASE \E req \in MemRequests : MemAdd(req)
    BY <1>2, <2>1, AddKeeps
  <2>2. ASSUME NEW n \in MemLines, MemDelete(n) PROVE Kept
    <3>1. Running
      BY <2>2 DEF MemDelete
    <3>2. PICK id \in LineFind(line_mems, n) :
             IF id \in MemIds
             THEN /\ \E i \in DOMAIN mem_lst : UpdateAll(RemoveAt(mem_lst, i), memTarget)
                  /\ UNCHANGED <<memAdded, memWindow, memTarget, memState>>
             ELSE MemGoesWrong("used a deleted segment")
      BY <2>2, Zenon DEF MemDelete
    <3>3. CASE id \in MemIds
      <4>1. PICK i \in DOMAIN mem_lst : UpdateAll(RemoveAt(mem_lst, i), memTarget)
        BY <3>2, <3>3
      <4>2. UNCHANGED <<memAdded, memWindow, memTarget, memState>>
        BY <3>2, <3>3
      <4>3. MayFollow(RemoveAt(mem_lst, i))
        BY <1>2, <4>2, DeleteFollows
      <4>4. UpdateAll(RemoveAt(mem_lst, i), memTarget')
        BY <4>1, <4>2
      <4> QED BY <1>2, <3>1, <4>2, <4>3, <4>4, Followed
    <3>4. CASE id \notin MemIds
      BY <1>2, <3>1, <3>2, <3>4, SeenLineLeads, GoesWrongKeeps
    <3> QED BY <3>3, <3>4
  <2>3. ASSUME NEW n \in MemLines, MemFold(n) PROVE Kept
    <3> DEFINE Toggled(id) == [i \in DOMAIN mem_lst |->
                   IF mem_lst[i].id = id THEN [mem_lst[i] EXCEPT !.expanded = ~@] ELSE mem_lst[i]]
    <3>1. Running
      BY <2>3 DEF MemFold
    <3>2. PICK id \in LineFind(line_mems, n) :
             IF id \in MemIds
             THEN /\ UpdateAll(Toggled(id), memTarget)
                  /\ UNCHANGED <<memAdded, memWindow, memTarget, memState>>
             ELSE MemGoesWrong("used a deleted segment")
      BY <2>3, Zenon DEF MemFold
    <3>3. CASE id \in MemIds
      <4>1. UNCHANGED <<memAdded, memWindow, memTarget, memState>>
        BY <3>2, <3>3
      <4>2. MayFollow(Toggled(id))
        BY <1>2, <4>1, FoldFollows
      <4> HIDE DEF Toggled
      <4>3. UpdateAll(Toggled(id), memTarget')
        BY <3>2, <3>3, <4>1
      <4> QED BY <1>2, <3>1, <4>1, <4>2, <4>3, Followed
    <3>4. CASE id \notin MemIds
      BY <1>2, <3>1, <3>2, <3>4, SeenLineLeads, GoesWrongKeeps
    <3> QED BY <3>3, <3>4
  <2>4. ASSUME NEW value \in {"hex", "unclosed", "lone quote"}, MemSet(value) PROVE Kept
    <3>1. CASE value = "lone quote"
      <4>1. MemGoesWrong("read beyond the value")
        BY <2>4, <3>1 DEF MemSet
      <4> QED BY <1>2, <4>1, GoesWrongKeeps
    <3>2. CASE value # "lone quote"
      <4>1. UNCHANGED <<mem_lst, line_mems, memAdded, memWindow, memShown, memState, memSeen, memSkipped>>
        BY <2>4, <3>2 DEF MemSet, memVars
      <4> QED BY <1>2, <4>1 DEF MemInv, Kept, Marked, IsMemList, SeenIsRead, MemIds, Running
    <3> QED BY <3>1, <3>2
  <2>5. CASE MemView
    <3>1. Running /\ UpdateAll(mem_lst, memTarget')
          /\ UNCHANGED <<memAdded, memWindow, memTarget, memState>>
      BY <2>5 DEF MemView
    <3> QED BY <1>2, <3>1, SameFollows, Followed
  <2>6. CASE MemStop
    <3>1. Running /\ UpdateAll(mem_lst, memTarget') /\ UNCHANGED <<memAdded, memWindow, memState>>
      BY <2>6 DEF MemStop
    <3> QED BY <1>2, <3>1, SameFollows, Followed
  <2>7. CASE MemSwitchWindow
    <3>1. memShown' = <<>> /\ DOMAIN memShown' = {}
      BY <2>7 DEF MemSwitchWindow
    <3>2. UNCHANGED <<mem_lst, line_mems, memAdded, memTarget, memState, memSeen, memSkipped>>
      BY <2>7 DEF MemSwitchWindow
    <3> QED BY <1>2, <3>1, <3>2 DEF MemInv, Kept, Marked, IsMemList, SeenIsRead, Running
  <2>8. CASE MemCleanup
    <3>1. /\ memState' = "ended" /\ line_mems' = <<>> /\ mem_lst' = <<>>
          /\ UNCHANGED <<memAdded, memWindow, memShown, memTarget, memSeen, memSkipped>>
      BY <2>8 DEF MemCleanup
    <3>2. IsSeq(<<>>) /\ DOMAIN <<>> = {}
      BY DEF IsSeq, Range
    <3> QED BY <1>2, <3>1, <3>2 DEF MemInv, Kept, Marked, IsMemList, SeenIsRead, Running
  <2> QED BY <1>2, <2>1, <2>2, <2>3, <2>4, <2>5, <2>6, <2>7, <2>8 DEF MemNext
<1>3. ASSUME MemInv, UNCHANGED memVars PROVE MemInv'
  BY <1>3 DEF MemInv, memVars, IsMemList, SeenIsRead, MemIds, Running
<1> QED BY <1>1, <1>2, <1>3 DEF Kept

(* LinesLeadToSegments: a command that names a line acts on the segment the user    *)
(* sees there as long as the last update has reached the window, and no command     *)
(* reaches a deleted segment while something is seen, with any number of segments   *)
(* of any size, folded or not, and whichever of them gdb fails to read.             *)
THEOREM MemLinesLead == MemSpec => []LinesLeadToSegments
<1>1. MemInv => LinesLeadToSegments
  BY DEF MemInv, LinesLeadToSegments
<1> QED BY <1>1, MemInvIsInductive, PTL DEF MemSpec

(* ChangesAreMarked: what changed since the user saw the window last is marked and  *)
(* nothing else, whatever commands and stops lie in between.                        *)
THEOREM MarksAreChanges == MemSpec => ChangesAreMarked
<1>1. MemInv /\ [MemNext]_memVars =>
        [ (memSeen' # memSeen \/ memShown' # memShown) /\ memShown' # <<>> /\ ~memSkipped =>
            \A seg \in Range(mem_lst') :
                seg.id \in DOMAIN memSeen /\ seg.expanded =>
                    ([seg |-> seg.id, marked |-> TRUE] \in Range(memShown')
                        <=> memTarget' # memSeen[seg.id]) ]_memVars
  BY MemInvIsInductive DEF Marked
<1> QED BY <1>1, MemInvIsInductive, PTL DEF MemSpec, ChangesAreMarked

------------------------------------------------------------------------------
(* Peripherals *)

\* A section has registers, with their bits, and headings.
IsRegs(regs) ==
    /\ IsSeq(regs)
    /\ \A k \in DOMAIN regs : regs[k].kind \in {"register", "heading"} /\ regs[k].bits \in Nat

IsPerSection(x) == {"expanded", "regs"} \subseteq DOMAIN x /\ IsRegs(x.regs)

\* The ranges are records in a sequence, their sections as well.
PerTypeOK(list) ==
    /\ IsSeq(list)
    /\ \A r \in DOMAIN list :
          /\ {"mem", "sections"} \subseteq DOMAIN list[r]
          /\ IsSeq(list[r].sections)
          /\ \A s \in DOMAIN list[r].sections : IsPerSection(list[r].sections[s])

\* Every range has memory, every register lies in its range.
Usable(list) ==
    \A r \in DOMAIN list :
        /\ list[r].mem
        /\ \A s \in DOMAIN list[r].sections : \A k \in DOMAIN list[r].sections[s].regs :
              list[r].sections[s].regs[k].fits

PerInv ==
    /\ PerTypeOK(range_lst)
    /\ per_file => Usable(range_lst)
    /\ perState = "updated a range without memory" => ~per_file

\* What has the domain of a sequence is a sequence.
LEMMA SameDomain ==
    ASSUME NEW s, NEW t, IsSeq(s), t = [i \in DOMAIN s |-> t[i]]
    PROVE  IsSeq(t)
<1>1. Len(s) \in Nat /\ DOMAIN s = 1..Len(s)
  BY LenProperties DEF IsSeq
<1>2. \A i \in 1..Len(s) : t[i] \in Range(t)
  BY <1>1 DEF Range
<1>3. t \in [1..Len(s) -> Range(t)]
  BY <1>1, <1>2
<1>. QED
  BY <1>1, <1>3, SeqDef DEF IsSeq

Folded(list, a, b) == [list EXCEPT ![a].sections[b].expanded = ~@]

\* To fold a section or to unfold it changes nothing else of a range.
LEMMA FoldKeeps ==
    ASSUME NEW list, NEW a, NEW b, PerTypeOK(list)
    PROVE  PerTypeOK(Folded(list, a, b)) /\ (Usable(list) => Usable(Folded(list, a, b)))
<1> DEFINE new == Folded(list, a, b)
           section == [list[a].sections[b] EXCEPT !.expanded = ~@]
           sections == [list[a].sections EXCEPT ![b] = section]
           range == [list[a] EXCEPT !.sections = sections]
<1>1. new = [list EXCEPT ![a] = range]
  BY DEF Folded
<1> HIDE DEF new
<1>2. DOMAIN new = DOMAIN list /\ new = [i \in DOMAIN list |-> new[i]]
  BY <1>1
<1>3. \A r \in DOMAIN list : r # a => new[r] = list[r]
  BY <1>1
<1>4. ASSUME a \in DOMAIN list
      PROVE  /\ new[a] = range /\ DOMAIN range = DOMAIN list[a]
             /\ range.mem = list[a].mem /\ range.sections = sections
  BY <1>1, <1>4 DEF PerTypeOK
<1>5. DOMAIN sections = DOMAIN list[a].sections
      /\ sections = [s \in DOMAIN list[a].sections |-> sections[s]]
      /\ \A s \in DOMAIN sections : sections[s] = IF s = b THEN section ELSE list[a].sections[s]
  OBVIOUS
<1>6. DOMAIN section = DOMAIN list[a].sections[b]
      /\ ("regs" \in DOMAIN section => section.regs = list[a].sections[b].regs)
  OBVIOUS
<1> HIDE DEF section, sections, range
<1>7. \A r \in DOMAIN list : /\ DOMAIN new[r] = DOMAIN list[r]
                             /\ new[r].mem = list[r].mem
                             /\ DOMAIN new[r].sections = DOMAIN list[r].sections
  BY <1>3, <1>4, <1>5
<1>8. \A r \in DOMAIN list : \A s \in DOMAIN list[r].sections :
          /\ DOMAIN new[r].sections[s] = DOMAIN list[r].sections[s]
          /\ new[r].sections[s].regs = list[r].sections[s].regs
  BY <1>3, <1>4, <1>5, <1>6 DEF PerTypeOK, IsPerSection
<1>9. PerTypeOK(new)
  <2>1. IsSeq(new)
    BY <1>2, SameDomain DEF PerTypeOK
  <2>2. ASSUME NEW r \in DOMAIN new
        PROVE  {"mem", "sections"} \subseteq DOMAIN new[r]
    BY <1>2, <1>7 DEF PerTypeOK
  <2>3. ASSUME NEW r \in DOMAIN new, NEW s \in DOMAIN new[r].sections
        PROVE  IsPerSection(new[r].sections[s])
    <3>1. r \in DOMAIN list /\ s \in DOMAIN list[r].sections
      BY <1>2, <1>7
    <3>2. IsPerSection(list[r].sections[s])
      BY <3>1 DEF PerTypeOK
    <3>. QED
      BY <1>8, <3>1, <3>2 DEF IsPerSection
  <2>4. ASSUME NEW r \in DOMAIN new PROVE IsSeq(new[r].sections)
    <3>1. r \in DOMAIN list /\ IsSeq(list[r].sections)
      BY <1>2, <2>4 DEF PerTypeOK
    <3>2. CASE r # a
      BY <1>3, <3>1, <3>2
    <3>3. CASE r = a
      <4>1. IsSeq(sections)
        BY <1>5, <3>1, <3>3, SameDomain
      <4> QED BY <1>4, <3>1, <3>3, <4>1
    <3> QED BY <3>2, <3>3
  <2>. QED
    BY <2>1, <2>2, <2>3, <2>4, Zenon DEF PerTypeOK
<1>10. ASSUME Usable(list) PROVE Usable(new)
  <2> SUFFICES ASSUME NEW r \in DOMAIN new
               PROVE  /\ new[r].mem
                      /\ \A s \in DOMAIN new[r].sections : \A k \in DOMAIN new[r].sections[s].regs :
                            new[r].sections[s].regs[k].fits
    BY Zenon DEF Usable
  <2>1. r \in DOMAIN list /\ new[r].mem = list[r].mem
        /\ DOMAIN new[r].sections = DOMAIN list[r].sections
    BY <1>2, <1>7
  <2>2. new[r].mem
    BY <1>10, <2>1, Zenon DEF Usable
  <2>3. ASSUME NEW s \in DOMAIN new[r].sections, NEW k \in DOMAIN new[r].sections[s].regs
        PROVE  new[r].sections[s].regs[k].fits
    <3>1. s \in DOMAIN list[r].sections /\ new[r].sections[s].regs = list[r].sections[s].regs
      BY <1>8, <2>1
    <3>. QED
      BY <1>10, <2>1, <3>1, Zenon DEF Usable
  <2>. QED
    BY <2>2, <2>3, Zenon
<1>. QED
  BY <1>9, <1>10 DEF new

\* The ranges taken from a file.
LEMMA NewRanges ==
    ASSUME NEW file \in PerFiles, NEW mem,
           NEW list, list = [r \in DOMAIN file.ranges |-> NewRange(file.ranges[r], mem)]
    PROVE  PerTypeOK(list) /\ (mem /\ FileFits(file) => Usable(list))
<1>1. /\ IsSeq(file.ranges)
      /\ \A r \in DOMAIN file.ranges : /\ IsSeq(file.ranges[r])
                                       /\ \A s \in DOMAIN file.ranges[r] : IsRegs(file.ranges[r][s])
  <2>1. file.ranges \in Seq(Seq(Seq(PerRegisters)))
    BY PerFilesAssumption
  <2>2. \A S : \A t \in Seq(S) : IsSeq(t) /\ \A i \in DOMAIN t : t[i] \in S
    BY SeqOfRange, LenProperties, ElementOfSeq DEF IsSeq
  <2>3. ASSUME NEW t \in Seq(PerRegisters) PROVE IsRegs(t)
    <3>1. IsSeq(t) /\ \A k \in DOMAIN t : t[k] \in PerRegisters
      BY <2>2, Zenon
    <3>2. \A x \in PerRegisters : x.kind \in {"register", "heading"} /\ x.bits \in Nat
      BY DEF PerRegisters
    <3> QED BY <3>1, <3>2, Zenon DEF IsRegs
  <2> QED BY <2>1, <2>2, <2>3, Zenon
<1>2. DOMAIN list = DOMAIN file.ranges /\ list = [r \in DOMAIN file.ranges |-> list[r]]
  OBVIOUS
<1>3. IsSeq(list)
  BY <1>1, <1>2, SameDomain
<1>4. \A r \in DOMAIN list : list[r] = NewRange(file.ranges[r], mem)
  OBVIOUS
<1>5. ASSUME NEW r \in DOMAIN list
      PROVE  /\ DOMAIN list[r] = {"mem", "sections"} /\ list[r].mem = mem
             /\ DOMAIN list[r].sections = DOMAIN file.ranges[r]
             /\ list[r].sections = [s \in DOMAIN file.ranges[r] |-> list[r].sections[s]]
             /\ \A s \in DOMAIN file.ranges[r] :
                   list[r].sections[s] = [expanded |-> FALSE, regs |-> file.ranges[r][s]]
  BY <1>4 DEF NewRange, NewSection
<1>6. PerTypeOK(list)
  <2>1. ASSUME NEW r \in DOMAIN list PROVE {"mem", "sections"} \subseteq DOMAIN list[r]
    BY <1>5
  <2>2. ASSUME NEW r \in DOMAIN list, NEW s \in DOMAIN list[r].sections
        PROVE  IsPerSection(list[r].sections[s])
    <3>1. list[r].sections[s] = [expanded |-> FALSE, regs |-> file.ranges[r][s]]
      BY <1>5
    <3>2. IsRegs(file.ranges[r][s])
      BY <1>1, <1>2, <1>5
    <3>. QED
      BY <3>1, <3>2 DEF IsPerSection
  <2>3. ASSUME NEW r \in DOMAIN list PROVE IsSeq(list[r].sections)
    BY <1>1, <1>2, <1>5, <2>3, SameDomain
  <2>. QED
    BY <1>3, <2>1, <2>2, <2>3, Zenon DEF PerTypeOK
<1>7. ASSUME mem, FileFits(file) PROVE Usable(list)
  <2>1. ASSUME NEW r \in DOMAIN list PROVE list[r].mem
    BY <1>5, <1>7, Zenon
  <2>2. ASSUME NEW r \in DOMAIN list, NEW s \in DOMAIN list[r].sections,
               NEW k \in DOMAIN list[r].sections[s].regs
        PROVE  list[r].sections[s].regs[k].fits
    <3>1. r \in DOMAIN file.ranges /\ s \in DOMAIN file.ranges[r]
          /\ list[r].sections[s] = [expanded |-> FALSE, regs |-> file.ranges[r][s]]
      BY <1>2, <1>5
    <3>2. list[r].sections[s].regs = file.ranges[r][s]
      BY <3>1
    <3>. QED
      BY <1>7, <3>1, <3>2, Zenon DEF FileFits, RangeFits
  <2>. QED
    BY <2>1, <2>2, Zenon DEF Usable
<1>. QED
  BY <1>6, <1>7

\* The maps and the window are made anew from ranges like those of before.
LEMMA UpdateStep ==
    ASSUME PerInv, PerRunning, NEW list, PerTypeOK(list), Usable(range_lst) => Usable(list),
           PerUpdate(list)
    PROVE  PerInv'
<1>1. PICK answered \in 0..Len(list) :
        IF perWindow /\ \E r \in 1..Min({answered + 1, Len(list)}) : ~list[r].mem
        THEN PerGoesWrong("updated a range without memory")
        ELSE UpdateOf(list, answered) /\ UNCHANGED <<per_file, perWindow, perState>>
  BY DEF PerUpdate
<1>2. CASE \E r \in 1..Min({answered + 1, Len(list)}) : ~list[r].mem
  <2>1. Len(list) \in Nat /\ DOMAIN list = 1..Len(list)
    BY LenProperties DEF PerTypeOK, IsSeq
  <2>2. Min({answered + 1, Len(list)}) <= Len(list) /\ Min({answered + 1, Len(list)}) \in Nat
    <3> DEFINE both == {answered + 1, Len(list)}
    <3>1. \E m \in both : \A y \in both : m <= y
      BY <2>1
    <3>2. Min(both) \in both /\ \A y \in both : Min(both) <= y
      BY <3>1, Zenon DEF Min
    <3>. QED
      BY <2>1, <3>2
  <2>3. \E r \in DOMAIN list : ~list[r].mem
    BY <1>2, <2>1, <2>2
  <2>4. ~Usable(list)
    BY <2>3, Zenon DEF Usable
  <2>5. ~per_file
    BY <2>4, Zenon DEF PerInv
  <2>6. CASE PerGoesWrong("updated a range without memory")
    BY <2>5, <2>6, Zenon DEF PerGoesWrong, PerInv
  <2>7. CASE UpdateOf(list, answered) /\ UNCHANGED <<per_file, perWindow, perState>>
    BY <2>5, <2>7, Zenon DEF UpdateOf, PerInv
  <2>. QED
    BY <1>1, <2>6, <2>7, Zenon
<1>3. CASE UpdateOf(list, answered) /\ UNCHANGED <<per_file, perWindow, perState>>
  <2>1. range_lst' = list /\ per_file' = per_file /\ perState' = perState
    BY <1>3, Zenon DEF UpdateOf
  <2>2. (per_file => Usable(list))
    BY Zenon DEF PerInv
  <2>3. perState' # "updated a range without memory"
    BY <2>1 DEF PerRunning
  <2>. QED
    BY <2>1, <2>2, <2>3, Zenon DEF PerInv
<1>. QED
  BY <1>1, <1>2, <1>3, Zenon

\* Without ranges there is nothing that could not be used.
LEMMA NoRanges == PerTypeOK(<<>>)
<1>1. IsSeq(<<>>)
  BY EmptySeq DEF IsSeq
<1>2. DOMAIN <<>> = {}
  OBVIOUS
<1>. QED
  BY <1>1, <1>2 DEF PerTypeOK

\* Ranges that are not those of a loaded file: only their form matters.
LEMMA NotLoaded ==
    ASSUME PerRunning, PerTypeOK(range_lst'), per_file' = FALSE, perState' \in {perState, "ended"}
    PROVE  PerInv'
<1>1. perState' # "updated a range without memory"
  BY DEF PerRunning
<1>. QED
  BY <1>1, Zenon DEF PerInv

LEMMA PerStep ==
    ASSUME PerInv, [PerNext]_perVars
    PROVE  PerInv'
<1>0. PerTypeOK(range_lst)
  BY Zenon DEF PerInv
<1>1. ASSUME NEW ranges, PerRunning, PerUnread(ranges),
             ranges = <<>> \/ \E file \in PerFiles : ranges = file.ranges
      PROVE  PerInv'
  <2>1. range_lst' = [r \in DOMAIN ranges |-> NewRange(ranges[r], FALSE)]
        /\ per_file' = FALSE /\ perState' = perState
    BY <1>1, Zenon DEF PerUnread
  <2>2. CASE ranges = <<>>
    <3>1. range_lst' = <<>>
      BY <2>1, <2>2
    <3>. QED
      BY <1>1, <2>1, <3>1, NoRanges, NotLoaded
  <2>3. CASE \E file \in PerFiles : ranges = file.ranges
    <3>1. PerTypeOK(range_lst')
      BY <2>1, <2>3, NewRanges, Zenon
    <3>. QED
      BY <1>1, <2>1, <3>1, NotLoaded
  <2>. QED
    BY <1>1, <2>2, <2>3
<1>2. ASSUME PerRunning, PerReject PROVE PerInv'
  <2>1. range_lst' = <<>> /\ per_file' = FALSE /\ perState' = perState
    BY <1>2, Zenon DEF PerReject
  <2>. QED
    BY <1>2, <2>1, NoRanges, NotLoaded
<1>3. ASSUME NEW how \in {"named a section that does not exist", "set a heading"},
             PerGoesWrong(how)
      PROVE  PerInv'
  <2>1. perState' # "updated a range without memory"
    BY <1>3 DEF PerGoesWrong
  <2>. QED
    BY <1>3, <2>1, Zenon DEF PerGoesWrong, PerInv
<1>4. ASSUME UNCHANGED <<range_lst, per_file, perState>> PROVE PerInv'
  BY <1>4, Zenon DEF PerInv
<1>5. ASSUME NEW file \in PerFiles, PerParseError(file) \/ PerMisfit(file) \/ PerNoMemory(file)
      PROVE  PerInv'
  BY <1>1, <1>2, <1>3, <1>5 DEF PerParseError, PerMisfit, PerNoMemory
<1>6. ASSUME NEW file \in PerFiles, PerLoad(file) PROVE PerInv'
  <2> DEFINE list == [r \in DOMAIN file.ranges |-> NewRange(file.ranges[r], TRUE)]
  <2>1. PerRunning /\ FileFits(file) /\ range_lst' = list /\ perState' = perState
    BY <1>6, Zenon DEF PerLoad, UpdateOf
  <2>2. PerTypeOK(list) /\ Usable(list)
    BY <2>1, NewRanges, Zenon
  <2>3. perState' # "updated a range without memory"
    BY <2>1 DEF PerRunning
  <2>. QED
    BY <2>1, <2>2, <2>3, Zenon DEF PerInv
<1>7. ASSUME NEW n \in PerLines, PerSet(n) PROVE PerInv'
  <2>1. PerGoesWrong("set a heading") \/ UNCHANGED perVars
    BY <1>7, Zenon DEF PerSet
  <2>. QED
    BY <1>3, <1>4, <2>1 DEF perVars
<1>8. ASSUME NEW n \in PerLines, PerFold(n) PROVE PerInv'
  <2>1. PICK at \in LineFind(line_secs, n) :
          PerRunning /\ PerUpdate(Folded(range_lst, at[1], at[2]))
    BY <1>8, Zenon DEF PerFold, Folded
  <2>2. /\ PerTypeOK(Folded(range_lst, at[1], at[2]))
        /\ Usable(range_lst) => Usable(Folded(range_lst, at[1], at[2]))
    BY <1>0, FoldKeeps, Zenon
  <2>. QED
    BY <2>1, <2>2, UpdateStep, Zenon
<1>9. CASE PerView
  BY <1>0, <1>9, UpdateStep, Zenon DEF PerView
<1>10. CASE PerCannotOpen
  BY <1>1, <1>10, Zenon DEF PerCannotOpen
<1>11. CASE PerSwitchWindow
  BY <1>4, <1>11, Zenon DEF PerSwitchWindow
<1>12. CASE PerCleanup
  <2>1. PerRunning /\ range_lst' = <<>> /\ per_file' = FALSE /\ perState' = "ended"
    BY <1>12, Zenon DEF PerCleanup
  <2>. QED
    BY <2>1, NoRanges, NotLoaded
<1>13. CASE UNCHANGED perVars
  BY <1>4, <1>13 DEF perVars
<1>. QED
  BY <1>5, <1>6, <1>7, <1>8, <1>9, <1>10, <1>11, <1>12, <1>13, Zenon DEF PerNext

LEMMA PerInvHolds == PerInit => PerInv
<1> SUFFICES ASSUME PerInit PROVE PerInv
  OBVIOUS
<1>1. range_lst = <<>> /\ per_file = FALSE /\ perState = "running"
  BY Zenon DEF PerInit
<1>2. perState # "updated a range without memory"
  BY <1>1
<1>. QED
  BY <1>1, <1>2, NoRanges, Zenon DEF PerInv

\* A file that has been loaded can be used, whatever files there are: its ranges have
\* memory, its registers fit, and the program never uses a range without memory then
\* (per.cc:82, FileFits and the memory checked before the file is taken over).
THEOREM LoadedFilesFit == PerSpec => []LoadedFileIsUsable
<1>1. PerInit => PerInv
  BY PerInvHolds
<1>2. PerInv /\ [PerNext]_perVars => PerInv'
  BY PerStep, Zenon
<1>3. PerInv => LoadedFileIsUsable
  <2> SUFFICES ASSUME PerInv PROVE LoadedFileIsUsable
    OBVIOUS
  <2>1. perState = "updated a range without memory" => ~per_file
    BY Zenon DEF PerInv
  <2>2. ASSUME per_file, NEW r \in DOMAIN range_lst
        PROVE  /\ range_lst[r].mem
               /\ RangeFits([s \in DOMAIN range_lst[r].sections |-> range_lst[r].sections[s].regs])
    <3>1. Usable(range_lst)
      BY <2>2, Zenon DEF PerInv
    <3> DEFINE regs == [s \in DOMAIN range_lst[r].sections |-> range_lst[r].sections[s].regs]
    <3>2. range_lst[r].mem
      BY <3>1, Zenon DEF Usable
    <3>3. ASSUME NEW s \in DOMAIN regs, NEW k \in DOMAIN regs[s] PROVE regs[s][k].fits
      <4>1. s \in DOMAIN range_lst[r].sections /\ regs[s] = range_lst[r].sections[s].regs
        OBVIOUS
      <4>. QED
        BY <3>1, <3>3, <4>1, Zenon DEF Usable
    <3>. QED
      BY <3>2, <3>3, Zenon DEF RangeFits
  <2>. QED
    BY <2>1, <2>2, Zenon DEF LoadedFileIsUsable
<1>. QED
  BY <1>1, <1>2, <1>3, PTL DEF PerSpec

------------------------------------------------------------------------------
(* The lines of peripherals: the items printed one below the other, and the map of    *)
(* some kinds of them, in which a line leads to the last such item at or above it.     *)

\* What a place names: a section, or a register in one.
LEMMA PlaceIs ==
    ASSUME NEW r, NEW s, NEW k
    PROVE  /\ IsSection(<<r, s>>) /\ SectionOf(<<r, s>>) = <<r, s>>
           /\ ~IsSection(<<r, s, k>>) /\ SectionOf(<<r, s, k>>) = <<r, s>>
<1>1. /\ Len(<<r, s>>) = 2 /\ <<r, s>>[1] = r /\ <<r, s>>[2] = s
      /\ Len(<<r, s, k>>) = 3 /\ <<r, s, k>>[1] = r /\ <<r, s, k>>[2] = s
      /\ <<r, s>> \in Seq({r, s, k}) /\ <<r, s, k>> \in Seq({r, s, k})
  OBVIOUS
<1>2. \A t : t \in Seq({r, s, k}) /\ Len(t) >= 2 /\ t[1] = r /\ t[2] = s
                => SubSeq(t, 1, 2) = <<r, s>>
  <2> SUFFICES ASSUME NEW t, t \in Seq({r, s, k}), Len(t) >= 2, t[1] = r, t[2] = s
               PROVE  SubSeq(t, 1, 2) = <<r, s>>
    OBVIOUS
  <2> DEFINE u == SubSeq(t, 1, 2)
  <2>1. u \in Seq({r, s, k}) /\ Len(u) = 2 /\ \A i \in 1..2 : u[i] = t[i]
    <3>1. IsSeq(t) /\ Len(t) \in Nat
      BY SeqOfRange, LenProperties DEF IsSeq
    <3>2. \A i \in 1..2 : t[i] \in {r, s, k}
      OBVIOUS
    <3>3. /\ u \in Seq({r, s, k}) /\ Len(u) = IF 1 <= 2 THEN 2 - 1 + 1 ELSE 0
          /\ \A i \in 1..(2 - 1 + 1) : u[i] = t[1 + i - 1]
      BY <3>2, SubSeqProperties
    <3> HIDE DEF u
    <3> QED BY <3>3
  <2> HIDE DEF u
  <2>2. u[1] = r /\ u[2] = s
    BY <2>1
  <2>3. u = <<r, s>>
    BY <2>1, <2>2
  <2> QED BY <2>3 DEF u
<1>3. SubSeq(<<r, s>>, 1, 2) = <<r, s>> /\ SubSeq(<<r, s, k>>, 1, 2) = <<r, s>>
  <2> DEFINE u == <<r, s>>
             v == <<r, s, k>>
  <2>1. u \in Seq({r, s, k}) /\ Len(u) >= 2 /\ u[1] = r /\ u[2] = s
        /\ v \in Seq({r, s, k}) /\ Len(v) >= 2 /\ v[1] = r /\ v[2] = s
    BY <1>1
  <2>2. SubSeq(u, 1, 2) = u /\ SubSeq(v, 1, 2) = u
    <3> HIDE DEF v
    <3>1. SubSeq(v, 1, 2) = <<r, s>>
      BY <1>2, <2>1, Zenon
    <3>2. SubSeq(u, 1, 2) = <<r, s>>
      BY <1>2, <2>1, Zenon
    <3> QED BY <3>1, <3>2
  <2> QED BY <2>2
<1>4. Len(<<r, s>>) = 2 /\ Len(<<r, s, k>>) # 2
  OBVIOUS
<1> QED BY <1>3, <1>4, Zenon DEF IsSection, SectionOf

IsItem(x) ==
    /\ x.bits \in Nat
    /\ ~IsSection(x.at) => x.kind \in {"register", "heading"}

\* The height of an item is what is printed of it.
LEMMA ItemLines ==
    ASSUME NEW x, IsItem(x)
    PROVE  /\ IsSeq(ItemText(x)) /\ Len(ItemText(x)) = ItemHeight(x) /\ ItemHeight(x) \in Nat
           /\ \A k \in 1..ItemHeight(x) : ItemText(x)[k] = x.at
<1> DEFINE n == x.bits
           S == {i \in 1..(n - 1) : i % 4 = 0}
           q == (n - 1) \div 4
<1>1. n \in Nat
  BY DEF IsItem
<1> HIDE DEF n
<1>2. ASSUME n # 0 PROVE Cardinality(S) = q /\ q \in Nat /\ BitLines(n) = q + 1
  <2>1. n - 1 \in Nat /\ n >= 1
    BY <1>1, <1>2
  <2>2. q \in Nat /\ 4 * q <= n - 1 /\ n - 1 < 4 * q + 4
    BY <2>1
  <2> HIDE DEF q
  <2>3. BitLines(n) = q + 1
    BY <1>1, <2>1, <2>2 DEF BitLines
  <2> DEFINE f == [j \in 1..q |-> 4 * j]
  <2>4. \A j \in 1..q : 4 * j \in 1..(n - 1) /\ (4 * j) % 4 = 0
    BY <2>1, <2>2
  <2>5. \A i \in S : i \div 4 \in 1..q /\ i = 4 * (i \div 4)
    BY <2>1, <2>2
  <2>6. f \in Bijection(1..q, S)
    <3>1. f \in [1..q -> S]
      BY <2>4
    <3>2. \A a, b \in 1..q : f[a] = f[b] => a = b
      BY <2>2
    <3>3. \A i \in S : \E a \in 1..q : f[a] = i
      BY <2>5
    <3> QED BY <3>1, <3>2, <3>3 DEF Bijection, Injection, Surjection, IsInjective
  <2>7. IsFiniteSet(1..q) /\ Cardinality(1..q) = q
    <3>1. /\ IsFiniteSet(1..q)
          /\ Cardinality(1..q) = IF 1 > q THEN 0 ELSE q - 1 + 1
      <4>1. 1 \in Int /\ q \in Int
        BY <2>2
      <4> QED BY <4>1, FS_Interval, Zenon
    <3> QED BY <2>2, <3>1
  <2>8. Cardinality(S) = q
    <3>1. ExistsBijection(1..q, S)
      BY <2>6 DEF ExistsBijection
    <3> HIDE DEF S
    <3> QED BY <2>7, <3>1, FS_Bijection
  <2> QED BY <2>2, <2>3, <2>8
<1> HIDE DEF S, q
<1> DEFINE h == 1 + (IF n > 0 THEN BitLines(n) + 1 ELSE 0)
<1>3. ItemHeight(x) = IF n = 0 THEN 1 ELSE 1 + Cardinality(S) + 2
  BY DEF ItemHeight, n, S
<1>4. h = ItemHeight(x) /\ h \in Nat
  BY <1>1, <1>2, <1>3
<1>5. ItemText(x) = Repeat(x.at, h)
  BY DEF ItemText, n
<1> HIDE DEF h
<1> QED BY <1>4, <1>5, RepeatIs

\* What a line leads to in the map of some kinds: the last item of these at or above it.
Leads(items, kinds) ==
    LET tall == [i \in DOMAIN items |-> ItemHeight(items[i])] IN
    \A i, j \in DOMAIN items :
        j <= i /\ items[j].kind \in kinds /\ (\A m \in DOMAIN items : j < m /\ m <= i => items[m].kind \notin kinds)
           => \A k \in 1..tall[i] :
                 LineFind(Entries(items, kinds), LineOf(tall, i) + k - 1) = {items[j].at}

LEMMA EntriesLead ==
    ASSUME NEW items, IsSeq(items), \A i \in DOMAIN items : IsItem(items[i]), NEW kinds
    PROVE  Leads(items, kinds)
<1> DEFINE tall == [i \in DOMAIN items |-> ItemHeight(items[i])]
           Has(i) == items[i].kind \in kinds
           entry(i) == [line |-> LineOf(tall, i), data |-> items[i].at]
           parts == [i \in DOMAIN items |-> IF Has(i) THEN <<entry(i)>> ELSE <<>>]
           h == [i \in DOMAIN items |-> IF Has(i) THEN 1 ELSE 0]
           E == FlattenSeq(parts)
           L(i) == LineOf(tall, i)
           P(i) == LineOf(h, i)
<1>1. Len(items) \in Nat /\ DOMAIN items = 1..Len(items)
  BY SeqIs
<1>2. Entries(items, kinds) = E
  BY DEF Entries
<1>3. \A i \in DOMAIN items : tall[i] \in Nat
  BY ItemLines
<1>4. /\ \A i \in DOMAIN items : L(i) \in Nat /\ L(i) >= 1
      /\ \A i, j \in DOMAIN items : i < j => L(i) + tall[i] <= L(j)
  <2> HIDE DEF tall
  <2> QED BY <1>1, <1>3, LinesAscend
<1>5. /\ \A i \in DOMAIN items : h[i] \in Nat /\ P(i) \in Nat /\ P(i) >= 1
      /\ \A i, j \in DOMAIN items : i < j => P(i) + h[i] <= P(j)
  <2>1. \A i \in DOMAIN items : h[i] \in Nat
    OBVIOUS
  <2> HIDE DEF h
  <2> QED BY <1>1, <2>1, LinesAscend
<1>6. /\ \A i \in DOMAIN items : h[i] = IF Has(i) THEN 1 ELSE 0
      /\ \A i \in DOMAIN items : parts[i] = IF Has(i) THEN <<entry(i)>> ELSE <<>>
  OBVIOUS
<1>7. Parts(parts) /\ DOMAIN parts = DOMAIN items /\ \A i \in DOMAIN parts : h[i] = Len(parts[i])
  <2>1. DOMAIN parts = DOMAIN items /\ IsSeq(parts)
    <3>1. parts = [i \in 1..Len(items) |-> parts[i]] /\ DOMAIN parts = DOMAIN items
      BY <1>1
    <3> HIDE DEF parts
    <3> QED BY <1>1, <3>1, MadeSeq
  <2> HIDE DEF parts, h, entry
  <2>2. \A x : IsSeq(<<x>>) /\ Len(<<x>>) = 1
    <3> TAKE x
    <3>1. <<x>> = [i \in 1..1 |-> <<x>>[i]]
      OBVIOUS
    <3> QED BY <3>1, MadeSeq
  <2>3. IsSeq(<<>>) /\ Len(<<>>) = 0
    BY EmptySeq DEF IsSeq
  <2>4. \A i \in DOMAIN items : IsSeq(parts[i]) /\ h[i] = Len(parts[i])
    BY <1>6, <2>2, <2>3
  <2> QED BY <2>1, <2>4 DEF Parts
<1> HIDE DEF parts, h, tall, entry
<1>8. /\ \A i \in DOMAIN items : Has(i) => P(i) \in DOMAIN E /\ E[P(i)] = entry(i)
      /\ \A p \in DOMAIN E : \E i \in DOMAIN items : Has(i) /\ p = P(i)
  <2>1. Layout(parts, h, E)
    BY <1>7, Flattened
  <2> HIDE DEF E
  <2>2. /\ \A i \in DOMAIN items : \A k \in 1..h[i] :
              LineOf(h, i) + k - 1 \in DOMAIN E /\ E[LineOf(h, i) + k - 1] = parts[i][k]
        /\ \A p \in DOMAIN E : \E i \in DOMAIN items : \E k \in 1..h[i] : p = LineOf(h, i) + k - 1
    BY <1>7, <2>1, Zenon DEF Layout
  <2>3. ASSUME NEW i \in DOMAIN items, Has(i) PROVE P(i) \in DOMAIN E /\ E[P(i)] = entry(i)
    <3>0. h[i] = 1 /\ parts[i] = <<entry(i)>> /\ P(i) \in Nat
      BY <1>5, <1>6, <2>3
    <3>1. 1 \in 1..h[i] /\ LineOf(h, i) + 1 - 1 = P(i) /\ parts[i][1] = entry(i)
      BY <3>0
    <3>2. LineOf(h, i) + 1 - 1 \in DOMAIN E /\ E[LineOf(h, i) + 1 - 1] = parts[i][1]
      BY <2>2, <3>1
    <3> QED BY <3>1, <3>2
  <2>4. ASSUME NEW p \in DOMAIN E PROVE \E i \in DOMAIN items : Has(i) /\ p = P(i)
    <3>1. PICK i \in DOMAIN items : \E k \in 1..h[i] : p = LineOf(h, i) + k - 1
      BY <2>2
    <3>2. PICK k \in 1..h[i] : p = LineOf(h, i) + k - 1
      BY <3>1
    <3>3. Has(i) /\ k = 1
      <4>1. h[i] = IF Has(i) THEN 1 ELSE 0
        BY <1>6
      <4> QED BY <3>2, <4>1
    <3> QED BY <1>5, <3>2, <3>3
  <2> QED BY <2>3, <2>4
<1> HIDE DEF E, L, P
<1>9. ASSUME NEW i \in DOMAIN items, NEW j \in DOMAIN items, j <= i, Has(j),
             \A m \in DOMAIN items : j < m /\ m <= i => ~Has(m),
             NEW k \in 1..tall[i]
      PROVE  LineFind(E, L(i) + k - 1) = {items[j].at}
  <2> DEFINE n == L(i) + k - 1
             above == {p \in DOMAIN E : E[p].line <= n}
  <2>1. \A a \in DOMAIN items : entry(a).line = L(a) /\ entry(a).data = items[a].at
    BY DEF entry, L
  <2>2. n \in Nat /\ L(j) <= n /\ n < L(i) + tall[i] /\ i \in Nat /\ j \in Nat
    <3>1. /\ i \in Nat /\ j \in Nat /\ tall[i] \in Nat /\ tall[j] \in Nat
          /\ L(i) \in Nat /\ L(j) \in Nat /\ L(i) >= 1
      BY <1>1, <1>3, <1>4
    <3>2. L(j) <= L(i)
      <4>1. CASE i = j
        BY <3>1, <4>1
      <4>2. CASE j < i
        <5>1. L(j) + tall[j] <= L(i)
          BY <1>4, <4>2
        <5> QED BY <3>1, <5>1
      <4> QED BY <1>9, <3>1, <4>1, <4>2
    <3> QED BY <3>1, <3>2
  <2> HIDE DEF n
  <2>3. P(j) \in above
    BY <1>8, <1>9, <2>1, <2>2
  <2>4. \A p \in above : P(j) >= p
    <3> SUFFICES ASSUME NEW p \in DOMAIN E, E[p].line <= n PROVE P(j) >= p
      OBVIOUS
    <3>1. PICK a \in DOMAIN items : Has(a) /\ p = P(a)
      BY <1>8
    <3>2. L(a) <= n
      BY <1>8, <2>1, <3>1
    <3>3. a <= i
      <4> SUFFICES ASSUME ~(a <= i) PROVE FALSE
        OBVIOUS
      <4>1. i < a
        BY <1>1
      <4>2. L(i) + tall[i] <= L(a) /\ L(a) \in Nat /\ L(i) \in Nat /\ tall[i] \in Nat
        BY <1>3, <1>4, <4>1
      <4> QED BY <2>2, <3>2, <4>2
    <3>4. a <= j
      BY <1>1, <1>9, <3>1, <3>3
    <3>5. P(a) <= P(j)
      BY <1>1, <1>5, <3>4
    <3> QED BY <1>5, <3>1, <3>5
  <2> HIDE DEF above
  <2>5. above \subseteq Int
    BY <1>5, <1>8 DEF above
  <2>6. Max(above) = P(j)
    <3>1. Max(above) \in above /\ \A p \in above : Max(above) >= p
      BY <2>3, <2>4, Zenon DEF Max
    <3>2. PICK m : m = Max(above)
      OBVIOUS
    <3>3. m \in Int /\ P(j) \in Int /\ m >= P(j) /\ P(j) >= m
      BY <2>3, <2>4, <2>5, <3>1, <3>2
    <3>4. m = P(j)
      BY <3>3
    <3> QED BY <3>2, <3>4
  <2>7. LineFind(E, n) = {E[Max(above)].data}
    BY <2>3 DEF LineFind, above
  <2> QED BY <1>8, <1>9, <2>1, <2>6, <2>7 DEF n
<1> QED BY <1>2, <1>9, Zenon DEF Leads, tall, L

\* Items of which each is below the heading line of its section, with none of another
\* section in between.
Headed(f) ==
    /\ IsSeq(f)
    /\ \A i \in DOMAIN f : IsItem(f[i])
    /\ \A i \in DOMAIN f : \E j \in DOMAIN f :
          /\ j <= i /\ f[j].kind = "section" /\ f[j].at = SectionOf(f[i].at)
          /\ \A m \in DOMAIN f : j < m /\ m <= i => f[m].kind # "section"

LEMMA HeadedTogether ==
    ASSUME NEW s, IsSeq(s), \A a \in DOMAIN s : Headed(s[a])
    PROVE  Headed(FlattenSeq(s))
<1> DEFINE f == FlattenSeq(s)
           h == [a \in DOMAIN s |-> Len(s[a])]
           L(a) == LineOf(h, a)
<1>1. Parts(s) /\ \A a \in DOMAIN s : h[a] = Len(s[a])
  BY DEF Parts, Headed
<1>2. \A a \in DOMAIN s : /\ IsSeq(s[a]) /\ h[a] \in Nat /\ DOMAIN s[a] = 1..h[a]
  BY <1>1, SeqIs DEF Parts
<1> HIDE DEF h
<1>3. Layout(s, h, f)
  BY <1>1, Flattened
<1>4. \A a \in DOMAIN s : L(a) \in Nat /\ L(a) >= 1
  <2>1. Len(s) \in Nat /\ DOMAIN s = 1..Len(s)
    BY SeqIs
  <2> QED BY <1>2, <2>1, LinesAscend
<1> HIDE DEF f
<1>5. /\ IsSeq(f)
      /\ \A a \in DOMAIN s : \A k \in 1..h[a] : L(a) + k - 1 \in DOMAIN f /\ f[L(a) + k - 1] = s[a][k]
      /\ \A n \in DOMAIN f : \E a \in DOMAIN s : \E k \in 1..h[a] : n = L(a) + k - 1
  BY <1>3, Zenon DEF Layout
<1>6. \A n \in DOMAIN f : n \in Int
  BY <1>5, SeqIs
<1> HIDE DEF L
<1>7. ASSUME NEW i \in DOMAIN f
      PROVE  /\ IsItem(f[i])
             /\ \E j \in DOMAIN f :
                  /\ j <= i /\ f[j].kind = "section" /\ f[j].at = SectionOf(f[i].at)
                  /\ \A m \in DOMAIN f : j < m /\ m <= i => f[m].kind # "section"
  <2>1. PICK a \in DOMAIN s : \E k \in 1..h[a] : i = L(a) + k - 1
    BY <1>5
  <2>2. PICK k \in 1..h[a] : i = L(a) + k - 1
    BY <2>1
  <2>3. f[i] = s[a][k] /\ k \in DOMAIN s[a]
    BY <1>2, <1>5, <2>2
  <2>4. IsItem(s[a][k])
    BY <2>3 DEF Headed
  <2>5. PICK b \in DOMAIN s[a] :
          /\ b <= k /\ s[a][b].kind = "section" /\ s[a][b].at = SectionOf(s[a][k].at)
          /\ \A m \in DOMAIN s[a] : b < m /\ m <= k => s[a][m].kind # "section"
    BY <2>3, Zenon DEF Headed
  <2> DEFINE j == L(a) + b - 1
  <2>6. j \in DOMAIN f /\ f[j] = s[a][b] /\ j <= i /\ b \in 1..h[a]
    <3>1. b \in 1..h[a] /\ b <= k
      BY <1>2, <2>5
    <3>2. j \in DOMAIN f /\ f[j] = s[a][b]
      BY <1>5, <3>1
    <3>3. L(a) \in Nat /\ h[a] \in Nat
      BY <1>2, <1>4
    <3>4. j <= i
      BY <2>2, <3>1, <3>3
    <3> QED BY <3>1, <3>2, <3>4
  <2>7. ASSUME NEW m \in DOMAIN f, j < m, m <= i PROVE f[m].kind # "section"
    <3> DEFINE c == m - L(a) + 1
    <3>1. c \in 1..h[a] /\ m = L(a) + c - 1 /\ b < c /\ c <= k
      BY <1>2, <1>4, <1>6, <2>2, <2>6, <2>7
    <3> HIDE DEF c
    <3>2. f[m] = s[a][c] /\ c \in DOMAIN s[a]
      BY <1>2, <1>5, <3>1
    <3> QED BY <2>5, <3>1, <3>2
  <2> HIDE DEF j
  <2> QED BY <2>3, <2>4, <2>5, <2>6, <2>7
<1>8. Headed(f)
  BY <1>5, <1>7, Zenon DEF Headed
<1> QED BY <1>8 DEF f

LEMMA SectionHeaded ==
    ASSUME NEW r, NEW s, NEW section, IsPerSection(section)
    PROVE  Headed(SectionItems(r, s, section))
<1> DEFINE regs == section.regs
           name == [kind |-> "section", at |-> <<r, s>>, bits |-> 0]
           empty == [kind |-> "empty", at |-> <<r, s>>, bits |-> 0]
           body == IF section.expanded
                   THEN [k \in DOMAIN regs |-> [kind |-> regs[k].kind, at |-> <<r, s, k>>, bits |-> regs[k].bits]]
                   ELSE <<>>
           top == <<name>> \o body
           f == top \o <<empty>>
<1>1. SectionItems(r, s, section) = f
  BY DEF SectionItems
<1>2. IsSeq(regs) /\ Len(regs) \in Nat /\ DOMAIN regs = 1..Len(regs)
      /\ \A k \in DOMAIN regs : regs[k].kind \in {"register", "heading"} /\ regs[k].bits \in Nat
  BY SeqIs DEF IsPerSection, IsRegs
<1>3. \A x : IsSeq(<<x>>) /\ Len(<<x>>) = 1 /\ <<x>>[1] = x
  <2> TAKE x
  <2>1. <<x>> = [i \in 1..1 |-> <<x>>[i]] /\ <<x>>[1] = x
    OBVIOUS
  <2> QED BY <2>1, MadeSeq
<1> HIDE DEF regs
<1>4. /\ IsSeq(body) /\ Len(body) \in Nat /\ DOMAIN body = 1..Len(body)
      /\ \A k \in DOMAIN body : /\ body[k].kind \in {"register", "heading"} /\ body[k].bits \in Nat
                                /\ body[k].at = <<r, s, k>>
  <2>1. CASE section.expanded
    <3>1. /\ body = [k \in 1..Len(regs) |-> body[k]] /\ DOMAIN body = DOMAIN regs
          /\ \A k \in DOMAIN body : body[k].kind = regs[k].kind /\ body[k].bits = regs[k].bits
                                    /\ body[k].at = <<r, s, k>>
      BY <1>2, <2>1
    <3> HIDE DEF body
    <3>2. IsSeq(body)
      BY <1>2, <3>1, MadeSeq
    <3> QED BY <1>2, <3>1, <3>2, SeqIs
  <2>2. CASE ~section.expanded
    <3>1. body = <<>>
      BY <2>2
    <3>2. IsSeq(<<>>) /\ Len(<<>>) = 0 /\ DOMAIN <<>> = {}
      BY EmptySeq DEF IsSeq
    <3> HIDE DEF body
    <3> QED BY <3>1, <3>2, SeqIs
  <2> QED BY <2>1, <2>2
<1> HIDE DEF body
<1>5. Joined(<<name>>, body, top)
  <2> HIDE DEF name
  <2> QED BY <1>3, <1>4, Together
<1> HIDE DEF top
<1>6. Joined(top, <<empty>>, f)
  <2>1. IsSeq(top)
    BY <1>5 DEF Joined
  <2> HIDE DEF empty
  <2> QED BY <1>3, <2>1, Together
<1> HIDE DEF f
<1> DEFINE n == Len(body)
<1>7. /\ IsSeq(f) /\ DOMAIN f = 1..(n + 2)
      /\ f[1] = name /\ f[n + 2] = empty
      /\ \A k \in 1..n : f[k + 1] = body[k]
  <2> HIDE DEF name, empty
  <2>1. /\ Len(top) = n + 1 /\ top[1] = name /\ 1 \in 1..1
        /\ \A k \in 1..n : top[1 + k] = body[k]
        /\ DOMAIN top = 1..(n + 1)
    BY <1>3, <1>4, <1>5 DEF Joined
  <2>2. /\ IsSeq(f) /\ DOMAIN f = 1..(n + 2) /\ f[(n + 1) + 1] = empty
        /\ \A k \in 1..(n + 1) : f[k] = top[k]
    BY <1>3, <1>4, <1>6, <2>1 DEF Joined
  <2>3. 1 \in 1..(n + 1) /\ (n + 1) + 1 = n + 2
        /\ \A k \in 1..n : k + 1 \in 1..(n + 1) /\ k + 1 = 1 + k
    BY <1>4
  <2> QED BY <2>1, <2>2, <2>3
<1>8. /\ f[1].kind = "section" /\ f[1].at = <<r, s>> /\ f[1].bits = 0
      /\ f[n + 2].kind = "empty" /\ f[n + 2].at = <<r, s>> /\ f[n + 2].bits = 0
  BY <1>7
<1> HIDE DEF name, empty
<1>9. ASSUME NEW i \in DOMAIN f
      PROVE  IsItem(f[i]) /\ SectionOf(f[i].at) = <<r, s>> /\ (i # 1 => f[i].kind # "section")
  <2>1. i = 1 \/ i = n + 2 \/ (i - 1 \in 1..n /\ (i - 1) + 1 = i)
    BY <1>4, <1>7
  <2>2. CASE i = 1 \/ i = n + 2
    <3>1. IsSection(<<r, s>>) /\ SectionOf(<<r, s>>) = <<r, s>>
      BY PlaceIs
    <3>2. f[i].at = <<r, s>> /\ f[i].bits = 0 /\ (i # 1 => f[i].kind # "section")
      BY <1>8, <2>2
    <3> QED BY <3>1, <3>2 DEF IsItem
  <2>3. CASE i - 1 \in 1..n /\ (i - 1) + 1 = i
    <3>1. f[i] = body[i - 1]
      BY <1>7, <2>3
    <3>2. f[i].kind \in {"register", "heading"} /\ f[i].bits \in Nat /\ f[i].at = <<r, s, i - 1>>
      BY <1>4, <2>3, <3>1
    <3> QED BY <3>2, PlaceIs DEF IsItem
  <2> QED BY <2>1, <2>2, <2>3
<1>10. 1 \in DOMAIN f /\ \A i \in DOMAIN f : 1 <= i /\ i \in Int
  BY <1>4, <1>7
<1>11. Headed(f)
  <2>1. ASSUME NEW i \in DOMAIN f
        PROVE \E j \in DOMAIN f :
                /\ j <= i /\ f[j].kind = "section" /\ f[j].at = SectionOf(f[i].at)
                /\ \A m \in DOMAIN f : j < m /\ m <= i => f[m].kind # "section"
    <3>1. 1 <= i /\ f[1].kind = "section" /\ f[1].at = SectionOf(f[i].at)
      BY <1>8, <1>9, <1>10
    <3>2. \A m \in DOMAIN f : 1 < m /\ m <= i => f[m].kind # "section"
      BY <1>9, <1>10
    <3> QED BY <1>10, <3>1, <3>2
  <2> QED BY <1>7, <1>9, <2>1 DEF Headed
<1> QED BY <1>1, <1>11

LEMMA ItemsHeaded ==
    ASSUME NEW list, PerTypeOK(list)
    PROVE  Headed(Items(list))
<1> DEFINE sections(r) == [s \in DOMAIN list[r].sections |-> SectionItems(r, s, list[r].sections[s])]
           all == [r \in DOMAIN list |-> FlattenSeq(sections(r))]
<1>1. ASSUME NEW r \in DOMAIN list PROVE Headed(FlattenSeq(sections(r)))
  <2> DEFINE sec == sections(r)
  <2>1. IsSeq(sec) /\ DOMAIN sec = DOMAIN list[r].sections
    <3>1. IsSeq(list[r].sections) /\ sec = [s \in DOMAIN list[r].sections |-> sec[s]]
          /\ DOMAIN sec = DOMAIN list[r].sections
      BY DEF PerTypeOK
    <3> HIDE DEF sec
    <3> QED BY <3>1, SameDomain
  <2>2. ASSUME NEW s \in DOMAIN list[r].sections PROVE Headed(sec[s])
    BY SectionHeaded DEF PerTypeOK
  <2> HIDE DEF sec
  <2>3. Headed(FlattenSeq(sec))
    BY <2>1, <2>2, HeadedTogether
  <2> QED BY <2>3 DEF sec
<1> HIDE DEF sections
<1>2. IsSeq(all) /\ DOMAIN all = DOMAIN list
  <2>1. IsSeq(list) /\ all = [r \in DOMAIN list |-> all[r]] /\ DOMAIN all = DOMAIN list
    BY DEF PerTypeOK
  <2> HIDE DEF all
  <2> QED BY <2>1, SameDomain
<1>3. \A r \in DOMAIN list : Headed(all[r])
  BY <1>1
<1>4. Items(list) = FlattenSeq(all)
  BY DEF Items, sections
<1> HIDE DEF all
<1> QED BY <1>2, <1>3, <1>4, HeadedTogether

\* The maps lead from each line of the window to the section and the register shown.
MapsLead(secs, regs, shown) ==
    \A n \in DOMAIN shown :
        /\ LineFind(secs, n) = {SectionOf(shown[n])}
        /\ ~IsSection(shown[n]) => LineFind(regs, n) = {shown[n]}

LEMMA ItemsLead ==
    ASSUME NEW items, Headed(items)
    PROVE  MapsLead(Entries(items, {"section"}), Entries(items, {"register", "heading"}),
                    FlattenSeq([i \in DOMAIN items |-> ItemText(items[i])]))
<1> DEFINE tall == [i \in DOMAIN items |-> ItemHeight(items[i])]
           parts == [i \in DOMAIN items |-> ItemText(items[i])]
           shown == FlattenSeq(parts)
           secs == Entries(items, {"section"})
           regs == Entries(items, {"register", "heading"})
<1>1. IsSeq(items) /\ Len(items) \in Nat /\ DOMAIN items = 1..Len(items)
      /\ \A i \in DOMAIN items : IsItem(items[i])
  BY SeqIs DEF Headed
<1>2. \A i \in DOMAIN items : /\ IsSeq(parts[i]) /\ Len(parts[i]) = tall[i]
                              /\ \A k \in 1..tall[i] : parts[i][k] = items[i].at
  <2> SUFFICES ASSUME NEW i \in DOMAIN items
               PROVE  /\ IsSeq(parts[i]) /\ Len(parts[i]) = tall[i]
                      /\ \A k \in 1..tall[i] : parts[i][k] = items[i].at
    OBVIOUS
  <2>1. parts[i] = ItemText(items[i]) /\ tall[i] = ItemHeight(items[i]) /\ IsItem(items[i])
    BY <1>1
  <2> HIDE DEF parts, tall
  <2> QED BY <2>1, ItemLines
<1>3. Parts(parts) /\ DOMAIN parts = DOMAIN items
  <2>1. IsSeq(parts) /\ DOMAIN parts = DOMAIN items
    <3>1. parts = [i \in DOMAIN items |-> parts[i]] /\ DOMAIN parts = DOMAIN items
      OBVIOUS
    <3> HIDE DEF parts
    <3> QED BY <1>1, <3>1, SameDomain
  <2> QED BY <1>2, <2>1 DEF Parts
<1>4. Leads(items, {"section"}) /\ Leads(items, {"register", "heading"})
  BY <1>1, EntriesLead
<1>5. ASSUME NEW kinds, Leads(items, kinds), NEW i \in DOMAIN items, NEW j \in DOMAIN items,
             j <= i, items[j].kind \in kinds,
             \A m \in DOMAIN items : j < m /\ m <= i => items[m].kind \notin kinds,
             NEW k \in 1..tall[i]
      PROVE  LineFind(Entries(items, kinds), LineOf(tall, i) + k - 1) = {items[j].at}
  BY <1>5, Zenon DEF Leads
<1> HIDE DEF parts, tall
<1>6. Layout(parts, tall, shown)
  BY <1>2, <1>3, Flattened
<1> HIDE DEF shown, secs, regs
<1>7. /\ \A i \in DOMAIN items : \A k \in 1..tall[i] :
            shown[LineOf(tall, i) + k - 1] = parts[i][k]
      /\ \A n \in DOMAIN shown : \E i \in DOMAIN items : \E k \in 1..tall[i] : n = LineOf(tall, i) + k - 1
  BY <1>3, <1>6, Zenon DEF Layout
<1>8. ASSUME NEW n \in DOMAIN shown
      PROVE  /\ LineFind(secs, n) = {SectionOf(shown[n])}
             /\ ~IsSection(shown[n]) => LineFind(regs, n) = {shown[n]}
  <2>1. PICK i \in DOMAIN items : \E k \in 1..tall[i] : n = LineOf(tall, i) + k - 1
    BY <1>7
  <2>2. PICK k \in 1..tall[i] : n = LineOf(tall, i) + k - 1
    BY <2>1
  <2>3. shown[n] = items[i].at
    BY <1>2, <1>7, <2>2
  <2>4. PICK j \in DOMAIN items :
          /\ j <= i /\ items[j].kind = "section" /\ items[j].at = SectionOf(items[i].at)
          /\ \A m \in DOMAIN items : j < m /\ m <= i => items[m].kind # "section"
    BY Zenon DEF Headed
  <2>5. LineFind(secs, n) = {SectionOf(shown[n])}
    <3>1. /\ j <= i /\ items[j].kind \in {"section"}
          /\ \A m \in DOMAIN items : j < m /\ m <= i => items[m].kind \notin {"section"}
      BY <2>4
    <3>2. LineFind(secs, LineOf(tall, i) + k - 1) = {items[j].at}
      BY <1>4, <1>5, <3>1 DEF secs
    <3> QED BY <2>2, <2>3, <2>4, <3>2
  <2>6. ASSUME ~IsSection(shown[n]) PROVE LineFind(regs, n) = {shown[n]}
    <3>1. items[i].kind \in {"register", "heading"}
      BY <1>1, <2>3, <2>6, Zenon DEF IsItem
    <3>2. i <= i /\ \A m \in DOMAIN items : ~(i < m /\ m <= i)
      BY <1>1
    <3>3. LineFind(regs, LineOf(tall, i) + k - 1) = {items[i].at}
      BY <1>4, <1>5, <3>1, <3>2 DEF regs
    <3> QED BY <2>2, <2>3, <3>3
  <2> QED BY <2>5, <2>6
<1> QED BY <1>8, Zenon DEF MapsLead, shown, secs, regs, parts

\* The window, if all of it has been printed.
LEMMA UpdateLeads ==
    ASSUME NEW list, PerTypeOK(list), NEW answered \in 0..Len(list), UpdateOf(list, answered)
    PROVE  perStale' \/ MapsLead(line_secs', line_regs', perShown')
<1>1. CASE ~perWindow
  BY <1>1, Zenon DEF UpdateOf
<1>2. CASE perWindow /\ answered # Len(list)
  <2>1. Len(list) \in Nat
    BY SeqIs DEF PerTypeOK
  <2>2. answered < Len(list)
    BY <1>2, <2>1
  <2> QED BY <1>2, <2>2, Zenon DEF UpdateOf
<1>3. CASE perWindow /\ answered = Len(list)
  <2> DEFINE items == Items(SubSeq(list, 1, answered))
  <2>1. SubSeq(list, 1, answered) = list
    <3> DEFINE t == SubSeq(list, 1, answered)
    <3>1. IsSeq(list) /\ Len(list) \in Nat /\ DOMAIN list = 1..Len(list)
      BY SeqIs DEF PerTypeOK
    <3>2. /\ IsSeq(t) /\ Len(t) = IF 1 <= answered THEN answered - 1 + 1 ELSE 0
          /\ \A i \in 1..(answered - 1 + 1) : t[i] = list[1 + i - 1]
      <4>1. answered \in Nat /\ answered <= Len(list) /\ 1 \in Nat /\ 1 >= 1
        BY <3>1
      <4> QED BY <3>1, <4>1, SubSeqIs, ZenonT(40)
    <3> HIDE DEF t
    <3>3. /\ Len(t) = Len(list) /\ DOMAIN t = DOMAIN list
          /\ \A i \in DOMAIN list : t[i] = list[i]
      BY <1>3, <3>1, <3>2, SeqIs
    <3>4. list = [i \in DOMAIN list |-> list[i]] /\ t = [i \in DOMAIN t |-> t[i]]
      <4>1. \A x : IsSeq(x) => x = [i \in 1..Len(x) |-> x[i]]
        BY SeqDef DEF IsSeq
      <4> QED BY <3>1, <3>2, <4>1, SeqIs
    <3>5. t = list
      BY <3>3, <3>4
    <3> QED BY <3>5 DEF t
  <2>2. items = Items(list)
    BY <2>1
  <2>3. Headed(items)
    BY <2>2, ItemsHeaded
  <2> HIDE DEF items
  <2>4. /\ line_secs' = Entries(items, {"section"})
        /\ line_regs' = Entries(items, {"register", "heading"})
        /\ perShown' = FlattenSeq([i \in DOMAIN items |-> ItemText(items[i])])
    BY <1>3, Zenon DEF UpdateOf, items
  <2> QED BY <2>3, <2>4, ItemsLead
<1> QED BY <1>1, <1>2, <1>3

PerLead == PerRunning /\ ~perStale => MapsLead(line_secs, line_regs, perShown)

LEMMA PerLeadStep ==
    ASSUME PerInv, PerLead, [PerNext]_perVars
    PROVE  PerLead'
<1>0. PerTypeOK(range_lst)
  BY Zenon DEF PerInv
<1>1. ASSUME perStale' = TRUE PROVE PerLead'
  BY <1>1, Zenon DEF PerLead
<1>2. ASSUME NEW how, PerGoesWrong(how), how # "running" PROVE PerLead'
  BY <1>2, Zenon DEF PerGoesWrong, PerLead, PerRunning
<1>3. ASSUME perShown' = <<>> PROVE PerLead'
  <2>1. DOMAIN <<>> = {}
    OBVIOUS
  <2> QED BY <1>3, <2>1 DEF PerLead, MapsLead
<1>4. ASSUME UNCHANGED perVars PROVE PerLead'
  BY <1>4, Zenon DEF perVars, PerLead, PerRunning
<1>5. ASSUME NEW list, PerTypeOK(list), NEW answered \in 0..Len(list), UpdateOf(list, answered)
      PROVE  PerLead'
  BY <1>5, UpdateLeads, Zenon DEF PerLead
<1>6. ASSUME NEW list, PerTypeOK(list), PerUpdate(list) PROVE PerLead'
  <2>1. PICK answered \in 0..Len(list) :
          PerGoesWrong("updated a range without memory") \/ UpdateOf(list, answered)
    BY <1>6, Zenon DEF PerUpdate
  <2>2. "updated a range without memory" # "running"
    OBVIOUS
  <2> QED BY <1>2, <1>5, <1>6, <2>1, <2>2
<1>7. ASSUME NEW file \in PerFiles, PerParseError(file) \/ PerMisfit(file) \/ PerNoMemory(file)
      PROVE  PerLead'
  <2>1. \/ perStale' = TRUE \/ perShown' = <<>>
        \/ PerGoesWrong("named a section that does not exist")
    BY <1>7, Zenon DEF PerParseError, PerUnread, PerMisfit, PerNoMemory, PerReject
  <2>2. "named a section that does not exist" # "running"
    OBVIOUS
  <2> QED BY <1>1, <1>2, <1>3, <2>1, <2>2
<1>8. ASSUME NEW file \in PerFiles, PerLoad(file) PROVE PerLead'
  <2> DEFINE list == [r \in DOMAIN file.ranges |-> NewRange(file.ranges[r], TRUE)]
  <2>1. PICK answered \in 0..Len(list) : UpdateOf(list, answered) \/ perStale' = TRUE
    BY <1>8, Zenon DEF PerLoad
  <2>2. PerTypeOK(list)
    BY NewRanges, Zenon
  <2> HIDE DEF list
  <2> QED BY <1>1, <1>5, <2>1, <2>2
<1>9. ASSUME NEW n \in PerLines, PerSet(n) PROVE PerLead'
  <2>1. PerGoesWrong("set a heading") \/ UNCHANGED perVars
    BY <1>9, Zenon DEF PerSet
  <2>2. "set a heading" # "running"
    OBVIOUS
  <2> QED BY <1>2, <1>4, <2>1, <2>2
<1>10. ASSUME NEW n \in PerLines, PerFold(n) PROVE PerLead'
  <2>1. PICK at \in LineFind(line_secs, n) :
          PerRunning /\ PerUpdate(Folded(range_lst, at[1], at[2]))
    BY <1>10, Zenon DEF PerFold, Folded
  <2>2. PerTypeOK(Folded(range_lst, at[1], at[2]))
    BY <1>0, FoldKeeps, Zenon
  <2>. QED
    BY <1>6, <2>1, <2>2, Zenon
<1>11. CASE PerView
  BY <1>0, <1>6, <1>11, Zenon DEF PerView
<1>12. CASE PerCannotOpen
  BY <1>1, <1>12, Zenon DEF PerCannotOpen, PerUnread
<1>13. CASE PerSwitchWindow
  BY <1>1, <1>13, Zenon DEF PerSwitchWindow
<1>14. CASE PerCleanup
  <2>1. perState' = "ended" /\ "ended" # "running"
    BY <1>14 DEF PerCleanup
  <2> QED BY <2>1, Zenon DEF PerLead, PerRunning
<1> QED
  BY <1>4, <1>7, <1>8, <1>9, <1>10, <1>11, <1>12, <1>13, <1>14, Zenon DEF PerNext

(* PerLinesLead: as long as the window is up to date each of its lines leads to the    *)
(* section, and to the register or heading, that is shown there, for files with any    *)
(* number of ranges, sections and registers, with any number of bit fields, folded or  *)
(* not (per.cc:326, 340; the lines counted there are those printed).                   *)
THEOREM PerLinesLeadRight == PerSpec => []PerLinesLead
<1>1. PerInit => PerInv /\ PerLead
  <2> SUFFICES ASSUME PerInit PROVE PerInv /\ PerLead
    OBVIOUS
  <2>1. perShown = <<>> /\ DOMAIN <<>> = {}
    BY DEF PerInit
  <2>2. PerLead
    BY <2>1 DEF PerLead, MapsLead
  <2> QED BY <2>2, PerInvHolds
<1>2. PerInv /\ [PerNext]_perVars => PerInv'
  BY PerStep, Zenon
<1>3. PerInv /\ PerLead /\ [PerNext]_perVars => PerLead'
  BY PerLeadStep, Zenon
<1>4. PerLead => PerLinesLead
  BY Zenon DEF PerLead, PerLinesLead, MapsLead
<1> QED BY <1>1, <1>2, <1>3, <1>4, PTL DEF PerSpec

------------------------------------------------------------------------------
(* Callstack: the lines of a frame, and where its variables are entered *)

IsChain(c) == IsSeq(c) /\ Len(c) # 0 /\ \A i \in DOMAIN c : c[i] \in Functions
IsKnown(x) == {"line", "call", "got", "expanded"} \subseteq DOMAIN x /\ x.got \in Nat

\* Frames known by chains of functions.
FramesOK(lst) == \A c \in DOMAIN lst : IsChain(c) /\ IsKnown(lst[c])

\* How many lines there are of arguments, behind them, and of locals.
ClosingLines(c, lst) == IF ArgLines(c, lst) > 0 THEN 1 ELSE 0

LEMMA CountsAre ==
    ASSUME NEW lst, FramesOK(lst), NEW c \in DOMAIN lst
    PROVE  /\ Args(c, lst) \in Nat /\ ArgLines(c, lst) \in Nat /\ Locals(c, lst) \in Nat
           /\ ClosingLines(c, lst) \in Nat
           /\ CallHeight(c, lst) = 1 + ArgLines(c, lst) + ClosingLines(c, lst)
           /\ FrameHeight(c, lst) =
                 1 + ArgLines(c, lst) + ClosingLines(c, lst) + Locals(c, lst) + 1
<1> DEFINE a == Fn(c).args
           g == lst[c].got
           both == {a, g}
<1>1. a \in Nat /\ g \in Nat
  <2>1. IsSeq(c) /\ Len(c) \in Nat /\ DOMAIN c = 1..Len(c) /\ Len(c) # 0
        /\ \A i \in DOMAIN c : c[i] \in Functions
    BY SeqIs DEF FramesOK, IsChain
  <2>2. Fn(c) \in Functions
    BY <2>1 DEF Fn
  <2>3. a \in Nat
    BY <2>2, FunctionsAssumption
  <2> QED BY <2>3 DEF FramesOK, IsKnown
<1> HIDE DEF a, g
<1>2. \E m \in both : \A y \in both : m <= y
  BY <1>1
<1>3. Min(both) \in both /\ \A y \in both : Min(both) <= y
  BY <1>2, Zenon DEF Min
<1>4. Args(c, lst) = Min(both)
  BY DEF Args, a, g
<1>5. Args(c, lst) \in Nat /\ Args(c, lst) <= g
  BY <1>1, <1>3, <1>4
<1>6. Locals(c, lst) \in Nat
  <2>1. Locals(c, lst) = g - Args(c, lst)
    BY DEF Locals, g
  <2> QED BY <1>1, <1>5, <2>1
<1>7. ArgLines(c, lst) \in Nat
  BY <1>5 DEF ArgLines
<1>8. ClosingLines(c, lst) \in Nat
  BY DEF ClosingLines
<1>9. CallHeight(c, lst) = 1 + ArgLines(c, lst) + ClosingLines(c, lst)
  BY <1>7 DEF CallHeight, ClosingLines
<1> QED BY <1>5, <1>6, <1>7, <1>8, <1>9 DEF FrameHeight

\* What is on the lines of a frame.
FrameLayout(c, lst, d) ==
    LET na == ArgLines(c, lst)
        ne == ClosingLines(c, lst)
        nl == Locals(c, lst)
    IN  /\ IsSeq(d) /\ Len(d) = 1 + na + ne + nl + 1 /\ DOMAIN d = 1..(1 + na + ne + nl + 1)
        /\ d[1].what = "frame" /\ d[1].line = lst[c].line /\ d[1].call = lst[c].call
        /\ \A k \in 1..na : d[1 + k].what = "variable" /\ d[1 + k].var = k
        /\ \A k \in 1..ne : d[1 + na + k].what = "end"
        /\ \A k \in 1..nl : /\ d[1 + na + ne + k].what = "variable"
                            /\ d[1 + na + ne + k].var = Args(c, lst) + k
        /\ d[1 + na + ne + nl + 1].what = "empty"
        /\ \A k \in DOMAIN d : d[k].chain = c

LEMMA FrameTextIs ==
    ASSUME NEW lst, FramesOK(lst), NEW c \in DOMAIN lst
    PROVE  FrameLayout(c, lst, FrameText(c, lst))
<1> DEFINE na == ArgLines(c, lst)
           ne == ClosingLines(c, lst)
           nl == Locals(c, lst)
           A == Args(c, lst)
           of(what, n) == [chain |-> c, what |-> what, var |-> n,
                           line |-> lst[c].line, call |-> lst[c].call]
           p == <<of("frame", 0)>>
           q == [k \in 1..na |-> of("variable", k)]
           r == IF na > 0 THEN <<of("end", 0)>> ELSE <<>>
           s == [k \in 1..nl |-> of("variable", A + k)]
           t == <<of("empty", 0)>>
           pq == p \o q
           pqr == pq \o r
           pqrs == pqr \o s
           d == pqrs \o t
<1>1. FrameText(c, lst) = d
  BY DEF FrameText
<1>2. na \in Nat /\ ne \in Nat /\ nl \in Nat /\ ne = IF na > 0 THEN 1 ELSE 0
  BY CountsAre DEF ClosingLines
<1> HIDE DEF na, ne, nl, A
<1>3. /\ IsSeq(p) /\ Len(p) = 1 /\ p[1] = of("frame", 0)
      /\ IsSeq(t) /\ Len(t) = 1 /\ t[1] = of("empty", 0)
  <2> HIDE DEF of
  <2> QED BY OneIs
<1>4. IsSeq(q) /\ Len(q) = na /\ \A k \in 1..na : q[k] = of("variable", k)
  <2> HIDE DEF of
  <2>1. q = [k \in 1..na |-> q[k]] /\ \A k \in 1..na : q[k] = of("variable", k)
    OBVIOUS
  <2> HIDE DEF q
  <2> QED BY <1>2, <2>1, MadeSeq
<1>5. IsSeq(s) /\ Len(s) = nl /\ \A k \in 1..nl : s[k] = of("variable", A + k)
  <2> HIDE DEF of
  <2>1. s = [k \in 1..nl |-> s[k]] /\ \A k \in 1..nl : s[k] = of("variable", A + k)
    OBVIOUS
  <2> HIDE DEF s
  <2> QED BY <1>2, <2>1, MadeSeq
<1>6. IsSeq(r) /\ Len(r) = ne /\ \A k \in 1..ne : r[k] = of("end", 0)
  <2> HIDE DEF of
  <2>1. CASE na > 0
    <3>1. r = <<of("end", 0)>> /\ ne = 1
      BY <1>2, <2>1
    <3> HIDE DEF r
    <3>2. IsSeq(r) /\ Len(r) = 1 /\ r[1] = of("end", 0)
      BY <3>1, OneIs
    <3> QED BY <3>1, <3>2
  <2>2. CASE ~(na > 0)
    <3>1. r = <<>> /\ ne = 0
      BY <1>2, <2>2
    <3> HIDE DEF r
    <3> QED BY <3>1, NoneIs
  <2> QED BY <2>1, <2>2
<1> HIDE DEF p, q, r, s, t
<1>7. Joined(p, q, pq)
  BY <1>3, <1>4, Together
<1> HIDE DEF pq
<1>8. IsSeq(pq) /\ Len(pq) = 1 + na
  BY <1>3, <1>4, <1>7 DEF Joined
<1>9. Joined(pq, r, pqr)
  BY <1>6, <1>8, Together
<1> HIDE DEF pqr
<1>10. IsSeq(pqr) /\ Len(pqr) = 1 + na + ne
  BY <1>6, <1>8, <1>9 DEF Joined
<1>11. Joined(pqr, s, pqrs)
  BY <1>5, <1>10, Together
<1> HIDE DEF pqrs
<1>12. IsSeq(pqrs) /\ Len(pqrs) = 1 + na + ne + nl
  BY <1>5, <1>10, <1>11 DEF Joined
<1>13. Joined(pqrs, t, d)
  BY <1>3, <1>12, Together
<1> HIDE DEF d, of
<1>14. /\ IsSeq(d) /\ Len(d) = 1 + na + ne + nl + 1 /\ DOMAIN d = 1..(1 + na + ne + nl + 1)
       /\ d[1 + na + ne + nl + 1] = of("empty", 0)
       /\ \A i \in 1..(1 + na + ne + nl) : d[i] = pqrs[i]
  BY <1>2, <1>3, <1>12, <1>13 DEF Joined
<1>15. /\ \A k \in 1..nl : pqrs[1 + na + ne + k] = of("variable", A + k)
       /\ \A i \in 1..(1 + na + ne) : pqrs[i] = pqr[i]
  BY <1>2, <1>5, <1>10, <1>11 DEF Joined
<1>16. /\ \A k \in 1..ne : pqr[1 + na + k] = of("end", 0)
       /\ \A i \in 1..(1 + na) : pqr[i] = pq[i]
  BY <1>2, <1>6, <1>8, <1>9 DEF Joined
<1>17. /\ \A k \in 1..na : pq[1 + k] = of("variable", k)
       /\ pq[1] = of("frame", 0)
  BY <1>2, <1>3, <1>4, <1>7 DEF Joined
<1>18. d[1] = of("frame", 0)
  <2>1. 1 \in 1..(1 + na) /\ 1 \in 1..(1 + na + ne) /\ 1 \in 1..(1 + na + ne + nl)
    BY <1>2
  <2> QED BY <1>14, <1>15, <1>16, <1>17, <2>1
<1>19. ASSUME NEW k \in 1..na PROVE d[1 + k] = of("variable", k)
  <2>1. 1 + k \in 1..(1 + na) /\ 1 + k \in 1..(1 + na + ne) /\ 1 + k \in 1..(1 + na + ne + nl)
    BY <1>2
  <2> QED BY <1>14, <1>15, <1>16, <1>17, <2>1
<1>20. ASSUME NEW k \in 1..ne PROVE d[1 + na + k] = of("end", 0)
  <2>1. 1 + na + k \in 1..(1 + na + ne) /\ 1 + na + k \in 1..(1 + na + ne + nl)
    BY <1>2
  <2> QED BY <1>14, <1>15, <1>16, <2>1
<1>21. ASSUME NEW k \in 1..nl PROVE d[1 + na + ne + k] = of("variable", A + k)
  <2>1. 1 + na + ne + k \in 1..(1 + na + ne + nl)
    BY <1>2
  <2> QED BY <1>14, <1>15, <2>1
<1>22. \A what, n : /\ of(what, n).chain = c /\ of(what, n).what = what /\ of(what, n).var = n
                    /\ of(what, n).line = lst[c].line /\ of(what, n).call = lst[c].call
  BY DEF of
<1>23. ASSUME NEW k \in DOMAIN d PROVE d[k].chain = c
  <2>1. \/ k = 1 \/ k \in 2..(1 + na) \/ k \in (1 + na + 1)..(1 + na + ne)
        \/ k \in (1 + na + ne + 1)..(1 + na + ne + nl) \/ k = 1 + na + ne + nl + 1
    BY <1>2, <1>14
  <2>2. CASE k = 1
    BY <1>18, <1>22, <2>2
  <2>3. CASE k \in 2..(1 + na)
    <3>1. k - 1 \in 1..na /\ 1 + (k - 1) = k
      BY <1>2, <2>3
    <3> QED BY <1>19, <1>22, <3>1
  <2>4. CASE k \in (1 + na + 1)..(1 + na + ne)
    <3>1. k - (1 + na) \in 1..ne /\ 1 + na + (k - (1 + na)) = k
      BY <1>2, <2>4
    <3> QED BY <1>20, <1>22, <3>1
  <2>5. CASE k \in (1 + na + ne + 1)..(1 + na + ne + nl)
    <3>1. k - (1 + na + ne) \in 1..nl /\ 1 + na + ne + (k - (1 + na + ne)) = k
      BY <1>2, <2>5
    <3> QED BY <1>21, <1>22, <3>1
  <2>6. CASE k = 1 + na + ne + nl + 1
    BY <1>14, <1>22, <2>6
  <2> QED BY <2>1, <2>2, <2>3, <2>4, <2>5, <2>6
<1>24. FrameLayout(c, lst, d)
  <2>1. /\ d[1].what = "frame" /\ d[1].line = lst[c].line /\ d[1].call = lst[c].call
        /\ d[1 + na + ne + nl + 1].what = "empty"
    BY <1>14, <1>18, <1>22
  <2>2. \A k \in 1..na : d[1 + k].what = "variable" /\ d[1 + k].var = k
    BY <1>19, <1>22
  <2>3. \A k \in 1..ne : d[1 + na + k].what = "end"
    BY <1>20, <1>22
  <2>4. \A k \in 1..nl : d[1 + na + ne + k].what = "variable" /\ d[1 + na + ne + k].var = A + k
    BY <1>21, <1>22
  <2> QED BY <1>14, <1>23, <2>1, <2>2, <2>3, <2>4, Zenon DEF FrameLayout, na, ne, nl, A
<1> QED BY <1>1, <1>24

\* A map whose lines ascend.
Ascending(map) ==
    /\ IsSeq(map)
    /\ \A p \in DOMAIN map : map[p].line \in Nat
    /\ \A p, q \in DOMAIN map : p < q => map[p].line < map[q].line

\* The entries of a frame printed from a line on: on the frame's lines, one for each
\* line of a variable.
VarLayout(c, lst, line, e) ==
    /\ Ascending(e)
    /\ \A p \in DOMAIN e : line < e[p].line /\ e[p].line < line + FrameHeight(c, lst)
    /\ \A k \in 1..FrameHeight(c, lst) :
          FrameText(c, lst)[k].what = "variable" =>
              \E p \in DOMAIN e : /\ e[p].line = line + k - 1
                                  /\ e[p].data = <<c, FrameText(c, lst)[k].var>>

LEMMA VarEntriesAre ==
    ASSUME NEW lst, FramesOK(lst), NEW c \in DOMAIN lst, NEW line \in Nat
    PROVE  VarLayout(c, lst, line, VarEntries(c, lst, line))
<1> DEFINE na == ArgLines(c, lst)
           ne == ClosingLines(c, lst)
           nl == Locals(c, lst)
           A == Args(c, lst)
           a == [k \in 1..na |-> [line |-> line + k, data |-> <<c, k>>]]
           b == [k \in 1..nl |-> [line |-> line + CallHeight(c, lst) + k - 1, data |-> <<c, A + k>>]]
           e == a \o b
           d == FrameText(c, lst)
<1>1. VarEntries(c, lst, line) = e
  BY DEF VarEntries
<1>2. /\ na \in Nat /\ ne \in Nat /\ nl \in Nat
      /\ CallHeight(c, lst) = 1 + na + ne /\ FrameHeight(c, lst) = 1 + na + ne + nl + 1
  BY CountsAre
<1>3. FrameLayout(c, lst, d)
  BY FrameTextIs
<1> HIDE DEF d
<1>4. /\ \A k \in 1..na : d[1 + k].what = "variable" /\ d[1 + k].var = k
      /\ \A k \in 1..ne : d[1 + na + k].what = "end"
      /\ \A k \in 1..nl : d[1 + na + ne + k].what = "variable" /\ d[1 + na + ne + k].var = A + k
      /\ d[1].what = "frame" /\ d[1 + na + ne + nl + 1].what = "empty"
  BY <1>3, Zenon DEF FrameLayout
<1> HIDE DEF na, ne, nl, A
<1>5. IsSeq(a) /\ Len(a) = na /\ \A k \in 1..na : a[k].line = line + k /\ a[k].data = <<c, k>>
  <2>1. a = [k \in 1..na |-> a[k]] /\ \A k \in 1..na : a[k].line = line + k /\ a[k].data = <<c, k>>
    OBVIOUS
  <2> HIDE DEF a
  <2> QED BY <1>2, <2>1, MadeSeq
<1>6. IsSeq(b) /\ Len(b) = nl
      /\ \A k \in 1..nl : b[k].line = line + (1 + na + ne) + k - 1 /\ b[k].data = <<c, A + k>>
  <2>1. b = [k \in 1..nl |-> b[k]]
        /\ \A k \in 1..nl : b[k].line = line + (1 + na + ne) + k - 1 /\ b[k].data = <<c, A + k>>
    BY <1>2
  <2> HIDE DEF b
  <2> QED BY <1>2, <2>1, MadeSeq
<1> HIDE DEF a, b
<1>7. Joined(a, b, e)
  BY <1>5, <1>6, Together
<1> HIDE DEF e
<1>8. /\ IsSeq(e) /\ DOMAIN e = 1..(na + nl)
      /\ \A k \in 1..na : e[k].line = line + k /\ e[k].data = <<c, k>>
      /\ \A k \in 1..nl : e[na + k].line = line + na + ne + k /\ e[na + k].data = <<c, A + k>>
  <2>1. /\ IsSeq(e) /\ DOMAIN e = 1..(na + nl)
        /\ \A k \in 1..na : e[k] = a[k]
        /\ \A k \in 1..nl : e[na + k] = b[k]
    BY <1>2, <1>5, <1>6, <1>7 DEF Joined
  <2>2. \A k \in 1..nl : line + (1 + na + ne) + k - 1 = line + na + ne + k
    BY <1>2
  <2> QED BY <1>5, <1>6, <2>1, <2>2
<1>9. \A p \in 1..(na + nl) : p \in 1..na \/ (p - na \in 1..nl /\ na + (p - na) = p)
  BY <1>2
<1>10. ASSUME NEW p \in 1..(na + nl)
       PROVE  e[p].line = IF p <= na THEN line + p ELSE line + ne + p
  <2>1. CASE p \in 1..na
    BY <1>2, <1>8, <2>1
  <2>2. CASE p - na \in 1..nl /\ na + (p - na) = p
    <3>1. e[p].line = line + na + ne + (p - na)
      BY <1>8, <2>2
    <3>2. ~(p <= na) /\ line + na + ne + (p - na) = line + ne + p
      BY <1>2, <2>2
    <3> QED BY <3>1, <3>2
  <2> QED BY <1>9, <2>1, <2>2
<1>11. Ascending(e)
  <2>1. \A p \in 1..(na + nl) : e[p].line \in Nat
    BY <1>2, <1>10
  <2>2. \A p, q \in 1..(na + nl) : p < q => e[p].line < e[q].line
    BY <1>2, <1>10
  <2> QED BY <1>8, <2>1, <2>2 DEF Ascending
<1>12. \A p \in DOMAIN e : line < e[p].line /\ e[p].line < line + (1 + na + ne + nl + 1)
  BY <1>2, <1>8, <1>10
<1>13. ASSUME NEW k \in 1..(1 + na + ne + nl + 1), d[k].what = "variable"
       PROVE  \E p \in DOMAIN e : e[p].line = line + k - 1 /\ e[p].data = <<c, d[k].var>>
  <2>1. \/ k = 1 \/ k \in 2..(1 + na) \/ k \in (1 + na + 1)..(1 + na + ne)
        \/ k \in (1 + na + ne + 1)..(1 + na + ne + nl) \/ k = 1 + na + ne + nl + 1
    BY <1>2
  <2>2. CASE k = 1
    BY <1>4, <1>13, <2>2
  <2>3. CASE k \in 2..(1 + na)
    <3>1. k - 1 \in 1..na /\ 1 + (k - 1) = k /\ k - 1 \in 1..(na + nl) /\ line + (k - 1) = line + k - 1
      BY <1>2, <2>3
    <3> QED BY <1>4, <1>8, <3>1
  <2>4. CASE k \in (1 + na + 1)..(1 + na + ne)
    <3>1. k - (1 + na) \in 1..ne /\ 1 + na + (k - (1 + na)) = k
      BY <1>2, <2>4
    <3> QED BY <1>4, <1>13, <3>1
  <2>5. CASE k \in (1 + na + ne + 1)..(1 + na + ne + nl)
    <3> DEFINE m == k - (1 + na + ne)
    <3>1. m \in 1..nl /\ 1 + na + ne + m = k /\ na + m \in 1..(na + nl)
          /\ line + na + ne + m = line + k - 1
      BY <1>2, <2>5
    <3> HIDE DEF m
    <3> QED BY <1>4, <1>8, <3>1
  <2>6. CASE k = 1 + na + ne + nl + 1
    BY <1>4, <1>13, <2>6
  <2> QED BY <2>1, <2>2, <2>3, <2>4, <2>5, <2>6
<1>14. VarLayout(c, lst, line, e)
  BY <1>2, <1>11, <1>12, <1>13, Zenon DEF VarLayout, d
<1> QED BY <1>1, <1>14

(* The entry of a line is found on it. *)
LEMMA FindAscending ==
    ASSUME NEW map, Ascending(map), NEW p \in DOMAIN map
    PROVE  LineFind(map, map[p].line) = {map[p].data}
<1> DEFINE above == {q \in DOMAIN map : map[q].line <= map[p].line}
<1>1. Len(map) \in Nat /\ DOMAIN map = 1..Len(map)
      /\ \A q \in DOMAIN map : map[q].line \in Nat
      /\ \A a, b \in DOMAIN map : a < b => map[a].line < map[b].line
  BY SeqIs DEF Ascending
<1>2. p \in above
  BY <1>1
<1>3. \A q \in above : p >= q
  BY <1>1
<1> HIDE DEF above
<1>4. Max(above) = p
  <2>1. Max(above) \in above /\ \A q \in above : Max(above) >= q
    BY <1>2, <1>3, Zenon DEF Max
  <2>2. PICK m : m = Max(above)
    OBVIOUS
  <2>3. \A q \in above : q \in Int
    BY <1>1 DEF above
  <2>4. m \in Int /\ p \in Int /\ m >= p /\ p >= m
    BY <1>2, <1>3, <2>1, <2>2, <2>3
  <2>5. m = p
    BY <2>4
  <2> QED BY <2>2, <2>5
<1>5. LineFind(map, map[p].line) = {map[Max(above)].data}
  BY <1>2 DEF LineFind, above
<1> QED BY <1>4, <1>5

(* Maps one behind the other, of parts one below the other. *)
LEMMA AscendingTogether ==
    ASSUME NEW s, IsSeq(s), \A a \in DOMAIN s : Ascending(s[a]),
           \A a, b \in DOMAIN s : a < b =>
              \A p \in DOMAIN s[a] : \A q \in DOMAIN s[b] : s[a][p].line < s[b][q].line
    PROVE  /\ Ascending(FlattenSeq(s))
           /\ \A a \in DOMAIN s : \A p \in DOMAIN s[a] :
                 \E q \in DOMAIN FlattenSeq(s) : FlattenSeq(s)[q] = s[a][p]
<1> DEFINE f == FlattenSeq(s)
           h == [a \in DOMAIN s |-> Len(s[a])]
           L(a) == LineOf(h, a)
<1>1. Parts(s) /\ \A a \in DOMAIN s : h[a] = Len(s[a])
  BY DEF Parts, Ascending
<1>2. \A a \in DOMAIN s : /\ IsSeq(s[a]) /\ h[a] \in Nat /\ DOMAIN s[a] = 1..h[a]
  BY <1>1, SeqIs DEF Parts
<1> HIDE DEF h
<1>3. Layout(s, h, f)
  BY <1>1, Flattened
<1>4. /\ Len(s) \in Nat /\ DOMAIN s = 1..Len(s)
      /\ \A a \in DOMAIN s : L(a) \in Nat /\ L(a) >= 1
      /\ \A a, b \in DOMAIN s : a < b => L(a) + h[a] <= L(b)
  <2>1. Len(s) \in Nat /\ DOMAIN s = 1..Len(s)
    BY SeqIs
  <2> QED BY <1>2, <2>1, LinesAscend
<1> HIDE DEF f
<1>5. /\ IsSeq(f)
      /\ \A a \in DOMAIN s : \A k \in 1..h[a] : L(a) + k - 1 \in DOMAIN f /\ f[L(a) + k - 1] = s[a][k]
      /\ \A n \in DOMAIN f : \E a \in DOMAIN s : \E k \in 1..h[a] : n = L(a) + k - 1
  BY <1>3, Zenon DEF Layout
<1> HIDE DEF L
<1>6. \A n \in DOMAIN f : \E a \in DOMAIN s : \E k \in 1..h[a] :
          n = L(a) + k - 1 /\ f[n] = s[a][k] /\ k \in DOMAIN s[a]
  BY <1>2, <1>5
<1>7. \A n \in DOMAIN f : f[n].line \in Nat
  BY <1>6 DEF Ascending
<1>8. ASSUME NEW m \in DOMAIN f, NEW n \in DOMAIN f, m < n PROVE f[m].line < f[n].line
  <2>1. PICK a \in DOMAIN s : \E k \in 1..h[a] :
          m = L(a) + k - 1 /\ f[m] = s[a][k] /\ k \in DOMAIN s[a]
    BY <1>6
  <2>2. PICK k \in 1..h[a] : m = L(a) + k - 1 /\ f[m] = s[a][k] /\ k \in DOMAIN s[a]
    BY <2>1
  <2>3. PICK b \in DOMAIN s : \E i \in 1..h[b] :
          n = L(b) + i - 1 /\ f[n] = s[b][i] /\ i \in DOMAIN s[b]
    BY <1>6
  <2>4. PICK i \in 1..h[b] : n = L(b) + i - 1 /\ f[n] = s[b][i] /\ i \in DOMAIN s[b]
    BY <2>3
  <2>5. CASE a = b
    <3>1. k < i
      BY <1>2, <1>4, <1>8, <2>2, <2>4, <2>5
    <3> QED BY <2>2, <2>4, <2>5, <3>1 DEF Ascending
  <2>6. CASE a < b
    BY <2>2, <2>4, <2>6
  <2>7. CASE b < a
    <3>1. L(b) + h[b] <= L(a) /\ L(a) \in Nat /\ L(b) \in Nat /\ h[b] \in Nat /\ h[a] \in Nat
      BY <1>2, <1>4, <2>7
    <3>2. n < L(a)
      BY <2>4, <3>1
    <3>3. m >= L(a)
      BY <2>2, <3>1
    <3>4. m \in Int /\ n \in Int
      BY <2>2, <2>4, <3>1
    <3> QED BY <1>8, <3>1, <3>2, <3>3, <3>4
  <2>8. a \in Int /\ b \in Int
    BY <1>4
  <2> QED BY <2>5, <2>6, <2>7, <2>8
<1>9. Ascending(f)
  BY <1>5, <1>7, <1>8 DEF Ascending
<1>10. \A a \in DOMAIN s : \A p \in DOMAIN s[a] : \E q \in DOMAIN f : f[q] = s[a][p]
  BY <1>2, <1>5
<1> QED BY <1>9, <1>10 DEF f

\* The lines of frames among the lines of a window.
FrameLines(shown) ==
    FlattenSeq([n \in DOMAIN shown |-> IF shown[n].what = "frame" THEN <<shown[n]>> ELSE <<>>])

\* Parts of which the first line is that of a frame, and no other.
FramePart(d) ==
    /\ IsSeq(d) /\ Len(d) # 0 /\ d[1].what = "frame"
    /\ \A k \in DOMAIN d : k # 1 => d[k].what # "frame"

LEMMA FramesAreFirst ==
    ASSUME NEW s, IsSeq(s), \A a \in DOMAIN s : FramePart(s[a])
    PROVE  /\ IsSeq(FrameLines(FlattenSeq(s))) /\ Len(FrameLines(FlattenSeq(s))) = Len(s)
           /\ \A a \in DOMAIN s : FrameLines(FlattenSeq(s))[a] = s[a][1]
<1> DEFINE f == FlattenSeq(s)
           tall == [a \in DOMAIN s |-> Len(s[a])]
           L(a) == LineOf(tall, a)
           Is(n) == f[n].what = "frame"
           parts == [n \in DOMAIN f |-> IF Is(n) THEN <<f[n]>> ELSE <<>>]
           h == [n \in DOMAIN f |-> IF Is(n) THEN 1 ELSE 0]
           P(n) == LineOf(h, n)
           E == FlattenSeq(parts)
<1>1. Parts(s) /\ \A a \in DOMAIN s : tall[a] = Len(s[a])
  BY DEF Parts, FramePart
<1>2. \A a \in DOMAIN s : /\ IsSeq(s[a]) /\ tall[a] \in Nat /\ tall[a] # 0 /\ DOMAIN s[a] = 1..tall[a]
  BY <1>1, SeqIs DEF Parts, FramePart
<1> HIDE DEF tall
<1>3. Layout(s, tall, f)
  BY <1>1, Flattened
<1>4. /\ Len(s) \in Nat /\ DOMAIN s = 1..Len(s)
      /\ \A a \in DOMAIN s : L(a) \in Nat /\ L(a) >= 1
  <2>1. Len(s) \in Nat /\ DOMAIN s = 1..Len(s)
    BY SeqIs
  <2> QED BY <1>2, <2>1, LinesAscend
<1>5. L(1) = 1 /\ \A a \in Nat : a # 0 => L(a + 1) = L(a) + tall[a]
  BY LineSteps
<1> HIDE DEF f
<1>6. /\ IsSeq(f) /\ Len(f) \in Nat /\ DOMAIN f = 1..Len(f)
      /\ \A a \in DOMAIN s : \A k \in 1..tall[a] : L(a) + k - 1 \in DOMAIN f /\ f[L(a) + k - 1] = s[a][k]
      /\ \A n \in DOMAIN f : \E a \in DOMAIN s : \E k \in 1..tall[a] : n = L(a) + k - 1
  <2>1. /\ IsSeq(f)
        /\ \A a \in DOMAIN s : \A k \in 1..tall[a] : L(a) + k - 1 \in DOMAIN f /\ f[L(a) + k - 1] = s[a][k]
        /\ \A n \in DOMAIN f : \E a \in DOMAIN s : \E k \in 1..tall[a] : n = L(a) + k - 1
    BY <1>3, Zenon DEF Layout
  <2> QED BY <2>1, SeqIs
<1> HIDE DEF L
<1>7. ASSUME NEW a \in DOMAIN s, NEW k \in 1..tall[a] PROVE Is(L(a) + k - 1) <=> k = 1
  <2>1. /\ k \in DOMAIN s[a] /\ f[L(a) + k - 1] = s[a][k]
        /\ s[a][1].what = "frame" /\ \A i \in DOMAIN s[a] : i # 1 => s[a][i].what # "frame"
    BY <1>2, <1>6 DEF FramePart
  <2> QED BY <2>1, Zenon
<1>8. /\ \A n \in DOMAIN f : h[n] = IF Is(n) THEN 1 ELSE 0
      /\ \A n \in DOMAIN f : parts[n] = IF Is(n) THEN <<f[n]>> ELSE <<>>
  OBVIOUS
<1>9. Parts(parts) /\ DOMAIN parts = DOMAIN f /\ \A n \in DOMAIN parts : h[n] = Len(parts[n])
  <2>1. DOMAIN parts = DOMAIN f /\ IsSeq(parts)
    <3>1. parts = [n \in DOMAIN f |-> parts[n]] /\ DOMAIN parts = DOMAIN f
      OBVIOUS
    <3> HIDE DEF parts
    <3> QED BY <1>6, <3>1, SameDomain
  <2> HIDE DEF parts, h
  <2>2. \A n \in DOMAIN f : IsSeq(parts[n]) /\ h[n] = Len(parts[n])
    BY <1>8, OneIs, NoneIs
  <2> QED BY <2>1, <2>2 DEF Parts
<1>10. P(1) = 1 /\ \A n \in Nat : n # 0 => P(n + 1) = P(n) + h[n]
  BY LineSteps
<1> HIDE DEF parts, h
<1>11. Layout(parts, h, E)
  BY <1>9, Flattened
<1> HIDE DEF E
<1>12. /\ IsSeq(E)
       /\ \A n \in DOMAIN f : \A k \in 1..h[n] : P(n) + k - 1 \in DOMAIN E /\ E[P(n) + k - 1] = parts[n][k]
       /\ \A p \in DOMAIN E : \E n \in DOMAIN f : \E k \in 1..h[n] : p = P(n) + k - 1
  BY <1>9, <1>11, Zenon DEF Layout
<1> HIDE DEF P, Is
\* How many frames there are above a line.
<1>13. \A a \in DOMAIN s : \A k \in 1..tall[a] : P(L(a) + k - 1) = IF k = 1 THEN a ELSE a + 1
  <2> DEFINE Fine(a, k) == P(L(a) + k - 1) = IF k = 1 THEN a ELSE a + 1
             Bad == {n \in Nat : \E a \in DOMAIN s : \E k \in 1..tall[a] : n = L(a) + k - 1 /\ ~Fine(a, k)}
  <2>1. SUFFICES ASSUME Bad # {} PROVE FALSE
    <3>1. \A a \in DOMAIN s : \A k \in 1..tall[a] : L(a) + k - 1 \in Nat
      BY <1>6
    <3> QED BY <3>1
  <2>2. PICK n \in Bad : \A m \in Bad : n <= m
    <3>1. Bad \in SUBSET Nat
      OBVIOUS
    <3> HIDE DEF Bad
    <3> QED BY <2>1, <3>1, LeastNumber, Zenon
  <2>3. PICK a \in DOMAIN s : \E k \in 1..tall[a] : n = L(a) + k - 1 /\ ~Fine(a, k)
    OBVIOUS
  <2>4. PICK k \in 1..tall[a] : n = L(a) + k - 1 /\ ~Fine(a, k)
    BY <2>3
  <2>5. ASSUME NEW b \in DOMAIN s, NEW i \in 1..tall[b], L(b) + i - 1 < n PROVE Fine(b, i)
    <3>1. L(b) + i - 1 \in Nat
      BY <1>6
    <3>2. n \in Nat
      OBVIOUS
    <3>3. L(b) + i - 1 \notin Bad
      <4> HIDE DEF Bad
      <4> QED BY <2>2, <2>5, <3>1, <3>2
    <3> QED BY <3>1, <3>3
  <2> HIDE DEF Bad
  <2>6. L(a) \in Nat /\ L(a) >= 1 /\ a \in Nat /\ a >= 1
    BY <1>4
  <2>7. CASE k # 1
    <3>1. k - 1 \in 1..tall[a] /\ L(a) + (k - 1) - 1 < n /\ n = (L(a) + (k - 1) - 1) + 1
          /\ L(a) + (k - 1) - 1 \in Nat /\ L(a) + (k - 1) - 1 # 0
      BY <1>2, <2>4, <2>6, <2>7
    <3> DEFINE m == L(a) + (k - 1) - 1
    <3>2. P(m) = IF k - 1 = 1 THEN a ELSE a + 1
      BY <2>5, <3>1
    <3>3. Is(m) <=> k - 1 = 1
      BY <1>7, <3>1
    <3>4. m \in DOMAIN f
      BY <1>6, <3>1
    <3>5. h[m] = IF k - 1 = 1 THEN 1 ELSE 0
      BY <1>8, <3>3, <3>4
    <3>6. P(n) = P(m) + h[m]
      BY <1>10, <3>1 DEF P
    <3> HIDE DEF m
    <3>7. P(n) = a + 1
      BY <2>6, <3>2, <3>5, <3>6
    <3> QED BY <2>4, <2>7, <3>7
  <2>8. CASE k = 1 /\ a = 1
    <3>1. n = 1
      BY <1>5, <2>4, <2>8
    <3> QED BY <1>10, <2>4, <2>8, <3>1 DEF P
  <2>9. CASE k = 1 /\ a # 1
    <3> DEFINE b == a - 1
               j == tall[b]
               m == L(b) + j - 1
    <3>1. b \in DOMAIN s /\ b \in Nat /\ b # 0 /\ b + 1 = a
      BY <1>4, <2>6, <2>9
    <3>2. j \in Nat /\ j # 0 /\ j \in 1..tall[b] /\ L(b) \in Nat /\ L(b) >= 1
      BY <1>2, <1>4, <3>1
    <3>3. L(a) = L(b) + j
      BY <1>5, <3>1
    <3>4. n = m + 1 /\ m < n /\ m \in Nat /\ m # 0
      BY <2>4, <2>6, <2>9, <3>2, <3>3
    <3>5. m \in DOMAIN f
      BY <1>6, <3>1, <3>2
    <3>6. P(m) = IF j = 1 THEN b ELSE b + 1
      BY <2>5, <3>1, <3>2, <3>4
    <3>7. Is(m) <=> j = 1
      BY <1>7, <3>1, <3>2
    <3>8. h[m] = IF j = 1 THEN 1 ELSE 0
      BY <1>8, <3>5, <3>7
    <3>9. P(n) = P(m) + h[m]
      BY <1>10, <3>4 DEF P
    <3> HIDE DEF m, j, b
    <3>10. P(n) = a
      BY <2>6, <3>1, <3>6, <3>8, <3>9
    <3> QED BY <2>4, <2>9, <3>10
  <2> QED BY <2>7, <2>8, <2>9
<1>14. ASSUME NEW a \in DOMAIN s PROVE a \in DOMAIN E /\ E[a] = s[a][1]
  <2>1. 1 \in 1..tall[a] /\ L(a) + 1 - 1 = L(a) /\ a \in Nat
    BY <1>2, <1>4
  <2>2. L(a) \in DOMAIN f /\ f[L(a)] = s[a][1] /\ Is(L(a)) /\ P(L(a)) = a
    BY <1>6, <1>7, <1>13, <2>1
  <2>3. h[L(a)] = 1 /\ parts[L(a)] = <<f[L(a)]>>
    BY <1>8, <2>2
  <2>4. 1 \in 1..h[L(a)] /\ P(L(a)) + 1 - 1 = a
    BY <2>1, <2>2, <2>3
  <2>5. a \in DOMAIN E /\ E[a] = parts[L(a)][1]
    BY <1>12, <2>2, <2>4
  <2>6. parts[L(a)][1] = f[L(a)]
    BY <2>3
  <2> QED BY <2>2, <2>5, <2>6
<1>15. ASSUME NEW p \in DOMAIN E PROVE p \in DOMAIN s
  <2>1. PICK n \in DOMAIN f : \E k \in 1..h[n] : p = P(n) + k - 1
    BY <1>12
  <2>2. PICK k \in 1..h[n] : p = P(n) + k - 1
    BY <2>1
  <2>3. k = 1 /\ Is(n)
    <3>1. h[n] = IF Is(n) THEN 1 ELSE 0
      BY <1>8
    <3> QED BY <2>2, <3>1
  <2>4. PICK a \in DOMAIN s : \E i \in 1..tall[a] : n = L(a) + i - 1
    BY <1>6
  <2>5. PICK i \in 1..tall[a] : n = L(a) + i - 1
    BY <2>4
  <2>6. i = 1
    BY <1>7, <2>3, <2>5
  <2>7. P(n) = a /\ a \in Nat
    BY <1>4, <1>13, <2>5, <2>6
  <2> QED BY <2>2, <2>3, <2>7
<1>16. Len(E) = Len(s)
  <2>1. Len(E) \in Nat /\ DOMAIN E = 1..Len(E)
    BY <1>12, SeqIs
  <2>2. \A p \in 1..Len(E) : p <= Len(s)
    BY <1>4, <1>15, <2>1
  <2>3. \A a \in 1..Len(s) : a <= Len(E)
    BY <1>4, <1>14, <2>1
  <2>4. PICK e, l : e = Len(E) /\ l = Len(s)
    OBVIOUS
  <2>5. /\ e \in Nat /\ l \in Nat
        /\ \A p \in 1..e : p <= l
        /\ \A a \in 1..l : a <= e
    BY <1>4, <2>1, <2>2, <2>3, <2>4
  <2>6. e = 0 \/ e \in 1..e
    BY <2>5
  <2>7. l = 0 \/ l \in 1..l
    BY <2>5
  <2>8. e <= l /\ l <= e
    BY <2>5, <2>6, <2>7
  <2> QED BY <2>4, <2>5, <2>8
<1>17. FrameLines(f) = E
  BY DEF FrameLines, E, parts, Is
<1> QED BY <1>12, <1>14, <1>16, <1>17 DEF f

------------------------------------------------------------------------------
(* Callstack: what is printed, and the invariant *)

(* The property of lines, of maps and of a window on their own. *)
FramesLead(frames, vars, shown) ==
    \A n \in DOMAIN shown :
        /\ shown[n].what = "frame" => LineFind(frames, n) = {shown[n].chain}
        /\ shown[n].what = "variable" => LineFind(vars, n) = {<<shown[n].chain, shown[n].var>>}

\* A window with the frames of a stack, innermost first.
StackPrinted(stack, lst, shown) ==
    /\ Len(FrameLines(shown)) = Len(stack)
    /\ \A i \in 1..Len(stack) :
          LET l == FrameLines(shown)[Len(stack) - i + 1] IN
          /\ l.chain = stack[i] /\ l.line = lst[stack[i]].line /\ l.call = lst[stack[i]].call

\* A stack of frames that are known.
IsStack(stack, lst) == IsSeq(stack) /\ \A i \in DOMAIN stack : stack[i] \in DOMAIN lst

LEMMA SameLast ==
    ASSUME NEW m \in Nat, NEW n \in Nat, 1..m = 1..n
    PROVE  m = n
<1>1. m = 0 \/ m \in 1..m
  OBVIOUS
<1>2. n = 0 \/ n \in 1..n
  OBVIOUS
<1>3. m <= n /\ n <= m
  BY <1>1, <1>2
<1> QED BY <1>3

(* cmd_callstack_print *)
LEMMA CsPrinted ==
    ASSUME NEW lst, FramesOK(lst), NEW stack, IsStack(stack, lst), CsPrint(stack, lst)
    PROVE  /\ FramesLead(line_frames', cs_line_vars', csShown')
           /\ StackPrinted(stack, lst, csShown')
<1> DEFINE order == Reverse(stack)
           tall == [i \in DOMAIN order |-> FrameHeight(order[i], lst)]
           L(i) == LineOf(tall, i)
           text == [i \in DOMAIN order |-> FrameText(order[i], lst)]
           entries == [i \in DOMAIN order |-> VarEntries(order[i], lst, L(i))]
           frames == [i \in DOMAIN order |-> [line |-> L(i), data |-> order[i]]]
           vars == FlattenSeq(entries)
           shown == FlattenSeq(text)
<1>1. line_frames' = frames /\ cs_line_vars' = vars /\ csShown' = shown
  BY DEF CsPrint
<1>2. /\ IsSeq(order) /\ Len(order) = Len(stack) /\ Len(stack) \in Nat
      /\ DOMAIN order = 1..Len(stack) /\ DOMAIN stack = 1..Len(stack)
      /\ \A i \in 1..Len(stack) : /\ order[i] = stack[Len(stack) - i + 1]
                                  /\ Len(stack) - i + 1 \in DOMAIN stack
                                  /\ order[Len(stack) - i + 1] = stack[i]
                                  /\ Len(stack) - i + 1 \in 1..Len(stack)
  BY ReverseIs, SeqIs DEF IsStack
<1>3. \A i \in DOMAIN order : order[i] \in DOMAIN lst
  BY <1>2 DEF IsStack
<1> HIDE DEF order
<1>4. \A i \in DOMAIN order :
          /\ tall[i] = FrameHeight(order[i], lst)
          /\ text[i] = FrameText(order[i], lst)
          /\ frames[i].line = L(i) /\ frames[i].data = order[i]
          /\ entries[i] = VarEntries(order[i], lst, L(i))
  BY Zenon
<1>5. IsSeq(text) /\ IsSeq(entries) /\ DOMAIN text = DOMAIN order /\ DOMAIN entries = DOMAIN order
      /\ DOMAIN frames = DOMAIN order
  <2>1. /\ text = [i \in DOMAIN order |-> text[i]] /\ DOMAIN text = DOMAIN order
        /\ entries = [i \in DOMAIN order |-> entries[i]] /\ DOMAIN entries = DOMAIN order
        /\ DOMAIN frames = DOMAIN order
    BY Zenon
  <2> HIDE DEF text, entries
  <2> QED BY <1>2, <2>1, SameDomain
<1> HIDE DEF tall, text, entries, frames
<1>6. ASSUME NEW i \in DOMAIN order
      PROVE  /\ IsSeq(text[i]) /\ Len(text[i]) = tall[i] /\ DOMAIN text[i] = 1..tall[i]
             /\ tall[i] \in Nat /\ tall[i] >= 1
             /\ FramePart(text[i])
             /\ \A k \in DOMAIN text[i] : text[i][k].chain = order[i]
             /\ text[i][1].line = lst[order[i]].line /\ text[i][1].call = lst[order[i]].call
  <2> DEFINE c == order[i]
             d == text[i]
             na == ArgLines(c, lst)
             ne == ClosingLines(c, lst)
             nl == Locals(c, lst)
  <2>1. na \in Nat /\ ne \in Nat /\ nl \in Nat /\ tall[i] = 1 + na + ne + nl + 1
    BY <1>3, <1>4, CountsAre
  <2>2. FrameLayout(c, lst, d)
    BY <1>3, <1>4, FrameTextIs
  <2>3. /\ IsSeq(d) /\ Len(d) = 1 + na + ne + nl + 1 /\ DOMAIN d = 1..(1 + na + ne + nl + 1)
        /\ d[1].what = "frame" /\ d[1].line = lst[c].line /\ d[1].call = lst[c].call
        /\ \A k \in 1..na : d[1 + k].what = "variable"
        /\ \A k \in 1..ne : d[1 + na + k].what = "end"
        /\ \A k \in 1..nl : d[1 + na + ne + k].what = "variable"
        /\ d[1 + na + ne + nl + 1].what = "empty"
        /\ \A k \in DOMAIN d : d[k].chain = c
    BY <2>2, Zenon DEF FrameLayout
  <2> HIDE DEF c, d, na, ne, nl
  <2>4. ASSUME NEW k \in DOMAIN d, k # 1 PROVE d[k].what # "frame"
    <3>0. k \in 2..(1 + na + ne + nl + 1)
      BY <2>1, <2>3, <2>4
    <3>1. \/ k - 1 \in 1..na /\ 1 + (k - 1) = k
          \/ k - (1 + na) \in 1..ne /\ 1 + na + (k - (1 + na)) = k
          \/ k - (1 + na + ne) \in 1..nl /\ 1 + na + ne + (k - (1 + na + ne)) = k
          \/ k = 1 + na + ne + nl + 1
      BY <2>1, <3>0
    <3>2. d[k].what \in {"variable", "end", "empty"}
      BY <2>3, <3>1
    <3> QED BY <3>2
  <2>5. FramePart(d)
    BY <2>1, <2>3, <2>4 DEF FramePart
  <2>6. Len(d) = tall[i] /\ DOMAIN d = 1..tall[i] /\ tall[i] \in Nat /\ tall[i] >= 1
    BY <2>1, <2>3
  <2> QED BY <2>3, <2>5, <2>6 DEF c, d
<1>7. Layout(text, tall, shown)
  <2>1. Parts(text) /\ \A i \in DOMAIN text : tall[i] = Len(text[i])
    BY <1>5, <1>6 DEF Parts
  <2> QED BY <2>1, Flattened
<1>8. /\ \A i \in DOMAIN order : L(i) \in Nat /\ L(i) >= 1
      /\ \A i, j \in DOMAIN order : i < j => L(i) + tall[i] <= L(j)
  BY <1>2, <1>6, LinesAscend
<1>9. EntryPerPart(Len(order), tall, frames)
  BY <1>2, <1>4, <1>5, <1>6 DEF EntryPerPart
<1>10. ASSUME NEW n \in DOMAIN shown
       PROVE  \E i \in DOMAIN order : \E k \in 1..tall[i] : n = L(i) + k - 1 /\ shown[n] = text[i][k]
  <2> HIDE DEF shown
  <2>1. PICK i \in DOMAIN text : \E k \in 1..tall[i] : n = L(i) + k - 1
    BY <1>7, Zenon DEF Layout
  <2>2. PICK k \in 1..tall[i] : n = L(i) + k - 1
    BY <2>1
  <2>3. shown[L(i) + k - 1] = text[i][k]
    BY <1>7, Zenon DEF Layout
  <2> QED BY <1>5, <2>2, <2>3
<1>11. ASSUME NEW i \in DOMAIN order
       PROVE  /\ Ascending(entries[i])
              /\ \A p \in DOMAIN entries[i] : L(i) < entries[i][p].line /\ entries[i][p].line < L(i) + tall[i]
              /\ \A k \in 1..tall[i] : text[i][k].what = "variable" =>
                    \E p \in DOMAIN entries[i] : /\ entries[i][p].line = L(i) + k - 1
                                                 /\ entries[i][p].data = <<order[i], text[i][k].var>>
  <2>1. VarLayout(order[i], lst, L(i), VarEntries(order[i], lst, L(i)))
    BY <1>3, <1>8, VarEntriesAre
  <2>2. tall[i] = FrameHeight(order[i], lst) /\ text[i] = FrameText(order[i], lst)
        /\ entries[i] = VarEntries(order[i], lst, L(i))
    BY <1>4
  <2> HIDE DEF L
  <2> QED BY <2>1, <2>2, Zenon DEF VarLayout
<1>12. /\ Ascending(vars)
       /\ \A i \in DOMAIN order : \A p \in DOMAIN entries[i] : \E q \in DOMAIN vars : vars[q] = entries[i][p]
  <2>1. \A i \in DOMAIN entries : Ascending(entries[i])
    BY <1>5, <1>11
  <2>2. ASSUME NEW i \in DOMAIN entries, NEW j \in DOMAIN entries, i < j,
               NEW p \in DOMAIN entries[i], NEW q \in DOMAIN entries[j]
        PROVE  entries[i][p].line < entries[j][q].line
    <3>1. /\ entries[i][p].line \in Nat /\ entries[j][q].line \in Nat
          /\ entries[i][p].line < L(i) + tall[i] /\ L(j) < entries[j][q].line
          /\ L(i) + tall[i] <= L(j) /\ L(i) \in Nat /\ L(j) \in Nat /\ tall[i] \in Nat
      BY <1>5, <1>6, <1>8, <1>11, <2>2 DEF Ascending
    <3> HIDE DEF L
    <3> QED BY <3>1
  <2> QED BY <1>5, <2>1, <2>2, AscendingTogether
<1> HIDE DEF vars
<1>13. ASSUME NEW n \in DOMAIN shown, shown[n].what = "frame"
       PROVE  LineFind(frames, n) = {shown[n].chain}
  <2>1. PICK i \in DOMAIN order : \E k \in 1..tall[i] : n = L(i) + k - 1 /\ shown[n] = text[i][k]
    BY <1>10
  <2>2. PICK k \in 1..tall[i] : n = L(i) + k - 1 /\ shown[n] = text[i][k]
    BY <2>1
  <2>3. LineFind(frames, n) = {frames[i].data}
    <3>1. i \in 1..Len(order)
      BY <1>2
    <3> QED BY <1>9, <2>2, <3>1, FindPart
  <2> QED BY <1>4, <1>6, <2>2, <2>3
<1>14. ASSUME NEW n \in DOMAIN shown, shown[n].what = "variable"
       PROVE  LineFind(vars, n) = {<<shown[n].chain, shown[n].var>>}
  <2>1. PICK i \in DOMAIN order : \E k \in 1..tall[i] : n = L(i) + k - 1 /\ shown[n] = text[i][k]
    BY <1>10
  <2>2. PICK k \in 1..tall[i] : n = L(i) + k - 1 /\ shown[n] = text[i][k]
    BY <2>1
  <2>3. PICK p \in DOMAIN entries[i] : /\ entries[i][p].line = L(i) + k - 1
                                       /\ entries[i][p].data = <<order[i], text[i][k].var>>
    BY <1>11, <1>14, <2>2
  <2>4. PICK q \in DOMAIN vars : vars[q] = entries[i][p]
    BY <1>12
  <2>5. vars[q].line = n /\ vars[q].data = <<order[i], shown[n].var>>
    BY <2>2, <2>3, <2>4
  <2>6. shown[n].chain = order[i]
    BY <1>6, <2>2
  <2>7. LineFind(vars, vars[q].line) = {vars[q].data}
    BY <1>12, FindAscending
  <2> QED BY <2>5, <2>6, <2>7
<1>15. FramesLead(frames, vars, shown)
  <2> HIDE DEF shown
  <2> QED BY <1>13, <1>14 DEF FramesLead
<1>16. StackPrinted(stack, lst, shown)
  <2>1. /\ Len(FrameLines(shown)) = Len(order)
        /\ \A i \in DOMAIN order : FrameLines(shown)[i] = text[i][1]
    <3>1. \A i \in DOMAIN text : FramePart(text[i])
      BY <1>5, <1>6
    <3>2. Len(text) = Len(order)
      <4>1. Len(text) \in Nat /\ 1..Len(text) = 1..Len(order) /\ Len(order) \in Nat
        BY <1>2, <1>5, SeqIs
      <4> QED BY <4>1, SameLast
    <3> QED BY <1>5, <3>1, <3>2, FramesAreFirst
  <2> HIDE DEF shown
  <2>2. ASSUME NEW i \in 1..Len(stack)
        PROVE  LET l == FrameLines(shown)[Len(stack) - i + 1] IN
               l.chain = stack[i] /\ l.line = lst[stack[i]].line /\ l.call = lst[stack[i]].call
    <3> DEFINE j == Len(stack) - i + 1
    <3>1. j \in DOMAIN order /\ order[j] = stack[i]
      BY <1>2
    <3> HIDE DEF j
    <3>2. FrameLines(shown)[j] = text[j][1] /\ 1 \in DOMAIN text[j]
      BY <1>6, <2>1, <3>1
    <3>3. text[j][1].chain = order[j] /\ text[j][1].line = lst[order[j]].line
          /\ text[j][1].call = lst[order[j]].call
      BY <1>6, <3>1, <3>2
    <3>4. LET l == FrameLines(shown)[j] IN
          l.chain = stack[i] /\ l.line = lst[stack[i]].line /\ l.call = lst[stack[i]].call
      BY <3>1, <3>2, <3>3
    <3> QED BY <3>4 DEF j
  <2> QED BY <1>2, <2>1, <2>2 DEF StackPrinted
<1> QED BY <1>1, <1>15, <1>16

\* The frames that lead to a known one are known.
Closed(lst) == \A chain \in DOMAIN lst : \A k \in 1..(Len(chain) - 1) : SubSeq(chain, 1, k) \in DOMAIN lst

\* The program's frames are what gdb said of them when they were met first.
Remembered(lst, first) ==
    /\ DOMAIN first = DOMAIN lst
    /\ \A chain \in DOMAIN lst : first[chain].line = lst[chain].line /\ first[chain].call = lst[chain].call

IsCsStack(stack) == IsSeq(stack) /\ \A i \in DOMAIN stack : "fn" \in DOMAIN stack[i] /\ stack[i].fn \in Functions

\* What the first n frames of gdb's stack are known by.
Chains(n) == [i \in 1..n |-> Chain(i)]

CsInv ==
    /\ IsCsStack(csStack)
    /\ FramesOK(gdb_frame_lst) /\ Closed(gdb_frame_lst) /\ Remembered(gdb_frame_lst, csFirst)
    /\ IsStack(callstack, gdb_frame_lst)
    /\ FramesLead(line_frames, cs_line_vars, csShown)
    /\ csFresh => csWindow /\ callstack = Chains(Len(csStack))
                  /\ StackPrinted(callstack, gdb_frame_lst, csShown)

LEMMA ChainIs ==
    ASSUME IsCsStack(csStack), NEW i \in 1..Len(csStack)
    PROVE  /\ IsChain(Chain(i)) /\ Len(Chain(i)) = i
           /\ \A k \in 1..(i - 1) : SubSeq(Chain(i), 1, k) = Chain(k) /\ k \in 1..Len(csStack)
<1> DEFINE c == Chain(i)
<1>1. Len(csStack) \in Nat /\ DOMAIN csStack = 1..Len(csStack)
      /\ \A k \in DOMAIN csStack : csStack[k].fn \in Functions
  BY SeqIs DEF IsCsStack
<1>2. c = [k \in 1..i |-> c[k]] /\ \A k \in 1..i : c[k] = csStack[k].fn
  BY DEF Chain
<1> HIDE DEF c
<1>3. IsSeq(c) /\ Len(c) = i /\ i \in Nat /\ i # 0
  BY <1>1, <1>2, MadeSeq
<1>4. DOMAIN c = 1..i
  BY <1>3, SeqIs
<1>5. IsChain(c)
  BY <1>1, <1>2, <1>3, <1>4 DEF IsChain
<1>6. ASSUME NEW k \in 1..(i - 1) PROVE SubSeq(c, 1, k) = Chain(k) /\ k \in 1..Len(csStack)
  <2> DEFINE t == SubSeq(c, 1, k)
  <2>1. k \in Nat /\ k >= 1 /\ k <= Len(c) /\ k - 1 + 1 = k
    BY <1>1, <1>3
  <2>2. IsSeq(t) /\ Len(t) = k /\ \A j \in 1..k : t[j] = c[1 + j - 1]
    BY <1>3, <2>1, SubSeqIs
  <2> HIDE DEF t
  <2>3. DOMAIN t = 1..k /\ t \in Seq(Range(t))
    BY <2>2, SeqIs DEF IsSeq
  <2>4. \A j \in 1..k : t[j] = csStack[j].fn
    <3>1. \A j \in 1..k : 1 + j - 1 = j /\ j \in 1..i
      BY <2>1, <1>3
    <3> QED BY <1>2, <2>2, <3>1
  <2>5. t = [j \in 1..k |-> t[j]]
    BY <2>3, LenProperties
  <2>6. t = Chain(k)
    BY <2>4, <2>5 DEF Chain
  <2>7. k \in 1..Len(csStack)
    BY <1>1
  <2> QED BY <2>6, <2>7 DEF t
<1> QED BY <1>3, <1>5, <1>6 DEF c

(* gdb_frame_t::acquire for the frames of gdb's stack *)
LEMMA HandledIs ==
    ASSUME CsInv, NEW n \in 0..Len(csStack), NEW got, n # 0 => got \in Nat,
           NEW lst, lst = Handled(n, got), Remember(lst)
    PROVE  /\ FramesOK(lst) /\ Closed(lst) /\ Remembered(lst, csFirst')
           /\ IsStack(Chains(n), lst)
<1> DEFINE new == {Chain(i) : i \in 1..n}
           old == DOMAIN gdb_frame_lst
           Got(chain) == IF Len(chain) = n THEN got ELSE VarsOf(Fn(chain))
<1>1. /\ IsCsStack(csStack) /\ FramesOK(gdb_frame_lst) /\ Closed(gdb_frame_lst)
      /\ Remembered(gdb_frame_lst, csFirst)
  BY Zenon DEF CsInv
<1>2. Len(csStack) \in Nat
  BY <1>1, SeqIs DEF IsCsStack
<1>3. ASSUME NEW i \in 1..n
      PROVE  /\ i \in 1..Len(csStack) /\ IsChain(Chain(i)) /\ Len(Chain(i)) = i
             /\ \A k \in 1..(i - 1) : SubSeq(Chain(i), 1, k) = Chain(k) /\ k \in 1..n
             /\ Chain(i) \in new
  <2>1. i \in 1..Len(csStack) /\ \A k \in 1..(i - 1) : k \in 1..n
    BY <1>2
  <2> QED BY <1>1, <2>1, ChainIs
<1>4. /\ DOMAIN lst = new \union old
      /\ \A c \in new \union old : lst[c] = Acquire(c, Got(c))
  BY DEF Handled
<1>5. \A c \in old : lst[c] = gdb_frame_lst[c]
  BY <1>4 DEF Acquire
<1>6. ASSUME NEW c \in new PROVE IsChain(c) /\ Got(c) \in Nat
  <2>1. PICK i \in 1..n : c = Chain(i)
    OBVIOUS
  <2>2. IsChain(c) /\ n # 0 /\ got \in Nat
    BY <1>3, <2>1
  <2>3. VarsOf(Fn(c)) \in Nat
    <3>1. Len(c) \in Nat /\ DOMAIN c = 1..Len(c) /\ Len(c) # 0 /\ \A k \in DOMAIN c : c[k] \in Functions
      BY <2>2, SeqIs DEF IsChain
    <3>2. Fn(c) \in Functions
      BY <3>1 DEF Fn
    <3>3. Fn(c).args \in Nat /\ Fn(c).locals \in Nat
      BY <3>2, FunctionsAssumption
    <3> QED BY <3>3 DEF VarsOf
  <2> QED BY <2>2, <2>3
<1>7. ASSUME NEW c \in new PROVE IsKnown(lst[c])
  <2>1. CASE c \in old
    BY <1>1, <1>5, <2>1 DEF FramesOK
  <2>2. CASE c \notin old
    <3> HIDE DEF Got, new, old
    <3>1. lst[c] = [line |-> csStack[Len(c)].line, call |-> csStack[Len(c)].call,
                    got |-> Got(c), expanded |-> FALSE]
      BY <1>4, <2>2 DEF Acquire, old
    <3>2. Got(c) \in Nat
      BY <1>6
    <3> QED BY <3>1, <3>2 DEF IsKnown
  <2> QED BY <2>1, <2>2
<1>8. FramesOK(lst)
  <2> HIDE DEF new, Got
  <2> QED BY <1>1, <1>4, <1>5, <1>6, <1>7 DEF FramesOK
<1>9. Closed(lst)
  <2> SUFFICES ASSUME NEW c \in DOMAIN lst, NEW k \in 1..(Len(c) - 1)
               PROVE  SubSeq(c, 1, k) \in DOMAIN lst
    BY DEF Closed
  <2>1. CASE c \in old
    BY <1>1, <1>4, <2>1 DEF Closed
  <2>2. CASE c \in new
    <3>1. PICK i \in 1..n : c = Chain(i)
      BY <2>2
    <3>2. k \in 1..(i - 1)
      BY <1>3, <3>1
    <3>3. SubSeq(c, 1, k) = Chain(k) /\ k \in 1..n
      BY <1>3, <3>1, <3>2
    <3> QED BY <1>3, <1>4, <3>3
  <2> QED BY <1>4, <2>1, <2>2
<1>10. Remembered(lst, csFirst')
  <2> HIDE DEF new, Got, old
  <2>1. /\ DOMAIN csFirst = old
        /\ \A c \in old : csFirst[c].line = gdb_frame_lst[c].line /\ csFirst[c].call = gdb_frame_lst[c].call
    BY <1>1 DEF Remembered, old
  <2>2. /\ DOMAIN csFirst' = DOMAIN lst
        /\ \A c \in DOMAIN lst : csFirst'[c] = IF c \in old THEN csFirst[c] ELSE lst[c]
    BY <2>1 DEF Remember
  <2>3. ASSUME NEW c \in DOMAIN lst
        PROVE  csFirst'[c].line = lst[c].line /\ csFirst'[c].call = lst[c].call
    <3>1. CASE c \in old
      BY <1>5, <2>1, <2>2, <3>1
    <3>2. CASE c \notin old
      BY <2>2, <3>2
    <3> QED BY <3>1, <3>2
  <2> QED BY <2>2, <2>3 DEF Remembered
<1>11. IsStack(Chains(n), lst)
  <2> DEFINE s == Chains(n)
  <2>1. s = [i \in 1..n |-> s[i]] /\ \A i \in 1..n : s[i] = Chain(i)
    BY DEF Chains
  <2> HIDE DEF s
  <2>2. n \in Nat
    BY <1>2
  <2>3. IsSeq(s) /\ DOMAIN s = 1..n
    BY <2>1, <2>2, MadeSeq, SeqIs
  <2>4. \A i \in DOMAIN s : s[i] \in DOMAIN lst
    BY <1>3, <1>4, <2>1, <2>3
  <2> QED BY <2>3, <2>4 DEF IsStack, s
<1> QED BY <1>8, <1>9, <1>10, <1>11

LEMMA CsUpdateKeeps ==
    ASSUME CsInv, CsUpdate
    PROVE  CsInv'
<1> DEFINE n == Len(csStack)
           got == IF n = 0 THEN 0 ELSE VarsOf(csStack[n].fn)
           lst == Handled(n, got)
<1>1. /\ csWindow /\ gdb_frame_lst' = lst /\ Remember(lst) /\ callstack' = Chains(n)
      /\ csFresh' = TRUE /\ CsPrint(Chains(n), lst) /\ UNCHANGED <<csStack, csCalls, csWindow>>
  BY DEF CsUpdate, Chains
<1>2. IsCsStack(csStack)
  BY Zenon DEF CsInv
<1>3. n \in Nat /\ DOMAIN csStack = 1..n
  BY <1>2, SeqIs DEF IsCsStack
<1>4. got \in Nat
  <2>1. CASE n = 0
    BY <2>1
  <2>2. CASE n # 0
    <3>1. csStack[n].fn \in Functions
      BY <1>2, <1>3, <2>2 DEF IsCsStack
    <3>2. csStack[n].fn.args \in Nat /\ csStack[n].fn.locals \in Nat
      BY <3>1, FunctionsAssumption
    <3> QED BY <2>2, <3>2 DEF VarsOf
  <2> QED BY <2>1, <2>2
<1> HIDE DEF got
<1>5. n \in 0..Len(csStack)
  BY <1>3
<1>6. /\ FramesOK(lst) /\ Closed(lst) /\ Remembered(lst, csFirst') /\ IsStack(Chains(n), lst)
  BY <1>1, <1>4, <1>5, HandledIs
<1> HIDE DEF lst
<1>7. FramesLead(line_frames', cs_line_vars', csShown') /\ StackPrinted(Chains(n), lst, csShown')
  BY <1>1, <1>6, CsPrinted
<1>8. /\ IsCsStack(csStack') /\ csWindow' = csWindow /\ Chains(n)' = Chains(n) /\ Len(csStack') = n
  BY <1>1, <1>2 DEF Chains, Chain
<1>9. /\ FramesOK(gdb_frame_lst') /\ Closed(gdb_frame_lst') /\ Remembered(gdb_frame_lst', csFirst')
      /\ IsStack(callstack', gdb_frame_lst')
      /\ StackPrinted(callstack', gdb_frame_lst', csShown')
  BY <1>1, <1>6, <1>7
<1>10. csWindow' /\ callstack' = Chains(Len(csStack))'
  BY <1>1, <1>8 DEF Chains, Chain
<1> QED BY <1>7, <1>8, <1>9, <1>10, Zenon DEF CsInv

LEMMA CsUpdateFailsKeeps ==
    ASSUME CsInv, CsUpdateFails
    PROVE  CsInv'
<1>1. PICK n \in 0..Len(csStack) : \E got \in 0..(IF n = 0 THEN 0 ELSE VarsOf(csStack[n].fn)) :
          /\ gdb_frame_lst' = Handled(n, got)
          /\ Remember(Handled(n, got))
          /\ callstack' = [i \in 1..n |-> Chain(i)]
  BY Zenon DEF CsUpdateFails
<1>2. PICK got \in 0..(IF n = 0 THEN 0 ELSE VarsOf(csStack[n].fn)) :
          /\ gdb_frame_lst' = Handled(n, got)
          /\ Remember(Handled(n, got))
          /\ callstack' = [i \in 1..n |-> Chain(i)]
  BY <1>1
<1>3. /\ csFresh' = FALSE
      /\ UNCHANGED <<line_frames, cs_line_vars, csShown, csStack, csCalls, csWindow>>
  BY DEF CsUpdateFails, NoPrint
<1>4. got \in Nat
  OBVIOUS
<1> DEFINE lst == Handled(n, got)
<1>5. /\ FramesOK(lst) /\ Closed(lst) /\ Remembered(lst, csFirst') /\ IsStack(Chains(n), lst)
  BY <1>2, <1>4, HandledIs
<1>6. gdb_frame_lst' = lst /\ callstack' = Chains(n)
  BY <1>2 DEF Chains
<1> HIDE DEF lst
<1>7. IsCsStack(csStack) /\ FramesLead(line_frames, cs_line_vars, csShown)
  BY Zenon DEF CsInv
<1>8. IsCsStack(csStack') /\ FramesLead(line_frames', cs_line_vars', csShown')
  BY <1>3, <1>7
<1>9. /\ FramesOK(gdb_frame_lst') /\ Closed(gdb_frame_lst') /\ Remembered(gdb_frame_lst', csFirst')
      /\ IsStack(callstack', gdb_frame_lst') /\ ~csFresh'
  BY <1>3, <1>5, <1>6
<1> QED BY <1>8, <1>9, Zenon DEF CsInv

LEMMA CsFoldKeeps ==
    ASSUME CsInv, NEW n, CsFold(n)
    PROVE  CsInv'
<1> DEFINE lst == gdb_frame_lst
           now == gdb_frame_lst'
<1>1. /\ IsCsStack(csStack) /\ FramesOK(lst) /\ Closed(lst) /\ Remembered(lst, csFirst)
      /\ IsStack(callstack, lst) /\ FramesLead(line_frames, cs_line_vars, csShown)
      /\ csFresh => csWindow /\ callstack = Chains(Len(csStack))
  BY Zenon DEF CsInv
<1>2. UNCHANGED <<csStack, csCalls, callstack, csWindow, csFresh, csFirst>>
  BY DEF CsFold
<1>3. /\ DOMAIN now = DOMAIN lst
      /\ \A c \in DOMAIN lst : IsKnown(now[c]) /\ now[c].line = lst[c].line /\ now[c].call = lst[c].call
  <2>1. CASE UNCHANGED gdb_frame_lst
    BY <1>1, <2>1 DEF FramesOK
  <2>2. ASSUME NEW chain, now = [lst EXCEPT ![chain].expanded = ~@]
        PROVE  /\ DOMAIN now = DOMAIN lst
               /\ \A c \in DOMAIN lst :
                     IsKnown(now[c]) /\ now[c].line = lst[c].line /\ now[c].call = lst[c].call
    <3>1. DOMAIN now = DOMAIN lst
      BY <2>2
    <3>2. ASSUME NEW c \in DOMAIN lst
          PROVE  IsKnown(now[c]) /\ now[c].line = lst[c].line /\ now[c].call = lst[c].call
      <4>1. now[c] = lst[c] \/ now[c] = [lst[c] EXCEPT !.expanded = ~@]
        BY <2>2
      <4>2. {"line", "call", "got", "expanded"} \subseteq DOMAIN lst[c] /\ lst[c].got \in Nat
        BY <1>1 DEF FramesOK, IsKnown
      <4> QED BY <4>1, <4>2 DEF IsKnown
    <3> QED BY <3>1, <3>2
  <2>3. UNCHANGED gdb_frame_lst \/ \E chain : now = [lst EXCEPT ![chain].expanded = ~@]
    BY Zenon DEF CsFold
  <2> HIDE DEF now, lst
  <2> QED BY <2>1, <2>2, <2>3
<1>4. FramesOK(now) /\ Closed(now) /\ Remembered(now, csFirst) /\ IsStack(callstack, now)
  <2> HIDE DEF now, lst
  <2> QED BY <1>1, <1>3 DEF FramesOK, Closed, Remembered, IsStack
<1>5. CASE csWindow
  <2>1. CsPrint(callstack, now)
    BY <1>5 DEF CsFold
  <2>2. FramesLead(line_frames', cs_line_vars', csShown') /\ StackPrinted(callstack, now, csShown')
    BY <1>4, <2>1, CsPrinted
  <2>3. /\ IsCsStack(csStack') /\ Remembered(now, csFirst') /\ IsStack(callstack', now)
        /\ StackPrinted(callstack', now, csShown') /\ Chains(Len(csStack))' = Chains(Len(csStack))
    BY <1>1, <1>2, <1>4, <2>2 DEF Chains, Chain
  <2>4. csFresh' => csWindow' /\ callstack' = Chains(Len(csStack))'
    BY <1>1, <1>2, <2>3
  <2> QED BY <1>4, <2>2, <2>3, <2>4, Zenon DEF CsInv
<1>6. CASE ~csWindow
  <2>1. UNCHANGED <<line_frames, cs_line_vars, csShown>>
    BY <1>6 DEF CsFold, NoPrint
  <2>2. ~csFresh'
    BY <1>1, <1>2, <1>6
  <2>3. /\ IsCsStack(csStack') /\ Remembered(now, csFirst') /\ IsStack(callstack', now)
        /\ FramesLead(line_frames', cs_line_vars', csShown')
    BY <1>1, <1>2, <1>4, <2>1
  <2> QED BY <1>4, <2>2, <2>3, Zenon DEF CsInv
<1> QED BY <1>5, <1>6

LEMMA TargetMovesKeeps ==
    ASSUME CsInv, NEW stack, IsCsStack(stack), TargetMoves(stack)
    PROVE  CsInv'
<1>1. /\ csStack' = stack /\ ~csFresh'
      /\ UNCHANGED <<gdb_frame_lst, callstack, line_frames, cs_line_vars, csWindow, csShown, csFirst>>
  BY DEF TargetMoves
<1>2. /\ FramesOK(gdb_frame_lst) /\ Closed(gdb_frame_lst) /\ Remembered(gdb_frame_lst, csFirst)
      /\ IsStack(callstack, gdb_frame_lst) /\ FramesLead(line_frames, cs_line_vars, csShown)
  BY Zenon DEF CsInv
<1>3. /\ IsCsStack(csStack')
      /\ FramesOK(gdb_frame_lst') /\ Closed(gdb_frame_lst') /\ Remembered(gdb_frame_lst', csFirst')
      /\ IsStack(callstack', gdb_frame_lst') /\ FramesLead(line_frames', cs_line_vars', csShown')
  BY <1>1, <1>2
<1> QED BY <1>1, <1>3, Zenon DEF CsInv

LEMMA CsInvIsInductive ==
    /\ CsInit => CsInv
    /\ CsInv /\ [CsNext]_csVars => CsInv'
<1>1. ASSUME CsInit PROVE CsInv
  <2>1. IsSeq(<<>>) /\ DOMAIN <<>> = {}
    BY NoneIs
  <2>2. /\ csStack = <<>> /\ gdb_frame_lst = <<>> /\ callstack = <<>> /\ csShown = <<>>
        /\ ~csFresh /\ csFirst = <<>>
    BY <1>1 DEF CsInit
  <2> QED BY <2>1, <2>2 DEF CsInv, IsCsStack, FramesOK, Closed, Remembered, IsStack, FramesLead
<1>2. ASSUME CsInv, CsNext PROVE CsInv'
  <2>0. /\ IsCsStack(csStack) /\ IsSeq(csStack) /\ Len(csStack) \in Nat /\ DOMAIN csStack = 1..Len(csStack)
        /\ \A i \in DOMAIN csStack : "fn" \in DOMAIN csStack[i] /\ csStack[i].fn \in Functions
    BY <1>2, SeqIs DEF CsInv, IsCsStack
  <2>1. CASE CsUpdate
    BY <1>2, <2>1, CsUpdateKeeps
  <2>2. CASE CsUpdateFails
    BY <1>2, <2>2, CsUpdateFailsKeeps
  <2>3. CASE CsSwitchWindow
    <3>1. /\ csShown' = <<>> /\ ~csFresh' /\ DOMAIN csShown' = {}
          /\ UNCHANGED <<csStack, gdb_frame_lst, callstack, line_frames, cs_line_vars, csFirst>>
      BY <2>3, NoneIs DEF CsSwitchWindow
    <3>2. /\ FramesOK(gdb_frame_lst) /\ Closed(gdb_frame_lst) /\ Remembered(gdb_frame_lst, csFirst)
          /\ IsStack(callstack, gdb_frame_lst)
      BY <1>2, Zenon DEF CsInv
    <3>3. /\ IsCsStack(csStack')
          /\ FramesOK(gdb_frame_lst') /\ Closed(gdb_frame_lst') /\ Remembered(gdb_frame_lst', csFirst')
          /\ IsStack(callstack', gdb_frame_lst')
      BY <2>0, <3>1, <3>2
    <3>4. FramesLead(line_frames', cs_line_vars', csShown')
      BY <3>1 DEF FramesLead
    <3> QED BY <3>1, <3>3, <3>4, Zenon DEF CsInv
  <2>4. ASSUME NEW n \in DOMAIN csShown, CsFold(n) PROVE CsInv'
    BY <1>2, <2>4, CsFoldKeeps
  <2>5. ASSUME NEW line \in SrcLines, TargetSteps(line) PROVE CsInv'
    <3> DEFINE stack == [csStack EXCEPT ![Len(csStack)].line = line]
    <3>1. TargetMoves(stack)
      BY <2>5 DEF TargetSteps
    <3>2. DOMAIN stack = DOMAIN csStack /\ stack = [i \in DOMAIN csStack |-> stack[i]]
      OBVIOUS
    <3>3. \A i \in DOMAIN csStack : "fn" \in DOMAIN stack[i] /\ stack[i].fn = csStack[i].fn
      <4> TAKE i \in DOMAIN csStack
      <4>1. stack[i] = csStack[i] \/ stack[i] = [csStack[i] EXCEPT !.line = line]
        OBVIOUS
      <4> QED BY <2>0, <4>1
    <3> HIDE DEF stack
    <3>4. IsSeq(stack)
      BY <2>0, <3>2, SameDomain
    <3>5. IsCsStack(stack)
      BY <2>0, <3>2, <3>3, <3>4 DEF IsCsStack
    <3> QED BY <1>2, <3>1, <3>5, TargetMovesKeeps
  <2>6. ASSUME NEW fn \in Functions, TargetCalls(fn) PROVE CsInv'
    <3> DEFINE frame == [fn |-> fn, line |-> 1, call |-> csCalls']
               stack == Append(csStack, frame)
    <3>1. TargetMoves(stack)
      BY <2>6 DEF TargetCalls
    <3>2. "fn" \in DOMAIN frame /\ frame.fn = fn
      OBVIOUS
    <3> HIDE DEF frame
    <3>3. /\ IsSeq(stack) /\ DOMAIN stack = 1..(Len(csStack) + 1)
          /\ \A i \in 1..Len(csStack) : stack[i] = csStack[i]
          /\ stack[Len(csStack) + 1] = frame
      BY <2>0, Appended
    <3> HIDE DEF stack
    <3>4. \A i \in 1..(Len(csStack) + 1) : i \in 1..Len(csStack) \/ i = Len(csStack) + 1
      BY <2>0
    <3>5. \A i \in DOMAIN stack : "fn" \in DOMAIN stack[i] /\ stack[i].fn \in Functions
      BY <2>0, <3>2, <3>3, <3>4
    <3> QED BY <1>2, <3>1, <3>3, <3>5, TargetMovesKeeps DEF IsCsStack
  <2>7. CASE TargetReturns
    <3> DEFINE m == Len(csStack) - 1
               stack == SubSeq(csStack, 1, m)
    <3>1. TargetMoves(stack) /\ m \in Nat /\ m <= Len(csStack) /\ m >= 1
      BY <2>0, <2>7 DEF TargetReturns
    <3>2. m - 1 + 1 = m /\ \A i \in 1..m : 1 + i - 1 = i /\ i \in DOMAIN csStack
      BY <2>0
    <3> HIDE DEF m
    <3>3. IsSeq(stack) /\ Len(stack) = m /\ \A i \in 1..m : stack[i] = csStack[1 + i - 1]
      BY <2>0, <3>1, <3>2, SubSeqIs
    <3> HIDE DEF stack
    <3>4. \A i \in DOMAIN stack : "fn" \in DOMAIN stack[i] /\ stack[i].fn \in Functions
      BY <2>0, <3>2, <3>3, SeqIs
    <3> QED BY <1>2, <3>1, <3>3, <3>4, TargetMovesKeeps DEF IsCsStack
  <2> QED BY <1>2, <2>1, <2>2, <2>3, <2>4, <2>5, <2>6, <2>7 DEF CsNext
<1>3. ASSUME CsInv, UNCHANGED csVars PROVE CsInv'
  BY <1>3 DEF CsInv, csVars, Chains, Chain
<1> QED BY <1>1, <1>2, <1>3

(* CsLinesLead: the line of a frame leads to the frame and the line of a variable to  *)
(* the variable, whatever is on the stack, whatever of it gdb could tell, and with    *)
(* any of the frames unfolded.                                                       *)
THEOREM FramesAndVariablesLead == CsSpec => []CsLinesLead
<1>1. CsInv => CsLinesLead
  BY DEF CsInv, CsLinesLead, FramesLead
<1> QED BY <1>1, CsInvIsInductive, PTL DEF CsSpec

(* StackIsShown: after gdb has answered everything the window shows gdb's stack, the *)
(* innermost frame first, with what gdb said of each frame when it was met first.    *)
THEOREM CallstackShown == CsSpec => []StackIsShown
<1>1. ASSUME CsInv PROVE StackIsShown
  <2>1. /\ IsCsStack(csStack) /\ Closed(gdb_frame_lst) /\ Remembered(gdb_frame_lst, csFirst)
        /\ IsStack(callstack, gdb_frame_lst)
        /\ csFresh => callstack = Chains(Len(csStack)) /\ StackPrinted(callstack, gdb_frame_lst, csShown)
    BY <1>1, Zenon DEF CsInv
  <2>2. Len(csStack) \in Nat /\ DOMAIN csStack = 1..Len(csStack)
    BY <2>1, SeqIs DEF IsCsStack
  <2>3. FramesShown = FrameLines(csShown)
    BY DEF FramesShown, FrameLines
  <2>4. ASSUME csFresh
        PROVE  /\ Len(FramesShown) = Len(csStack)
               /\ \A i \in DOMAIN csStack :
                     LET l == FramesShown[Len(csStack) - i + 1] IN
                     /\ l.chain = [k \in 1..i |-> csStack[k].fn]
                     /\ l.line = csFirst[l.chain].line /\ l.call = csFirst[l.chain].call
    <3> DEFINE s == callstack
    <3>1. s = [i \in 1..Len(csStack) |-> Chain(i)] /\ IsSeq(s)
      BY <2>1, <2>4 DEF Chains, IsStack
    <3>2. Len(s) = Len(csStack) /\ \A i \in 1..Len(csStack) : s[i] = Chain(i) /\ i \in DOMAIN s
      <4>1. \A i \in 1..Len(csStack) : s[i] = Chain(i) /\ i \in DOMAIN s
        BY <3>1
      <4>2. s = [i \in 1..Len(csStack) |-> s[i]]
        BY <3>1
      <4> HIDE DEF s
      <4>3. Len(s) = Len(csStack)
        BY <2>2, <4>2, MadeSeq
      <4> QED BY <4>1, <4>3
    <3> HIDE DEF s
    <3>3. /\ Len(FrameLines(csShown)) = Len(s)
          /\ \A i \in 1..Len(s) :
                LET l == FrameLines(csShown)[Len(s) - i + 1] IN
                /\ l.chain = s[i] /\ l.line = gdb_frame_lst[s[i]].line
                /\ l.call = gdb_frame_lst[s[i]].call
      BY <2>1, <2>4, Zenon DEF StackPrinted, s
    <3>4. ASSUME NEW i \in DOMAIN csStack
          PROVE  LET l == FramesShown[Len(csStack) - i + 1] IN
                 /\ l.chain = [k \in 1..i |-> csStack[k].fn]
                 /\ l.line = csFirst[l.chain].line /\ l.call = csFirst[l.chain].call
      <4> DEFINE l == FramesShown[Len(csStack) - i + 1]
      <4>1. /\ l.chain = s[i] /\ l.line = gdb_frame_lst[s[i]].line
            /\ l.call = gdb_frame_lst[s[i]].call
        BY <2>2, <2>3, <3>2, <3>3
      <4> HIDE DEF l
      <4>2. s[i] = Chain(i) /\ s[i] \in DOMAIN gdb_frame_lst
        BY <2>1, <2>2, <3>2 DEF IsStack, s
      <4>3. csFirst[s[i]].line = gdb_frame_lst[s[i]].line /\ csFirst[s[i]].call = gdb_frame_lst[s[i]].call
        BY <2>1, <4>2 DEF Remembered
      <4>4. l.chain = [k \in 1..i |-> csStack[k].fn]
        BY <4>1, <4>2 DEF Chain
      <4>5. /\ l.chain = [k \in 1..i |-> csStack[k].fn]
            /\ l.line = csFirst[l.chain].line /\ l.call = csFirst[l.chain].call
        BY <4>1, <4>3, <4>4
      <4> QED BY <4>5 DEF l
    <3> QED BY <2>3, <3>2, <3>3, <3>4
  <2>5. \A chain \in DOMAIN gdb_frame_lst :
            \A k \in 1..(Len(chain) - 1) : SubSeq(chain, 1, k) \in DOMAIN gdb_frame_lst
    BY <2>1 DEF Closed
  <2> QED BY <2>4, <2>5, Zenon DEF StackIsShown
<1> QED BY <1>1, CsInvIsInductive, PTL DEF CsSpec
==============================================================================
