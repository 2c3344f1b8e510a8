------------------------------ MODULE TextProofs ------------------------------
(***************************************************************************)
(* What sequences, the lines of a window (LineMap) and texts (Strings) are *)
(* for any length, and theorems about texts: the allotted arguments, text  *)
(* that is quoted and escaped, numbers and the bytes of a value.           *)
(*                                                                         *)
(* LineOf, FlattenSeq, ScanArg, Arguments, Copied, Powers and ValueOf are  *)
(* recursive functions.  That each exists, and what it returns, is shown   *)
(* by induction: positions for which it fails would have a least, or a     *)
(* greatest (LeastNumber, GreatestNumber).                                 *)
(***************************************************************************)
EXTENDS Strings, LineMap, SequenceTheorems, WellFoundedInduction, TLAPS

(* Induction: a set of numbers, here those for which something fails, has a least. *)
LEMMA LeastNumber ==
    ASSUME NEW S \in SUBSET Nat, S # {}
    PROVE  \E m \in S : \A k \in S : m <= k
<1>1. PICK m \in S : \A k \in S : <<k, m>> \notin OpToRel(<, Nat)
  BY WFMin, NatLessThanWellFounded, Zenon
<1>2. \A k \in S : ~(k < m)
  BY <1>1, Zenon DEF OpToRel
<1> QED BY <1>2

(* The same from above: a set of positions has a greatest. *)
LEMMA GreatestNumber ==
    ASSUME NEW n \in Nat, NEW S \in SUBSET (0..n), S # {}
    PROVE  \E m \in S : \A k \in S : k <= m
<1> DEFINE T == {n - k : k \in S}
<1>1. T \in SUBSET Nat /\ T # {}
  <2>1. \A k \in S : n - k \in Nat
    OBVIOUS
  <2> QED BY <2>1
<1>2. PICK t \in T : \A k \in T : t <= k
  BY <1>1, LeastNumber
<1>3. PICK m \in S : t = n - m
  BY <1>2
<1>4. \A k \in S : n - k \in T /\ k \in 0..n
  OBVIOUS
<1>5. \A k \in S : n - m <= n - k
  BY <1>2, <1>3, <1>4
<1> QED BY <1>3, <1>4, <1>5

------------------------------------------------------------------------------
(* Sequences *)

IsSeq(s) == s \in Seq(Range(s))

LEMMA SeqIs ==
    ASSUME NEW s, IsSeq(s)
    PROVE  Len(s) \in Nat /\ DOMAIN s = 1..Len(s)
  BY LenProperties DEF IsSeq

LEMMA MadeSeq ==
    ASSUME NEW n \in Nat, NEW f, f = [i \in 1..n |-> f[i]]
    PROVE  IsSeq(f) /\ Len(f) = n
<1>1. \A i \in 1..n : f[i] \in Range(f)
  BY DEF Range
<1>2. f \in [1..n -> Range(f)]
  BY <1>1
<1>3. f \in Seq(Range(f))
  BY <1>2, SeqDef
<1>4. DOMAIN f = 1..n
  BY <1>2
<1> HIDE DEF IsSeq
<1>5. Len(f) \in Nat /\ DOMAIN f = 1..Len(f)
  BY <1>3, LenProperties
<1>6. Len(f) = n
  BY <1>4, <1>5
<1> QED BY <1>3, <1>6 DEF IsSeq

(* c is the sequence a with b appended, element by element. *)
Joined(a, b, c) ==
    /\ IsSeq(c)
    /\ Len(a) \in Nat /\ Len(b) \in Nat /\ Len(c) = Len(a) + Len(b)
    /\ DOMAIN a = 1..Len(a) /\ DOMAIN b = 1..Len(b)
    /\ DOMAIN c = 1..(Len(a) + Len(b))
    /\ \A i \in DOMAIN a : c[i] = a[i]
    /\ \A i \in DOMAIN b : c[Len(a) + i] = b[i]

LEMMA Together ==
    ASSUME NEW a, NEW b, IsSeq(a), IsSeq(b)
    PROVE  Joined(a, b, a \o b)
<1> DEFINE S == Range(a) \union Range(b)
           c == a \o b
<1>1. a \in Seq(S) /\ b \in Seq(S)
  BY SeqMonotonic DEF IsSeq
<1> HIDE DEF S
<1>2. /\ c \in Seq(S) /\ Len(c) = Len(a) + Len(b)
      /\ \A i \in 1 .. Len(a) + Len(b) : c[i] = IF i <= Len(a) THEN a[i] ELSE b[i - Len(a)]
  BY <1>1, ConcatProperties
<1> HIDE DEF c
<1>3. /\ Len(a) \in Nat /\ Len(b) \in Nat
      /\ DOMAIN a = 1..Len(a) /\ DOMAIN b = 1..Len(b) /\ DOMAIN c = 1..Len(c)
  BY <1>1, <1>2, LenProperties
<1>4. IsSeq(c)
  BY <1>2, SeqOfRange DEF IsSeq
<1>5. \A i \in DOMAIN a : c[i] = a[i]
  BY <1>2, <1>3
<1>6. \A i \in DOMAIN b : c[Len(a) + i] = b[i]
  BY <1>2, <1>3
<1>7. Joined(a, b, c)
  BY <1>2, <1>3, <1>4, <1>5, <1>6 DEF Joined
<1> QED BY <1>7 DEF c

(* An element behind a sequence. *)
LEMMA Appended ==
    ASSUME NEW s, IsSeq(s), NEW x
    PROVE  /\ IsSeq(Append(s, x)) /\ Len(Append(s, x)) = Len(s) + 1 /\ Len(s) \in Nat
           /\ DOMAIN Append(s, x) = 1..(Len(s) + 1)
           /\ \A i \in 1..Len(s) : Append(s, x)[i] = s[i]
           /\ Append(s, x)[Len(s) + 1] = x
<1> DEFINE S == Range(s) \union {x}
           a == Append(s, x)
<1>1. s \in Seq(S) /\ x \in S
  BY SeqMonotonic DEF IsSeq
<1> HIDE DEF S
<1>2. \A T : \A q \in Seq(T), e \in T :
          /\ Append(q, e) \in Seq(T) /\ Len(Append(q, e)) = Len(q) + 1
          /\ \A i \in 1..Len(q) : Append(q, e)[i] = q[i]
          /\ Append(q, e)[Len(q) + 1] = e
  BY AppendProperties
<1>3. /\ a \in Seq(S) /\ Len(a) = Len(s) + 1
      /\ \A i \in 1..Len(s) : a[i] = s[i]
      /\ a[Len(s) + 1] = x
  BY <1>1, <1>2
<1> HIDE DEF a
<1>4. Len(s) \in Nat /\ DOMAIN a = 1..Len(a)
  BY <1>1, <1>3, LenProperties
<1>5. IsSeq(a)
  BY <1>3, SeqOfRange DEF IsSeq
<1> QED BY <1>3, <1>4, <1>5 DEF a

(* A part of a sequence. *)
LEMMA SubSeqIs ==
    ASSUME NEW s, IsSeq(s), NEW m \in Nat, m >= 1, NEW n \in Nat, n <= Len(s)
    PROVE  /\ IsSeq(SubSeq(s, m, n))
           /\ Len(SubSeq(s, m, n)) = IF m <= n THEN n - m + 1 ELSE 0
           /\ \A i \in 1..(n - m + 1) : SubSeq(s, m, n)[i] = s[m + i - 1]
<1>1. Len(s) \in Nat /\ DOMAIN s = 1..Len(s)
  BY SeqIs
<1>2. \A i \in m..n : s[i] \in Range(s)
  BY <1>1 DEF Range
<1> DEFINE t == SubSeq(s, m, n)
<1>3. /\ t \in Seq(Range(s)) /\ Len(t) = IF m <= n THEN n - m + 1 ELSE 0
      /\ \A i \in 1 .. n - m + 1 : t[i] = s[m + i - 1]
  BY <1>2, SubSeqProperties
<1> HIDE DEF t
<1>4. IsSeq(t)
  BY <1>3, SeqOfRange DEF IsSeq
<1> QED BY <1>3, <1>4 DEF t

(* One element is taken out. *)
LEMMA Removed ==
    ASSUME NEW s, IsSeq(s), NEW i \in DOMAIN s
    PROVE  /\ IsSeq(RemoveAt(s, i))
           /\ DOMAIN RemoveAt(s, i) = 1..(Len(s) - 1)
           /\ \A k \in 1..(Len(s) - 1) : RemoveAt(s, i)[k] = IF k < i THEN s[k] ELSE s[k + 1]
<1> DEFINE a == SubSeq(s, 1, i - 1)
           b == SubSeq(s, i + 1, Len(s))
           c == RemoveAt(s, i)
<1>1. Len(s) \in Nat /\ DOMAIN s = 1..Len(s) /\ i \in 1..Len(s)
  BY SeqIs
<1>2. IsSeq(a) /\ Len(a) = i - 1 /\ \A k \in 1..(i - 1) : a[k] = s[k]
  <2>1. /\ IsSeq(a) /\ Len(a) = IF 1 <= i - 1 THEN (i - 1) - 1 + 1 ELSE 0
        /\ \A k \in 1..((i - 1) - 1 + 1) : a[k] = s[1 + k - 1]
    <3>1. 1 \in Nat /\ 1 >= 1 /\ i - 1 \in Nat /\ i - 1 <= Len(s)
      BY <1>1
    <3> QED BY <3>1, SubSeqIs, ZenonT(40)
  <2> HIDE DEF a
  <2> QED BY <1>1, <2>1
<1>3. IsSeq(b) /\ Len(b) = Len(s) - i /\ \A k \in 1..(Len(s) - i) : b[k] = s[i + k]
  <2>1. /\ IsSeq(b) /\ Len(b) = IF i + 1 <= Len(s) THEN Len(s) - (i + 1) + 1 ELSE 0
        /\ \A k \in 1..(Len(s) - (i + 1) + 1) : b[k] = s[(i + 1) + k - 1]
    <3>1. i + 1 \in Nat /\ i + 1 >= 1 /\ Len(s) \in Nat /\ Len(s) <= Len(s)
      BY <1>1
    <3> QED BY <3>1, SubSeqIs, Zenon
  <2> HIDE DEF b
  <2> QED BY <1>1, <2>1
<1> HIDE DEF a, b
<1>4. Joined(a, b, c)
  BY <1>2, <1>3, Together DEF RemoveAt, a, b
<1> HIDE DEF c
<1>5. DOMAIN c = 1..(Len(s) - 1) /\ IsSeq(c)
  BY <1>1, <1>2, <1>3, <1>4 DEF Joined
<1>6. ASSUME NEW k \in 1..(Len(s) - 1) PROVE c[k] = IF k < i THEN s[k] ELSE s[k + 1]
  <2>1. CASE k < i
    BY <1>1, <1>2, <1>4, <2>1 DEF Joined
  <2>2. CASE ~(k < i)
    <3>1. k - (i - 1) \in 1..(Len(s) - i) /\ (i - 1) + (k - (i - 1)) = k /\ i + (k - (i - 1)) = k + 1
      BY <1>1, <2>2
    <3>2. c[(i - 1) + (k - (i - 1))] = b[k - (i - 1)]
      BY <1>2, <1>3, <1>4, <3>1 DEF Joined
    <3>3. b[k - (i - 1)] = s[i + (k - (i - 1))]
      BY <1>3, <3>1
    <3> QED BY <2>2, <3>1, <3>2, <3>3
  <2> QED BY <2>1, <2>2
<1> QED BY <1>5, <1>6 DEF c

(* The sequence of one element, the empty one, and one the other way round. *)
LEMMA OneIs ==
    ASSUME NEW x
    PROVE  IsSeq(<<x>>) /\ Len(<<x>>) = 1 /\ <<x>>[1] = x /\ DOMAIN <<x>> = 1..1
<1>1. <<x>> = [i \in 1..1 |-> <<x>>[i]] /\ <<x>>[1] = x
  OBVIOUS
<1> QED BY <1>1, MadeSeq

LEMMA NoneIs == IsSeq(<<>>) /\ Len(<<>>) = 0 /\ DOMAIN <<>> = {}
  BY EmptySeq DEF IsSeq

LEMMA ReverseIs ==
    ASSUME NEW s, IsSeq(s)
    PROVE  /\ IsSeq(Reverse(s)) /\ Len(Reverse(s)) = Len(s) /\ DOMAIN Reverse(s) = 1..Len(s)
           /\ \A i \in 1..Len(s) : /\ Reverse(s)[i] = s[Len(s) - i + 1]
                                   /\ Len(s) - i + 1 \in DOMAIN s
                                   /\ Reverse(s)[Len(s) - i + 1] = s[i]
                                   /\ Len(s) - i + 1 \in 1..Len(s)
<1>1. Len(s) \in Nat /\ DOMAIN s = 1..Len(s)
  BY SeqIs
<1> DEFINE r == Reverse(s)
<1>2. r = [i \in 1..Len(s) |-> r[i]] /\ \A i \in 1..Len(s) : r[i] = s[Len(s) - i + 1]
  BY DEF Reverse
<1> HIDE DEF r
<1>3. IsSeq(r) /\ Len(r) = Len(s) /\ DOMAIN r = 1..Len(s)
  BY <1>1, <1>2, MadeSeq, SeqIs
<1>4. ASSUME NEW i \in 1..Len(s)
      PROVE  Len(s) - i + 1 \in 1..Len(s) /\ Len(s) - (Len(s) - i + 1) + 1 = i
  BY <1>1
<1>5. \A i \in 1..Len(s) : r[Len(s) - i + 1] = s[i]
  BY <1>2, <1>4
<1> QED BY <1>1, <1>2, <1>3, <1>4, <1>5 DEF r

(* Sequences are the same when their elements are. *)
LEMMA SameSeq ==
    ASSUME NEW s, IsSeq(s), NEW t, IsSeq(t), Len(s) = Len(t), \A i \in 1..Len(s) : s[i] = t[i]
    PROVE  s = t
<1> DEFINE S == Range(s) \union Range(t)
<1>1. s \in Seq(S) /\ t \in Seq(S)
  BY SeqMonotonic DEF IsSeq
<1> HIDE DEF S
<1> QED BY <1>1, SeqEqual

(* A character in front of a sequence. *)
LEMMA InFront ==
    ASSUME NEW x, NEW t, IsSeq(t)
    PROVE  /\ IsSeq(<<x>> \o t) /\ Len(<<x>> \o t) = Len(t) + 1 /\ Len(t) \in Nat
           /\ (<<x>> \o t)[1] = x /\ \A i \in 1..Len(t) : (<<x>> \o t)[i + 1] = t[i]
<1> DEFINE o == <<x>>
           c == o \o t
<1>1. IsSeq(o) /\ Len(o) = 1 /\ o[1] = x
  BY OneIs
<1> HIDE DEF o
<1>2. Joined(o, t, c)
  BY <1>1, Together
<1> HIDE DEF c
<1>3. /\ IsSeq(c) /\ Len(t) \in Nat /\ Len(c) = 1 + Len(t)
      /\ \A i \in 1..1 : c[i] = o[i]
      /\ \A i \in 1..Len(t) : c[1 + i] = t[i]
  BY <1>1, <1>2 DEF Joined
<1>4. c[1] = x /\ \A i \in 1..Len(t) : c[i + 1] = t[i]
  BY <1>1, <1>3
<1>5. Len(c) = Len(t) + 1
  BY <1>3
<1> QED BY <1>3, <1>4, <1>5 DEF c, o

------------------------------------------------------------------------------
(* The lines on which the parts of a window begin *)

IsLines(l, h, n) == l = [k \in 1..n |-> IF k = 1 THEN 1 ELSE l[k - 1] + h[k - 1]]

(* There is such a function for any number of parts. *)
LEMMA LinesExist ==
    ASSUME NEW h, NEW n \in Nat
    PROVE  \E l : IsLines(l, h, n)
<1> DEFINE Bad == {k \in Nat : ~ \E l : IsLines(l, h, k)}
<1>1. SUFFICES ASSUME Bad # {} PROVE FALSE
  OBVIOUS
<1>2. PICK m \in Bad : \A k \in Bad : m <= k
  BY <1>1, LeastNumber, Zenon
<1>3. m \in Nat /\ ~ \E l : IsLines(l, h, m)
  OBVIOUS
<1>4. m # 0
  <2>1. IsLines(<<>>, h, 0)
    BY DEF IsLines
  <2> QED BY <1>3, <2>1
<1>5. m - 1 \in Nat /\ ~(m <= m - 1)
  BY <1>3, <1>4
<1>6. PICK l : IsLines(l, h, m - 1)
  BY <1>2, <1>5
<1> HIDE DEF Bad
<1> DEFINE g == [k \in 1..m |-> IF k = 1 THEN 1 ELSE l[k - 1] + h[k - 1]]
<1>7. l = [k \in 1..(m - 1) |-> IF k = 1 THEN 1 ELSE l[k - 1] + h[k - 1]]
  BY <1>6, Zenon DEF IsLines
<1>8. \A k \in 1..(m - 1) : g[k] = l[k]
  BY <1>3, <1>7
<1>9. \A k \in 1..m : k # 1 => k - 1 \in 1..(m - 1)
  BY <1>3
<1>10. \A k \in 1..m : g[k] = IF k = 1 THEN 1 ELSE g[k - 1] + h[k - 1]
  BY <1>8, <1>9
<1>11. IsLines(g, h, m)
  BY <1>10 DEF IsLines
<1> QED BY <1>3, <1>11

LEMMA LinesAgree ==
    ASSUME NEW h, NEW n \in Nat, NEW m \in Nat, NEW l, NEW g, IsLines(l, h, n), IsLines(g, h, m)
    PROVE  \A k \in 1..n : k <= m => l[k] = g[k]
<1> DEFINE Bad == {k \in 1..n : k <= m /\ l[k] # g[k]}
<1>1. SUFFICES ASSUME Bad # {} PROVE FALSE
  OBVIOUS
<1>2. PICK b \in Bad : \A k \in Bad : b <= k
  <2>1. Bad \in SUBSET Nat
    OBVIOUS
  <2> HIDE DEF Bad
  <2> QED BY <1>1, <2>1, LeastNumber, Zenon
<1>3. /\ b \in Nat /\ 1 <= b /\ b <= n /\ b <= m /\ l[b] # g[b]
      /\ \A k \in 1..n : k <= m /\ l[k] # g[k] => b <= k
  BY <1>2
<1> HIDE DEF Bad
<1>4. /\ l[b] = IF b = 1 THEN 1 ELSE l[b - 1] + h[b - 1]
      /\ g[b] = IF b = 1 THEN 1 ELSE g[b - 1] + h[b - 1]
  BY <1>3 DEF IsLines
<1>5. b # 1
  BY <1>3, <1>4
<1>6. l[b - 1] = g[b - 1]
  BY <1>3, <1>5
<1> QED BY <1>3, <1>4, <1>6

LEMMA LineOfIs ==
    ASSUME NEW h, NEW i \in Nat, i # 0, NEW n \in Nat, i <= n, NEW l, IsLines(l, h, n)
    PROVE  LineOf(h, i) = l[i]
<1> DEFINE g == CHOOSE g : g = [k \in 1..i |-> IF k = 1 THEN 1 ELSE g[k - 1] + h[k - 1]]
<1>1. g = [k \in 1..i |-> IF k = 1 THEN 1 ELSE g[k - 1] + h[k - 1]]
  BY LinesExist, Zenon DEF IsLines
<1>2. LineOf(h, i) = g[i]
  BY DEF LineOf
<1> HIDE DEF g
<1>3. IsLines(g, h, i)
  BY <1>1, Zenon DEF IsLines
<1>4. g[i] = l[i]
  BY <1>3, LinesAgree
<1> QED BY <1>2, <1>4

(* The first line, and the line below a part. *)
LEMMA LineSteps ==
    ASSUME NEW h
    PROVE  /\ LineOf(h, 1) = 1
           /\ \A i \in Nat : i # 0 => LineOf(h, i + 1) = LineOf(h, i) + h[i]
<1>1. PICK l : IsLines(l, h, 1)
  BY LinesExist
<1>2. LineOf(h, 1) = 1
  <2>1. LineOf(h, 1) = l[1]
    BY <1>1, LineOfIs
  <2>2. l[1] = 1
    BY <1>1 DEF IsLines
  <2> QED BY <2>1, <2>2
<1>3. ASSUME NEW i \in Nat, i # 0 PROVE LineOf(h, i + 1) = LineOf(h, i) + h[i]
  <2>1. PICK g : IsLines(g, h, i + 1)
    BY LinesExist
  <2>2. LineOf(h, i) = g[i] /\ LineOf(h, i + 1) = g[i + 1]
    BY <1>3, <2>1, LineOfIs
  <2>3. g[i + 1] = g[i] + h[i]
    BY <1>3, <2>1 DEF IsLines
  <2> QED BY <2>2, <2>3
<1> QED BY <1>2, <1>3

(* Parts follow each other and do not overlap. *)
LEMMA LinesAscend ==
    ASSUME NEW n \in Nat, NEW h, \A i \in 1..n : h[i] \in Nat
    PROVE  /\ \A i \in 1..n : LineOf(h, i) \in Nat /\ LineOf(h, i) >= 1
           /\ \A i, j \in 1..n : i < j => LineOf(h, i) + h[i] <= LineOf(h, j)
<1> DEFINE L(i) == LineOf(h, i)
           Fine(j) == /\ L(j) \in Nat /\ L(j) >= 1
                      /\ \A i \in 1..n : i < j => L(i) \in Nat /\ L(i) + h[i] <= L(j)
           Bad == {j \in 1..n : ~Fine(j)}
<1>1. L(1) = 1 /\ \A i \in Nat : i # 0 => L(i + 1) = L(i) + h[i]
  BY LineSteps
<1> HIDE DEF L
<1>2. Bad = {}
  <2> SUFFICES ASSUME Bad # {} PROVE FALSE
    OBVIOUS
  <2>1. PICK b \in Bad : \A k \in Bad : b <= k
    <3>1. Bad \in SUBSET Nat
      OBVIOUS
    <3> HIDE DEF Bad
    <3> QED BY <3>1, LeastNumber, Zenon
  <2>2. b \in Nat /\ 1 <= b /\ b <= n /\ ~Fine(b) /\ \A j \in 1..n : j < b => Fine(j)
    BY <2>1
  <2> HIDE DEF Bad
  <2>3. b # 1
    BY <1>1, <2>2
  <2>4. b - 1 \in 1..n /\ b - 1 < b /\ b - 1 # 0 /\ b - 1 \in Nat /\ (b - 1) + 1 = b
    BY <2>2, <2>3
  <2>5. Fine(b - 1)
    BY <2>2, <2>4
  <2>6. L(b) = L(b - 1) + h[b - 1] /\ h[b - 1] \in Nat
    BY <1>1, <2>4
  <2>7. L(b) \in Nat /\ L(b) >= 1 /\ L(b - 1) <= L(b) /\ L(b - 1) \in Nat
    BY <2>5, <2>6
  <2>8. ASSUME NEW i \in 1..n, i < b PROVE L(i) \in Nat /\ L(i) + h[i] <= L(b)
    <3>1. CASE i = b - 1
      BY <3>1, <2>6, <2>7
    <3>2. CASE i # b - 1
      <4>1. i < b - 1
        BY <2>2, <2>8, <3>2
      <4>2. L(i) \in Nat /\ L(i) + h[i] <= L(b - 1) /\ h[i] \in Nat
        BY <2>5, <4>1
      <4> QED BY <2>7, <4>2
    <3> QED BY <3>1, <3>2
  <2> QED BY <2>2, <2>7, <2>8
<1>3. \A j \in 1..n : Fine(j)
  BY <1>2
<1>4. \A i \in 1..n : L(i) \in Nat /\ L(i) >= 1
  BY <1>3
<1>5. \A i, j \in 1..n : i < j => L(i) + h[i] <= L(j)
  BY <1>3
<1> QED BY <1>4, <1>5 DEF L

------------------------------------------------------------------------------
(* Parts printed one below the other *)

Parts(s) == IsSeq(s) /\ \A i \in DOMAIN s : IsSeq(s[i])

IsFlat(f, s, n) == f = [i \in 1..n |-> IF i = 1 THEN s[i] ELSE f[i - 1] \o s[i]]

LEMMA FlatExists ==
    ASSUME NEW s, NEW n \in Nat
    PROVE  \E f : IsFlat(f, s, n)
<1> DEFINE Bad == {k \in Nat : ~ \E f : IsFlat(f, s, k)}
<1>1. SUFFICES ASSUME Bad # {} PROVE FALSE
  OBVIOUS
<1>2. PICK m \in Bad : \A k \in Bad : m <= k
  BY <1>1, LeastNumber, Zenon
<1>3. m \in Nat /\ ~ \E f : IsFlat(f, s, m)
  OBVIOUS
<1>4. m # 0
  <2>1. IsFlat(<<>>, s, 0)
    BY DEF IsFlat
  <2> QED BY <1>3, <2>1
<1>5. m - 1 \in Nat /\ ~(m <= m - 1)
  BY <1>3, <1>4
<1>6. PICK f : IsFlat(f, s, m - 1)
  BY <1>2, <1>5
<1> HIDE DEF Bad
<1> DEFINE g == [i \in 1..m |-> IF i = 1 THEN s[i] ELSE f[i - 1] \o s[i]]
<1>7. f = [i \in 1..(m - 1) |-> IF i = 1 THEN s[i] ELSE f[i - 1] \o s[i]]
  BY <1>6, Zenon DEF IsFlat
<1>8. \A k \in 1..(m - 1) : g[k] = f[k]
  <2>1. \A k \in 1..(m - 1) : k \in 1..m
    BY <1>3
  <2>2. \A k \in 1..(m - 1) : f[k] = IF k = 1 THEN s[k] ELSE f[k - 1] \o s[k]
    BY <1>7, Zenon
  <2> QED BY <2>1, <2>2, Zenon
<1>9. \A k \in 1..m : k # 1 => k - 1 \in 1..(m - 1)
  BY <1>3
<1>10. \A k \in 1..m : g[k] = IF k = 1 THEN s[k] ELSE g[k - 1] \o s[k]
  BY <1>8, <1>9
<1>11. IsFlat(g, s, m)
  BY <1>10 DEF IsFlat
<1> QED BY <1>3, <1>11

LEMMA FlatIs ==
    ASSUME NEW s, Len(s) \in Nat, Len(s) # 0
    PROVE  \E f : IsFlat(f, s, Len(s)) /\ FlattenSeq(s) = f[Len(s)]
<1> DEFINE f == CHOOSE f : f = [i \in 1..Len(s) |-> IF i = 1 THEN s[i] ELSE f[i - 1] \o s[i]]
<1>1. f = [i \in 1..Len(s) |-> IF i = 1 THEN s[i] ELSE f[i - 1] \o s[i]]
  BY FlatExists, Zenon DEF IsFlat
<1>2. FlattenSeq(s) = f[Len(s)]
  BY DEF FlattenSeq
<1> HIDE DEF f
<1>3. IsFlat(f, s, Len(s))
  BY <1>1, Zenon DEF IsFlat
<1> QED BY <1>2, <1>3

(* The first m parts, put together: where each of their elements is. *)
PartsAt(f, s, h, m) ==
    /\ IsSeq(f)
    /\ Len(f) = LineOf(h, m) + h[m] - 1
    /\ \A i \in 1..m : \A k \in 1..h[i] :
          LineOf(h, i) + k - 1 \in 1..Len(f) /\ f[LineOf(h, i) + k - 1] = s[i][k]
    /\ \A n \in 1..Len(f) : \E i \in 1..m : \E k \in 1..h[i] : n = LineOf(h, i) + k - 1

LEMMA FlatParts ==
    ASSUME NEW s, Parts(s), NEW h, \A i \in DOMAIN s : h[i] = Len(s[i]),
           NEW f, IsFlat(f, s, Len(s))
    PROVE  \A m \in DOMAIN s : PartsAt(f[m], s, h, m)
<1> DEFINE Bad == {m \in DOMAIN s : ~PartsAt(f[m], s, h, m)}
<1>1. Len(s) \in Nat /\ DOMAIN s = 1..Len(s) /\ \A i \in 1..Len(s) : IsSeq(s[i])
  BY SeqIs DEF Parts
<1>2. \A i \in 1..Len(s) : /\ h[i] \in Nat /\ h[i] = Len(s[i]) /\ DOMAIN s[i] = 1..h[i]
                           /\ LineOf(h, i) \in Nat /\ LineOf(h, i) >= 1
  BY <1>1, SeqIs, LinesAscend
<1>3. SUFFICES ASSUME Bad # {} PROVE FALSE
  OBVIOUS
<1>4. PICK b \in Bad : \A k \in Bad : b <= k
  <2>1. Bad \in SUBSET Nat
    BY <1>1
  <2> HIDE DEF Bad
  <2> QED BY <1>3, <2>1, LeastNumber, Zenon
<1>5. /\ b \in 1..Len(s) /\ ~PartsAt(f[b], s, h, b)
      /\ \A m \in 1..Len(s) : m < b => PartsAt(f[m], s, h, m)
  BY <1>1, <1>4
<1> HIDE DEF Bad
<1>6. f[b] = IF b = 1 THEN s[b] ELSE f[b - 1] \o s[b]
  BY <1>1, <1>5 DEF IsFlat
<1>7. CASE b = 1
  <2>1. f[1] = s[1] /\ LineOf(h, 1) = 1 /\ h[1] \in Nat /\ Len(s[1]) = h[1] /\ IsSeq(s[1])
    BY <1>1, <1>2, <1>5, <1>6, <1>7, LineSteps
  <2>2. PartsAt(s[1], s, h, 1)
    BY <2>1 DEF PartsAt
  <2> QED BY <1>5, <1>7, <2>1, <2>2
<1>8. CASE b # 1
  <2> DEFINE a == b - 1
             x == f[a]
             y == f[b]
             z == s[b]
  <2>1. /\ a \in 1..Len(s) /\ a < b /\ a \in Nat /\ a # 0 /\ a + 1 = b /\ b \in Nat
        /\ \A i \in 1..b : i \in 1..a \/ i = b
        /\ 1..a \subseteq 1..b /\ b \in 1..b /\ 1..b \subseteq 1..Len(s)
    BY <1>1, <1>5, <1>8
  <2>2. PartsAt(x, s, h, a) /\ y = x \o z
    BY <1>5, <1>6, <1>8, <2>1
  <2>3. LineOf(h, b) = LineOf(h, a) + h[a]
    BY <2>1, LineSteps
  <2> HIDE DEF x, y, z, a
  <2>4. IsSeq(x) /\ IsSeq(z) /\ Len(z) = h[b] /\ DOMAIN z = 1..h[b] /\ h[b] \in Nat
    BY <1>1, <1>2, <1>5, <2>2 DEF PartsAt, z
  <2>5. Joined(x, z, y)
    BY <2>2, <2>4, Together
  <2>6. Len(x) = LineOf(h, b) - 1 /\ Len(x) \in Nat /\ LineOf(h, b) \in Nat
    BY <1>2, <1>5, <2>1, <2>2, <2>3, <2>5 DEF PartsAt, Joined
  <2>7. IsSeq(y) /\ Len(y) = LineOf(h, b) + h[b] - 1 /\ Len(y) \in Nat /\ Len(y) = Len(x) + h[b]
    BY <2>4, <2>5, <2>6 DEF Joined
  <2>8. ASSUME NEW i \in 1..b, NEW k \in 1..h[i]
        PROVE  LineOf(h, i) + k - 1 \in 1..Len(y) /\ y[LineOf(h, i) + k - 1] = s[i][k]
    <3>1. CASE i = b
      <4>1. LineOf(h, i) + k - 1 = Len(x) + k /\ k \in 1..h[b]
        BY <2>4, <2>6, <3>1
      <4>2. y[Len(x) + k] = z[k]
        BY <2>4, <2>5, <4>1 DEF Joined
      <4>3. Len(x) + k \in 1..Len(y)
        BY <2>4, <2>6, <2>7, <4>1, SMTT(30)
      <4> QED BY <3>1, <4>1, <4>2, <4>3 DEF z
    <3>2. CASE i \in 1..a
      <4>1. /\ LineOf(h, i) + k - 1 \in 1..Len(x)
            /\ x[LineOf(h, i) + k - 1] = s[i][k]
        BY <2>2, <3>2 DEF PartsAt
      <4>2. y[LineOf(h, i) + k - 1] = x[LineOf(h, i) + k - 1]
        BY <2>5, <4>1 DEF Joined
      <4>3. LineOf(h, i) + k - 1 \in 1..Len(y)
        BY <2>4, <2>6, <2>7, <4>1
      <4> QED BY <4>1, <4>2, <4>3
    <3> QED BY <2>1, <3>1, <3>2
  <2>9. ASSUME NEW n \in 1..Len(y)
        PROVE  \E i \in 1..b : \E k \in 1..h[i] : n = LineOf(h, i) + k - 1
    <3>1. CASE n <= Len(x)
      <4>1. n \in 1..Len(x)
        BY <2>6, <2>7, <3>1
      <4>2. PICK i \in 1..a : \E k \in 1..h[i] : n = LineOf(h, i) + k - 1
        BY <2>2, <4>1 DEF PartsAt
      <4> QED BY <2>1, <4>2
    <3>2. CASE n > Len(x)
      <4>1. /\ n \in Int /\ Len(x) \in Int /\ h[b] \in Int /\ LineOf(h, b) = Len(x) + 1
            /\ n > Len(x) /\ n <= Len(x) + h[b]
        BY <2>4, <2>6, <2>7, <3>2
      <4>2. n - Len(x) \in 1..h[b] /\ n = LineOf(h, b) + (n - Len(x)) - 1
        BY <4>1
      <4> QED BY <2>1, <4>2
    <3> QED BY <2>6, <2>7, <3>1, <3>2
  <2>10. PartsAt(y, s, h, b)
    BY <2>7, <2>8, <2>9 DEF PartsAt
  <2> QED BY <1>5, <2>10 DEF y
<1> QED BY <1>7, <1>8

(* Parts one below the other: every line belongs to one of them. *)
Layout(s, h, f) ==
    /\ IsSeq(f)
    /\ \A i \in DOMAIN s : \A k \in 1..h[i] :
          LineOf(h, i) + k - 1 \in DOMAIN f /\ f[LineOf(h, i) + k - 1] = s[i][k]
    /\ \A n \in DOMAIN f : \E i \in DOMAIN s : \E k \in 1..h[i] : n = LineOf(h, i) + k - 1

LEMMA Flattened ==
    ASSUME NEW s, Parts(s), NEW h, \A i \in DOMAIN s : h[i] = Len(s[i])
    PROVE  Layout(s, h, FlattenSeq(s))
<1>1. Len(s) \in Nat /\ DOMAIN s = 1..Len(s) /\ IsSeq(s)
  BY SeqIs DEF Parts
<1>2. CASE Len(s) = 0
  <2>1. FlattenSeq(s) = s /\ DOMAIN s = {}
    BY <1>1, <1>2 DEF FlattenSeq
  <2> QED BY <1>1, <2>1 DEF Layout
<1>3. CASE Len(s) # 0
  <2>1. PICK f : IsFlat(f, s, Len(s)) /\ FlattenSeq(s) = f[Len(s)]
    BY <1>1, <1>3, FlatIs
  <2>2. PartsAt(FlattenSeq(s), s, h, Len(s))
    <3>1. Len(s) \in 1..Len(s)
      BY <1>1, <1>3
    <3>2. PartsAt(f[Len(s)], s, h, Len(s))
      BY <1>1, <2>1, <3>1, FlatParts, SMTT(30)
    <3> QED BY <2>1, <3>2
  <2>3. DOMAIN FlattenSeq(s) = 1..Len(FlattenSeq(s))
    <3>1. IsSeq(FlattenSeq(s))
      BY <2>2, Zenon DEF PartsAt
    <3> QED BY <3>1, SeqIs, Zenon
  <2>4. Len(s) \in 1..Len(s)
    BY <1>1, <1>3
  <2>5. \A i \in 1..Len(s) : \A k \in 1..h[i] :
            /\ LineOf(h, i) + k - 1 \in 1..Len(FlattenSeq(s))
            /\ FlattenSeq(s)[LineOf(h, i) + k - 1] = s[i][k]
    BY <2>2, Zenon DEF PartsAt
  <2>6. \A n \in 1..Len(FlattenSeq(s)) : \E i \in 1..Len(s) : \E k \in 1..h[i] : n = LineOf(h, i) + k - 1
    BY <2>2, Zenon DEF PartsAt
  <2>7. IsSeq(FlattenSeq(s))
    BY <2>2 DEF PartsAt
  <2> QED BY <1>1, <2>3, <2>5, <2>6, <2>7, Zenon DEF Layout
<1> QED BY <1>2, <1>3

------------------------------------------------------------------------------
(* Strings: where an argument ends *)

(* The characters that have a case of their own are different ones. *)
LEMMA CharsDiffer == /\ Quot # Esc /\ Quot # Blank /\ Quot # Newline /\ Quot # "n"
                     /\ Esc # Blank /\ Esc # Newline /\ Esc # "n" /\ Esc \notin {"n", "r", "t"}
                     /\ Newline # "n" /\ Blank \notin {"n", "r", "t"} /\ Quot \notin {"n", "r", "t"}
  BY Zenon DEF Quot, Esc, Blank, Newline

LEMMA ModesAre == /\ \A m \in Modes : m = "plain" \/ m = "quoted"
                  /\ OtherMode("plain") = "quoted" /\ OtherMode("quoted") = "plain"
                  /\ "plain" \in Modes /\ "quoted" \in Modes
                  /\ \A m \in Modes : OtherMode(m) \in Modes
  BY Zenon DEF Modes, OtherMode

\* What scan, in ScanArg, is from position n on.
ScanLine(f, s, escapes, i, m) ==
    IF i > Len(s) THEN [end |-> IF m = "quoted" THEN Len(s) + 2 ELSE i, len |-> 0]
    ELSE IF s[i] = Quot THEN f[i + 1][OtherMode(m)]
    ELSE IF s[i] = Blank /\ m = "plain" THEN [end |-> i, len |-> 0]
    ELSE LET rest == f[IF EscapeAt(s, i, escapes) THEN i + 2 ELSE i + 1][m]
         IN  [end |-> rest.end, len |-> rest.len + 1]

IsScan(f, s, escapes, n) ==
    f = [i \in n..(Len(s) + 2) |-> [m \in Modes |-> ScanLine(f, s, escapes, i, m)]]

(* There is such a function, for any text: from its end to its begin. *)
LEMMA ScanExists ==
    ASSUME NEW s, IsSeq(s), NEW escapes
    PROVE  \E f : IsScan(f, s, escapes, 1)
<1> DEFINE N == Len(s) + 2
           Bad == {n \in 0..N : ~ \E f : IsScan(f, s, escapes, n + 1)}
<1>1. Len(s) \in Nat /\ N \in Nat
  BY SeqIs
<1>2. SUFFICES ASSUME Bad # {} PROVE FALSE
  <2>1. 0 \in 0..N /\ 0 + 1 = 1
    BY <1>1
  <2> QED BY <2>1
<1>3. PICK b \in Bad : \A k \in Bad : k <= b
  BY <1>1, <1>2, GreatestNumber
<1>4. b \in 0..N /\ ~ \E f : IsScan(f, s, escapes, b + 1)
  OBVIOUS
<1>5. b # N
  <2>1. SUFFICES ASSUME b = N PROVE FALSE
    OBVIOUS
  <2>2. (N + 1)..(Len(s) + 2) = {}
    BY <1>1
  <2>3. IsScan(<<>>, s, escapes, N + 1)
    BY <2>2 DEF IsScan
  <2> QED BY <1>4, <2>1, <2>3
<1>6. b + 1 \in 0..N /\ ~(b + 1 <= b) /\ b + 1 \in Nat /\ b + 1 <= N
  BY <1>1, <1>4, <1>5
<1>7. PICK f : IsScan(f, s, escapes, b + 2)
  <2>1. (b + 1) + 1 = b + 2
    BY <1>6
  <2> QED BY <1>3, <1>6, <2>1
<1> HIDE DEF Bad
<1> DEFINE g == [i \in (b + 1)..N |-> [m \in Modes |-> ScanLine(f, s, escapes, i, m)]]
<1>8. \A i \in (b + 2)..N : i \in (b + 1)..N /\ g[i] = f[i]
  BY <1>1, <1>4, <1>6, <1>7 DEF IsScan
<1>9. ASSUME NEW i \in (b + 1)..N, NEW m \in Modes
      PROVE  ScanLine(g, s, escapes, i, m) = ScanLine(f, s, escapes, i, m)
  <2>1. i <= Len(s) => i + 1 \in (b + 2)..N
    BY <1>1, <1>4, <1>6
  <2>2. i <= Len(s) /\ EscapeAt(s, i, escapes) => i + 2 \in (b + 2)..N
    BY <1>1, <1>4, <1>6 DEF EscapeAt
  <2>3. i > Len(s) \/ i <= Len(s)
    BY <1>1, <1>6
  <2> HIDE DEF g
  <2> QED BY <1>8, <2>1, <2>2, <2>3 DEF ScanLine
<1>10. IsScan(g, s, escapes, b + 1)
  <2>1. g = [i \in (b + 1)..(Len(s) + 2) |-> [m \in Modes |-> ScanLine(f, s, escapes, i, m)]]
    OBVIOUS
  <2> HIDE DEF g
  <2> QED BY <1>9, <2>1 DEF IsScan
<1> QED BY <1>4, <1>10

(* ScanArg is it. *)
LEMMA ScanIs ==
    ASSUME NEW s, IsSeq(s), NEW escapes
    PROVE  \A i \in 1..(Len(s) + 2) : \A m \in Modes :
              ScanArg(s, escapes)[i][m] = ScanLine(ScanArg(s, escapes), s, escapes, i, m)
<1> DEFINE f == CHOOSE f : f = [i \in 1..(Len(s) + 2) |-> [m \in Modes |-> ScanLine(f, s, escapes, i, m)]]
<1>1. \E g : g = [i \in 1..(Len(s) + 2) |-> [m \in Modes |-> ScanLine(g, s, escapes, i, m)]]
  <2>1. PICK g : IsScan(g, s, escapes, 1)
    BY ScanExists
  <2>2. g = [i \in 1..(Len(s) + 2) |-> [m \in Modes |-> ScanLine(g, s, escapes, i, m)]]
    BY <2>1, Zenon DEF IsScan
  <2> QED BY <2>2
<1>2. f = [i \in 1..(Len(s) + 2) |-> [m \in Modes |-> ScanLine(f, s, escapes, i, m)]]
  BY <1>1, Zenon
<1>3. ScanArg(s, escapes) = f
  BY Zenon DEF ScanArg, ScanLine
<1> HIDE DEF f
<1> QED BY <1>2, <1>3

(* One step of a pass, from position i, inside of quotes or not. *)
ScanStep(S, s, escapes, i, m) ==
    /\ i > Len(s) => S[i][m].end = (IF m = "quoted" THEN Len(s) + 2 ELSE i) /\ S[i][m].len = 0
    /\ i <= Len(s) /\ s[i] = Quot => S[i][m] = S[i + 1][OtherMode(m)]
    /\ i <= Len(s) /\ s[i] = Blank /\ m = "plain" => S[i][m].end = i /\ S[i][m].len = 0
    /\ i <= Len(s) /\ s[i] # Quot /\ (s[i] # Blank \/ m = "quoted") =>
          \E j \in {i + 1, i + 2} :
              /\ j = IF EscapeAt(s, i, escapes) THEN i + 2 ELSE i + 1
              /\ j <= Len(s) + 1
              /\ S[i][m].end = S[j][m].end /\ S[i][m].len = S[j][m].len + 1

LEMMA ScanSteps ==
    ASSUME NEW s, IsSeq(s), NEW escapes
    PROVE  \A i \in 1..(Len(s) + 2) : \A m \in Modes : ScanStep(ScanArg(s, escapes), s, escapes, i, m)
<1> DEFINE S == ScanArg(s, escapes)
<1>1. Len(s) \in Nat
  BY SeqIs
<1>2. ASSUME NEW i \in 1..(Len(s) + 2), NEW m \in Modes PROVE S[i][m] = ScanLine(S, s, escapes, i, m)
  BY ScanIs
<1> HIDE DEF S
<1>3. ASSUME NEW i \in 1..(Len(s) + 2), NEW m \in Modes PROVE ScanStep(S, s, escapes, i, m)
  <2>1. S[i][m] = ScanLine(S, s, escapes, i, m)
    BY <1>2
  <2>2. i \in Nat
    BY <1>1
  <2>3. CASE i > Len(s)
    BY <1>1, <2>1, <2>2, <2>3 DEF ScanLine, ScanStep
  <2>4. CASE i <= Len(s) /\ s[i] = Quot
    <3>1. S[i][m] = S[i + 1][OtherMode(m)] /\ ~(i > Len(s)) /\ s[i] # Blank
      BY CharsDiffer, <1>1, <2>1, <2>2, <2>4 DEF ScanLine
    <3> QED BY <2>4, <3>1 DEF ScanStep
  <2>5. CASE i <= Len(s) /\ s[i] = Blank /\ m = "plain"
    <3>1. S[i][m] = [end |-> i, len |-> 0] /\ ~(i > Len(s)) /\ s[i] # Quot
      BY CharsDiffer, <1>1, <2>1, <2>2, <2>5 DEF ScanLine
    <3> QED BY <2>5, <3>1 DEF ScanStep
  <2>6. CASE i <= Len(s) /\ s[i] # Quot /\ (s[i] # Blank \/ m = "quoted")
    <3> DEFINE j == IF EscapeAt(s, i, escapes) THEN i + 2 ELSE i + 1
    <3>1. j \in {i + 1, i + 2} /\ j <= Len(s) + 1
      BY <1>1, <2>2, <2>6 DEF EscapeAt
    <3>2. S[i][m] = [end |-> S[j][m].end, len |-> S[j][m].len + 1] /\ ~(i > Len(s))
      BY <1>1, <2>1, <2>2, <2>6 DEF ScanLine
    <3>3. S[i][m].end = S[j][m].end /\ S[i][m].len = S[j][m].len + 1
      BY <3>2
    <3>4. j = IF EscapeAt(s, i, escapes) THEN i + 2 ELSE i + 1
      OBVIOUS
    <3> HIDE DEF j
    <3> QED BY <2>6, <3>1, <3>2, <3>3, <3>4, Zenon DEF ScanStep
  <2> QED BY <1>1, <2>2, <2>3, <2>4, <2>5, <2>6, ModesAre
<1> QED BY <1>3 DEF S

(* An argument ends behind its begin, and a blank ends no more than itself. *)
ScanKind(S, s, i, m) ==
    /\ S[i][m].end \in i..(Len(s) + 2) /\ S[i][m].len \in Nat
    /\ S[i][m].end = i => S[i][m].len = 0 /\ (i > Len(s) \/ s[i] = Blank)

LEMMA ScanKinds ==
    ASSUME NEW s, IsSeq(s), NEW escapes
    PROVE  \A i \in 1..(Len(s) + 2) : \A m \in Modes : ScanKind(ScanArg(s, escapes), s, i, m)
<1> DEFINE S == ScanArg(s, escapes)
           N == Len(s) + 2
           Bad == {i \in 1..N : \E m \in Modes : ~ScanKind(S, s, i, m)}
<1>1. Len(s) \in Nat /\ N \in Nat /\ N = Len(s) + 2
  BY SeqIs
<1>2. \A i \in 1..N : \A m \in Modes : ScanStep(S, s, escapes, i, m)
  BY ScanSteps
<1> HIDE DEF S, N
<1>3. Bad = {}
  <2>1. SUFFICES ASSUME Bad # {} PROVE FALSE
    OBVIOUS
  <2>2. PICK b \in Bad : \A k \in Bad : k <= b
    <3>1. Bad \in SUBSET (0..N)
      BY <1>1
    <3> HIDE DEF Bad
    <3> QED BY <1>1, <2>1, <3>1, GreatestNumber
  <2>3. PICK m \in Modes : ~ScanKind(S, s, b, m)
    OBVIOUS
  <2>4. b \in 1..N /\ b \in Nat
    BY <1>1
  <2>5. \A i \in 1..N : i > b => \A q \in Modes : ScanKind(S, s, i, q)
    BY <2>2, <2>4, <1>1
  <2> HIDE DEF Bad
  <2>6. ScanStep(S, s, escapes, b, m)
    BY <1>2, <2>4
  <2>7. CASE b > Len(s)
    <3>1. S[b][m].end = (IF m = "quoted" THEN Len(s) + 2 ELSE b) /\ S[b][m].len = 0
      BY <2>6, <2>7 DEF ScanStep
    <3> QED BY <1>1, <2>3, <2>4, <2>7, <3>1 DEF ScanKind
  <2>8. CASE b <= Len(s) /\ s[b] = Quot
    <3>1. S[b][m] = S[b + 1][OtherMode(m)]
      BY <2>6, <2>8 DEF ScanStep
    <3>2. ScanKind(S, s, b + 1, OtherMode(m))
      BY <1>1, <2>4, <2>5, <2>8, ModesAre
    <3> QED BY <1>1, <2>3, <2>4, <3>1, <3>2 DEF ScanKind
  <2>9. CASE b <= Len(s) /\ s[b] = Blank /\ m = "plain"
    <3>1. S[b][m].end = b /\ S[b][m].len = 0
      BY <2>6, <2>9 DEF ScanStep
    <3> QED BY <1>1, <2>3, <2>4, <2>9, <3>1 DEF ScanKind
  <2>10. CASE b <= Len(s) /\ s[b] # Quot /\ (s[b] # Blank \/ m = "quoted")
    <3>1. PICK j \in {b + 1, b + 2} : /\ j <= Len(s) + 1
              /\ S[b][m].end = S[j][m].end /\ S[b][m].len = S[j][m].len + 1
      BY <2>6, <2>10 DEF ScanStep
    <3>2. ScanKind(S, s, j, m) /\ j \in Nat /\ j > b
      BY <1>1, <2>4, <2>5, <3>1
    <3> QED BY <1>1, <2>3, <2>4, <3>1, <3>2 DEF ScanKind
  <2> QED BY <1>1, <2>4, <2>7, <2>8, <2>9, <2>10, ModesAre
<1> QED BY <1>3 DEF S, N

(* The passes agree on where arguments end, unless there is an escaped backslash. *)
LEMMA EndsAgree ==
    ASSUME NEW s, IsSeq(s), \A i \in 1..(Len(s) - 1) : ~(s[i] = Esc /\ s[i + 1] = Esc)
    PROVE  \A i \in 1..(Len(s) + 2) : \A m \in Modes :
              ScanArg(s, CountEscapes)[i][m].end = ScanArg(s, StoreEscapes)[i][m].end
<1> DEFINE C == ScanArg(s, CountEscapes)
           S == ScanArg(s, StoreEscapes)
           N == Len(s) + 2
           Bad == {i \in 1..N : \E m \in Modes : C[i][m].end # S[i][m].end}
<1>1. Len(s) \in Nat /\ N \in Nat /\ N = Len(s) + 2
  BY SeqIs
<1>2. \A i \in 1..N : \A m \in Modes : /\ ScanStep(C, s, CountEscapes, i, m)
                                       /\ ScanStep(S, s, StoreEscapes, i, m)
  BY ScanSteps
<1> HIDE DEF S, C, N
<1>3. Bad = {}
  <2>1. SUFFICES ASSUME Bad # {} PROVE FALSE
    OBVIOUS
  <2>2. PICK b \in Bad : \A k \in Bad : k <= b
    <3>1. Bad \in SUBSET (0..N)
      BY <1>1
    <3> HIDE DEF Bad
    <3> QED BY <1>1, <2>1, <3>1, GreatestNumber
  <2>3. PICK m \in Modes : C[b][m].end # S[b][m].end
    OBVIOUS
  <2>4. b \in 1..N /\ b \in Nat
    BY <1>1
  <2>5. \A i \in 1..N : i > b => \A q \in Modes : C[i][q].end = S[i][q].end
    BY <2>2, <2>4, <1>1
  <2> HIDE DEF Bad
  <2>6. ScanStep(C, s, CountEscapes, b, m) /\ ScanStep(S, s, StoreEscapes, b, m)
    BY <1>2, <2>4
  <2>7. CASE b > Len(s)
    BY <2>3, <2>6, <2>7 DEF ScanStep
  <2>8. CASE b <= Len(s) /\ s[b] = Quot
    <3>1. C[b][m] = C[b + 1][OtherMode(m)] /\ S[b][m] = S[b + 1][OtherMode(m)]
      BY <2>6, <2>8 DEF ScanStep
    <3>2. C[b + 1][OtherMode(m)].end = S[b + 1][OtherMode(m)].end
      BY <1>1, <2>4, <2>5, <2>8, ModesAre
    <3> QED BY <2>3, <3>1, <3>2
  <2>9. CASE b <= Len(s) /\ s[b] = Blank /\ m = "plain"
    BY <2>3, <2>6, <2>9 DEF ScanStep
  <2>10. CASE b <= Len(s) /\ s[b] # Quot /\ (s[b] # Blank \/ m = "quoted")
    <3>1. /\ C[b][m].end = C[IF EscapeAt(s, b, CountEscapes) THEN b + 2 ELSE b + 1][m].end
          /\ S[b][m].end = S[IF EscapeAt(s, b, StoreEscapes) THEN b + 2 ELSE b + 1][m].end
      BY <2>6, <2>10 DEF ScanStep
    <3>2. /\ b + 1 \in 1..N /\ b + 1 > b
          /\ EscapeAt(s, b, StoreEscapes) => b + 2 \in 1..N /\ b + 2 > b /\ b + 1 <= Len(s)
      BY <1>1, <2>4, <2>10 DEF EscapeAt
    <3>3. EscapeAt(s, b, CountEscapes) => EscapeAt(s, b, StoreEscapes)
      BY DEF EscapeAt, CountEscapes, StoreEscapes
    <3>4. CASE EscapeAt(s, b, StoreEscapes) /\ ~EscapeAt(s, b, CountEscapes)
      <4>1. s[b + 1] \in {"n", "r", "t"}
        <5>1. s[b] = Esc /\ b \in 1..(Len(s) - 1) /\ s[b + 1] # Quot /\ s[b + 1] \in StoreEscapes
          BY <1>1, <2>4, <3>4 DEF EscapeAt, CountEscapes
        <5>2. s[b + 1] # Esc
          BY <5>1
        <5> QED BY <5>1, <5>2 DEF StoreEscapes
      <4>2. s[b + 1] # Quot /\ s[b + 1] # Blank /\ ~EscapeAt(s, b + 1, CountEscapes)
        BY <4>1, CharsDiffer DEF EscapeAt
      <4>3. C[b + 1][m].end = C[(b + 1) + 1][m].end
        <5>1. ScanStep(C, s, CountEscapes, b + 1, m)
          BY <1>2, <3>2
        <5> QED BY <3>2, <3>4, <4>2, <5>1 DEF ScanStep
      <4>4. (b + 1) + 1 = b + 2
        BY <2>4
      <4>5. C[b + 2][m].end = S[b + 2][m].end
        BY <2>5, <3>2, <3>4
      <4> QED BY <2>3, <3>1, <3>4, <4>3, <4>4, <4>5
    <3>5. CASE ~(EscapeAt(s, b, StoreEscapes) /\ ~EscapeAt(s, b, CountEscapes))
      BY <2>3, <2>5, <3>1, <3>2, <3>3, <3>5
    <3> QED BY <3>4, <3>5
  <2> QED BY <1>1, <2>4, <2>7, <2>8, <2>9, <2>10, ModesAre
<1> QED BY <1>3 DEF S, C, N

------------------------------------------------------------------------------
(* Strings: what is copied *)

CopyLine(f, s, end, without, i) ==
    IF i >= end THEN <<>>
    ELSE IF s[i] \in without THEN f[i + 1]
    ELSE IF EscapeAt(s, i, StoreEscapes) THEN <<Unescaped(s[i + 1])>> \o f[i + 2]
    ELSE <<s[i]>> \o f[i + 1]

IsCopy(f, s, end, without, n) == f = [i \in n..(end + 1) |-> CopyLine(f, s, end, without, i)]

LEMMA CopyExists ==
    ASSUME NEW s, NEW end \in Nat, NEW without, NEW first \in 1..(end + 1)
    PROVE  \E f : IsCopy(f, s, end, without, first)
<1> DEFINE N == end + 1
           Bad == {n \in 0..N : ~ \E f : IsCopy(f, s, end, without, n + 1)}
<1>1. N \in Nat
  OBVIOUS
<1>2. SUFFICES ASSUME Bad # {} PROVE FALSE
  <2>1. first - 1 \in 0..N /\ (first - 1) + 1 = first
    BY <1>1
  <2> QED BY <2>1
<1>3. PICK b \in Bad : \A k \in Bad : k <= b
  BY <1>1, <1>2, GreatestNumber
<1>4. b \in 0..N /\ ~ \E f : IsCopy(f, s, end, without, b + 1)
  OBVIOUS
<1>5. b # N
  <2>1. SUFFICES ASSUME b = N PROVE FALSE
    OBVIOUS
  <2>2. (N + 1)..(end + 1) = {}
    BY <1>1
  <2>3. IsCopy(<<>>, s, end, without, N + 1)
    BY <2>2 DEF IsCopy
  <2> QED BY <1>4, <2>1, <2>3
<1>6. b + 1 \in 0..N /\ ~(b + 1 <= b) /\ b + 1 \in Nat /\ b + 1 <= N /\ b \in Nat
  BY <1>1, <1>4, <1>5
<1>7. PICK f : IsCopy(f, s, end, without, b + 2)
  <2>1. (b + 1) + 1 = b + 2
    BY <1>6
  <2> QED BY <1>3, <1>6, <2>1
<1> HIDE DEF Bad
<1> DEFINE g == [i \in (b + 1)..N |-> CopyLine(f, s, end, without, i)]
<1>8. \A i \in (b + 2)..N : i \in (b + 1)..N /\ g[i] = f[i]
  BY <1>1, <1>4, <1>6, <1>7, SMTT(30) DEF IsCopy
<1>9. ASSUME NEW i \in (b + 1)..N
      PROVE  CopyLine(g, s, end, without, i) = CopyLine(f, s, end, without, i)
  <2>1. ~(i >= end) => i + 1 \in (b + 2)..N /\ i + 2 \in (b + 2)..N
    BY <1>1, <1>4, <1>6
  <2> HIDE DEF g
  <2> QED BY <1>8, <2>1 DEF CopyLine
<1>10. IsCopy(g, s, end, without, b + 1)
  <2>1. g = [i \in (b + 1)..(end + 1) |-> CopyLine(f, s, end, without, i)]
    OBVIOUS
  <2> HIDE DEF g
  <2> QED BY <1>9, <2>1 DEF IsCopy
<1> QED BY <1>4, <1>10

(* What is copied from position i on. *)
CopyStep(f, s, end, without, i) ==
    /\ i >= end => f[i] = <<>>
    /\ i < end /\ s[i] \in without => f[i] = f[i + 1]
    /\ i < end /\ s[i] \notin without /\ EscapeAt(s, i, StoreEscapes) =>
          f[i] = <<Unescaped(s[i + 1])>> \o f[i + 2]
    /\ i < end /\ s[i] \notin without /\ ~EscapeAt(s, i, StoreEscapes) =>
          f[i] = <<s[i]>> \o f[i + 1]

LEMMA CopySteps ==
    ASSUME NEW s, NEW end \in Nat, NEW without, NEW first \in 1..(end + 1)
    PROVE  \E f : /\ Copied(s, first, end, without) = f[first]
                  /\ \A i \in first..(end + 1) : CopyStep(f, s, end, without, i)
<1> DEFINE f == CHOOSE f : f = [i \in first..(end + 1) |-> CopyLine(f, s, end, without, i)]
<1>1. \E g : g = [i \in first..(end + 1) |-> CopyLine(g, s, end, without, i)]
  <2>1. PICK g : IsCopy(g, s, end, without, first)
    BY CopyExists
  <2>2. g = [i \in first..(end + 1) |-> CopyLine(g, s, end, without, i)]
    BY <2>1, Zenon DEF IsCopy
  <2> QED BY <2>2
<1>2. f = [i \in first..(end + 1) |-> CopyLine(f, s, end, without, i)]
  BY <1>1, Zenon
<1>3. Copied(s, first, end, without) = f[first]
  BY Zenon DEF Copied, CopyLine
<1> HIDE DEF f
<1>4. ASSUME NEW i \in first..(end + 1) PROVE CopyStep(f, s, end, without, i)
  <2>1. f[i] = CopyLine(f, s, end, without, i)
    BY <1>2
  <2>2. i \in Nat /\ (i >= end <=> ~(i < end))
    OBVIOUS
  <2> QED BY <2>1, <2>2, Zenon DEF CopyLine, CopyStep
<1> QED BY <1>3, <1>4

(* What is copied of an argument has the length that the pass has found. *)
CopyFits(f, S, end, i) ==
    /\ IsSeq(f[i])
    /\ \A m \in Modes : S[i][m].end = end => Len(f[i]) = S[i][m].len

LEMMA CopyFills ==
    ASSUME NEW s, IsSeq(s), NEW first \in 1..Len(s), NEW end \in first..(Len(s) + 1), NEW f,
           \A i \in first..(end + 1) : CopyStep(f, s, end, {Quot}, i)
    PROVE  \A i \in first..(end + 1) : CopyFits(f, ScanArg(s, StoreEscapes), end, i)
<1> DEFINE S == ScanArg(s, StoreEscapes)
           N == end + 1
           Bad == {i \in first..N : ~CopyFits(f, S, end, i)}
<1>1. /\ Len(s) \in Nat /\ first \in Nat /\ first >= 1 /\ end \in Nat /\ N \in Nat /\ N = end + 1
      /\ end <= Len(s) + 1
  BY SeqIs
<1>2. ASSUME NEW i \in first..N, NEW m \in Modes
      PROVE  ScanStep(S, s, StoreEscapes, i, m) /\ ScanKind(S, s, i, m)
  <2>1. i \in 1..(Len(s) + 2)
    BY <1>1
  <2> QED BY <2>1, ScanSteps, ScanKinds
<1> HIDE DEF S
<1>3. Bad = {}
  <2>1. SUFFICES ASSUME Bad # {} PROVE FALSE
    OBVIOUS
  <2>2. PICK b \in Bad : \A k \in Bad : k <= b
    <3>1. Bad \in SUBSET (0..N)
      BY <1>1
    <3> HIDE DEF Bad
    <3> QED BY <1>1, <2>1, <3>1, GreatestNumber
  <2>3. ~CopyFits(f, S, end, b)
    OBVIOUS
  <2>4. b \in first..N /\ b \in Nat /\ b >= 1
    BY <1>1
  <2>5. \A i \in first..N : i > b => CopyFits(f, S, end, i)
    BY <2>2, <2>4, <1>1
  <2> HIDE DEF Bad
  <2>6. CopyStep(f, s, end, {Quot}, b)
    BY <2>4
  <2>7. \A m \in Modes : ScanStep(S, s, StoreEscapes, b, m) /\ ScanKind(S, s, b, m)
    BY <1>2, <2>4
  <2>8. CASE b >= end
    <3>1. f[b] = <<>>
      BY <2>6, <2>8 DEF CopyStep
    <3>2. ASSUME NEW m \in Modes, S[b][m].end = end PROVE S[b][m].len = 0
      <4>1. S[b][m].end = b
        BY <1>1, <2>4, <2>7, <2>8, <3>2 DEF ScanKind
      <4> QED BY <2>7, <4>1 DEF ScanKind
    <3> QED BY <2>3, <3>1, <3>2, NoneIs DEF CopyFits
  <2>9. CASE b < end /\ s[b] = Quot
    <3>1. f[b] = f[b + 1]
      BY <2>6, <2>9 DEF CopyStep
    <3>2. b + 1 \in first..N /\ b + 1 > b /\ b <= Len(s)
      BY <1>1, <2>4, <2>9
    <3>3. CopyFits(f, S, end, b + 1)
      BY <2>5, <3>2
    <3>4. \A m \in Modes : S[b][m] = S[b + 1][OtherMode(m)] /\ OtherMode(m) \in Modes
      BY <2>7, <2>9, <3>2, ModesAre DEF ScanStep
    <3> QED BY <2>3, <3>1, <3>3, <3>4 DEF CopyFits
  <2>10. CASE b < end /\ s[b] # Quot
    <3> DEFINE j == IF EscapeAt(s, b, StoreEscapes) THEN b + 2 ELSE b + 1
               x == IF EscapeAt(s, b, StoreEscapes) THEN Unescaped(s[b + 1]) ELSE s[b]
    <3>1. f[b] = <<x>> \o f[j]
      BY <2>6, <2>10 DEF CopyStep
    <3>2. j \in first..N /\ j > b /\ b <= Len(s) /\ j = IF EscapeAt(s, b, StoreEscapes) THEN b + 2 ELSE b + 1
      BY <1>1, <2>4, <2>10
    <3> HIDE DEF j, x
    <3>3. CopyFits(f, S, end, j)
      BY <2>5, <3>2
    <3>4. IsSeq(f[b]) /\ Len(f[b]) = Len(f[j]) + 1
      BY <3>1, <3>3, InFront DEF CopyFits
    <3>5. ASSUME NEW m \in Modes, S[b][m].end = end PROVE S[b][m].len = Len(f[j]) + 1
      <4>1. s[b] # Blank \/ m = "quoted"
        BY <2>7, <2>10, <3>2, <3>5, ModesAre DEF ScanStep
      <4>2. S[b][m].end = S[j][m].end /\ S[b][m].len = S[j][m].len + 1
        BY <2>7, <2>10, <3>2, <4>1 DEF ScanStep
      <4> QED BY <3>3, <3>5, <4>2 DEF CopyFits
    <3> QED BY <2>3, <3>4, <3>5 DEF CopyFits
  <2> QED BY <1>1, <2>4, <2>8, <2>9, <2>10
<1> QED BY <1>3 DEF S

------------------------------------------------------------------------------
(* Strings: the arguments of a line *)

(* The first position that is not blank, from i on. *)
LEMMA SkipIs ==
    ASSUME NEW s, IsSeq(s), NEW i \in 1..(Len(s) + 1)
    PROVE  /\ SkipBlanks(s, i) \in i..(Len(s) + 1)
           /\ SkipBlanks(s, i) > Len(s) \/ s[SkipBlanks(s, i)] # Blank
           /\ \A k \in i..(Len(s) + 1) : k > Len(s) \/ s[k] # Blank => SkipBlanks(s, i) <= k
<1> DEFINE J == {j \in i..(Len(s) + 1) : j > Len(s) \/ s[j] # Blank}
<1>1. Len(s) \in Nat /\ i \in Nat
  BY SeqIs
<1>2. J \in SUBSET Nat /\ J # {}
  <2>1. Len(s) + 1 \in J
    BY <1>1
  <2> QED BY <1>1, <2>1
<1>3. \E x \in J : \A y \in J : x <= y
  <2> HIDE DEF J
  <2> QED BY <1>2, LeastNumber
<1>4. SkipBlanks(s, i) = CHOOSE x \in J : \A y \in J : x <= y
  BY DEF SkipBlanks, Min
<1>5. SkipBlanks(s, i) \in J /\ \A y \in J : SkipBlanks(s, i) <= y
  <2> HIDE DEF J
  <2> QED BY <1>3, <1>4
<1> QED BY <1>5

ArgLine(F, s, escapes, i) ==
    LET start == SkipBlanks(s, i)
        arg   == ScanArg(s, escapes)[start]["plain"]
    IN  IF start > Len(s) \/ arg.end > Len(s) + 1 THEN <<>>
        ELSE <<[start |-> start, end |-> arg.end, len |-> arg.len]>> \o F[arg.end]

IsArgs(F, s, escapes, n) == F = [i \in n..(Len(s) + 1) |-> ArgLine(F, s, escapes, i)]

(* An argument that is closed ends behind its start. *)
LEMMA ArgEnds ==
    ASSUME NEW s, IsSeq(s), NEW escapes, NEW i \in 1..(Len(s) + 1),
           NEW start, start = SkipBlanks(s, i), start <= Len(s),
           NEW arg, arg = ScanArg(s, escapes)[start]["plain"], arg.end <= Len(s) + 1
    PROVE  /\ start \in i..Len(s) /\ s[start] # Blank
           /\ arg.end \in (i + 1)..(Len(s) + 1) /\ arg.end > start
<1>1. Len(s) \in Nat /\ i \in Nat /\ start \in i..(Len(s) + 1) /\ s[start] # Blank
  BY SeqIs, SkipIs
<1>2. start \in 1..(Len(s) + 2)
  BY <1>1
<1>3. ScanKind(ScanArg(s, escapes), s, start, "plain")
  BY <1>2, ScanKinds, ModesAre
<1> QED BY <1>1, <1>3 DEF ScanKind

LEMMA ArgsExist ==
    ASSUME NEW s, IsSeq(s), NEW escapes
    PROVE  \E F : IsArgs(F, s, escapes, 1)
<1> DEFINE N == Len(s) + 1
           Bad == {n \in 0..N : ~ \E F : IsArgs(F, s, escapes, n + 1)}
<1>1. Len(s) \in Nat /\ N \in Nat
  BY SeqIs
<1>2. SUFFICES ASSUME Bad # {} PROVE FALSE
  <2>1. 0 \in 0..N /\ 0 + 1 = 1
    BY <1>1
  <2> QED BY <2>1
<1>3. PICK b \in Bad : \A k \in Bad : k <= b
  BY <1>1, <1>2, GreatestNumber
<1>4. b \in 0..N /\ ~ \E F : IsArgs(F, s, escapes, b + 1)
  OBVIOUS
<1>5. b # N
  <2>1. SUFFICES ASSUME b = N PROVE FALSE
    OBVIOUS
  <2>2. (N + 1)..(Len(s) + 1) = {}
    BY <1>1
  <2>3. IsArgs(<<>>, s, escapes, N + 1)
    BY <2>2 DEF IsArgs
  <2> QED BY <1>4, <2>1, <2>3
<1>6. b + 1 \in 0..N /\ ~(b + 1 <= b) /\ b + 1 \in Nat /\ b + 1 <= N /\ b \in Nat
  BY <1>1, <1>4, <1>5
<1>7. PICK F : IsArgs(F, s, escapes, b + 2)
  <2>1. (b + 1) + 1 = b + 2
    BY <1>6
  <2> QED BY <1>3, <1>6, <2>1
<1> HIDE DEF Bad
<1> DEFINE G == [i \in (b + 1)..N |-> ArgLine(F, s, escapes, i)]
<1>8. \A i \in (b + 2)..N : i \in (b + 1)..N /\ G[i] = F[i]
  BY <1>1, <1>4, <1>6, <1>7 DEF IsArgs
<1>9. ASSUME NEW i \in (b + 1)..N
      PROVE  ArgLine(G, s, escapes, i) = ArgLine(F, s, escapes, i)
  <2> DEFINE start == SkipBlanks(s, i)
             arg   == ScanArg(s, escapes)[start]["plain"]
  <2>1. ~(start > Len(s) \/ arg.end > Len(s) + 1) => arg.end \in (b + 2)..N
    <3>1. SUFFICES ASSUME ~(start > Len(s) \/ arg.end > Len(s) + 1) PROVE arg.end \in (b + 2)..N
      OBVIOUS
    <3>2. i \in 1..(Len(s) + 1) /\ i >= b + 1 /\ i \in Nat
      BY <1>1, <1>6
    <3>3. start \in Nat
      BY <1>1, <3>2, SkipIs
    <3>4. arg.end \in Nat /\ start <= Len(s)
      <4>1. start \in 1..(Len(s) + 2)
        BY <1>1, <3>1, <3>2, SkipIs
      <4>2. ScanKind(ScanArg(s, escapes), s, start, "plain")
        BY <4>1, ScanKinds, ModesAre
      <4> QED BY <1>1, <3>1, <3>3, <4>1, <4>2 DEF ScanKind
    <3>5. arg.end <= Len(s) + 1
      BY <1>1, <3>1, <3>4
    <3>6. arg.end \in (i + 1)..(Len(s) + 1)
      BY <3>2, <3>4, <3>5, ArgEnds
    <3> HIDE DEF arg
    <3> QED BY <1>1, <1>6, <3>2, <3>6
  <2> HIDE DEF G
  <2> QED BY <1>8, <2>1 DEF ArgLine
<1>10. IsArgs(G, s, escapes, b + 1)
  <2>1. G = [i \in (b + 1)..(Len(s) + 1) |-> ArgLine(F, s, escapes, i)]
    OBVIOUS
  <2> HIDE DEF G
  <2> QED BY <1>9, <2>1 DEF IsArgs
<1> QED BY <1>4, <1>10

(* The arguments from position i on: none, or one and those behind it. *)
ArgStep(F, S, s, i) ==
    LET start == SkipBlanks(s, i)
        arg   == S[start]["plain"]
    IN  /\ start \in i..(Len(s) + 1)
        /\ start > Len(s) \/ arg.end > Len(s) + 1 => F[i] = <<>>
        /\ ~(start > Len(s) \/ arg.end > Len(s) + 1) =>
              /\ F[i] = <<[start |-> start, end |-> arg.end, len |-> arg.len]>> \o F[arg.end]
              /\ start \in 1..Len(s)
              /\ arg.end \in (i + 1)..(Len(s) + 1) /\ arg.end > start

ArgsOf(F, S, s) == \A i \in 1..(Len(s) + 1) : ArgStep(F, S, s, i)

LEMMA ArgSteps ==
    ASSUME NEW s, IsSeq(s), NEW escapes
    PROVE  \E F : /\ Arguments(s, escapes) = F[1]
                  /\ ArgsOf(F, ScanArg(s, escapes), s)
<1> DEFINE F == CHOOSE F : F = [i \in 1..(Len(s) + 1) |-> ArgLine(F, s, escapes, i)]
<1>1. \E G : G = [i \in 1..(Len(s) + 1) |-> ArgLine(G, s, escapes, i)]
  <2>1. PICK G : IsArgs(G, s, escapes, 1)
    BY ArgsExist
  <2>2. G = [i \in 1..(Len(s) + 1) |-> ArgLine(G, s, escapes, i)]
    BY <2>1, Zenon DEF IsArgs
  <2> QED BY <2>2
<1>2. F = [i \in 1..(Len(s) + 1) |-> ArgLine(F, s, escapes, i)]
  BY <1>1, Zenon
<1>3. Arguments(s, escapes) = F[1]
  BY Zenon DEF Arguments, ArgLine
<1> HIDE DEF F
<1>4. ASSUME NEW i \in 1..(Len(s) + 1) PROVE ArgStep(F, ScanArg(s, escapes), s, i)
  <2> DEFINE start == SkipBlanks(s, i)
             arg   == ScanArg(s, escapes)[start]["plain"]
             one   == <<[start |-> start, end |-> arg.end, len |-> arg.len]>>
  <2>1. Len(s) \in Nat /\ i \in Nat /\ i >= 1
    BY SeqIs
  <2>2. start \in i..(Len(s) + 1) /\ start \in Nat
    BY <2>1, SkipIs
  <2>3. F[i] = IF start > Len(s) \/ arg.end > Len(s) + 1 THEN <<>> ELSE one \o F[arg.end]
    <3>1. F[i] = ArgLine(F, s, escapes, i)
      BY <1>2
    <3> QED BY <3>1, Zenon DEF ArgLine
  <2>4. ASSUME ~(start > Len(s) \/ arg.end > Len(s) + 1)
        PROVE  start \in 1..Len(s) /\ arg.end \in (i + 1)..(Len(s) + 1) /\ arg.end > start
    <3>1. start <= Len(s) /\ start \in 1..(Len(s) + 2)
      BY <2>1, <2>2, <2>4
    <3>2. ScanKind(ScanArg(s, escapes), s, start, "plain")
      BY <3>1, ScanKinds, ModesAre
    <3>3. arg.end \in Nat
      BY <2>1, <2>2, <3>2 DEF ScanKind
    <3>4. arg.end <= Len(s) + 1
      BY <2>1, <2>4, <3>3
    <3>5. arg.end \in (i + 1)..(Len(s) + 1) /\ arg.end > start
      BY <3>1, <3>4, ArgEnds
    <3> HIDE DEF arg, start
    <3> QED BY <2>1, <2>2, <3>1, <3>5
  <2>5. /\ start \in i..(Len(s) + 1)
        /\ start > Len(s) \/ arg.end > Len(s) + 1 => F[i] = <<>>
        /\ ~(start > Len(s) \/ arg.end > Len(s) + 1) =>
              F[i] = one \o F[arg.end] /\ start \in 1..Len(s)
              /\ arg.end \in (i + 1)..(Len(s) + 1) /\ arg.end > start
    <3> HIDE DEF start, arg, one
    <3> QED BY <2>2, <2>3, <2>4, Zenon
  <2> QED BY <2>5, Zenon DEF ArgStep
<1> QED BY <1>3, <1>4 DEF ArgsOf

(* An argument is what a pass finds from its start on, and is closed. *)
IsArg(arg, S, s) ==
    /\ arg.start \in 1..Len(s)
    /\ arg.end \in arg.start..(Len(s) + 1)
    /\ arg.end = S[arg.start]["plain"].end /\ arg.len = S[arg.start]["plain"].len

AreArgs(args, S, s) == IsSeq(args) /\ \A k \in DOMAIN args : IsArg(args[k], S, s)

LEMMA ArgsAre ==
    ASSUME NEW s, IsSeq(s), NEW S, NEW F, ArgsOf(F, S, s)
    PROVE  \A i \in 1..(Len(s) + 1) : AreArgs(F[i], S, s)
<1> DEFINE N == Len(s) + 1
           Bad == {i \in 1..N : ~AreArgs(F[i], S, s)}
<1>1. Len(s) \in Nat /\ N \in Nat /\ N = Len(s) + 1
  BY SeqIs
<1>3. Bad = {}
  <2>1. SUFFICES ASSUME Bad # {} PROVE FALSE
    OBVIOUS
  <2>2. PICK b \in Bad : \A k \in Bad : k <= b
    <3>1. Bad \in SUBSET (0..N)
      BY <1>1
    <3> HIDE DEF Bad
    <3> QED BY <1>1, <2>1, <3>1, GreatestNumber
  <2>3. b \in 1..N /\ b \in Nat /\ ~AreArgs(F[b], S, s)
    BY <1>1
  <2>4. \A i \in 1..N : i > b => AreArgs(F[i], S, s)
    BY <2>2, <2>3, <1>1
  <2> HIDE DEF Bad
  <2> DEFINE start == SkipBlanks(s, b)
             arg   == S[start]["plain"]
             one   == [start |-> start, end |-> arg.end, len |-> arg.len]
             more  == F[arg.end]
  <2>5. /\ start > Len(s) \/ arg.end > Len(s) + 1 => F[b] = <<>>
        /\ ~(start > Len(s) \/ arg.end > Len(s) + 1) =>
              /\ F[b] = <<one>> \o more /\ start \in 1..Len(s)
              /\ arg.end \in (b + 1)..(Len(s) + 1) /\ arg.end > start
    <3>1. ArgStep(F, S, s, b)
      BY <2>3 DEF ArgsOf
    <3> QED BY <3>1, Zenon DEF ArgStep
  <2>6. CASE start > Len(s) \/ arg.end > Len(s) + 1
    BY <2>3, <2>5, <2>6, NoneIs DEF AreArgs
  <2>7. CASE ~(start > Len(s) \/ arg.end > Len(s) + 1)
    <3>1. F[b] = <<one>> \o more /\ start \in 1..Len(s) /\ arg.end \in (b + 1)..N /\ arg.end > start
      BY <1>1, <2>5, <2>7
    <3>2. AreArgs(more, S, s)
      BY <1>1, <2>3, <2>4, <3>1
    <3>3. IsArg(one, S, s)
      BY <1>1, <2>3, <3>1 DEF IsArg
    <3> HIDE DEF one, more, arg, start
    <3>4. /\ IsSeq(F[b]) /\ Len(F[b]) = Len(more) + 1 /\ Len(more) \in Nat
          /\ F[b][1] = one /\ \A k \in 1..Len(more) : F[b][k + 1] = more[k]
      BY <3>1, <3>2, InFront DEF AreArgs
    <3>5. DOMAIN F[b] = 1..(Len(more) + 1) /\ DOMAIN more = 1..Len(more)
      BY <3>2, <3>4, SeqIs DEF AreArgs
    <3>6. ASSUME NEW k \in DOMAIN F[b] PROVE IsArg(F[b][k], S, s)
      <4>1. CASE k = 1
        BY <3>3, <3>4, <4>1
      <4>2. CASE k # 1
        <5>1. k - 1 \in 1..Len(more) /\ (k - 1) + 1 = k
          BY <3>4, <3>5, <4>2
        <5>2. F[b][(k - 1) + 1] = more[k - 1] /\ k - 1 \in DOMAIN more
          BY <3>4, <3>5, <5>1
        <5> QED BY <3>2, <5>1, <5>2 DEF AreArgs
      <4> QED BY <4>1, <4>2
    <3> QED BY <2>3, <3>4, <3>6 DEF AreArgs
  <2> QED BY <2>6, <2>7
<1> QED BY <1>3

(* Passes that agree on the ends find as many arguments. *)
SameEnds(C, S, s) == \A i \in 1..(Len(s) + 1) : C[i]["plain"].end = S[i]["plain"].end

LEMMA SameCount ==
    ASSUME NEW s, IsSeq(s), NEW S, NEW C,
           SameEnds(C, S, s), NEW F, ArgsOf(F, S, s), NEW G, ArgsOf(G, C, s)
    PROVE  \A i \in 1..(Len(s) + 1) : Len(G[i]) = Len(F[i])
<1> DEFINE N == Len(s) + 1
           Bad == {i \in 1..N : Len(G[i]) # Len(F[i])}
<1>1. Len(s) \in Nat /\ N \in Nat /\ N = Len(s) + 1
  BY SeqIs
<1>2. \A i \in 1..N : IsSeq(F[i]) /\ IsSeq(G[i])
  BY ArgsAre, Zenon DEF AreArgs
<1>3. Bad = {}
  <2>1. SUFFICES ASSUME Bad # {} PROVE FALSE
    OBVIOUS
  <2>2. PICK b \in Bad : \A k \in Bad : k <= b
    <3>1. Bad \in SUBSET (0..N)
      BY <1>1
    <3> HIDE DEF Bad
    <3> QED BY <1>1, <2>1, <3>1, GreatestNumber
  <2>3. b \in 1..N /\ b \in Nat /\ Len(G[b]) # Len(F[b])
    BY <1>1
  <2>4. \A i \in 1..N : i > b => Len(G[i]) = Len(F[i])
    BY <2>2, <2>3, <1>1
  <2> HIDE DEF Bad
  <2> DEFINE start == SkipBlanks(s, b)
             arg   == S[start]["plain"]
             carg  == C[start]["plain"]
             one   == [start |-> start, end |-> arg.end, len |-> arg.len]
             cone  == [start |-> start, end |-> carg.end, len |-> carg.len]
  <2>5. /\ start > Len(s) \/ arg.end > Len(s) + 1 => F[b] = <<>>
        /\ ~(start > Len(s) \/ arg.end > Len(s) + 1) =>
              /\ F[b] = <<one>> \o F[arg.end] /\ start \in 1..Len(s)
              /\ arg.end \in (b + 1)..(Len(s) + 1)
        /\ start \in b..(Len(s) + 1)
    <3>1. ArgStep(F, S, s, b)
      BY <2>3 DEF ArgsOf
    <3> QED BY <3>1, Zenon DEF ArgStep
  <2>6. /\ start > Len(s) \/ carg.end > Len(s) + 1 => G[b] = <<>>
        /\ ~(start > Len(s) \/ carg.end > Len(s) + 1) => G[b] = <<cone>> \o G[carg.end]
    <3>1. ArgStep(G, C, s, b)
      BY <2>3 DEF ArgsOf
    <3> QED BY <3>1, Zenon DEF ArgStep
  <2>7. carg.end = arg.end
    <3>1. start \in 1..(Len(s) + 1)
      BY <1>1, <2>3, <2>5
    <3> QED BY <3>1 DEF SameEnds
  <2> HIDE DEF arg, carg, start, one, cone
  <2>8. CASE start > Len(s) \/ arg.end > Len(s) + 1
    BY <2>3, <2>5, <2>6, <2>7, <2>8
  <2>9. CASE ~(start > Len(s) \/ arg.end > Len(s) + 1)
    <3>1. F[b] = <<one>> \o F[arg.end] /\ G[b] = <<cone>> \o G[arg.end] /\ arg.end \in (b + 1)..N
      BY <1>1, <2>5, <2>6, <2>7, <2>9
    <3>2. arg.end \in 1..N /\ arg.end > b
      BY <1>1, <2>3, <3>1
    <3>3. Len(F[b]) = Len(F[arg.end]) + 1 /\ Len(G[b]) = Len(G[arg.end]) + 1
      BY <1>2, <3>1, <3>2, InFront
    <3> QED BY <2>3, <2>4, <3>2, <3>3
  <2> QED BY <2>8, <2>9
<1> QED BY <1>3

(* Passes that find the same ends find as many arguments, and a copy fills what is allotted. *)
LEMMA RoomIs ==
    ASSUME IsSeq(str)
    PROVE  ArgvHasRoom
<1>1. Len(str) \in Nat /\ 1 \in 1..(Len(str) + 1)
  BY SeqIs
<1> DEFINE S == ScanArg(str, StoreEscapes)
           C == ScanArg(str, CountEscapes)
<1>2. PICK F : Arguments(str, StoreEscapes) = F[1] /\ ArgsOf(F, S, str)
  BY ArgSteps
<1>3. ASSUME ~EscapedBackslash
      PROVE  Len(Arguments(str, CountEscapes)) = Len(Arguments(str, StoreEscapes))
  <2>1. PICK G : Arguments(str, CountEscapes) = G[1] /\ ArgsOf(G, C, str)
    BY ArgSteps
  <2>2. SameEnds(C, S, str)
    <3>1. \A i \in 1..(Len(str) + 2) : \A m \in Modes : C[i][m].end = S[i][m].end
      BY <1>3, EndsAgree DEF EscapedBackslash
    <3> HIDE DEF S, C
    <3> QED BY <1>1, <3>1, ModesAre DEF SameEnds
  <2> HIDE DEF S, C
  <2>3. Len(G[1]) = Len(F[1])
    BY <1>1, <1>2, <2>1, <2>2, SameCount
  <2> QED BY <1>2, <2>1, <2>3
<1>4. ASSUME NEW k \in DOMAIN Arguments(str, StoreEscapes)
      PROVE  Len(ArgText(str, Arguments(str, StoreEscapes)[k])) = Arguments(str, StoreEscapes)[k].len
  <2> DEFINE arg == Arguments(str, StoreEscapes)[k]
  <2>1. IsArg(arg, S, str)
    BY <1>1, <1>2, ArgsAre DEF AreArgs
  <2> HIDE DEF arg
  <2>2. /\ arg.start \in 1..Len(str) /\ arg.end \in arg.start..(Len(str) + 1)
        /\ arg.end \in Nat /\ arg.start \in 1..(arg.end + 1)
        /\ S[arg.start]["plain"].end = arg.end /\ S[arg.start]["plain"].len = arg.len
    BY <1>1, <2>1 DEF IsArg
  <2>3. PICK f : /\ Copied(str, arg.start, arg.end, {Quot}) = f[arg.start]
                 /\ \A i \in arg.start..(arg.end + 1) : CopyStep(f, str, arg.end, {Quot}, i)
    BY <2>2, CopySteps
  <2>4. CopyFits(f, S, arg.end, arg.start)
    <3>1. arg.start \in arg.start..(arg.end + 1)
      BY <2>2
    <3> QED BY <2>2, <2>3, <3>1, CopyFills
  <2>5. Len(f[arg.start]) = arg.len
    BY <2>2, <2>4, ModesAre DEF CopyFits
  <2> QED BY <2>3, <2>5 DEF ArgText, arg
<1> QED BY <1>3, <1>4 DEF ArgvHasRoom

------------------------------------------------------------------------------
(* Strings: escaped text *)

(* A character and its escape sequence. *)
Escaped(c, e) ==
    /\ IsSeq(e)
    /\ c \in {Newline, Quot, Esc} => /\ Len(e) = 2 /\ e[1] = Esc /\ e[2] \in StoreEscapes
                                     /\ Unescaped(e[2]) = c
    /\ c \notin {Newline, Quot, Esc} => Len(e) = 1 /\ e[1] = c

(* EscapeChar gives it one. *)
LEMMA EscapeCharIs == \A c : Escaped(c, EscapeChar(c))
<1> SUFFICES ASSUME NEW c PROVE Escaped(c, EscapeChar(c))
  OBVIOUS
<1>1. \A a, b : IsSeq(<<a, b>>) /\ Len(<<a, b>>) = 2 /\ <<a, b>>[1] = a /\ <<a, b>>[2] = b
  <2>1. ASSUME NEW a, NEW b PROVE IsSeq(<<a, b>>) /\ Len(<<a, b>>) = 2 /\ <<a, b>>[1] = a /\ <<a, b>>[2] = b
    <3>1. <<a, b>> = [i \in 1..2 |-> <<a, b>>[i]] /\ <<a, b>>[1] = a /\ <<a, b>>[2] = b
      OBVIOUS
    <3> QED BY <3>1, MadeSeq
  <2> QED BY <2>1
<1>2. CASE c = Newline
  <2>1. EscapeChar(c) = <<Esc, "n">>
    BY <1>2 DEF EscapeChar
  <2>2. "n" \in StoreEscapes /\ Unescaped("n") = c
    BY <1>2 DEF StoreEscapes, Unescaped
  <2> QED BY <1>1, <1>2, <2>1, <2>2 DEF Escaped
<1>3. CASE c \in {Quot, Esc}
  <2>1. EscapeChar(c) = <<Esc, c>>
    BY <1>3, CharsDiffer DEF EscapeChar
  <2>2. c \in StoreEscapes /\ Unescaped(c) = c
    BY <1>3, CharsDiffer DEF StoreEscapes, Unescaped
  <2> QED BY <1>1, <1>3, <2>1, <2>2 DEF Escaped
<1>4. CASE c \notin {Newline, Quot, Esc}
  <2>1. EscapeChar(c) = <<c>>
    BY <1>4 DEF EscapeChar
  <2> QED BY <1>4, <2>1, OneIs DEF Escaped
<1> QED BY <1>2, <1>3, <1>4

(* In the text t the characters of x are spelt, escaped, at the positions q. *)
Spelt(t, q, x) ==
    \A k \in 1..Len(x) :
        /\ q[k] \in q[1]..(q[Len(x) + 1] - 1)
        /\ q[k] \in 1..Len(t) /\ t[q[k]] # Quot
        /\ q[k + 1] = IF EscapeAt(t, q[k], StoreEscapes) THEN q[k] + 2 ELSE q[k] + 1
        /\ x[k] = IF EscapeAt(t, q[k], StoreEscapes) THEN Unescaped(t[q[k] + 1]) ELSE t[q[k]]

(* e is in t from behind position o on. *)
Holds(t, o, e) ==
    /\ IsSeq(t) /\ IsSeq(e) /\ o \in Nat /\ o + Len(e) <= Len(t)
    /\ \A j \in 1..Len(e) : t[o + j] = e[j]

(* strescape takes at most twice the size, and an escaped text is spelt wherever it is. *)
LEMMA EscapeIs ==
    ASSUME NEW x, IsSeq(x)
    PROVE  /\ IsSeq(strescape(x)) /\ Len(strescape(x)) <= 2 * Len(x)
           /\ \A t, o : Holds(t, o, strescape(x)) =>
                 \E q : q[1] = o + 1 /\ q[Len(x) + 1] = o + Len(strescape(x)) + 1 /\ Spelt(t, q, x)
<1> DEFINE n == Len(x)
           parts == [i \in DOMAIN x |-> EscapeChar(x[i])]
           h == [i \in DOMAIN x |-> Len(EscapeChar(x[i]))]
           e == strescape(x)
           L(i) == LineOf(h, i)
<1>1. n \in Nat /\ DOMAIN x = 1..n
  BY SeqIs
<1>2. ASSUME NEW i \in 1..n PROVE Escaped(x[i], parts[i]) /\ h[i] = Len(parts[i])
  BY <1>1, <1>2, EscapeCharIs
<1>3. ASSUME NEW i \in 1..n PROVE h[i] \in {1, 2} /\ h[i] \in Nat /\ IsSeq(parts[i])
  <2>1. Escaped(x[i], parts[i]) /\ h[i] = Len(parts[i])
    BY <1>2
  <2> HIDE DEF h, parts
  <2>2. Len(parts[i]) \in {1, 2} /\ IsSeq(parts[i])
    BY <2>1, Zenon DEF Escaped
  <2> QED BY <2>1, <2>2
<1>4. Parts(parts) /\ DOMAIN parts = 1..n
  <2>1. IsSeq(parts) /\ DOMAIN parts = 1..n
    BY <1>1, MadeSeq
  <2> HIDE DEF parts
  <2> QED BY <1>3, <2>1 DEF Parts
<1>5. Layout(parts, h, e)
  <2>1. \A i \in DOMAIN parts : h[i] = Len(parts[i])
    BY <1>2, <1>4
  <2>2. Layout(parts, h, FlattenSeq(parts))
    <3> HIDE DEF parts, h
    <3> QED BY <1>4, <2>1, Flattened
  <2> QED BY <2>2 DEF strescape
<1>6. L(1) = 1 /\ \A i \in Nat : i # 0 => L(i + 1) = L(i) + h[i]
  BY LineSteps
<1>7. /\ \A i \in 1..n : L(i) \in Nat /\ L(i) >= 1
      /\ \A i, j \in 1..n : i < j => L(i) + h[i] <= L(j)
  <2>1. \A i \in 1..n : h[i] \in Nat
    BY <1>3
  <2> HIDE DEF h
  <2> QED BY <1>1, <2>1, LinesAscend
<1> HIDE DEF h, parts, e, L, n
<1>8. /\ IsSeq(e) /\ Len(e) \in Nat /\ DOMAIN e = 1..Len(e)
      /\ \A i \in 1..n : \A k \in 1..h[i] : L(i) + k - 1 \in 1..Len(e) /\ e[L(i) + k - 1] = parts[i][k]
      /\ \A m \in 1..Len(e) : \E i \in 1..n : \E k \in 1..h[i] : m = L(i) + k - 1
  <2>1. IsSeq(e)
    BY <1>5, Zenon DEF Layout
  <2>2. Len(e) \in Nat /\ DOMAIN e = 1..Len(e)
    BY <2>1, SeqIs
  <2> QED BY <1>4, <1>5, <2>1, <2>2, Zenon DEF Layout, L
<1>9. L(n + 1) = Len(e) + 1
  <2>1. CASE n = 0
    <3>1. Len(e) = 0
      BY <1>8, <2>1
    <3> QED BY <1>6, <2>1, <3>1
  <2>2. CASE n # 0
    <3>1. n \in 1..n /\ L(n + 1) = L(n) + h[n] /\ h[n] \in {1, 2} /\ L(n) \in Nat
      <4>1. n \in 1..n /\ n \in Nat
        BY <1>1, <2>2
      <4>2. L(n + 1) = L(n) + h[n]
        BY <1>6, <2>2, <4>1
      <4> QED BY <1>3, <1>7, <4>1, <4>2
    <3>2. L(n) + h[n] - 1 \in 1..Len(e)
      BY <1>8, <3>1
    <3>3. Len(e) <= L(n) + h[n] - 1
      <4>1. Len(e) \in 1..Len(e)
        BY <1>8, <3>2
      <4>2. PICK i \in 1..n : \E k \in 1..h[i] : Len(e) = L(i) + k - 1
        BY <1>8, <4>1
      <4>3. Len(e) <= L(i) + h[i] - 1 /\ h[i] \in {1, 2} /\ L(i) \in Nat
        BY <1>3, <1>7, <4>2
      <4>4. i = n \/ L(i) + h[i] <= L(n)
        BY <1>1, <1>7, <3>1
      <4> QED BY <1>8, <3>1, <4>3, <4>4
    <3> QED BY <1>8, <3>1, <3>2, <3>3, SMTT(30)
  <2> QED BY <2>1, <2>2
<1>10. \A i \in 1..(n + 1) : L(i) \in Nat /\ L(i) <= 2 * i - 1
  <2> DEFINE Bad == {i \in 1..(n + 1) : ~(L(i) \in Nat /\ L(i) <= 2 * i - 1)}
  <2>1. SUFFICES ASSUME Bad # {} PROVE FALSE
    OBVIOUS
  <2>2. PICK b \in Bad : \A k \in Bad : b <= k
    <3>1. Bad \in SUBSET Nat
      BY <1>1
    <3> HIDE DEF Bad
    <3> QED BY <2>1, <3>1, LeastNumber
  <2>3. b # 1
    BY <1>6, <2>2
  <2>4. /\ b \in Nat /\ b - 1 \in 1..n /\ b - 1 \in 1..(n + 1) /\ b - 1 # 0 /\ (b - 1) + 1 = b /\ b - 1 < b
        /\ b - 1 \in Nat /\ ~(L(b) \in Nat /\ L(b) <= 2 * b - 1)
    BY <1>1, <2>2, <2>3
  <2>5. L(b - 1) \in Nat /\ L(b - 1) <= 2 * (b - 1) - 1
    BY <2>2, <2>4
  <2>6. L(b) = L(b - 1) + h[b - 1] /\ h[b - 1] \in {1, 2}
    BY <1>3, <1>6, <2>4
  <2> QED BY <2>4, <2>5, <2>6
<1>11. Len(e) <= 2 * n
  <2>1. n + 1 \in 1..(n + 1)
    BY <1>1
  <2> QED BY <1>1, <1>8, <1>9, <1>10, <2>1
<1>12. ASSUME NEW t, NEW o, Holds(t, o, e)
       PROVE  \E q : q[1] = o + 1 /\ q[n + 1] = o + Len(e) + 1 /\ Spelt(t, q, x)
  <2> DEFINE q == [i \in 1..(n + 1) |-> o + L(i)]
  <2>1. o \in Nat /\ Len(t) \in Nat /\ o + Len(e) <= Len(t) /\ \A j \in 1..Len(e) : t[o + j] = e[j]
    BY <1>12, SeqIs DEF Holds
  <2>2. q[1] = o + 1 /\ q[n + 1] = o + Len(e) + 1 /\ \A i \in 1..n : q[i] = o + L(i) /\ q[i + 1] = o + L(i + 1)
    <3>1. 1 \in 1..(n + 1) /\ n + 1 \in 1..(n + 1) /\ \A i \in 1..n : i \in 1..(n + 1) /\ i + 1 \in 1..(n + 1)
      BY <1>1
    <3>2. /\ q[1] = o + L(1) /\ q[n + 1] = o + L(n + 1)
          /\ \A i \in 1..n : q[i] = o + L(i) /\ q[i + 1] = o + L(i + 1)
      BY <3>1
    <3> HIDE DEF q
    <3> QED BY <1>6, <1>8, <1>9, <2>1, <3>2
  <2> HIDE DEF q
  <2>3. ASSUME NEW k \in 1..n
        PROVE  /\ q[k] \in q[1]..(q[n + 1] - 1)
               /\ q[k] \in 1..Len(t) /\ t[q[k]] # Quot
               /\ q[k + 1] = IF EscapeAt(t, q[k], StoreEscapes) THEN q[k] + 2 ELSE q[k] + 1
               /\ x[k] = IF EscapeAt(t, q[k], StoreEscapes) THEN Unescaped(t[q[k] + 1]) ELSE t[q[k]]
    <3>1. /\ q[k] = o + L(k) /\ q[k + 1] = q[k] + h[k] /\ L(k) \in Nat /\ L(k) >= 1 /\ h[k] \in {1, 2}
          /\ Escaped(x[k], parts[k]) /\ h[k] = Len(parts[k])
      <4>1. k \in Nat /\ k # 0 /\ L(k + 1) = L(k) + h[k]
        BY <1>1, <1>6
      <4>2. h[k] \in {1, 2} /\ L(k) \in Nat /\ L(k) >= 1
        BY <1>3, <1>7
      <4>3. q[k] = o + L(k) /\ q[k + 1] = o + L(k + 1)
        BY <2>2
      <4> QED BY <1>2, <2>1, <4>1, <4>2, <4>3
    <3>2. \A j \in 1..h[k] : /\ L(k) + j - 1 \in 1..Len(e)
                             /\ t[o + (L(k) + j - 1)] = parts[k][j]
      BY <1>8, <2>1
    <3>3. L(k) \in 1..Len(e) /\ t[q[k]] = parts[k][1]
      <4>1. 1 \in 1..h[k] /\ L(k) + 1 - 1 = L(k)
        <5>1. h[k] \in {1, 2} /\ L(k) \in Nat
          BY <3>1
        <5> QED BY <5>1
      <4>2. q[k] = o + L(k)
        BY <3>1
      <4> QED BY <3>2, <4>1, <4>2
    <3>4. q[k] \in q[1]..(q[n + 1] - 1) /\ q[k] \in 1..Len(t)
      BY <1>8, <2>1, <2>2, <3>1, <3>3, SMTT(30)
    <3>5. CASE x[k] \in {Newline, Quot, Esc}
      <4>1. /\ h[k] = 2 /\ parts[k][1] = Esc /\ parts[k][2] \in StoreEscapes
            /\ Unescaped(parts[k][2]) = x[k]
        BY <3>1, <3>5 DEF Escaped
      <4>2. L(k) + 1 \in 1..Len(e) /\ t[q[k] + 1] = parts[k][2]
        <5>1. 2 \in 1..h[k] /\ L(k) + 2 - 1 = L(k) + 1 /\ o + (L(k) + 1) = q[k] + 1
          BY <2>1, <3>1, <4>1
        <5> QED BY <3>2, <5>1
      <4>3. q[k] < Len(t)
        BY <1>8, <2>1, <3>1, <4>2
      <4>4. EscapeAt(t, q[k], StoreEscapes)
        BY <3>3, <4>1, <4>2, <4>3 DEF EscapeAt
      <4>5. t[q[k]] # Quot
        BY <3>3, <4>1, CharsDiffer
      <4> QED BY <3>1, <3>4, <4>1, <4>2, <4>4, <4>5
    <3>6. CASE x[k] \notin {Newline, Quot, Esc}
      <4>1. h[k] = 1 /\ parts[k][1] = x[k]
        BY <3>1, <3>6 DEF Escaped
      <4>2. t[q[k]] = x[k] /\ t[q[k]] # Quot /\ ~EscapeAt(t, q[k], StoreEscapes)
        BY <3>3, <3>6, <4>1 DEF EscapeAt
      <4> QED BY <3>1, <3>4, <4>1, <4>2
    <3> QED BY <3>5, <3>6
  <2> QED BY <2>2, <2>3, Zenon DEF Spelt, n
<1> QED BY <1>8, <1>11, <1>12 DEF n, e

(* c is x from its k-th character on, with r behind it. *)
Follows(c, x, k, r) ==
    /\ IsSeq(c) /\ Len(c) = Len(x) + 1 - k + Len(r)
    /\ \A j \in 1..(Len(x) + 1 - k) : c[j] = x[k + j - 1]
    /\ \A j \in 1..Len(r) : c[Len(x) + 1 - k + j] = r[j]

(* The copy of escaped text is the text. *)
LEMMA CopySpelt ==
    ASSUME NEW t, IsSeq(t), NEW x, IsSeq(x), NEW q, Spelt(t, q, x), NEW first \in Nat, NEW end \in Nat,
           NEW without \in SUBSET {Quot}, NEW f,
           \A i \in first..(end + 1) : CopyStep(f, t, end, without, i),
           q[1] \in Nat, q[Len(x) + 1] \in Nat, first <= q[1], q[Len(x) + 1] <= end,
           IsSeq(f[q[Len(x) + 1]])
    PROVE  Follows(f[q[1]], x, 1, f[q[Len(x) + 1]])
<1> DEFINE n == Len(x)
           r == f[q[n + 1]]
           Bad == {k \in 1..(n + 1) : ~Follows(f[q[k]], x, k, r)}
<1>1. n \in Nat /\ n = Len(x)
  BY SeqIs
<1>2. q[n + 1] \in Nat /\ q[n + 1] <= end /\ IsSeq(r) /\ Len(r) \in Nat
  BY SeqIs
<1> HIDE DEF n
<1>3. Follows(f[q[n + 1]], x, n + 1, r)
  <2>1. n + 1 - (n + 1) = 0
    BY <1>1
  <2>2. \A j \in 1..Len(r) : 0 + j = j
    BY <1>2
  <2>3. Len(r) = 0 + Len(r) /\ 1..0 = {}
    BY <1>2
  <2> HIDE DEF r
  <2> QED BY <1>1, <1>2, <2>1, <2>2, <2>3 DEF Follows, r
<1>4. Bad = {}
  <2>1. SUFFICES ASSUME Bad # {} PROVE FALSE
    OBVIOUS
  <2>2. PICK b \in Bad : \A k \in Bad : k <= b
    <3>1. Bad \in SUBSET (0..(n + 1)) /\ n + 1 \in Nat
      BY <1>1
    <3> HIDE DEF Bad
    <3> QED BY <2>1, <3>1, GreatestNumber
  <2>3. b \in 1..(n + 1) /\ b \in Nat /\ ~Follows(f[q[b]], x, b, r)
    BY <1>1
  <2>4. b # n + 1
    BY <1>3, <2>3
  <2>5. b \in 1..n /\ b + 1 \in 1..(n + 1) /\ b + 1 > b
    BY <1>1, <2>3, <2>4
  <2>6. Follows(f[q[b + 1]], x, b + 1, r)
    BY <2>2, <2>3, <2>5
  <2> HIDE DEF Bad, r
  <2> DEFINE u == IF EscapeAt(t, q[b], StoreEscapes) THEN Unescaped(t[q[b] + 1]) ELSE t[q[b]]
             j == IF EscapeAt(t, q[b], StoreEscapes) THEN q[b] + 2 ELSE q[b] + 1
  <2>7. /\ q[b] \in q[1]..(q[n + 1] - 1) /\ t[q[b]] # Quot /\ q[b + 1] = j /\ x[b] = u
    BY <1>1, <2>5, Zenon DEF Spelt
  <2>8. q[b] \in first..(end + 1) /\ q[b] < end
    BY <1>2, <2>7
  <2>9. CopyStep(f, t, end, without, q[b])
    BY <2>8
  <2>10. f[q[b]] = <<u>> \o f[j]
    BY <2>7, <2>8, <2>9 DEF CopyStep
  <2> HIDE DEF u, j
  <2> DEFINE c == f[q[b]]
             d == f[q[b + 1]]
  <2>11. c = <<x[b]>> \o d
    BY <2>7, <2>10
  <2> HIDE DEF c, d
  <2>12. /\ IsSeq(d) /\ Len(d) = n + 1 - (b + 1) + Len(r)
         /\ \A k \in 1..(n + 1 - (b + 1)) : d[k] = x[b + 1 + k - 1]
         /\ \A k \in 1..Len(r) : d[n + 1 - (b + 1) + k] = r[k]
    BY <1>1, <2>6, Zenon DEF Follows, d
  <2>13. /\ IsSeq(c) /\ Len(c) = Len(d) + 1 /\ Len(d) \in Nat
         /\ c[1] = x[b] /\ \A k \in 1..Len(d) : c[k + 1] = d[k]
    BY <2>11, <2>12, InFront
  <2>14. Len(c) = n + 1 - b + Len(r)
    BY <1>1, <1>2, <2>3, <2>12, <2>13
  <2>15. ASSUME NEW k \in 1..(n + 1 - b) PROVE c[k] = x[b + k - 1]
    <3>1. CASE k = 1
      <4>1. b + 1 - 1 = b
        BY <2>3
      <4> QED BY <2>13, <3>1, <4>1
    <3>2. CASE k # 1
      <4>1. /\ k - 1 \in 1..(n + 1 - (b + 1)) /\ k - 1 \in 1..Len(d) /\ (k - 1) + 1 = k
            /\ b + 1 + (k - 1) - 1 = b + k - 1
        BY <1>1, <1>2, <2>3, <2>12, <3>2, SMTT(30)
      <4>2. c[(k - 1) + 1] = d[k - 1] /\ d[k - 1] = x[b + 1 + (k - 1) - 1]
        BY <2>12, <2>13, <4>1
      <4> QED BY <4>1, <4>2
    <3> QED BY <3>1, <3>2
  <2>16. ASSUME NEW k \in 1..Len(r) PROVE c[n + 1 - b + k] = r[k]
    <3>1. /\ n + 1 - (b + 1) + k \in 1..Len(d) /\ (n + 1 - (b + 1) + k) + 1 = n + 1 - b + k
      <4>1. Len(d) = n + 1 - (b + 1) + Len(r)
        BY <2>12
      <4> QED BY <1>1, <1>2, <2>3, <2>5, <4>1
    <3>2. c[(n + 1 - (b + 1) + k) + 1] = d[n + 1 - (b + 1) + k]
      BY <2>13, <3>1
    <3> QED BY <2>12, <3>1, <3>2
  <2>17. Follows(c, x, b, r)
    BY <1>1, <2>13, <2>14, <2>15, <2>16, Zenon DEF Follows
  <2> QED BY <2>3, <2>17 DEF c
<1>5. 1 \in 1..(n + 1)
  BY <1>1
<1>6. Follows(f[q[1]], x, 1, r)
  BY <1>4, <1>5
<1> QED BY <1>6 DEF n

(* With nothing behind it, it is the text itself. *)
LEMMA FollowsIs ==
    ASSUME NEW x, IsSeq(x), NEW c, Follows(c, x, 1, <<>>)
    PROVE  c = x
<1>1. Len(x) \in Nat /\ Len(<<>>) = 0
  BY SeqIs, NoneIs
<1>2. Len(c) = Len(x) /\ IsSeq(c)
  BY <1>1 DEF Follows
<1>3. ASSUME NEW j \in 1..Len(x) PROVE c[j] = x[j]
  <2>1. j \in 1..(Len(x) + 1 - 1) /\ 1 + j - 1 = j
    BY <1>1
  <2>2. c[j] = x[1 + j - 1]
    BY <2>1 DEF Follows
  <2> QED BY <2>1, <2>2
<1> QED BY <1>2, <1>3, SameSeq

(* What was escaped is what is read back. *)
LEMMA EscapedIsReadBack ==
    ASSUME NEW x, IsSeq(x)
    PROVE  strdeescape(strescape(x)) = x
<1> DEFINE t == strescape(x)
<1>1. IsSeq(t) /\ Len(t) \in Nat /\ Len(x) \in Nat
  BY EscapeIs, SeqIs
<1>2. Holds(t, 0, t)
  <2> HIDE DEF t
  <2> QED BY <1>1 DEF Holds
<1>3. PICK q : q[1] = 0 + 1 /\ q[Len(x) + 1] = 0 + Len(t) + 1 /\ Spelt(t, q, x)
  BY <1>2, EscapeIs
<1> HIDE DEF t
<1>4. /\ Len(t) + 1 \in Nat /\ 1 \in 1..((Len(t) + 1) + 1) /\ {} \in SUBSET {Quot}
      /\ q[1] = 1 /\ q[Len(x) + 1] = Len(t) + 1
      /\ Len(t) + 1 \in 1..((Len(t) + 1) + 1)
  BY <1>1, <1>3
<1>5. PICK f : /\ Copied(t, 1, Len(t) + 1, {}) = f[1]
               /\ \A i \in 1..((Len(t) + 1) + 1) : CopyStep(f, t, Len(t) + 1, {}, i)
  BY <1>4, CopySteps
<1>6. f[Len(t) + 1] = <<>>
  <2>1. CopyStep(f, t, Len(t) + 1, {}, Len(t) + 1)
    BY <1>4, <1>5
  <2>2. Len(t) + 1 >= Len(t) + 1
    BY <1>4
  <2> QED BY <2>1, <2>2 DEF CopyStep
<1>7. Follows(f[q[1]], x, 1, f[q[Len(x) + 1]])
  <2>1. /\ q[1] \in Nat /\ q[Len(x) + 1] \in Nat /\ 1 <= q[1] /\ q[Len(x) + 1] <= Len(t) + 1
        /\ IsSeq(f[q[Len(x) + 1]]) /\ 1 \in Nat
    BY <1>4, <1>6, NoneIs
  <2> QED BY <1>1, <1>3, <1>4, <1>5, <2>1, CopySpelt
<1>8. f[1] = x
  BY <1>4, <1>6, <1>7, FollowsIs
<1> QED BY <1>5, <1>8 DEF strdeescape, t

(* From one position to the other there are as many characters as x has. *)
ScansOver(x, from, to, S) ==
    /\ S[from]["quoted"].end = S[to]["quoted"].end
    /\ S[from]["quoted"].len = S[to]["quoted"].len + Len(x)

(* In quotes it is as many characters of an argument as the text has. *)
LEMMA ScanSpelt ==
    ASSUME NEW t, IsSeq(t), NEW x, IsSeq(x), NEW q, Spelt(t, q, x),
           q[1] \in Nat, q[Len(x) + 1] \in 1..(Len(t) + 1), NEW S, S = ScanArg(t, StoreEscapes)
    PROVE  ScansOver(x, q[1], q[Len(x) + 1], S)
<1> DEFINE n == Len(x)
           E(k) == S[q[k]]["quoted"].end
           M(k) == S[q[k]]["quoted"].len
           Good(k) == E(k) = E(n + 1) /\ M(k) = M(n + 1) + (n + 1 - k)
           Bad == {k \in 1..(n + 1) : ~Good(k)}
<1>1. n \in Nat /\ n = Len(x) /\ Len(t) \in Nat
  BY SeqIs
<1>2. M(n + 1) \in Nat
  <2>1. q[n + 1] \in 1..(Len(t) + 2)
    BY <1>1
  <2>2. ScanKind(S, t, q[n + 1], "quoted")
    BY <2>1, ScanKinds, ModesAre
  <2> QED BY <2>2, Zenon DEF ScanKind
<1>3. ASSUME NEW k \in 1..n PROVE E(k) = E(k + 1) /\ M(k) = M(k + 1) + 1
  <2>1. /\ q[k] \in 1..Len(t) /\ t[q[k]] # Quot
        /\ q[k + 1] = IF EscapeAt(t, q[k], StoreEscapes) THEN q[k] + 2 ELSE q[k] + 1
    BY <1>1, Zenon DEF Spelt
  <2>2. q[k] \in 1..(Len(t) + 2) /\ q[k] <= Len(t)
    BY <1>1, <2>1
  <2>3. ScanStep(S, t, StoreEscapes, q[k], "quoted")
    BY <2>2, ScanSteps, ModesAre
  <2>4. PICK j : /\ j = IF EscapeAt(t, q[k], StoreEscapes) THEN q[k] + 2 ELSE q[k] + 1
                 /\ S[q[k]]["quoted"].end = S[j]["quoted"].end
                 /\ S[q[k]]["quoted"].len = S[j]["quoted"].len + 1
    BY <2>1, <2>2, <2>3, Zenon DEF ScanStep
  <2> QED BY <2>1, <2>4
<1> HIDE DEF n, E, M
<1>4. Bad = {}
  <2>1. SUFFICES ASSUME Bad # {} PROVE FALSE
    OBVIOUS
  <2>2. PICK b \in Bad : \A k \in Bad : k <= b
    <3>1. Bad \in SUBSET (0..(n + 1)) /\ n + 1 \in Nat
      BY <1>1
    <3> HIDE DEF Bad
    <3> QED BY <2>1, <3>1, GreatestNumber
  <2>3. b \in 1..(n + 1) /\ b \in Nat /\ ~Good(b)
    BY <1>1
  <2>4. b # n + 1
    BY <1>1, <1>2, <2>3
  <2>5. b \in 1..n /\ b + 1 \in 1..(n + 1) /\ b + 1 > b
    BY <1>1, <2>3, <2>4
  <2>6. Good(b + 1)
    BY <2>2, <2>3, <2>5
  <2>7. E(b) = E(b + 1) /\ M(b) = M(b + 1) + 1
    BY <1>3, <2>5
  <2> QED BY <1>1, <1>2, <2>3, <2>6, <2>7
<1>5. Good(1)
  BY <1>1, <1>4
<1>6. n + 1 - 1 = n
  BY <1>1
<1> QED BY <1>5, <1>6 DEF n, E, M, ScansOver

(* A word in quotes at position o + 1, with the text x escaped, ends behind its quotes. *)
Word(t, o, e) ==
    /\ IsSeq(t) /\ IsSeq(e) /\ o \in Nat /\ o + Len(e) + 2 <= Len(t)
    /\ t[o + 1] = Quot /\ t[o + Len(e) + 2] = Quot
    /\ \A j \in 1..Len(e) : t[o + 1 + j] = e[j]
    /\ o + Len(e) + 2 < Len(t) => t[o + Len(e) + 3] = Blank

(* The argument from first to end is x. *)
WordReads(x, t, first, end, S) ==
    /\ S[first]["plain"].end = end /\ S[first]["plain"].len = Len(x)
    /\ Copied(t, first, end, {Quot}) = x

LEMMA WordIs ==
    ASSUME NEW x, IsSeq(x), NEW e, e = strescape(x), NEW t, NEW o, Word(t, o, e),
           NEW S, S = ScanArg(t, StoreEscapes)
    PROVE  WordReads(x, t, o + 1, o + Len(e) + 3, S)
<1>1. /\ IsSeq(t) /\ IsSeq(e) /\ o \in Nat /\ Len(e) \in Nat /\ Len(t) \in Nat /\ Len(x) \in Nat
      /\ o + Len(e) + 2 <= Len(t)
      /\ t[o + 1] = Quot /\ t[o + Len(e) + 2] = Quot
      /\ o + Len(e) + 2 < Len(t) => t[o + Len(e) + 3] = Blank
  <2>1. IsSeq(t) /\ IsSeq(e) /\ o \in Nat /\ o + Len(e) + 2 <= Len(t)
    BY DEF Word
  <2>2. Len(e) \in Nat /\ Len(t) \in Nat /\ Len(x) \in Nat
    BY <2>1, SeqIs
  <2>3. /\ t[o + 1] = Quot /\ t[o + Len(e) + 2] = Quot
        /\ o + Len(e) + 2 < Len(t) => t[o + Len(e) + 3] = Blank
    BY DEF Word
  <2> QED BY <2>1, <2>2, <2>3
<1> DEFINE close == o + Len(e) + 2
           end   == o + Len(e) + 3
<1>2. Holds(t, o + 1, e)
  <2>1. \A j \in 1..Len(e) : t[o + 1 + j] = e[j]
    BY DEF Word
  <2> QED BY <1>1, <2>1 DEF Holds
<1>3. PICK q : q[1] = o + 1 + 1 /\ q[Len(x) + 1] = o + 1 + Len(e) + 1 /\ Spelt(t, q, x)
  BY <1>2, EscapeIs
<1>4. /\ q[1] = o + 2 /\ q[Len(x) + 1] = close /\ close = o + Len(e) + 2 /\ end = close + 1
      /\ q[1] \in Nat /\ close \in 1..Len(t) /\ end \in Nat /\ close \in Nat /\ end = o + Len(e) + 3
      /\ o + 1 \in 1..Len(t)
  BY <1>1, <1>3
<1> HIDE DEF close, end
<1>5. S[o + 1]["plain"] = S[o + 2]["quoted"] /\ S[close]["quoted"] = S[end]["plain"]
  <2>1. /\ o + 1 \in 1..(Len(t) + 2) /\ o + 1 <= Len(t) /\ (o + 1) + 1 = o + 2
        /\ close \in 1..(Len(t) + 2) /\ close <= Len(t)
    BY <1>1, <1>4
  <2>2. ScanStep(S, t, StoreEscapes, o + 1, "plain") /\ ScanStep(S, t, StoreEscapes, close, "quoted")
    BY <1>1, <2>1, ScanSteps, ModesAre
  <2>3. t[close] = Quot
    BY <1>1, <1>4
  <2>4. S[o + 1]["plain"] = S[(o + 1) + 1][OtherMode("plain")]
    BY <1>1, <2>1, <2>2, Zenon DEF ScanStep
  <2>5. S[close]["quoted"] = S[close + 1][OtherMode("quoted")]
    BY <2>1, <2>2, <2>3, Zenon DEF ScanStep
  <2> QED BY <1>4, <2>1, <2>4, <2>5, ModesAre
<1>6. S[end]["plain"].end = end /\ S[end]["plain"].len = 0
  <2>1. end \in 1..(Len(t) + 2) /\ (end > Len(t) \/ end <= Len(t))
    BY <1>1, <1>4
  <2>2. ScanStep(S, t, StoreEscapes, end, "plain")
    BY <1>1, <2>1, ScanSteps, ModesAre
  <2>3. CASE end > Len(t)
    BY <2>2, <2>3 DEF ScanStep
  <2>4. CASE end <= Len(t)
    <3>1. t[end] = Blank
      BY <1>1, <1>4, <2>4
    <3> QED BY <2>2, <2>4, <3>1 DEF ScanStep
  <2> QED BY <2>1, <2>3, <2>4
<1>7. /\ S[o + 2]["quoted"].end = S[close]["quoted"].end
      /\ S[o + 2]["quoted"].len = S[close]["quoted"].len + Len(x)
  <2>1. q[Len(x) + 1] \in 1..(Len(t) + 1)
    BY <1>1, <1>4
  <2>2. ScansOver(x, q[1], q[Len(x) + 1], S)
    BY <1>1, <1>3, <1>4, <2>1, ScanSpelt
  <2> QED BY <1>4, <2>2 DEF ScansOver
<1>8. S[o + 1]["plain"].end = end /\ S[o + 1]["plain"].len = Len(x)
  BY <1>1, <1>5, <1>6, <1>7
<1>9. Copied(t, o + 1, end, {Quot}) = x
  <2>1. o + 1 \in 1..(end + 1) /\ o + 1 \in Nat
    BY <1>1, <1>4
  <2>2. PICK f : /\ Copied(t, o + 1, end, {Quot}) = f[o + 1]
                 /\ \A i \in (o + 1)..(end + 1) : CopyStep(f, t, end, {Quot}, i)
    BY <1>4, <2>1, CopySteps
  <2>3. /\ o + 1 \in (o + 1)..(end + 1) /\ close \in (o + 1)..(end + 1) /\ end \in (o + 1)..(end + 1)
        /\ o + 1 < end /\ close < end /\ end >= end /\ (o + 1) + 1 = o + 2
    BY <1>1, <1>4
  <2>4. /\ CopyStep(f, t, end, {Quot}, o + 1) /\ CopyStep(f, t, end, {Quot}, close)
        /\ CopyStep(f, t, end, {Quot}, end)
    BY <2>2, <2>3
  <2>5. f[o + 1] = f[o + 2]
    BY <1>1, <2>3, <2>4 DEF CopyStep
  <2>6. f[close] = <<>>
    <3>1. f[end] = <<>>
      BY <2>3, <2>4 DEF CopyStep
    <3>2. t[close] = Quot
      BY <1>1, <1>4
    <3>3. f[close] = f[close + 1]
      BY <2>3, <2>4, <3>2 DEF CopyStep
    <3> QED BY <1>4, <3>1, <3>3
  <2>7. Follows(f[q[1]], x, 1, f[q[Len(x) + 1]])
    <3>1. /\ q[Len(x) + 1] \in Nat /\ o + 1 <= q[1] /\ q[Len(x) + 1] <= end
          /\ IsSeq(f[q[Len(x) + 1]]) /\ {Quot} \in SUBSET {Quot}
      BY <1>1, <1>4, <2>6, NoneIs
    <3> QED BY <1>1, <1>3, <1>4, <2>1, <2>2, <3>1, CopySpelt
  <2>8. f[o + 2] = x
    BY <1>4, <2>6, <2>7, FollowsIs
  <2> QED BY <2>2, <2>5, <2>8
<1>10. WordReads(x, t, o + 1, end, S)
  BY <1>8, <1>9 DEF WordReads
<1> QED BY <1>4, <1>10

(* Two words with a blank between them. *)
LEMMA TwoWords ==
    ASSUME NEW x, IsSeq(x), NEW e, e = strescape(x),
           NEW w, w = <<Quot>> \o e \o <<Quot>>, NEW t, t = w \o <<Blank>> \o w
    PROVE  /\ Word(t, 0, e) /\ Word(t, Len(e) + 3, e) /\ Len(t) = 2 * Len(e) + 5
           /\ t[Len(e) + 3] = Blank
<1> DEFINE a == <<Quot>>
           b == <<Blank>>
           v == a \o e
           u == w \o b
           n == Len(e)
<1>1. /\ IsSeq(e) /\ n \in Nat
      /\ IsSeq(a) /\ Len(a) = 1 /\ a[1] = Quot /\ IsSeq(b) /\ Len(b) = 1 /\ b[1] = Blank
  BY EscapeIs, SeqIs, OneIs
<1> HIDE DEF a, b
<1>2. Joined(a, e, v)
  BY <1>1, Together
<1> HIDE DEF v
<1>3. Joined(v, a, w)
  <2>1. IsSeq(v)
    BY <1>2 DEF Joined
  <2>2. w = v \o a
    BY DEF v, a
  <2> QED BY <1>1, <2>1, <2>2, Together
<1>4. Joined(w, b, u)
  <2>1. IsSeq(w)
    BY <1>3 DEF Joined
  <2> QED BY <1>1, <2>1, Together
<1> HIDE DEF u
<1>5. Joined(u, w, t)
  <2>1. IsSeq(w) /\ IsSeq(u)
    BY <1>3, <1>4, Zenon DEF Joined
  <2>2. t = u \o w
    BY DEF u, b
  <2> QED BY <2>1, <2>2, Together
<1>6. /\ Len(v) = n + 1 /\ v[1] = Quot /\ \A j \in 1..n : v[1 + j] = e[j]
  <2>1. Len(v) = Len(a) + n /\ (\A i \in 1..Len(a) : v[i] = a[i]) /\ \A i \in 1..n : v[Len(a) + i] = e[i]
    BY <1>2, Zenon DEF Joined
  <2> QED BY <1>1, <2>1
<1>7. /\ Len(w) = n + 2 /\ w[1] = Quot /\ (\A j \in 1..n : w[1 + j] = e[j]) /\ w[n + 2] = Quot
  <2>1. /\ Len(w) = Len(v) + Len(a) /\ \A i \in 1..Len(v) : w[i] = v[i]
        /\ \A i \in 1..Len(a) : w[Len(v) + i] = a[i]
    BY <1>3, Zenon DEF Joined
  <2>2. Len(w) = n + 2 /\ 1 \in 1..Len(v) /\ 1 \in 1..Len(a) /\ (\A j \in 1..n : 1 + j \in 1..Len(v)) /\ Len(v) + 1 = n + 2
    BY <1>1, <1>6, <2>1
  <2> QED BY <1>1, <1>6, <2>1, <2>2
<1>8. /\ Len(u) = n + 3 /\ (\A i \in 1..(n + 2) : u[i] = w[i]) /\ u[n + 3] = Blank
  <2>1. /\ Len(u) = Len(w) + Len(b) /\ \A i \in 1..Len(w) : u[i] = w[i]
        /\ \A i \in 1..Len(b) : u[Len(w) + i] = b[i]
    BY <1>4, Zenon DEF Joined
  <2>2. Len(u) = n + 3 /\ 1 \in 1..Len(b) /\ Len(w) + 1 = n + 3
    BY <1>1, <1>7, <2>1
  <2> QED BY <1>1, <1>7, <2>1, <2>2
<1>9. /\ IsSeq(t) /\ Len(t) = 2 * n + 5
      /\ \A i \in 1..(n + 2) : t[i] = w[i]
      /\ t[n + 3] = Blank
      /\ \A i \in 1..(n + 2) : t[n + 3 + i] = w[i]
  <2>1. /\ IsSeq(t) /\ Len(t) = Len(u) + Len(w) /\ \A i \in 1..Len(u) : t[i] = u[i]
        /\ \A i \in 1..Len(w) : t[Len(u) + i] = w[i]
    BY <1>5, Zenon DEF Joined
  <2>2. (\A i \in 1..(n + 2) : i \in 1..Len(u)) /\ n + 3 \in 1..Len(u) /\ Len(u) + Len(w) = 2 * n + 5
    BY <1>1, <1>7, <1>8
  <2> QED BY <1>7, <1>8, <2>1, <2>2
<1>10. 1 \in 1..(n + 2) /\ n + 2 \in 1..(n + 2) /\ \A j \in 1..n : 1 + j \in 1..(n + 2)
  BY <1>1
<1>11. Word(t, 0, e)
  <2>1. /\ 0 \in Nat /\ 0 + n + 2 <= Len(t) /\ 0 + 1 = 1 /\ 0 + n + 2 = n + 2 /\ 0 + n + 3 = n + 3
        /\ \A j \in 1..n : 0 + 1 + j = 1 + j
    BY <1>1, <1>9
  <2>2. /\ t[0 + 1] = Quot /\ (\A j \in 1..n : t[0 + 1 + j] = e[j]) /\ t[0 + n + 2] = Quot
        /\ t[0 + n + 3] = Blank
    BY <1>7, <1>9, <1>10, <2>1
  <2> QED BY <1>1, <1>9, <2>1, <2>2, Zenon DEF Word
<1>12. Word(t, n + 3, e)
  <2>1. /\ n + 3 \in Nat /\ n + 3 + n + 2 <= Len(t) /\ ~(n + 3 + n + 2 < Len(t))
        /\ n + 3 + n + 2 = n + 3 + (n + 2)
        /\ \A j \in 1..n : n + 3 + 1 + j = n + 3 + (1 + j)
    BY <1>1, <1>9
  <2>2. t[n + 3 + 1] = Quot /\ (\A j \in 1..n : t[n + 3 + 1 + j] = e[j]) /\ t[n + 3 + n + 2] = Quot
    BY <1>7, <1>9, <1>10, <2>1
  <2> QED BY <1>1, <1>9, <2>1, <2>2, Zenon DEF Word
<1> QED BY <1>9, <1>11, <1>12

(* There are blanks from i to o. *)
BlankUpTo(t, i, o) == \A k \in i..o : t[k] = Blank

(* One argument from i on, with the text x, and then those from j on. *)
OneArg(F, t, i, j, x) == \E arg : F[i] = <<arg>> \o F[j] /\ ArgText(t, arg) = x

(* The argument at the start of such a word. *)
LEMMA ArgIsWord ==
    ASSUME NEW x, IsSeq(x), NEW e, e = strescape(x), NEW t, NEW o, Word(t, o, e),
           NEW F, ArgsOf(F, ScanArg(t, StoreEscapes), t),
           NEW i \in 1..(Len(t) + 1), i <= o + 1, BlankUpTo(t, i, o)
    PROVE  OneArg(F, t, i, o + Len(e) + 3, x)
<1> DEFINE S == ScanArg(t, StoreEscapes)
           start == SkipBlanks(t, i)
           arg == [start |-> start, end |-> S[start]["plain"].end, len |-> S[start]["plain"].len]
<1>1. /\ IsSeq(t) /\ IsSeq(e) /\ o \in Nat /\ Len(e) \in Nat /\ Len(t) \in Nat /\ i \in Nat
      /\ o + Len(e) + 2 <= Len(t) /\ t[o + 1] = Quot
  <2>1. IsSeq(t) /\ IsSeq(e) /\ o \in Nat /\ o + Len(e) + 2 <= Len(t) /\ t[o + 1] = Quot
    BY Zenon DEF Word
  <2>2. Len(e) \in Nat /\ Len(t) \in Nat
    BY <2>1, SeqIs
  <2> QED BY <2>1, <2>2
<1>2. start = o + 1
  <2>1. /\ start \in i..(Len(t) + 1)
        /\ start > Len(t) \/ t[start] # Blank
        /\ \A k \in i..(Len(t) + 1) : k > Len(t) \/ t[k] # Blank => start <= k
    BY <1>1, SkipIs
  <2> HIDE DEF start
  <2>2. o + 1 \in i..(Len(t) + 1) /\ t[o + 1] # Blank
    BY <1>1, CharsDiffer
  <2>3. start <= o + 1 /\ start \in Nat /\ start >= i
    BY <1>1, <2>1, <2>2
  <2>4. start \notin i..o
    BY <1>1, <2>1, <2>3 DEF BlankUpTo
  <2> QED BY <1>1, <2>3, <2>4
<1>3. /\ S[o + 1]["plain"].end = o + Len(e) + 3
      /\ Copied(t, o + 1, o + Len(e) + 3, {Quot}) = x
  <2>1. WordReads(x, t, o + 1, o + Len(e) + 3, ScanArg(t, StoreEscapes))
    BY WordIs
  <2> QED BY <2>1, Zenon DEF WordReads
<1>4. /\ start > Len(t) \/ S[start]["plain"].end > Len(t) + 1 => F[i] = <<>>
      /\ ~(start > Len(t) \/ S[start]["plain"].end > Len(t) + 1) =>
            F[i] = <<arg>> \o F[S[start]["plain"].end]
  <2>1. ArgStep(F, S, t, i)
    BY Zenon DEF ArgsOf
  <2> QED BY <2>1, Zenon DEF ArgStep
<1>5. arg.start = start /\ arg.end = S[start]["plain"].end
  OBVIOUS
<1> HIDE DEF S, start, arg
<1>6. ~(start > Len(t) \/ S[start]["plain"].end > Len(t) + 1)
  BY <1>1, <1>2, <1>3
<1>7. F[i] = <<arg>> \o F[o + Len(e) + 3]
  BY <1>2, <1>3, <1>4, <1>6
<1>8. ArgText(t, arg) = x
  BY <1>2, <1>3, <1>5 DEF ArgText
<1> QED BY <1>7, <1>8, Zenon DEF OneArg

(* Two quoted words are two arguments with the text of the words. *)
LEMMA TwoArguments ==
    ASSUME NEW x, IsSeq(x), NEW e, e = strescape(x),
           NEW w, w = <<Quot>> \o e \o <<Quot>>, NEW t, t = w \o <<Blank>> \o w
    PROVE  IsSeq(t) /\ Argv(t) = <<x, x>>
<1>1. /\ Word(t, 0, e) /\ Word(t, Len(e) + 3, e) /\ Len(t) = 2 * Len(e) + 5
      /\ t[Len(e) + 3] = Blank
  BY TwoWords
<1>2. IsSeq(t) /\ IsSeq(e) /\ Len(t) \in Nat /\ Len(e) \in Nat
  <2>1. IsSeq(t) /\ IsSeq(e)
    BY <1>1, Zenon DEF Word
  <2> QED BY <2>1, SeqIs
<1>3. PICK F : Arguments(t, StoreEscapes) = F[1] /\ ArgsOf(F, ScanArg(t, StoreEscapes), t)
  BY <1>2, ArgSteps
<1> DEFINE n == Len(e)
<1>4. PICK a : F[1] = <<a>> \o F[n + 3] /\ ArgText(t, a) = x
  <2>1. 1 \in 1..(Len(t) + 1) /\ 1 <= 0 + 1 /\ 1..0 = {} /\ 0 + n + 3 = n + 3
    BY <1>2
  <2>2. BlankUpTo(t, 1, 0)
    BY <2>1 DEF BlankUpTo
  <2>3. OneArg(F, t, 1, 0 + n + 3, x)
    BY <1>1, <1>3, <2>1, <2>2, ArgIsWord
  <2> QED BY <2>1, <2>3 DEF OneArg
<1>5. PICK b : F[n + 3] = <<b>> \o F[Len(t) + 1] /\ ArgText(t, b) = x
  <2>1. /\ n + 3 \in 1..(Len(t) + 1) /\ n + 3 <= (n + 3) + 1 /\ (n + 3) + n + 3 = Len(t) + 1
        /\ (n + 3)..(n + 3) = {n + 3}
    BY <1>1, <1>2
  <2>2. BlankUpTo(t, n + 3, n + 3)
    BY <1>1, <2>1 DEF BlankUpTo
  <2>3. OneArg(F, t, n + 3, (n + 3) + n + 3, x)
    BY <1>1, <1>3, <2>1, <2>2, ArgIsWord
  <2> QED BY <2>1, <2>3 DEF OneArg
<1>6. F[Len(t) + 1] = <<>>
  <2> DEFINE start == SkipBlanks(t, Len(t) + 1)
  <2>1. Len(t) + 1 \in 1..(Len(t) + 1)
    BY <1>2
  <2>2. start \in (Len(t) + 1)..(Len(t) + 1)
    BY <1>2, <2>1, SkipIs
  <2>3. start > Len(t)
    BY <1>2, <2>2
  <2>4. ArgStep(F, ScanArg(t, StoreEscapes), t, Len(t) + 1)
    BY <1>3, <2>1, Zenon DEF ArgsOf
  <2> QED BY <2>3, <2>4, Zenon DEF ArgStep
<1> DEFINE G == F[n + 3]
           A == F[1]
<1>7. /\ IsSeq(G) /\ Len(G) = 1 /\ G[1] = b
  <2> DEFINE none == <<>>
  <2>1. G = <<b>> \o none
    BY <1>5, <1>6
  <2>2. IsSeq(none) /\ Len(none) = 0
    BY NoneIs
  <2> HIDE DEF G, none
  <2>3. IsSeq(G) /\ Len(G) = Len(none) + 1 /\ G[1] = b
    BY <2>1, <2>2, InFront, Zenon
  <2> QED BY <2>2, <2>3
<1>8. A = <<a>> \o G
  BY <1>4
<1> HIDE DEF G, A
<1>9. /\ IsSeq(A) /\ Len(A) = 2 /\ A[1] = a /\ A[2] = b /\ DOMAIN A = 1..2
  <2>1. /\ IsSeq(A) /\ Len(A) = Len(G) + 1 /\ A[1] = a /\ \A i \in 1..Len(G) : A[i + 1] = G[i]
    <3>1. IsSeq(G)
      BY <1>7
    <3> QED BY <1>8, <3>1, InFront
  <2>2. Len(A) = 2 /\ A[1 + 1] = G[1]
    BY <1>7, <2>1
  <2>3. DOMAIN A = 1..2
    BY <2>1, <2>2, SeqIs
  <2> QED BY <1>7, <2>1, <2>2, <2>3
<1>10. Argv(t) = [k \in 1..2 |-> ArgText(t, A[k])]
  BY <1>3, <1>9 DEF Argv, A
<1>11. [k \in 1..2 |-> ArgText(t, A[k])] = <<x, x>>
  <2>1. \A k \in 1..2 : ArgText(t, A[k]) = x
    <3>1. \A k \in 1..2 : k = 1 \/ k = 2
      OBVIOUS
    <3> QED BY <1>4, <1>5, <1>9, <3>1
  <2>2. [k \in 1..2 |-> ArgText(t, A[k])] = [k \in 1..2 |-> x]
    BY <2>1, Zenon
  <2>3. [k \in 1..2 |-> x] = <<x, x>>
    OBVIOUS
  <2> QED BY <2>2, <2>3
<1> QED BY <1>2, <1>10, <1>11

(* A text that is escaped and quoted, twice in a line that is escaped, comes back. *)
LEMMA TextSurvives ==
    ASSUME IsSeq(str)
    PROVE  QuotedTextSurvives
<1> DEFINE e == strescape(str)
           w == <<Quot>> \o e \o <<Quot>>
           t == w \o <<Blank>> \o w
<1>1. Len(e) <= 2 * Len(str)
  BY EscapeIs
<1>2. IsSeq(t) /\ Argv(t) = <<str, str>>
  BY TwoArguments
<1>3. strdeescape(strescape(t)) = t
  <2> HIDE DEF t
  <2> QED BY <1>2, EscapedIsReadBack
<1>4. Argv(strdeescape(strescape(t))) = <<str, str>>
  <2> HIDE DEF t
  <2> QED BY <1>2, <1>3
<1> HIDE DEF Argv
<1> QED BY <1>1, <1>4, Zenon DEF QuotedTextSurvives

------------------------------------------------------------------------------
(* Strings: numbers *)

IsPowers(f, base, n) == f = [i \in 0..n |-> IF i = 0 THEN 1 ELSE base * f[i - 1]]

(* There are powers of any base. *)
LEMMA PowersExist ==
    ASSUME NEW base, NEW n \in Nat
    PROVE  \E f : IsPowers(f, base, n)
<1> DEFINE Bad == {k \in Nat : ~ \E f : IsPowers(f, base, k)}
<1>1. SUFFICES ASSUME Bad # {} PROVE FALSE
  OBVIOUS
<1>2. PICK m \in Bad : \A k \in Bad : m <= k
  BY <1>1, LeastNumber, Zenon
<1>3. m \in Nat /\ ~ \E f : IsPowers(f, base, m)
  OBVIOUS
<1>4. m # 0
  <2>1. [i \in 0..0 |-> 1] = [i \in 0..0 |-> IF i = 0 THEN 1 ELSE base * [j \in 0..0 |-> 1][i - 1]]
    <3>1. \A i \in 0..0 : i = 0
      OBVIOUS
    <3> QED BY <3>1
  <2>2. IsPowers([i \in 0..0 |-> 1], base, 0)
    BY <2>1 DEF IsPowers
  <2> QED BY <1>3, <2>2
<1>5. m - 1 \in Nat /\ ~(m <= m - 1)
  BY <1>3, <1>4
<1>6. PICK f : IsPowers(f, base, m - 1)
  BY <1>2, <1>5
<1> HIDE DEF Bad
<1> DEFINE g == [i \in 0..m |-> IF i = 0 THEN 1 ELSE base * f[i - 1]]
<1>7. \A i \in 0..(m - 1) : i \in 0..m /\ g[i] = f[i]
  BY <1>3, <1>5, <1>6 DEF IsPowers
<1>8. g = [i \in 0..m |-> IF i = 0 THEN 1 ELSE base * g[i - 1]]
  <2>1. \A i \in 0..m : i # 0 => i - 1 \in 0..(m - 1)
    BY <1>3
  <2>2. \A i \in 0..m : i # 0 => g[i - 1] = f[i - 1]
    BY <1>7, <2>1
  <2>3. g = [i \in 0..m |-> IF i = 0 THEN 1 ELSE base * f[i - 1]]
    OBVIOUS
  <2> HIDE DEF g
  <2> QED BY <2>2, <2>3
<1> HIDE DEF g
<1>9. IsPowers(g, base, m)
  BY <1>8, Zenon DEF IsPowers
<1> QED BY <1>3, <1>9

(* The powers of a base are what they are meant to be. *)
ArePowers(P, base) ==
    /\ P[0] = 1
    /\ \A i \in 0..LongBits : P[i] \in Nat /\ P[i] >= 1
    /\ \A i \in 0..(LongBits - 1) : P[i + 1] = base * P[i]

LEMMA PowersAre ==
    ASSUME NEW base \in Nat, base >= 2
    PROVE  ArePowers(Powers(base), base)
<1> DEFINE f == CHOOSE f : f = [i \in 0..LongBits |-> IF i = 0 THEN 1 ELSE base * f[i - 1]]
<1>1. LongBits \in Nat
  BY WidthsAssumption
<1>2. \E g : g = [i \in 0..LongBits |-> IF i = 0 THEN 1 ELSE base * g[i - 1]]
  <2>1. PICK g : IsPowers(g, base, LongBits)
    BY <1>1, PowersExist
  <2>2. g = [i \in 0..LongBits |-> IF i = 0 THEN 1 ELSE base * g[i - 1]]
    BY <2>1, Zenon DEF IsPowers
  <2> QED BY <2>2
<1>3. f = [i \in 0..LongBits |-> IF i = 0 THEN 1 ELSE base * f[i - 1]]
  BY <1>2, Zenon
<1>4. Powers(base) = f
  BY Zenon DEF Powers
<1> HIDE DEF f
<1>5. f[0] = 1
  BY <1>1, <1>3
<1>6. ASSUME NEW i \in 0..(LongBits - 1) PROVE f[i + 1] = base * f[i]
  <2>1. i + 1 \in 0..LongBits /\ i + 1 # 0 /\ (i + 1) - 1 = i
    BY <1>1
  <2>2. f[i + 1] = base * f[(i + 1) - 1]
    BY <1>3, <2>1
  <2> QED BY <2>1, <2>2
<1>7. \A i \in 0..LongBits : f[i] \in Nat /\ f[i] >= 1
  <2> DEFINE Bad == {i \in 0..LongBits : ~(f[i] \in Nat /\ f[i] >= 1)}
  <2>1. SUFFICES ASSUME Bad # {} PROVE FALSE
    OBVIOUS
  <2>2. PICK b \in Bad : \A k \in Bad : b <= k
    <3>1. Bad \in SUBSET Nat
      BY <1>1
    <3> HIDE DEF Bad
    <3> QED BY <2>1, <3>1, LeastNumber
  <2>3. b # 0
    BY <1>5, <2>2
  <2>4. b - 1 \in 0..(LongBits - 1) /\ b - 1 \in 0..LongBits /\ (b - 1) + 1 = b /\ ~(b <= b - 1)
    BY <1>1, <2>2, <2>3
  <2>5. f[b - 1] \in Nat /\ f[b - 1] >= 1
    BY <2>2, <2>4
  <2>6. f[b] = base * f[b - 1]
    BY <1>6, <2>4
  <2>7. base * f[b - 1] \in Nat /\ base * f[b - 1] >= 1
    <3> DEFINE p == f[b - 1]
    <3>1. p \in Nat /\ p >= 1
      BY <2>5
    <3> HIDE DEF p
    <3>2. base * p \in Nat /\ base * p >= 1
      BY <3>1
    <3> QED BY <3>2 DEF p
  <2> QED BY <2>2, <2>6, <2>7
<1> QED BY <1>4, <1>5, <1>6, <1>7 DEF ArePowers

(* The powers of two ascend. *)
LEMMA TwosAscend ==
    ASSUME NEW m \in 0..LongBits
    PROVE  \A i \in 0..m : Powers(2)[i] <= Powers(2)[m]
<1> DEFINE P == Powers(2)
           Bad == {i \in 0..m : ~(P[i] <= P[m])}
<1>1. LongBits \in Nat /\ m \in Nat /\ m <= LongBits
  BY WidthsAssumption
<1>2. ArePowers(P, 2)
  BY PowersAre
<1> HIDE DEF P
<1>3. SUFFICES ASSUME Bad # {} PROVE FALSE
  BY DEF P
<1>4. PICK b \in Bad : \A k \in Bad : k <= b
  BY <1>1, <1>3, GreatestNumber
<1>5. /\ b \in 0..m /\ ~(P[b] <= P[m]) /\ b # m
  <2>1. P[m] \in Nat
    BY <1>1, <1>2 DEF ArePowers
  <2> QED BY <2>1
<1>6. b + 1 \in 0..m /\ ~(b + 1 <= b) /\ b \in 0..(LongBits - 1) /\ b \in 0..LongBits /\ b + 1 \in 0..LongBits
  BY <1>1, <1>5
<1>7. P[b + 1] <= P[m]
  BY <1>4, <1>6
<1>8. P[b + 1] = 2 * P[b] /\ P[b] \in Nat /\ P[b + 1] \in Nat /\ P[m] \in Nat
  BY <1>1, <1>2, <1>6 DEF ArePowers
<1> QED BY <1>5, <1>7, <1>8

(* Three bits are less than a digit: an unsigned long has no more digits than strlen looks for. *)
LEMMA DigitsSuffice ==
    ASSUME NEW base \in {10, 16}
    PROVE  /\ LongBits \div 3 + 1 \in 1..LongBits
           /\ Powers(2)[LongBits] <= Powers(base)[LongBits \div 3 + 1]
<1> DEFINE P == Powers(base)
           T == Powers(2)
           K == LongBits \div 3
           Bad == {k \in 0..K : ~(T[3 * k] <= P[k])}
<1>1. LongBits \in Nat /\ LongBits >= 2
  BY WidthsAssumption
<1>2. ArePowers(P, base) /\ ArePowers(T, 2)
  BY PowersAre
<1>3. /\ K \in Nat /\ 3 * K <= LongBits /\ LongBits <= 3 * K + 2
      /\ K + 1 \in 1..LongBits
  BY <1>1
<1> HIDE DEF P, T, K
<1>4. Bad = {}
  <2>1. SUFFICES ASSUME Bad # {} PROVE FALSE
    OBVIOUS
  <2>2. PICK b \in Bad : \A k \in Bad : b <= k
    <3>1. Bad \in SUBSET Nat
      BY <1>3
    <3> HIDE DEF Bad
    <3> QED BY <2>1, <3>1, LeastNumber
  <2>3. b \in 0..K /\ b \in Nat /\ ~(T[3 * b] <= P[b])
    BY <1>3
  <2>4. b # 0
    BY <1>2, <2>3 DEF ArePowers
  <2>5. b - 1 \in 0..K /\ ~(b <= b - 1)
    BY <1>3, <2>3, <2>4
  <2>6. T[3 * (b - 1)] <= P[b - 1]
    BY <2>2, <2>5
  <2> DEFINE j == 3 * (b - 1)
  <2>7. /\ j \in 0..(LongBits - 1) /\ j + 1 \in 0..(LongBits - 1) /\ j + 2 \in 0..(LongBits - 1)
        /\ j \in 0..LongBits /\ (j + 1) + 1 = j + 2 /\ (j + 2) + 1 = 3 * b
        /\ b - 1 \in 0..(LongBits - 1) /\ (b - 1) + 1 = b /\ b - 1 \in 0..LongBits
    BY <1>1, <1>3, <2>3, <2>4
  <2>8. T[j] <= P[b - 1]
    BY <2>6
  <2> HIDE DEF j
  <2>9. /\ T[j + 1] = 2 * T[j] /\ T[j + 2] = 2 * T[j + 1] /\ T[3 * b] = 2 * T[j + 2]
        /\ T[j] \in Nat /\ P[b - 1] \in Nat /\ P[b] = base * P[b - 1]
    <3>1. T[j + 1] = 2 * T[j] /\ T[(j + 1) + 1] = 2 * T[j + 1] /\ T[(j + 2) + 1] = 2 * T[j + 2] /\ T[j] \in Nat
      BY <1>2, <2>7 DEF ArePowers
    <3>2. P[(b - 1) + 1] = base * P[b - 1] /\ P[b - 1] \in Nat
      BY <1>2, <2>7 DEF ArePowers
    <3> QED BY <2>7, <3>1, <3>2
  <2>10. T[3 * b] = 8 * T[j]
    BY <2>9
  <2>11. P[b] >= 8 * P[b - 1]
    BY <2>9
  <2> QED BY <2>3, <2>8, <2>9, <2>10, <2>11
<1>5. K \in 0..K /\ K \in 0..(LongBits - 1) /\ K \in 0..LongBits
  BY <1>1, <1>3
<1>6. T[3 * K] <= P[K] /\ P[K + 1] = base * P[K] /\ P[K] \in Nat
  <2>1. T[3 * K] <= P[K]
    BY <1>4, <1>5
  <2> QED BY <1>2, <1>5, <2>1 DEF ArePowers
<1>7. P[K + 1] >= 8 * P[K]
  BY <1>6
<1>8. T[LongBits] <= 4 * T[3 * K] /\ T[3 * K] \in Nat /\ T[LongBits] \in Nat
  <2> DEFINE j == 3 * K
  <2> SUFFICES T[LongBits] <= 4 * T[j] /\ T[j] \in Nat /\ T[LongBits] \in Nat
    OBVIOUS
  <2>1. /\ j \in 0..LongBits /\ LongBits \in 0..LongBits
        /\ LongBits = j \/ LongBits = j + 1 \/ LongBits = (j + 1) + 1
    BY <1>1, <1>3
  <2> HIDE DEF j
  <2>2. T[j] \in Nat /\ T[LongBits] \in Nat
    BY <1>2, <2>1 DEF ArePowers
  <2>3. CASE LongBits = j
    BY <2>2, <2>3
  <2>4. CASE LongBits = j + 1
    <3>1. j \in 0..(LongBits - 1)
      BY <2>1, <2>4
    <3>2. T[LongBits] = 2 * T[j]
      BY <1>2, <2>4, <3>1 DEF ArePowers
    <3> QED BY <2>2, <3>2
  <2>5. CASE LongBits = (j + 1) + 1
    <3>1. j \in 0..(LongBits - 1) /\ j + 1 \in 0..(LongBits - 1)
      BY <2>1, <2>5
    <3>2. T[(j + 1) + 1] = 2 * T[j + 1] /\ T[j + 1] = 2 * T[j]
      BY <1>2, <3>1 DEF ArePowers
    <3> QED BY <2>2, <2>5, <3>2
  <2> QED BY <2>1, <2>2, <2>3, <2>4, <2>5
<1>9. T[LongBits] <= P[K + 1]
  <2>1. P[K + 1] \in Nat
    BY <1>2, <1>3 DEF ArePowers
  <2> QED BY <1>6, <1>7, <1>8, <2>1
<1> QED BY <1>3, <1>9 DEF P, T, K

(* A number's digits are as many as hold it. *)
LEMMA StrlenIs ==
    ASSUME NEW base \in {10, 16}, NEW val \in 0..(Powers(2)[LongBits] - 1)
    PROVE  /\ strlen(val, base) \in 1..LongBits
           /\ val < Powers(base)[strlen(val, base)]
<1> DEFINE P == Powers(base)
           K == LongBits \div 3 + 1
           J == {n \in 1..K : val < P[n]}
<1>1. LongBits \in Nat
  BY WidthsAssumption
<1>2. ArePowers(P, base) /\ ArePowers(Powers(2), 2)
  BY PowersAre
<1>3. K \in 1..LongBits /\ Powers(2)[LongBits] <= P[K]
  BY DigitsSuffice
<1>4. strlen(val, base) = CHOOSE x \in J : \A y \in J : x <= y
  BY DEF strlen, Min
<1> HIDE DEF P, K
<1>5. val < P[K] /\ val \in Nat
  <2>1. P[K] \in Nat /\ Powers(2)[LongBits] \in Nat
    BY <1>1, <1>2, <1>3 DEF ArePowers
  <2> QED BY <1>3, <2>1
<1>6. J \in SUBSET Nat /\ J # {}
  <2>1. K \in J
    BY <1>3, <1>5
  <2> QED BY <1>3, <2>1
<1>7. \E x \in J : \A y \in J : x <= y
  <2> HIDE DEF J
  <2> QED BY <1>6, LeastNumber
<1>8. strlen(val, base) \in J
  <2> HIDE DEF J
  <2> QED BY <1>4, <1>7
<1>9. strlen(val, base) \in 1..K /\ val < P[strlen(val, base)]
  BY <1>8
<1>10. strlen(val, base) \in 1..LongBits
  BY <1>1, <1>3, <1>9
<1> QED BY <1>9, <1>10 DEF P

(* A number is divided in one way only. *)
LEMMA DivisionIs ==
    ASSUME NEW v \in Nat, NEW m \in Nat, m >= 1
    PROVE  v \div m \in Nat /\ v % m \in 0..(m - 1) /\ v = m * (v \div m) + (v % m)
  BY SMTT(30)

LEMMA QuotientIs ==
    ASSUME NEW v \in Nat, NEW m \in Nat, m >= 1, NEW h \in Nat, NEW s \in 0..(m - 1), v = m * h + s
    PROVE  v \div m = h
<1> DEFINE z == v \div m
           w == v % m
<1>1. z \in Nat /\ w \in 0..(m - 1) /\ v = m * z + w
  BY DivisionIs
<1> HIDE DEF z, w
<1>2. m * z \in Nat /\ m * h \in Nat /\ m * z + w = m * h + s
  <2>1. m * z \in Nat
    BY <1>1, SMTT(30)
  <2>2. m * h \in Nat
    BY SMTT(30)
  <2>3. m * z + w = m * h + s
    BY <1>1
  <2> QED BY <2>1, <2>2, <2>3
<1>3. ~(z < h)
  <2>1. z < h => m * z + m <= m * h
    BY <1>1, SMTT(30)
  <2> QED BY <1>1, <1>2, <2>1
<1>4. ~(h < z)
  <2>1. h < z => m * h + m <= m * z
    BY <1>1, SMTT(30)
  <2> QED BY <1>1, <1>2, <2>1
<1>5. z = h
  BY <1>1, <1>3, <1>4
<1> QED BY <1>5 DEF z

(* Taking a digit off. *)
LEMMA DigitOff ==
    ASSUME NEW base \in {10, 16}, NEW v \in Nat, NEW p \in Nat, p >= 1
    PROVE  /\ v \div p \in Nat /\ (v \div p) % base \in Nat
           /\ v \div p = (v \div (base * p)) * base + ((v \div p) % base)
<1> DEFINE q == v \div p
           r == v % p
           h == q \div base
           d == q % base
<1>1. q \in Nat /\ r \in 0..(p - 1) /\ v = p * q + r
  BY DivisionIs
<1> HIDE DEF q, r
<1>2. h \in Nat /\ d \in 0..(base - 1) /\ q = base * h + d
  BY <1>1
<1> HIDE DEF h, d
<1>3. v \div (base * p) = h
  <2> DEFINE m == base * p
             s == p * d + r
  <2>1. m \in Nat /\ m >= 1 /\ m = base * p
    BY SMTT(30)
  <2>2. s \in 0..(m - 1)
    <3>1. d <= base - 1 /\ d \in Nat
      BY <1>2
    <3>2. p * d <= p * (base - 1)
      BY <3>1, SMTT(30)
    <3>3. p * (base - 1) = m - p
      BY <2>1, SMTT(30)
    <3>4. p * d \in Nat
      BY <3>1, SMTT(30)
    <3> QED BY <1>1, <2>1, <3>2, <3>3, <3>4
  <2>3. v = m * h + s
    <3>1. v = p * (base * h + d) + r
      BY <1>1, <1>2
    <3>2. p * (base * h + d) = m * h + p * d
      BY <1>2, <2>1, SMTT(30)
    <3>3. m * h \in Nat /\ p * d \in Nat
      BY <1>2, <2>1, SMTT(30)
    <3> QED BY <1>1, <3>1, <3>2, <3>3
  <2> HIDE DEF m, s
  <2>4. v \div m = h
    BY <1>2, <2>1, <2>2, <2>3, QuotientIs
  <2> QED BY <2>4 DEF m
<1>4. q = h * base + d /\ d \in Nat
  BY <1>2
<1>5. q = (v \div (base * p)) * base + d
  BY <1>3, <1>4
<1>6. q \in Nat
  BY <1>1
<1>7. d \in Nat
  BY <1>4
<1> QED BY <1>5, <1>6, <1>7, Zenon DEF q, d

ValueLine(f, digits, base, k) == IF k = 0 THEN 0 ELSE f[k - 1] * base + digits[k]

IsValue(f, digits, base, n) == f = [k \in 0..n |-> ValueLine(f, digits, base, k)]

LEMMA ValueExists ==
    ASSUME NEW digits, NEW base, NEW n \in Nat
    PROVE  \E f : IsValue(f, digits, base, n)
<1> DEFINE Bad == {k \in Nat : ~ \E f : IsValue(f, digits, base, k)}
<1>1. SUFFICES ASSUME Bad # {} PROVE FALSE
  OBVIOUS
<1>2. PICK m \in Bad : \A k \in Bad : m <= k
  BY <1>1, LeastNumber, Zenon
<1>3. m \in Nat /\ ~ \E f : IsValue(f, digits, base, m)
  OBVIOUS
<1>4. m # 0
  <2> DEFINE z == [k \in 0..0 |-> 0]
  <2>1. z = [k \in 0..0 |-> ValueLine(z, digits, base, k)]
    <3>1. \A k \in 0..0 : k = 0
      OBVIOUS
    <3>2. \A k \in 0..0 : ValueLine(z, digits, base, k) = 0
      BY <3>1 DEF ValueLine
    <3> QED BY <3>2
  <2> HIDE DEF z
  <2>2. IsValue(z, digits, base, 0)
    BY <2>1, Zenon DEF IsValue
  <2> QED BY <1>3, <2>2
<1>5. m - 1 \in Nat /\ ~(m <= m - 1)
  BY <1>3, <1>4
<1>6. PICK f : IsValue(f, digits, base, m - 1)
  BY <1>2, <1>5
<1> HIDE DEF Bad
<1> DEFINE g == [k \in 0..m |-> ValueLine(f, digits, base, k)]
<1>7. \A k \in 0..(m - 1) : k \in 0..m /\ g[k] = f[k]
  BY <1>3, <1>5, <1>6 DEF IsValue
<1>8. g = [k \in 0..m |-> ValueLine(g, digits, base, k)]
  <2>1. \A k \in 0..m : k # 0 => k - 1 \in 0..(m - 1)
    BY <1>3
  <2>2. \A k \in 0..m : ValueLine(f, digits, base, k) = ValueLine(g, digits, base, k)
    <3> HIDE DEF g
    <3> QED BY <1>7, <2>1 DEF ValueLine
  <2>3. g = [k \in 0..m |-> ValueLine(f, digits, base, k)]
    OBVIOUS
  <2> HIDE DEF g
  <2> QED BY <2>2, <2>3
<1> HIDE DEF g
<1>9. IsValue(g, digits, base, m)
  BY <1>8, Zenon DEF IsValue
<1> QED BY <1>3, <1>9

(* Reading the digits of a number gives the number. *)
LEMMA DigitsAreRead ==
    ASSUME NEW base \in {10, 16}, NEW val \in 0..(Powers(2)[LongBits] - 1)
    PROVE  /\ Len(Digits(val, base)) = strlen(val, base)
           /\ ValueOf(Digits(val, base), base) = val
<1> DEFINE P == Powers(base)
           n == strlen(val, base)
           r == [i \in 1..n |-> (val \div P[i - 1]) % base]
           d == Digits(val, base)
<1>1. LongBits \in Nat
  BY WidthsAssumption
<1>2. ArePowers(P, base) /\ ArePowers(Powers(2), 2)
  BY PowersAre
<1>3. n \in 1..LongBits /\ val < P[n]
  BY StrlenIs
<1>4. val \in Nat
  OBVIOUS
<1>5. d = Reverse(r)
  BY Zenon DEF Digits
<1> HIDE DEF n, P, d
<1>6. IsSeq(r) /\ Len(r) = n
  <2>1. n \in Nat /\ r = [i \in 1..n |-> r[i]]
    BY <1>1, <1>3
  <2> HIDE DEF r
  <2> QED BY <2>1, MadeSeq
<1>7. \A i \in 1..n : r[i] = (val \div P[i - 1]) % base
  OBVIOUS
<1> HIDE DEF r
<1>8. Len(d) = n /\ \A k \in 1..n : d[k] = r[n - k + 1]
  BY <1>5, <1>6, ReverseIs
<1>9. PICK f : ValueOf(d, base) = f[n] /\ \A k \in 0..n : f[k] = ValueLine(f, d, base, k)
  <2> DEFINE c == CHOOSE f : f = [k \in 0..Len(d) |-> ValueLine(f, d, base, k)]
  <2>1. \E g : g = [k \in 0..Len(d) |-> ValueLine(g, d, base, k)]
    <3>1. Len(d) \in Nat
      BY <1>1, <1>3, <1>8
    <3>2. PICK g : IsValue(g, d, base, Len(d))
      BY <3>1, ValueExists
    <3>3. g = [k \in 0..Len(d) |-> ValueLine(g, d, base, k)]
      BY <3>2, Zenon DEF IsValue
    <3> QED BY <3>3
  <2>2. c = [k \in 0..Len(d) |-> ValueLine(c, d, base, k)]
    BY <2>1, Zenon
  <2>3. ValueOf(d, base) = c[Len(d)]
    BY Zenon DEF ValueOf, ValueLine
  <2> HIDE DEF c
  <2>4. ValueOf(d, base) = c[n] /\ c = [k \in 0..n |-> ValueLine(c, d, base, k)]
    BY <1>8, <2>2, <2>3
  <2>5. \A k \in 0..n : c[k] = ValueLine(c, d, base, k)
    BY <2>4, Zenon
  <2> QED BY <2>4, <2>5, Zenon
<1> DEFINE Bad == {k \in 0..n : f[k] # val \div P[n - k]}
<1>10. Bad = {}
  <2>1. SUFFICES ASSUME Bad # {} PROVE FALSE
    OBVIOUS
  <2>2. PICK b \in Bad : \A k \in Bad : b <= k
    <3>1. Bad \in SUBSET Nat
      BY <1>1, <1>3
    <3> HIDE DEF Bad
    <3> QED BY <2>1, <3>1, LeastNumber
  <2>3. b \in 0..n /\ b \in Nat /\ f[b] # val \div P[n - b] /\ n \in Nat /\ n <= LongBits
    BY <1>1, <1>3
  <2>4. f[b] = ValueLine(f, d, base, b)
    BY <1>9, <2>3
  <2>5. CASE b = 0
    <3>1. f[b] = 0 /\ n - b = n
      BY <2>3, <2>4, <2>5 DEF ValueLine
    <3>2. P[n] \in Nat /\ P[n] >= 1
      BY <1>1, <1>2, <1>3 DEF ArePowers
    <3>3. val \div P[n] = 0
      <4> DEFINE p == P[n]
      <4>1. p \in Nat /\ p >= 1 /\ val < p
        BY <1>3, <3>2
      <4> HIDE DEF p
      <4>2. val \div p = 0
        BY <1>4, <4>1, SMTT(30)
      <4> QED BY <4>2 DEF p
    <3> QED BY <2>3, <3>1, <3>3
  <2>6. CASE b # 0
    <3> DEFINE j == n - b
               p == P[j]
    <3>1. /\ b - 1 \in 0..n /\ ~(b <= b - 1) /\ b \in 1..n /\ j \in 0..(LongBits - 1)
          /\ n - (b - 1) = j + 1 /\ (n - b + 1) - 1 = j /\ n - b + 1 \in 1..n /\ j \in 0..LongBits
      BY <1>1, <2>3, <2>6
    <3>2. f[b - 1] = val \div P[n - (b - 1)]
      BY <2>2, <3>1
    <3>3. f[b] = f[b - 1] * base + d[b]
      BY <2>4, <2>6 DEF ValueLine
    <3>4. d[b] = r[n - b + 1] /\ r[n - b + 1] = (val \div P[(n - b + 1) - 1]) % base
      BY <1>7, <1>8, <3>1
    <3>5. p \in Nat /\ p >= 1 /\ P[j + 1] = base * p
      <4> HIDE DEF j
      <4> QED BY <1>2, <3>1 DEF ArePowers
    <3>6. f[b - 1] = val \div (base * p) /\ d[b] = (val \div p) % base
      BY <3>1, <3>2, <3>4, <3>5
    <3>7. f[b] # val \div p
      BY <2>3
    <3> HIDE DEF p
    <3>8. val \div p = (val \div (base * p)) * base + ((val \div p) % base)
      BY <1>4, <3>5, DigitOff
    <3>9. f[b] = (val \div (base * p)) * base + ((val \div p) % base)
      BY <3>3, <3>6, Zenon
    <3> QED BY <3>7, <3>8, <3>9, Zenon
  <2> QED BY <2>5, <2>6
<1>11. f[n] = val
  <2>1. n \in 0..n /\ n - n = 0 /\ P[0] = 1
    BY <1>1, <1>2, <1>3 DEF ArePowers
  <2>2. f[n] = val \div P[n - n]
    BY <1>10, <2>1
  <2>3. val \div 1 = val
    BY <1>4
  <2> QED BY <2>1, <2>2, <2>3
<1> QED BY <1>8, <1>9, <1>11 DEF n, d

(* An int and its absolute value, as an unsigned long. *)
LEMMA MagnitudeIs ==
    ASSUME NEW v \in Ints
    PROVE  /\ Magnitude(v) \in 0..(Powers(2)[LongBits] - 1)
           /\ v # IntMin => v = IF v < 0 THEN -Magnitude(v) ELSE Magnitude(v)
<1> DEFINE P == Powers(2)
           h == P[IntBits - 1]
           m == P[LongBits]
           a == IF v < 0 /\ -v \in Ints THEN -v ELSE v
<1>1. h \in Nat /\ h >= 1 /\ m \in Nat /\ m >= 1 /\ h <= m
  <2>1. /\ LongBits \in 0..LongBits /\ IntBits - 1 \in 0..LongBits
    BY WidthsAssumption
  <2>2. ArePowers(P, 2) /\ P[IntBits - 1] <= P[LongBits]
    BY <2>1, PowersAre, TwosAscend
  <2> QED BY <2>1, <2>2 DEF ArePowers
<1>2. v \in Int /\ Ints = -h..(h - 1) /\ IntMin = -h
  <2>1. Ints = -h..(h - 1) /\ IntMin = -h
    BY Zenon DEF Ints, IntMin
  <2> HIDE DEF h
  <2> QED BY <1>1, <2>1
<1>3. Magnitude(v) = a % m
  BY Zenon DEF Magnitude
<1> HIDE DEF m, h
<1>4. a \in Int
  BY <1>2
<1>5. a % m \in 0..(m - 1)
  <2> HIDE DEF a
  <2> QED BY <1>1, <1>4, SMTT(30)
<1>6. ASSUME v # IntMin
      PROVE  a \in 0..(m - 1) /\ v = IF v < 0 THEN -a ELSE a
  BY <1>1, <1>2, <1>6
<1> HIDE DEF a
<1>7. a \in 0..(m - 1) => a % m = a
  BY <1>1, SMTT(30)
<1>8. v # IntMin => v = IF v < 0 THEN -(a % m) ELSE a % m
  BY <1>6, <1>7
<1> QED BY <1>3, <1>5, <1>8 DEF m

(* A number is what is read from its text, which has room in its buffer. *)
LEMMA NumberSurvives ==
    ASSUME NEW v \in Ints, NEW base \in {10, 16}
    PROVE  /\ Len(itoa(v, base).digits) + 1 + (IF itoa(v, base).neg THEN 1 ELSE 0) <= itoa(v, base).size
           /\ v # IntMin => v = IF itoa(v, base).neg THEN -ValueOf(itoa(v, base).digits, base)
                                ELSE ValueOf(itoa(v, base).digits, base)
<1> DEFINE m == Magnitude(v)
           n == strlen(m, base)
           d == Digits(m, base)
<1>1. m \in 0..(Powers(2)[LongBits] - 1) /\ (v # IntMin => v = IF v < 0 THEN -m ELSE m)
  BY MagnitudeIs
<1>2. itoa(v, base) = [neg |-> v < 0, digits |-> d, size |-> n + 1 + (IF v < 0 THEN 1 ELSE 0)]
  BY Zenon DEF itoa
<1> HIDE DEF m
<1>3. n \in 1..LongBits
  BY <1>1, StrlenIs
<1>4. Len(d) = n /\ ValueOf(d, base) = m
  BY <1>1, DigitsAreRead
<1> HIDE DEF n, d
<1>5. /\ itoa(v, base).digits = d /\ itoa(v, base).neg = (v < 0)
      /\ itoa(v, base).size = n + 1 + (IF v < 0 THEN 1 ELSE 0)
  <2> DEFINE neg  == v < 0
             size == n + 1 + (IF v < 0 THEN 1 ELSE 0)
  <2>1. itoa(v, base) = [neg |-> neg, digits |-> d, size |-> size]
    BY <1>2
  <2>2. itoa(v, base).digits = d /\ itoa(v, base).neg = neg /\ itoa(v, base).size = size
    <3> HIDE DEF neg, size
    <3> QED BY <2>1
  <2> QED BY <2>2
<1>6. n \in Nat
  BY <1>3, WidthsAssumption
<1>7. Len(itoa(v, base).digits) + 1 + (IF itoa(v, base).neg THEN 1 ELSE 0) <= itoa(v, base).size
  <2>1. Len(d) + 1 + (IF v < 0 THEN 1 ELSE 0) <= n + 1 + (IF v < 0 THEN 1 ELSE 0)
    BY <1>4, <1>6
  <2> QED BY <1>5, <2>1, Zenon
<1>8. v # IntMin => v = IF itoa(v, base).neg THEN -ValueOf(itoa(v, base).digits, base)
                        ELSE ValueOf(itoa(v, base).digits, base)
  <2>1. v # IntMin => v = IF v < 0 THEN -ValueOf(d, base) ELSE ValueOf(d, base)
    BY <1>1, <1>4
  <2> QED BY <1>5, <2>1, Zenon
<1> QED BY <1>7, <1>8

(* The bytes of a value in another order: the digits of a byte stay together. *)
LEMMA SwapIs ==
    ASSUME NEW s, IsSeq(s), Len(s) % 2 = 0
    PROVE  /\ IsSeq(strswap2(s)) /\ Len(strswap2(s)) = Len(s)
           /\ \A i \in 1..Len(s) : strswap2(s)[i] = s[IF i % 2 = 1 THEN Len(s) - i ELSE Len(s) - i + 2]
<1> DEFINE n == Len(s)
           t == strswap2(s)
<1>1. n \in Nat /\ DOMAIN s = 1..n
  BY SeqIs
<1>2. t = [i \in 1..n |-> s[n - i + (IF i % 2 = 1 THEN 0 ELSE 2)]]
  BY <1>1, Zenon DEF strswap2
<1> HIDE DEF t, n
<1>3. t = [i \in 1..n |-> t[i]]
  BY <1>2
<1>4. IsSeq(t) /\ Len(t) = n
  BY <1>1, <1>3, MadeSeq
<1>5. ASSUME NEW i \in 1..n PROVE t[i] = s[IF i % 2 = 1 THEN n - i ELSE n - i + 2]
  <2>1. n - i + (IF i % 2 = 1 THEN 0 ELSE 2) = IF i % 2 = 1 THEN n - i ELSE n - i + 2
    BY <1>1
  <2> QED BY <1>2, <2>1
<1> QED BY <1>4, <1>5 DEF t, n

(* Swapping the bytes once more puts each back in its place. *)
LEMMA SwappedBack ==
    ASSUME NEW s, IsSeq(s), Len(s) % 2 = 0
    PROVE  strswap2(strswap2(s)) = s
<1> DEFINE n == Len(s)
           t == strswap2(s)
           u == strswap2(t)
           Of(i) == IF i % 2 = 1 THEN n - i ELSE n - i + 2
<1>1. n \in Nat /\ n % 2 = 0
  BY SeqIs
<1>2. IsSeq(t) /\ Len(t) = n /\ \A i \in 1..n : t[i] = s[Of(i)]
  BY SwapIs
<1> HIDE DEF t, n, Of
<1>3. IsSeq(u) /\ Len(u) = n /\ \A i \in 1..n : u[i] = t[Of(i)]
  BY <1>1, <1>2, SwapIs DEF Of
<1> HIDE DEF u
<1>4. \A i \in 1..n : Of(i) \in 1..n /\ Of(Of(i)) = i
  BY <1>1 DEF Of
<1>5. \A i \in 1..n : u[i] = s[i]
  BY <1>2, <1>3, <1>4
<1>6. u = s
  BY <1>3, <1>5, SameSeq DEF n
<1> QED BY <1>6 DEF u, t

(* The digits of a byte are found next to each other, from the other end. *)
LEMMA BytesStayWhole ==
    ASSUME NEW s, IsSeq(s), Len(s) % 2 = 0, NEW i \in 1..(Len(s) \div 2)
    PROVE  SubSeq(strswap2(s), 2*i - 1, 2*i) = SubSeq(s, Len(s) - 2*i + 1, Len(s) - 2*i + 2)
<1> DEFINE n == Len(s)
           t == strswap2(s)
           a == SubSeq(t, 2*i - 1, 2*i)
           b == SubSeq(s, n - 2*i + 1, n - 2*i + 2)
<1>1. n \in Nat /\ n % 2 = 0
  BY SeqIs
<1>2. IsSeq(t) /\ Len(t) = n /\ \A k \in 1..n : t[k] = s[IF k % 2 = 1 THEN n - k ELSE n - k + 2]
  BY SwapIs
<1>3. /\ 2*i - 1 \in 1..n /\ 2*i \in 1..n /\ n - 2*i + 1 \in 1..n /\ n - 2*i + 2 \in 1..n
      /\ 2*i - (2*i - 1) + 1 = 2 /\ (n - 2*i + 2) - (n - 2*i + 1) + 1 = 2
      /\ (2*i - 1) % 2 = 1 /\ (2*i) % 2 # 1 /\ n - (2*i - 1) = n - 2*i + 1
  BY <1>1
<1> HIDE DEF t, n
<1>4. IsSeq(a) /\ Len(a) = 2 /\ a[1] = t[2*i - 1] /\ a[2] = t[2*i]
  <2> DEFINE p == 2*i - 1
             q == 2*i
  <2>1. p \in Nat /\ q \in Nat /\ p >= 1 /\ q <= n /\ p <= q /\ q - p + 1 = 2 /\ q = p + 1
    BY <1>1, <1>3
  <2> SUFFICES IsSeq(SubSeq(t, p, q)) /\ Len(SubSeq(t, p, q)) = 2
               /\ SubSeq(t, p, q)[1] = t[p] /\ SubSeq(t, p, q)[2] = t[q]
    OBVIOUS
  <2> HIDE DEF p, q
  <2>2. /\ IsSeq(SubSeq(t, p, q)) /\ Len(SubSeq(t, p, q)) = q - p + 1
        /\ \A k \in 1..(q - p + 1) : SubSeq(t, p, q)[k] = t[p + k - 1]
    BY <1>2, <2>1, SubSeqIs
  <2>3. 1 \in 1..2 /\ 2 \in 1..2 /\ p + 1 - 1 = p /\ p + 2 - 1 = q
    BY <2>1
  <2> QED BY <2>1, <2>2, <2>3
<1>5. IsSeq(b) /\ Len(b) = 2 /\ b[1] = s[n - 2*i + 1] /\ b[2] = s[n - 2*i + 2]
  <2> DEFINE p == n - 2*i + 1
             q == n - 2*i + 2
  <2>1. p \in Nat /\ q \in Nat /\ p >= 1 /\ q <= Len(s) /\ p <= q /\ q - p + 1 = 2 /\ q = p + 1
    BY <1>1, <1>3 DEF n
  <2> SUFFICES IsSeq(SubSeq(s, p, q)) /\ Len(SubSeq(s, p, q)) = 2
               /\ SubSeq(s, p, q)[1] = s[p] /\ SubSeq(s, p, q)[2] = s[q]
    OBVIOUS
  <2> HIDE DEF p, q
  <2>2. /\ IsSeq(SubSeq(s, p, q)) /\ Len(SubSeq(s, p, q)) = q - p + 1
        /\ \A k \in 1..(q - p + 1) : SubSeq(s, p, q)[k] = s[p + k - 1]
    BY <2>1, SubSeqIs
  <2>3. 1 \in 1..2 /\ 2 \in 1..2 /\ p + 1 - 1 = p /\ p + 2 - 1 = q
    BY <2>1
  <2> QED BY <2>1, <2>2, <2>3
<1> HIDE DEF a, b
<1>6. t[2*i - 1] = s[n - 2*i + 1] /\ t[2*i] = s[n - 2*i + 2]
  BY <1>2, <1>3
<1>7. \A k \in 1..2 : a[k] = b[k]
  <2>1. \A k \in 1..2 : k = 1 \/ k = 2
    OBVIOUS
  <2> QED BY <1>4, <1>5, <1>6, <2>1
<1>8. a = b
  BY <1>4, <1>5, <1>7, SameSeq
<1> QED BY <1>8 DEF a, b, t, n

StrTypeOK == IsSeq(str) /\ num \in Ints

(* What NumbersSurvive asks for holds of every text and every int. *)
LEMMA AllSurvive ==
    ASSUME StrTypeOK
    PROVE  NumbersSurvive
<1>1. IsSeq(str) /\ num \in Ints
  BY DEF StrTypeOK
<1>2. ASSUME NEW base \in {10, 16}
      PROVE  LET out   == itoa(num, base)
                 value == ValueOf(out.digits, base)
             IN  /\ Len(out.digits) + 1 + (IF out.neg THEN 1 ELSE 0) <= out.size
                 /\ num # IntMin => num = IF out.neg THEN -value ELSE value
  BY <1>1, NumberSurvives
<1>3. ASSUME Len(str) % 2 = 0
      PROVE  /\ strswap2(strswap2(str)) = str
             /\ \A i \in 1..(Len(str) \div 2) :
                   SubSeq(strswap2(str), 2*i - 1, 2*i) =
                   SubSeq(str, Len(str) - 2*i + 1, Len(str) - 2*i + 2)
  BY <1>1, <1>3, SwappedBack, BytesStayWhole
<1> QED BY <1>2, <1>3, Zenon DEF NumbersSurvive

------------------------------------------------------------------------------
(* Strings: the theorems *)

(* The text is a sequence, the number an int: all the properties need. *)
LEMMA StrTyped == StrSpec => []StrTypeOK
<1>1. StrInit => StrTypeOK
  <2>1. 0 \in Ints
    <3>1. IntBits - 1 \in 0..LongBits
      BY WidthsAssumption
    <3> DEFINE h == Powers(2)[IntBits - 1]
    <3>2. h \in Nat /\ h >= 1
      BY <3>1, PowersAre DEF ArePowers
    <3>3. Ints = -h..(h - 1)
      BY Zenon DEF Ints, IntMin
    <3> HIDE DEF h
    <3> QED BY <3>2, <3>3
  <2>2. IsSeq(<<>>)
    BY NoneIs
  <2> QED BY <2>1, <2>2, Zenon DEF StrInit, StrTypeOK
<1>2. StrTypeOK /\ [StrNext]_strVars => StrTypeOK'
  <2> SUFFICES ASSUME StrTypeOK, [StrNext]_strVars PROVE StrTypeOK'
    OBVIOUS
  <2>1. IsSeq(str) /\ num \in Ints
    BY DEF StrTypeOK
  <2>2. CASE PickNumber
    BY <2>1, <2>2, Zenon DEF PickNumber, StrTypeOK
  <2>3. ASSUME NEW c \in Chars, TypeChar(c) PROVE StrTypeOK'
    <3>1. str' = Append(str, c) /\ num' = num
      BY <2>3, Zenon DEF TypeChar
    <3>2. IsSeq(str')
      BY <2>1, <3>1, Appended
    <3> QED BY <2>1, <3>1, <3>2, Zenon DEF StrTypeOK
  <2>4. CASE UNCHANGED strVars
    BY <2>1, <2>4, Zenon DEF strVars, StrTypeOK
  <2> QED BY <2>2, <2>3, <2>4, Zenon DEF StrNext
<1> QED BY <1>1, <1>2, PTL DEF StrSpec

(* In every reachable state: strsplit stores as many arguments as argv was allotted   *)
(* for (string.cc:90), whatever is quoted and escaped, but for a text with an escaped *)
(* backslash; and every argument has exactly the characters that were counted for it  *)
(* (string.cc:169).                                                                   *)
THEOREM ArgvIsAllotted == StrSpec => []ArgvHasRoom
<1>1. StrTypeOK => ArgvHasRoom
  BY RoomIs DEF StrTypeOK
<1> QED BY <1>1, StrTyped, PTL

(* A text of any length, escaped by strescape and put in quotes, is the argument that *)
(* cmd_exec gets from strsplit(strdeescape(line)) (cmd.gperf:62), and the escaped     *)
(* text fits the buffer of twice its size (vimui.cc:760).                             *)
THEOREM QuotedTextIsKept == StrSpec => []QuotedTextSurvives
<1>1. StrTypeOK => QuotedTextSurvives
  BY TextSurvives DEF StrTypeOK
<1> QED BY <1>1, StrTyped, PTL

(* For every width of int and unsigned long: itoa (string.cc:337) gives the digits of  *)
(* every int but the least one, in a buffer that holds them, and strswap2 undoes      *)
(* itself and keeps bytes whole (per.cc:361,395), for a value of any size.            *)
THEOREM NumbersAreKept == StrSpec => []NumbersSurvive
<1>1. StrTypeOK => NumbersSurvive
  BY AllSurvive
<1> QED BY <1>1, StrTyped, PTL

==============================================================================
