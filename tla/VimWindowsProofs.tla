--------------------------- MODULE VimWindowsProofs ---------------------------
(***************************************************************************)
(* Theorems about the window functions, for any number of buffers, any     *)
(* names and annotation types: what the program remembers of a buffer is   *)
(* what vim has, although a function gives up ui_mtx between two windows   *)
(* and the user closes buffers at any time.                                *)
(*                                                                         *)
(* A function that waits for vim holds ui_mtx, and nothing but its own     *)
(* buffer differs from vim's: that is what most of the invariants say.     *)
(***************************************************************************)
EXTENDS VimWindows, FiniteSetTheorems, TLAPS

\* The places where a thread waits for vim's reply.
Waits == {"printed", "cleared"} \union AnnoTypes

BufFields == {"name", "len", "ro", "preserve", "cursor", "types"}
VimFields == {"open", "len", "ro", "types"}

Buffers ==
    /\ nextId \in Nat /\ 0 < nextId
    /\ \A w \in DOMAIN vim : w \in Nat /\ 0 < w /\ w < nextId /\ VimFields \subseteq DOMAIN vim[w]
    /\ \A w \in DOMAIN bufs : /\ w \in DOMAIN vim
                              /\ BufFields \subseteq DOMAIN bufs[w]
                              /\ bufs[w].len \in Nat

Places ==
    /\ DOMAIN pc = Threads /\ DOMAIN win = Threads
    /\ \A t \in Threads : pc[t] \in {"idle", "create", "print", "clear"} \union Waits
    /\ \A t \in Threads : pc[t] \in Waits => uiMtx = t /\ win[t] \in DOMAIN bufs

NamesLead == \A n \in DOMAIN byName : byName[n] \in DOMAIN bufs /\ bufs[byName[n]].name = n

WindowInv == Buffers /\ Places /\ NamesLead

------------------------------------------------------------------------------
(* What a step does to buffers *)

SameBuf(w) ==
    /\ DOMAIN bufs'[w] = DOMAIN bufs[w]
    /\ bufs'[w].name = bufs[w].name /\ bufs'[w].len = bufs[w].len
    /\ bufs'[w].ro = bufs[w].ro /\ bufs'[w].types = bufs[w].types

SameVim(w) ==
    /\ DOMAIN vim'[w] = DOMAIN vim[w]
    /\ vim'[w].len = vim[w].len /\ vim'[w].ro = vim[w].ro /\ vim'[w].types = vim[w].types
    /\ vim'[w].open => vim[w].open

\* Neither side of any buffer changes, and nobody waits for a reply who did not before.
Quiet ==
    /\ DOMAIN bufs' = DOMAIN bufs /\ DOMAIN vim' = DOMAIN vim
    /\ \A w \in DOMAIN bufs : SameBuf(w)
    /\ \A w \in DOMAIN vim : SameVim(w)
    /\ uiMtx' = uiMtx /\ byName' = byName /\ nextId' = nextId
    /\ DOMAIN pc' = Threads /\ DOMAIN win' = Threads
    /\ \A t \in Threads : \/ pc'[t] = pc[t] /\ win'[t] = win[t]
                          \/ /\ pc[t] \notin Waits
                             /\ pc'[t] \in {"idle", "create", "print", "clear"}

\* The threads that do not step stay where they are.
OthersStay(t) ==
    /\ DOMAIN pc' = Threads /\ DOMAIN win' = Threads
    /\ win' = win
    /\ \A u \in Threads \ {t} : pc'[u] = pc[u]

\* A section that starts may set the cursor of a buffer.
LEMMA StartKeeps ==
    ASSUME Buffers, NEW w, NEW apply, Start(w, apply)
    PROVE  DOMAIN bufs' = DOMAIN bufs /\ \A v \in DOMAIN bufs : SameBuf(v)
<1>1. bufs' = [bufs EXCEPT ![w].cursor = TRUE] \/ bufs' = bufs
  BY Zenon DEF Start
<1>2. CASE bufs' = [bufs EXCEPT ![w].cursor = TRUE]
  BY <1>2 DEF Buffers, BufFields, SameBuf
<1>3. CASE bufs' = bufs
  BY <1>3 DEF SameBuf
<1>. QED
  BY <1>1, <1>2, <1>3

\* What a thread does outside of a function that waits.
Aside ==
    \/ \E t \in Threads : \/ \E n \in Names : GetId(t, n)
                          \/ \E op \in {"print", "clear"} : Find(t, op)
                          \/ Gone(t) \/ AnnoFails(t) \/ SectionStart(t) \/ SectionStop(t)
    \/ \E w \in 1..MaxBufs : UserClose(w)
    \/ \E b \in BOOLEAN : SetPreserve(b)
    \/ UNCHANGED vars

LEMMA AsideIsQuiet ==
    ASSUME Buffers, Places, Aside
    PROVE  Quiet
<1>1. {"idle", "create", "print", "clear"} \intersect Waits = {}
  BY PlacesAssumption DEF Waits
<1>2. ASSUME NEW t \in Threads, NEW n \in Names, GetId(t, n) PROVE Quiet
  <2>1. UNCHANGED <<bufs, vim, uiMtx, byName, nextId>> /\ pc[t] = "idle"
    BY <1>2 DEF GetId, tables, At
  <2>2. \/ win' = [win EXCEPT ![t] = byName[n]] /\ pc' = pc
        \/ pc' = [pc EXCEPT ![t] = "create"] /\ win' = win
    BY <1>2, Zenon DEF GetId, Goto
  <2>. QED
    BY <1>1, <2>1, <2>2 DEF Quiet, SameBuf, SameVim, Places
<1>3. ASSUME NEW t \in Threads, NEW op \in {"print", "clear"}, Find(t, op) PROVE Quiet
  <2>1. UNCHANGED <<bufs, vim, uiMtx, byName, nextId, win>> /\ pc[t] = "idle"
        /\ pc' = [pc EXCEPT ![t] = op]
    BY <1>3 DEF Find, tables, At, Goto
  <2>. QED
    BY <1>1, <2>1 DEF Quiet, SameBuf, SameVim, Places
<1>4. ASSUME NEW t \in Threads, Gone(t) PROVE Quiet
  <2>1. UNCHANGED <<bufs, vim, uiMtx, byName, nextId, win>> /\ pc[t] \in {"print", "clear"}
        /\ pc' = [pc EXCEPT ![t] = "idle"]
    BY <1>4 DEF Gone, tables, Locked, Goto
  <2>. QED
    BY <1>1, <2>1 DEF Quiet, SameBuf, SameVim, Places
<1>5. ASSUME NEW t \in Threads, AnnoFails(t) PROVE Quiet
  <2>1. UNCHANGED <<bufs, vim, uiMtx, byName, nextId, pc>> /\ pc[t] = "idle"
        /\ win' = [win EXCEPT ![t] = NoWin]
    BY <1>5 DEF AnnoFails, tables, Locked, At
  <2>. QED
    BY <1>1, <2>1 DEF Quiet, SameBuf, SameVim, Places
<1>6. ASSUME NEW t \in Threads, SectionStart(t) PROVE Quiet
  <2>1. UNCHANGED <<vim, uiMtx, byName, nextId, pc, win>> /\ Start(win[t], TRUE)
    BY <1>6 DEF SectionStart, thread, Locked
  <2>2. DOMAIN bufs' = DOMAIN bufs /\ \A v \in DOMAIN bufs : SameBuf(v)
    BY <2>1, StartKeeps
  <2>. QED
    BY <2>1, <2>2 DEF Quiet, SameVim, Places
<1>7. ASSUME NEW t \in Threads, SectionStop(t) PROVE Quiet
  <2>1. UNCHANGED <<bufs, vim, uiMtx, byName, nextId, pc, win>>
    BY <1>7, Zenon DEF SectionStop, thread, tables, Locked
  <2>. QED
    BY <2>1 DEF Quiet, SameBuf, SameVim, Places
<1>8. ASSUME NEW w \in 1..MaxBufs, UserClose(w) PROVE Quiet
  <2>1. UNCHANGED <<bufs, uiMtx, byName, nextId, pc, win>> /\ vim[w].open
        /\ vim' = [vim EXCEPT ![w].open = FALSE]
    BY <1>8, Zenon DEF UserClose, thread, tables
  <2>2. DOMAIN vim' = DOMAIN vim /\ \A v \in DOMAIN vim : SameVim(v)
    BY <2>1 DEF SameVim, Buffers, VimFields
  <2>. QED
    BY <2>1, <2>2 DEF Quiet, SameBuf, Places
<1>9. ASSUME NEW b \in BOOLEAN, SetPreserve(b) PROVE Quiet
  <2>1. UNCHANGED <<vim, uiMtx, byName, nextId, pc, win>>
        /\ bufs' = [bufs EXCEPT ![win["main"]].preserve = b]
    BY <1>9 DEF SetPreserve, thread, Locked
  <2>2. DOMAIN bufs' = DOMAIN bufs /\ \A v \in DOMAIN bufs : SameBuf(v)
    BY <2>1 DEF SameBuf, Buffers, BufFields
  <2>. QED
    BY <2>1, <2>2 DEF Quiet, SameVim, Places
<1>10. CASE UNCHANGED vars
  BY <1>10 DEF vars, thread, tables, Quiet, SameBuf, SameVim, Places
<1>. QED
  BY <1>2, <1>3, <1>4, <1>5, <1>6, <1>7, <1>8, <1>9, <1>10 DEF Aside

\* What else a step may be.
LEMMA StepCases ==
    ASSUME [Next]_vars
    PROVE  \/ Aside
           \/ \E t \in Threads : \/ Create(t) \/ PrintInsert(t) \/ ClearRemove(t)
                                 \/ PrintDone(t) \/ ClearDone(t)
                                 \/ \E type \in AnnoTypes : AnnoDefine(t, type) \/ AnnoNumber(t, type)
           \/ \E w \in 1..MaxBufs : Destroy(w)
           \/ \E b \in BOOLEAN : SetReadonly(b)
  BY Zenon DEF Next, Window, Aside

\* A function begins to wait for vim, or has its reply: it has taken ui_mtx, or gives it
\* back, and only its own buffer changes.
Begins(t, place) ==
    /\ win[t] \in DOMAIN bufs /\ pc[t] \notin Waits
    /\ uiMtx = NoThread /\ uiMtx' = t
    /\ pc' = [pc EXCEPT ![t] = place] /\ place \in Waits /\ win' = win
    /\ byName' = byName /\ nextId' = nextId
    /\ DOMAIN bufs' = DOMAIN bufs /\ \A v \in DOMAIN bufs : SameBuf(v)
    /\ DOMAIN vim' = DOMAIN vim /\ \A v \in DOMAIN vim : v # win[t] => SameVim(v)
    /\ DOMAIN vim'[win[t]] = DOMAIN vim[win[t]] /\ vim'[win[t]].open = vim[win[t]].open

Ends(t) ==
    /\ win[t] \in DOMAIN bufs /\ pc[t] \in Waits
    /\ uiMtx' = NoThread
    /\ pc' = [pc EXCEPT ![t] = "idle"] /\ win' = win
    /\ byName' = byName /\ nextId' = nextId
    /\ DOMAIN bufs' = DOMAIN bufs /\ \A v \in DOMAIN bufs : v # win[t] => SameBuf(v)
    /\ DOMAIN bufs'[win[t]] = DOMAIN bufs[win[t]] /\ bufs'[win[t]].name = bufs[win[t]].name
    /\ DOMAIN vim' = DOMAIN vim /\ \A v \in DOMAIN vim : v # win[t] => SameVim(v)
    /\ DOMAIN vim'[win[t]] = DOMAIN vim[win[t]] /\ vim'[win[t]].open = vim[win[t]].open

LEMMA PrintBegins ==
    ASSUME Buffers, NEW t \in Threads, PrintInsert(t)
    PROVE  /\ Begins(t, "printed")
           /\ vim'[win[t]].len = IF Writable(win[t]) THEN vim[win[t]].len + 1 ELSE vim[win[t]].len
           /\ vim'[win[t]].types = vim[win[t]].types
<1> DEFINE w == win[t]
           len == IF Writable(w) THEN vim[w].len + 1 ELSE vim[w].len
           ro == vim[w].ro /\ ~bufs[w].ro
<1>1. vim' = [vim EXCEPT ![w].len = len, ![w].ro = ro]
  BY Zenon DEF PrintInsert
<1>2. /\ pc[t] = "print" /\ w \in DOMAIN bufs /\ uiMtx = NoThread /\ uiMtx' = t /\ Start(w, FALSE)
      /\ pc' = [pc EXCEPT ![t] = "printed"]
      /\ UNCHANGED <<win, byName, nextId>>
  BY Zenon DEF PrintInsert, At, Lock, Goto
<1>3. DOMAIN bufs' = DOMAIN bufs /\ \A v \in DOMAIN bufs : SameBuf(v)
  BY <1>2, StartKeeps
<1> HIDE DEF len, ro, w
<1>4. /\ DOMAIN vim' = DOMAIN vim /\ \A v \in DOMAIN vim : v # w => vim'[v] = vim[v]
      /\ w \in DOMAIN vim => vim'[w] = [vim[w] EXCEPT !.len = len, !.ro = ro]
  BY <1>1
<1>5. w \in DOMAIN vim /\ VimFields \subseteq DOMAIN vim[w]
  BY <1>2 DEF Buffers
<1>6. /\ DOMAIN vim'[w] = DOMAIN vim[w] /\ vim'[w].open = vim[w].open
      /\ vim'[w].types = vim[w].types /\ vim'[w].len = len
  BY <1>4, <1>5 DEF VimFields
<1>7. \A v \in DOMAIN vim : v # w => SameVim(v)
  BY <1>4 DEF SameVim
<1>8. "print" \notin Waits /\ "printed" \in Waits
  BY PlacesAssumption DEF Waits
<1>. QED
  BY <1>2, <1>3, <1>4, <1>6, <1>7, <1>8 DEF Begins, len, w

LEMMA ClearBegins ==
    ASSUME Buffers, NEW t \in Threads, ClearRemove(t)
    PROVE  /\ Begins(t, "cleared")
           /\ vim'[win[t]].len = IF Writable(win[t]) THEN vim[win[t]].len - bufs[win[t]].len
                                 ELSE vim[win[t]].len
           /\ vim'[win[t]].types = vim[win[t]].types
<1> DEFINE w == win[t]
           len == IF Writable(w) THEN vim[w].len - bufs[w].len ELSE vim[w].len
           ro == vim[w].ro /\ ~bufs[w].ro
<1>1. vim' = [vim EXCEPT ![w].len = len, ![w].ro = ro]
  BY Zenon DEF ClearRemove
<1>2. /\ pc[t] = "clear" /\ w \in DOMAIN bufs /\ uiMtx = NoThread /\ uiMtx' = t /\ Start(w, FALSE)
      /\ pc' = [pc EXCEPT ![t] = "cleared"]
      /\ UNCHANGED <<win, byName, nextId>>
  BY Zenon DEF ClearRemove, At, Lock, Goto
<1>3. DOMAIN bufs' = DOMAIN bufs /\ \A v \in DOMAIN bufs : SameBuf(v)
  BY <1>2, StartKeeps
<1> HIDE DEF len, ro, w
<1>4. /\ DOMAIN vim' = DOMAIN vim /\ \A v \in DOMAIN vim : v # w => vim'[v] = vim[v]
      /\ w \in DOMAIN vim => vim'[w] = [vim[w] EXCEPT !.len = len, !.ro = ro]
  BY <1>1
<1>5. w \in DOMAIN vim /\ VimFields \subseteq DOMAIN vim[w]
  BY <1>2 DEF Buffers
<1>6. /\ DOMAIN vim'[w] = DOMAIN vim[w] /\ vim'[w].open = vim[w].open
      /\ vim'[w].types = vim[w].types /\ vim'[w].len = len
  BY <1>4, <1>5 DEF VimFields
<1>7. \A v \in DOMAIN vim : v # w => SameVim(v)
  BY <1>4 DEF SameVim
<1>8. "clear" \notin Waits /\ "cleared" \in Waits
  BY PlacesAssumption DEF Waits
<1>. QED
  BY <1>2, <1>3, <1>4, <1>6, <1>7, <1>8 DEF Begins, len, w

LEMMA AnnoBegins ==
    ASSUME Buffers, NEW t \in Threads, NEW type \in AnnoTypes, AnnoDefine(t, type)
    PROVE  /\ Begins(t, type)
           /\ type \notin DOMAIN bufs[win[t]].types
           /\ vim'[win[t]].types = IF vim[win[t]].open THEN Append(vim[win[t]].types, type)
                                   ELSE vim[win[t]].types
           /\ vim'[win[t]].len = vim[win[t]].len /\ vim'[win[t]].ro = vim[win[t]].ro
<1> DEFINE w == win[t]
           types == IF vim[w].open THEN Append(vim[w].types, type) ELSE vim[w].types
<1>1. vim' = [vim EXCEPT ![w].types = types]
  BY Zenon DEF AnnoDefine
<1>2. /\ pc[t] = "idle" /\ w \in DOMAIN bufs /\ uiMtx = NoThread /\ uiMtx' = t /\ Start(w, FALSE)
      /\ type \notin DOMAIN bufs[w].types
      /\ pc' = [pc EXCEPT ![t] = type]
      /\ UNCHANGED <<win, byName, nextId>>
  BY Zenon DEF AnnoDefine, At, Lock, Goto
<1>3. DOMAIN bufs' = DOMAIN bufs /\ \A v \in DOMAIN bufs : SameBuf(v)
  BY <1>2, StartKeeps
<1> HIDE DEF types, w
<1>4. /\ DOMAIN vim' = DOMAIN vim /\ \A v \in DOMAIN vim : v # w => vim'[v] = vim[v]
      /\ w \in DOMAIN vim => vim'[w] = [vim[w] EXCEPT !.types = types]
  BY <1>1
<1>5. w \in DOMAIN vim /\ VimFields \subseteq DOMAIN vim[w]
  BY <1>2 DEF Buffers
<1>6. /\ DOMAIN vim'[w] = DOMAIN vim[w] /\ vim'[w].open = vim[w].open
      /\ vim'[w].types = types /\ vim'[w].len = vim[w].len /\ vim'[w].ro = vim[w].ro
  BY <1>4, <1>5 DEF VimFields
<1>7. \A v \in DOMAIN vim : v # w => SameVim(v)
  BY <1>4 DEF SameVim
<1>8. "idle" \notin Waits /\ type \in Waits
  BY PlacesAssumption DEF Waits
<1>. QED
  BY <1>2, <1>3, <1>4, <1>6, <1>7, <1>8 DEF Begins, types, w

LEMMA WriteEnds ==
    ASSUME Buffers, NEW t \in Threads, pc[t] \in {"printed", "cleared"}, NEW len, Written(t, len)
    PROVE  /\ Ends(t)
           /\ bufs'[win[t]].len = len /\ bufs'[win[t]].ro = vim'[win[t]].ro
           /\ vim'[win[t]].len = vim[win[t]].len
           /\ bufs'[win[t]].types = bufs[win[t]].types /\ vim'[win[t]].types = vim[win[t]].types
<1> DEFINE w == win[t]
           ro == bufs[w].ro
<1>1. /\ w \in DOMAIN bufs /\ uiMtx' = NoThread
      /\ bufs' = [bufs EXCEPT ![w].len = len] /\ vim' = [vim EXCEPT ![w].ro = ro]
      /\ pc' = [pc EXCEPT ![t] = "idle"] /\ UNCHANGED <<win, byName, nextId>>
  BY Zenon DEF Written, Unlock, Goto
<1> HIDE DEF w
<1>2. /\ w \in DOMAIN vim /\ VimFields \subseteq DOMAIN vim[w] /\ BufFields \subseteq DOMAIN bufs[w]
  BY <1>1 DEF Buffers
<1> HIDE DEF ro
<1>3. /\ DOMAIN vim' = DOMAIN vim /\ (\A v \in DOMAIN vim : v # w => vim'[v] = vim[v])
      /\ vim'[w] = [vim[w] EXCEPT !.ro = ro]
  BY <1>1, <1>2
<1>4. /\ DOMAIN bufs' = DOMAIN bufs /\ (\A v \in DOMAIN bufs : v # w => bufs'[v] = bufs[v])
      /\ bufs'[w] = [bufs[w] EXCEPT !.len = len]
  BY <1>1
<1>5. /\ DOMAIN vim'[w] = DOMAIN vim[w] /\ vim'[w].open = vim[w].open
      /\ vim'[w].types = vim[w].types /\ vim'[w].len = vim[w].len /\ vim'[w].ro = ro
  BY <1>2, <1>3 DEF VimFields
<1>6. /\ DOMAIN bufs'[w] = DOMAIN bufs[w] /\ bufs'[w].name = bufs[w].name
      /\ bufs'[w].types = bufs[w].types /\ bufs'[w].len = len /\ bufs'[w].ro = bufs[w].ro
  BY <1>2, <1>4 DEF BufFields
<1>7. /\ \A v \in DOMAIN vim : v # w => SameVim(v)
      /\ \A v \in DOMAIN bufs : v # w => SameBuf(v)
  BY <1>3, <1>4 DEF SameVim, SameBuf
<1>8. pc[t] \in Waits
  BY DEF Waits
<1>. QED
  BY <1>1, <1>3, <1>4, <1>5, <1>6, <1>7, <1>8 DEF Ends, ro, w

LEMMA AnnoEnds ==
    ASSUME Buffers, NEW t \in Threads, NEW type \in AnnoTypes, AnnoNumber(t, type)
    PROVE  /\ Ends(t) /\ pc[t] = type
           /\ bufs'[win[t]].types =
                With(bufs[win[t]].types, type, Cardinality(DOMAIN bufs[win[t]].types) + 1)
           /\ bufs'[win[t]].len = bufs[win[t]].len /\ bufs'[win[t]].ro = bufs[win[t]].ro
           /\ vim' = vim
<1> DEFINE w == win[t]
           types == With(bufs[w].types, type, Cardinality(DOMAIN bufs[w].types) + 1)
<1>1. /\ w \in DOMAIN bufs /\ uiMtx' = NoThread /\ pc[t] = type
      /\ bufs' = [bufs EXCEPT ![w].types = types]
      /\ pc' = [pc EXCEPT ![t] = "idle"] /\ UNCHANGED <<win, byName, nextId, vim>>
  BY Zenon DEF AnnoNumber, At, Unlock, Goto
<1> HIDE DEF types, w
<1>2. BufFields \subseteq DOMAIN bufs[w]
  BY <1>1 DEF Buffers
<1>4. /\ DOMAIN bufs' = DOMAIN bufs /\ (\A v \in DOMAIN bufs : v # w => bufs'[v] = bufs[v])
      /\ bufs'[w] = [bufs[w] EXCEPT !.types = types]
  BY <1>1
<1>6. /\ DOMAIN bufs'[w] = DOMAIN bufs[w] /\ bufs'[w].name = bufs[w].name
      /\ bufs'[w].types = types /\ bufs'[w].len = bufs[w].len /\ bufs'[w].ro = bufs[w].ro
  BY <1>2, <1>4 DEF BufFields
<1>7. /\ \A v \in DOMAIN vim : v # w => SameVim(v)
      /\ \A v \in DOMAIN bufs : v # w => SameBuf(v)
  BY <1>1, <1>4 DEF SameVim, SameBuf
<1>8. pc[t] \in Waits
  BY <1>1 DEF Waits
<1>. QED
  BY <1>1, <1>4, <1>6, <1>7, <1>8 DEF Ends, types, w

------------------------------------------------------------------------------
(* The invariant about ids, places and names *)

LEMMA QuietInv ==
    ASSUME WindowInv, Quiet
    PROVE  WindowInv'
<1>1. Buffers'
  BY DEF WindowInv, Quiet, Buffers, SameBuf, SameVim
<1>2. Places'
  BY PlacesAssumption DEF WindowInv, Quiet, Places, Waits
<1>3. NamesLead'
  BY DEF WindowInv, Quiet, NamesLead, SameBuf
<1>. QED
  BY <1>1, <1>2, <1>3 DEF WindowInv

LEMMA BeginsInv ==
    ASSUME WindowInv, NEW t \in Threads, NEW place, Begins(t, place)
    PROVE  WindowInv'
<1>1. Buffers'
  <2>1. ASSUME NEW w \in DOMAIN vim'
        PROVE  w \in Nat /\ 0 < w /\ w < nextId' /\ VimFields \subseteq DOMAIN vim'[w]
    BY DEF WindowInv, Begins, Buffers, SameVim
  <2>2. ASSUME NEW w \in DOMAIN bufs'
        PROVE  w \in DOMAIN vim' /\ BufFields \subseteq DOMAIN bufs'[w] /\ bufs'[w].len \in Nat
    BY DEF WindowInv, Begins, Buffers, SameBuf
  <2>. QED
    BY <2>1, <2>2 DEF Buffers, WindowInv, Begins
<1>2. Places'
  <2>1. \A u \in Threads : pc[u] \notin Waits
    BY ThreadAssumption DEF WindowInv, Begins, Places, Threads
  <2>. QED
    BY <2>1 DEF WindowInv, Begins, Places, Waits
<1>3. NamesLead'
  BY DEF WindowInv, Begins, NamesLead, SameBuf
<1>. QED
  BY <1>1, <1>2, <1>3 DEF WindowInv

LEMMA EndsInv ==
    ASSUME WindowInv, NEW t \in Threads, Ends(t), bufs'[win[t]].len \in Nat
    PROVE  WindowInv'
<1>1. Buffers'
  <2>1. ASSUME NEW w \in DOMAIN vim'
        PROVE  w \in Nat /\ 0 < w /\ w < nextId' /\ VimFields \subseteq DOMAIN vim'[w]
    BY DEF WindowInv, Ends, Buffers, SameVim
  <2>2. ASSUME NEW w \in DOMAIN bufs'
        PROVE  w \in DOMAIN vim' /\ BufFields \subseteq DOMAIN bufs'[w] /\ bufs'[w].len \in Nat
    BY DEF WindowInv, Ends, Buffers, SameBuf
  <2>. QED
    BY <2>1, <2>2 DEF Buffers, WindowInv, Ends
<1>2. Places'
  <2>1. uiMtx = t /\ \A u \in Threads : u # t => pc[u] \notin Waits
    BY DEF WindowInv, Ends, Places
  <2>2. "idle" \notin Waits
    BY PlacesAssumption DEF Waits
  <2>. QED
    BY <2>1, <2>2 DEF WindowInv, Ends, Places
<1>3. NamesLead'
  BY DEF WindowInv, Ends, NamesLead, SameBuf
<1>. QED
  BY <1>1, <1>2, <1>3 DEF WindowInv

LEMMA NobodyWaits ==
    ASSUME Places, uiMtx = NoThread
    PROVE  \A u \in Threads : pc[u] \notin Waits
  BY ThreadAssumption DEF Places, Threads

\* A buffer is created beside those that are there.
LEMMA CreateFacts ==
    ASSUME Buffers, NEW t \in Threads, Create(t)
    PROVE  /\ nextId \notin DOMAIN bufs /\ nextId \notin DOMAIN vim /\ nextId' = nextId + 1
           /\ DOMAIN bufs' = DOMAIN bufs \union {nextId}
           /\ DOMAIN vim' = DOMAIN vim \union {nextId}
           /\ \A w \in DOMAIN bufs : bufs'[w] = bufs[w]
           /\ \A w \in DOMAIN vim : vim'[w] = vim[w]
           /\ bufs'[nextId] = NewBuf(name[t]) /\ vim'[nextId] = NewVim
           /\ byName' = With(byName, name[t], nextId)
           /\ uiMtx = NoThread /\ uiMtx' = NoThread /\ pc[t] = "create"
           /\ pc' = [pc EXCEPT ![t] = "idle"] /\ win' = [win EXCEPT ![t] = nextId]
<1>1. /\ nextId' = nextId + 1 /\ bufs' = With(bufs, nextId, NewBuf(name[t]))
      /\ byName' = With(byName, name[t], nextId) /\ vim' = With(vim, nextId, NewVim)
      /\ uiMtx = NoThread /\ uiMtx' = NoThread /\ pc[t] = "create"
      /\ pc' = [pc EXCEPT ![t] = "idle"] /\ win' = [win EXCEPT ![t] = nextId]
  BY DEF Create, Locked, At, Goto
<1>2. nextId \notin DOMAIN vim
  <2>1. \A w \in DOMAIN vim : w # nextId
    <3> TAKE w \in DOMAIN vim
    <3>1. w \in Nat /\ w < nextId /\ nextId \in Nat
      BY DEF Buffers
    <3>. QED
      BY <3>1
  <2>. QED
    BY <2>1
<1>3. nextId \notin DOMAIN bufs
  BY <1>2 DEF Buffers
<1>. QED
  BY <1>1, <1>2, <1>3 DEF With

LEMMA CreateInv ==
    ASSUME WindowInv, NEW t \in Threads, Create(t)
    PROVE  WindowInv'
<1> USE DEF WindowInv
<1>1. Buffers'
  <2>1. nextId \in Nat /\ nextId' = nextId + 1 /\ nextId' \in Nat
    BY CreateFacts DEF Buffers
  <2>2. 0 < nextId
    BY DEF Buffers
  <2>3. ASSUME NEW w \in DOMAIN vim'
        PROVE  w \in Nat /\ 0 < w /\ w < nextId' /\ VimFields \subseteq DOMAIN vim'[w]
    <3>1. CASE w = nextId
      <4>1. vim'[w] = NewVim
        BY <3>1, CreateFacts
      <4>. QED
        BY <2>1, <2>2, <3>1, <4>1 DEF NewVim, VimFields
    <3>2. CASE w \in DOMAIN vim
      <4>1. w \in Nat /\ 0 < w /\ w < nextId /\ VimFields \subseteq DOMAIN vim[w]
        BY <3>2 DEF Buffers
      <4>2. vim'[w] = vim[w]
        BY <3>2, CreateFacts
      <4>. QED
        BY <2>1, <4>1, <4>2
    <3>. QED
      BY <3>1, <3>2, CreateFacts
  <2>4. ASSUME NEW w \in DOMAIN bufs'
        PROVE  w \in DOMAIN vim' /\ BufFields \subseteq DOMAIN bufs'[w] /\ bufs'[w].len \in Nat
    <3>1. CASE w = nextId
      <4>1. bufs'[w] = NewBuf(name[t])
        BY <3>1, CreateFacts
      <4>. QED
        BY <3>1, <4>1, CreateFacts DEF NewBuf, BufFields
    <3>2. CASE w \in DOMAIN bufs
      BY <3>2, CreateFacts DEF Buffers
    <3>. QED
      BY <3>1, <3>2, CreateFacts
  <2>. QED
    BY <2>1, <2>3, <2>4 DEF Buffers
<1>2. Places'
  <2>1. "idle" \notin Waits
    BY PlacesAssumption DEF Waits
  <2>. QED
    BY <2>1, CreateFacts, NobodyWaits DEF Places
<1>3. NamesLead'
  <2>1. bufs'[nextId] = NewBuf(name[t])
    BY CreateFacts
  <2>2. bufs'[nextId].name = name[t]
    BY <2>1 DEF NewBuf
  <2>3. /\ nextId \notin DOMAIN bufs /\ DOMAIN bufs' = DOMAIN bufs \union {nextId}
        /\ \A w \in DOMAIN bufs : bufs'[w] = bufs[w]
        /\ byName' = With(byName, name[t], nextId)
    BY CreateFacts
  <2>. QED
    BY <2>2, <2>3 DEF NamesLead, With
<1>. QED
  BY <1>1, <1>2, <1>3

\* A buffer that is destroyed takes the entry of its name with it.
LEMMA DestroyFacts ==
    ASSUME NEW w, Destroy(w)
    PROVE  /\ uiMtx = NoThread /\ uiMtx' = NoThread
           /\ UNCHANGED <<vim, nextId, pc, win>>
           /\ \/ UNCHANGED <<bufs, byName>>
              \/ bufs' = Without(bufs, w) /\ byName' = Without(byName, bufs[w].name)
                 /\ fault = "none"
  BY Zenon DEF Destroy, Locked, thread, At

LEMMA DestroyInv ==
    ASSUME WindowInv, NEW w, Destroy(w)
    PROVE  WindowInv'
<1> USE DEF WindowInv
<1>1. CASE UNCHANGED <<bufs, byName>>
  BY <1>1, DestroyFacts DEF Buffers, Places, NamesLead
<1>2. CASE bufs' = Without(bufs, w) /\ byName' = Without(byName, bufs[w].name)
  <2>1. DOMAIN bufs' = DOMAIN bufs \ {w} /\ \A v \in DOMAIN bufs' : bufs'[v] = bufs[v]
    BY <1>2 DEF Without
  <2>2. /\ DOMAIN byName' = DOMAIN byName \ {bufs[w].name}
        /\ \A n \in DOMAIN byName' : byName'[n] = byName[n]
    BY <1>2 DEF Without
  <2>3. Buffers'
    BY <2>1, DestroyFacts DEF Buffers
  <2>4. Places'
    BY <2>1, DestroyFacts, NobodyWaits DEF Places
  <2>5. NamesLead'
    BY <2>1, <2>2 DEF NamesLead
  <2>. QED
    BY <2>3, <2>4, <2>5
<1>. QED
  BY <1>1, <1>2, DestroyFacts

LEMMA ReadonlyFacts ==
    ASSUME Buffers, NEW ro, SetReadonly(ro)
    PROVE  /\ uiMtx = NoThread /\ uiMtx' = NoThread
           /\ UNCHANGED <<byName, nextId, pc, win>>
           /\ DOMAIN bufs' = DOMAIN bufs /\ DOMAIN vim' = DOMAIN vim
           /\ \A w \in DOMAIN bufs : /\ DOMAIN bufs'[w] = DOMAIN bufs[w]
                                     /\ bufs'[w].name = bufs[w].name /\ bufs'[w].len = bufs[w].len
                                     /\ bufs'[w].types = bufs[w].types
                                     /\ \/ bufs'[w].ro = ro /\ vim'[w].ro = ro
                                        \/ bufs'[w].ro = bufs[w].ro /\ vim'[w].ro = vim[w].ro
           /\ \A w \in DOMAIN vim : /\ DOMAIN vim'[w] = DOMAIN vim[w]
                                    /\ vim'[w].open = vim[w].open /\ vim'[w].len = vim[w].len
                                    /\ vim'[w].types = vim[w].types
<1> DEFINE w == win["main"]
<1>1. /\ uiMtx = NoThread /\ uiMtx' = NoThread /\ w \in DOMAIN bufs
      /\ bufs' = [bufs EXCEPT ![w].ro = ro] /\ vim' = [vim EXCEPT ![w].ro = ro]
      /\ UNCHANGED <<byName, nextId, pc, win>>
  BY DEF SetReadonly, Locked, thread
<1> HIDE DEF w
<1>2. /\ w \in DOMAIN vim /\ VimFields \subseteq DOMAIN vim[w] /\ BufFields \subseteq DOMAIN bufs[w]
  BY <1>1 DEF Buffers
<1>3. /\ DOMAIN bufs' = DOMAIN bufs /\ DOMAIN vim' = DOMAIN vim
      /\ \A v \in DOMAIN bufs : v # w => bufs'[v] = bufs[v]
      /\ \A v \in DOMAIN vim : v # w => vim'[v] = vim[v]
      /\ bufs'[w] = [bufs[w] EXCEPT !.ro = ro] /\ vim'[w] = [vim[w] EXCEPT !.ro = ro]
  BY <1>1, <1>2
<1>4. /\ DOMAIN bufs'[w] = DOMAIN bufs[w] /\ bufs'[w].name = bufs[w].name
      /\ bufs'[w].len = bufs[w].len /\ bufs'[w].types = bufs[w].types /\ bufs'[w].ro = ro
  BY <1>2, <1>3 DEF BufFields
<1>5. /\ DOMAIN vim'[w] = DOMAIN vim[w] /\ vim'[w].open = vim[w].open
      /\ vim'[w].len = vim[w].len /\ vim'[w].types = vim[w].types /\ vim'[w].ro = ro
  BY <1>2, <1>3 DEF VimFields
<1>. QED
  BY <1>1, <1>3, <1>4, <1>5 DEF Buffers

LEMMA ReadonlyInv ==
    ASSUME WindowInv, NEW ro, SetReadonly(ro)
    PROVE  WindowInv'
<1> USE DEF WindowInv
<1>1. Buffers'
  BY ReadonlyFacts DEF Buffers
<1>2. Places'
  BY ReadonlyFacts, NobodyWaits DEF Places
<1>3. NamesLead'
  BY ReadonlyFacts DEF NamesLead
<1>. QED
  BY <1>1, <1>2, <1>3

LEMMA WindowStep ==
    ASSUME WindowInv, [Next]_vars
    PROVE  WindowInv'
<1> USE DEF WindowInv
<1>1. CASE Aside
  BY <1>1, AsideIsQuiet, QuietInv
<1>2. ASSUME NEW t \in Threads, Create(t) PROVE WindowInv'
  BY <1>2, CreateInv
<1>3. ASSUME NEW t \in Threads, PrintInsert(t) \/ ClearRemove(t) PROVE WindowInv'
  BY <1>3, PrintBegins, ClearBegins, BeginsInv
<1>4. ASSUME NEW t \in Threads, PrintDone(t) \/ ClearDone(t) PROVE WindowInv'
  <2>1. PICK len : /\ pc[t] \in {"printed", "cleared"} /\ Written(t, len)
                   /\ len = bufs[win[t]].len + 1 \/ len = 0
    BY <1>4 DEF PrintDone, ClearDone, At
  <2>2. Ends(t) /\ bufs'[win[t]].len = len
    BY <2>1, WriteEnds
  <2>3. win[t] \in DOMAIN bufs /\ len \in Nat
    BY <2>1, <2>2 DEF Ends, Buffers
  <2>. QED
    BY <2>2, <2>3, EndsInv
<1>5. ASSUME NEW t \in Threads, NEW type \in AnnoTypes, AnnoDefine(t, type) PROVE WindowInv'
  BY <1>5, AnnoBegins, BeginsInv
<1>6. ASSUME NEW t \in Threads, NEW type \in AnnoTypes, AnnoNumber(t, type) PROVE WindowInv'
  <2>1. Ends(t) /\ bufs'[win[t]].len = bufs[win[t]].len
    BY <1>6, AnnoEnds
  <2>2. bufs'[win[t]].len \in Nat
    BY <2>1 DEF Ends, Buffers
  <2>. QED
    BY <2>1, <2>2, EndsInv
<1>7. ASSUME NEW w \in 1..MaxBufs, Destroy(w) PROVE WindowInv'
  BY <1>7, DestroyInv
<1>8. ASSUME NEW b \in BOOLEAN, SetReadonly(b) PROVE WindowInv'
  BY <1>8, ReadonlyInv
<1>. QED
  BY <1>1, <1>2, <1>3, <1>4, <1>5, <1>6, <1>7, <1>8, StepCases

LEMMA WindowInit == Init => WindowInv
  BY PlacesAssumption DEF Init, WindowInv, Buffers, Places, NamesLead, Waits

\* A window is found by its name only if its buffer exists (vimui.cc:348-356), even
\* when two buffers were created for one name and one of them has been closed.
THEOREM NamesStayLive == Spec => []NamesLive
<1>1. WindowInv /\ [Next]_vars => WindowInv'
  BY WindowStep
<1>2. WindowInv => NamesLive
  BY DEF WindowInv, NamesLead, NamesLive
<1>. QED
  BY <1>1, <1>2, WindowInit, PTL DEF Spec

------------------------------------------------------------------------------
(* Length and write protection *)

\* A buffer is out of step with vim's only between the command that changes vim's and
\* the reply.
LenInv ==
    \A w \in DOMAIN bufs : vim[w].open =>
        /\ (\A t \in Threads : win[t] = w => pc[t] \notin {"printed", "cleared"}) =>
              bufs[w].len = vim[w].len /\ bufs[w].ro = vim[w].ro
        /\ \A t \in Threads : win[t] = w =>
              /\ pc[t] = "printed" => vim[w].len = bufs[w].len + 1
              /\ pc[t] = "cleared" => vim[w].len = 0

LEMMA QuietLen ==
    ASSUME WindowInv, LenInv, Quiet
    PROVE  LenInv'
<1> SUFFICES ASSUME NEW w \in DOMAIN bufs', vim'[w].open
             PROVE  /\ (\A t \in Threads : win'[t] = w => pc'[t] \notin {"printed", "cleared"}) =>
                          bufs'[w].len = vim'[w].len /\ bufs'[w].ro = vim'[w].ro
                    /\ \A t \in Threads : win'[t] = w =>
                          /\ pc'[t] = "printed" => vim'[w].len = bufs'[w].len + 1
                          /\ pc'[t] = "cleared" => vim'[w].len = 0
  BY DEF LenInv
<1>1. /\ w \in DOMAIN bufs /\ w \in DOMAIN vim /\ vim[w].open
      /\ bufs'[w].len = bufs[w].len /\ bufs'[w].ro = bufs[w].ro
      /\ vim'[w].len = vim[w].len /\ vim'[w].ro = vim[w].ro
  BY DEF Quiet, WindowInv, Buffers, SameBuf, SameVim
<1>2. \A t \in Threads : \/ pc'[t] = pc[t] /\ win'[t] = win[t]
                         \/ pc[t] \notin {"printed", "cleared"} /\ pc'[t] \notin {"printed", "cleared"}
  BY DEF Quiet, Waits
<1>. QED
  BY <1>1, <1>2 DEF LenInv

\* A buffer that settled has the flag of vim's, so that its text can be changed.
LEMMA CanWrite ==
    ASSUME NEW w, vim[w].open, bufs[w].ro = vim[w].ro
    PROVE  Writable(w)
  BY Zenon DEF Writable

LEMMA BeginsLen ==
    ASSUME WindowInv, LenInv, NEW t \in Threads, NEW place, Begins(t, place),
           LET w == win[t] IN
              vim[w].open /\ bufs[w].ro = vim[w].ro /\ bufs[w].len = vim[w].len =>
                  \/ place = "printed" /\ vim'[w].len = vim[w].len + 1
                  \/ place = "cleared" /\ vim'[w].len = 0
                  \/ place \in AnnoTypes /\ vim'[w].len = vim[w].len /\ vim'[w].ro = vim[w].ro
    PROVE  LenInv'
<1>1. \A u \in Threads : pc[u] \notin Waits
  BY NobodyWaits DEF Begins, WindowInv
<1>2. \A u \in Threads : pc'[u] = IF u = t THEN place ELSE pc[u]
  BY DEF Begins, WindowInv, Places
<1>3. AnnoTypes \intersect {"printed", "cleared"} = {} /\ {"printed", "cleared"} \subseteq Waits
  BY PlacesAssumption DEF Waits
<1> SUFFICES ASSUME NEW w \in DOMAIN bufs', vim'[w].open
             PROVE  /\ (\A u \in Threads : win'[u] = w => pc'[u] \notin {"printed", "cleared"}) =>
                          bufs'[w].len = vim'[w].len /\ bufs'[w].ro = vim'[w].ro
                    /\ \A u \in Threads : win'[u] = w =>
                          /\ pc'[u] = "printed" => vim'[w].len = bufs'[w].len + 1
                          /\ pc'[u] = "cleared" => vim'[w].len = 0
  BY DEF LenInv
<1>4. /\ w \in DOMAIN bufs /\ w \in DOMAIN vim /\ vim[w].open /\ win' = win
      /\ bufs'[w].len = bufs[w].len /\ bufs'[w].ro = bufs[w].ro
      /\ w # win[t] => vim'[w].len = vim[w].len /\ vim'[w].ro = vim[w].ro
  BY DEF Begins, WindowInv, Buffers, SameBuf, SameVim
<1>5. bufs[w].len = vim[w].len /\ bufs[w].ro = vim[w].ro
  BY <1>1, <1>3, <1>4 DEF LenInv
<1>6. CASE w # win[t]
  BY <1>1, <1>2, <1>3, <1>4, <1>5, <1>6
<1>7. CASE w = win[t]
  <2>1. \/ place = "printed" /\ vim'[w].len = vim[w].len + 1
        \/ place = "cleared" /\ vim'[w].len = 0
        \/ place \in AnnoTypes /\ vim'[w].len = vim[w].len /\ vim'[w].ro = vim[w].ro
    BY <1>4, <1>5, <1>7
  <2>2. \A u \in Threads : pc'[u] \in {"printed", "cleared"} => u = t
    BY <1>1, <1>2, <1>3
  <2>. QED
    BY <1>2, <1>3, <1>4, <1>5, <1>7, <2>1, <2>2
<1>. QED
  BY <1>6, <1>7

\* Only the thread that holds ui_mtx waits.
LEMMA OneWaits ==
    ASSUME Places, NEW t \in Threads, pc[t] \in Waits
    PROVE  \A u \in Threads : u # t => pc[u] \notin Waits
  BY DEF Places

LEMMA EndsLen ==
    ASSUME WindowInv, LenInv, NEW t \in Threads, Ends(t),
           vim[win[t]].open => /\ bufs'[win[t]].len = vim'[win[t]].len
                               /\ bufs'[win[t]].ro = vim'[win[t]].ro
    PROVE  LenInv'
<1>1. \A u \in Threads : u # t => pc[u] \notin Waits
  BY OneWaits DEF Ends, WindowInv
<1>2. \A u \in Threads : pc'[u] = IF u = t THEN "idle" ELSE pc[u]
  BY DEF Ends, WindowInv, Places
<1>3. {"printed", "cleared"} \subseteq Waits
  BY DEF Waits
<1>4. \A u \in Threads : pc'[u] \notin {"printed", "cleared"}
  BY <1>1, <1>2, <1>3
<1> SUFFICES ASSUME NEW w \in DOMAIN bufs', vim'[w].open
             PROVE  bufs'[w].len = vim'[w].len /\ bufs'[w].ro = vim'[w].ro
  BY <1>4 DEF LenInv
<1>5. CASE w = win[t]
  BY <1>5 DEF Ends
<1>6. CASE w # win[t]
  <2>1. /\ w \in DOMAIN bufs /\ w \in DOMAIN vim /\ vim[w].open
        /\ bufs'[w].len = bufs[w].len /\ bufs'[w].ro = bufs[w].ro
        /\ vim'[w].len = vim[w].len /\ vim'[w].ro = vim[w].ro
    BY <1>6 DEF Ends, WindowInv, Buffers, SameBuf, SameVim
  <2>2. \A u \in Threads : win[u] = w => pc[u] \notin {"printed", "cleared"}
    BY <1>1, <1>3, <1>6
  <2>. QED
    BY <2>1, <2>2 DEF LenInv
<1>. QED
  BY <1>5, <1>6

LEMMA LenStep ==
    ASSUME WindowInv, LenInv, [Next]_vars
    PROVE  LenInv'
<1> USE DEF WindowInv
<1>1. CASE Aside
  BY <1>1, AsideIsQuiet, QuietLen
<1>2. ASSUME NEW t \in Threads, Create(t) PROVE LenInv'
  <2>1. \A u \in Threads : pc'[u] \notin {"printed", "cleared"} /\ pc[u] \notin {"printed", "cleared"}
    BY <1>2, CreateFacts, NobodyWaits DEF Places, Waits
  <2>2. ASSUME NEW w \in DOMAIN bufs', vim'[w].open
        PROVE  bufs'[w].len = vim'[w].len /\ bufs'[w].ro = vim'[w].ro
    <3>1. CASE w = nextId
      <4>1. bufs'[w] = NewBuf(name[t]) /\ vim'[w] = NewVim
        BY <1>2, <3>1, CreateFacts
      <4>2. bufs'[w].len = 0 /\ bufs'[w].ro = FALSE
        BY <4>1 DEF NewBuf
      <4>3. vim'[w].len = 0 /\ vim'[w].ro = FALSE
        BY <4>1 DEF NewVim
      <4>. QED
        BY <4>2, <4>3
    <3>2. CASE w \in DOMAIN bufs
      <4>1. w \in DOMAIN vim /\ bufs'[w] = bufs[w] /\ vim'[w] = vim[w]
        BY <1>2, <3>2, CreateFacts DEF Buffers
      <4>. QED
        BY <2>1, <2>2, <3>2, <4>1 DEF LenInv
    <3>. QED
      BY <1>2, <3>1, <3>2, CreateFacts
  <2>. QED
    BY <2>1, <2>2 DEF LenInv
<1>3. ASSUME NEW t \in Threads, PrintInsert(t) PROVE LenInv'
  <2>1. /\ Begins(t, "printed")
        /\ vim'[win[t]].len = IF Writable(win[t]) THEN vim[win[t]].len + 1 ELSE vim[win[t]].len
    BY <1>3, PrintBegins
  <2>2. vim[win[t]].open /\ bufs[win[t]].ro = vim[win[t]].ro => vim'[win[t]].len = vim[win[t]].len + 1
    BY <2>1, CanWrite
  <2>. QED
    BY <2>1, <2>2, BeginsLen
<1>4. ASSUME NEW t \in Threads, ClearRemove(t) PROVE LenInv'
  <2>1. /\ Begins(t, "cleared")
        /\ vim'[win[t]].len = IF Writable(win[t]) THEN vim[win[t]].len - bufs[win[t]].len
                              ELSE vim[win[t]].len
    BY <1>4, ClearBegins
  <2>2. bufs[win[t]].len \in Nat
    BY <2>1 DEF Begins, Buffers
  <2>3. vim[win[t]].open /\ bufs[win[t]].ro = vim[win[t]].ro /\ bufs[win[t]].len = vim[win[t]].len
          => vim'[win[t]].len = 0
    BY <2>1, <2>2, CanWrite
  <2>. QED
    BY <2>1, <2>3, BeginsLen
<1>5. ASSUME NEW t \in Threads, PrintDone(t) \/ ClearDone(t) PROVE LenInv'
  <2>1. PICK len : /\ pc[t] \in {"printed", "cleared"} /\ Written(t, len)
                   /\ pc[t] = "printed" => len = bufs[win[t]].len + 1
                   /\ pc[t] = "cleared" => len = 0
    BY <1>5 DEF PrintDone, ClearDone, At
  <2>2. /\ Ends(t) /\ bufs'[win[t]].len = len /\ bufs'[win[t]].ro = vim'[win[t]].ro
        /\ vim'[win[t]].len = vim[win[t]].len
    BY <2>1, WriteEnds
  <2>3. vim[win[t]].open => vim[win[t]].len = len
    BY <2>1, <2>2 DEF Ends, LenInv
  <2>. QED
    BY <2>2, <2>3, EndsLen
<1>6. ASSUME NEW t \in Threads, NEW type \in AnnoTypes, AnnoDefine(t, type) PROVE LenInv'
  BY <1>6, AnnoBegins, BeginsLen
<1>7. ASSUME NEW t \in Threads, NEW type \in AnnoTypes, AnnoNumber(t, type) PROVE LenInv'
  <2>1. /\ Ends(t) /\ pc[t] = type
        /\ bufs'[win[t]].len = bufs[win[t]].len /\ bufs'[win[t]].ro = bufs[win[t]].ro
        /\ vim' = vim
    BY <1>7, AnnoEnds
  <2>2. \A u \in Threads : pc[u] \notin {"printed", "cleared"}
    BY <2>1, OneWaits, PlacesAssumption DEF Waits
  <2>3. vim[win[t]].open => bufs[win[t]].len = vim[win[t]].len /\ bufs[win[t]].ro = vim[win[t]].ro
    BY <2>1, <2>2 DEF Ends, LenInv
  <2>. QED
    BY <2>1, <2>3, EndsLen
<1>8. ASSUME NEW w \in 1..MaxBufs, Destroy(w) PROVE LenInv'
  <2>1. DOMAIN bufs' \subseteq DOMAIN bufs /\ \A v \in DOMAIN bufs' : bufs'[v] = bufs[v]
    BY <1>8, DestroyFacts DEF Without
  <2>2. UNCHANGED <<vim, pc, win>>
    BY <1>8, DestroyFacts
  <2>. QED
    BY <2>1, <2>2 DEF LenInv
<1>9. ASSUME NEW b \in BOOLEAN, SetReadonly(b) PROVE LenInv'
  <2>1. \A u \in Threads : pc'[u] \notin {"printed", "cleared"} /\ pc[u] \notin {"printed", "cleared"}
    BY <1>9, ReadonlyFacts, NobodyWaits DEF Places, Waits
  <2>2. ASSUME NEW w \in DOMAIN bufs', vim'[w].open
        PROVE  bufs'[w].len = vim'[w].len /\ bufs'[w].ro = vim'[w].ro
    <3>1. w \in DOMAIN bufs /\ w \in DOMAIN vim /\ vim[w].open
      BY <1>9, <2>2, ReadonlyFacts DEF Buffers
    <3>2. bufs[w].len = vim[w].len /\ bufs[w].ro = vim[w].ro
      BY <2>1, <3>1 DEF LenInv
    <3>3. /\ bufs'[w].len = bufs[w].len /\ vim'[w].len = vim[w].len
          /\ \/ bufs'[w].ro = b /\ vim'[w].ro = b
             \/ bufs'[w].ro = bufs[w].ro /\ vim'[w].ro = vim[w].ro
      BY <1>9, <3>1, ReadonlyFacts
    <3>. QED
      BY <3>2, <3>3
  <2>. QED
    BY <2>1, <2>2 DEF LenInv
<1>. QED
  BY <1>1, <1>2, <1>3, <1>4, <1>5, <1>6, <1>7, <1>8, <1>9, StepCases

\* While no function of the user interface is at work the program knows length and
\* write protection of every buffer the user has not closed (vimui.cc:549-591), for any
\* number of buffers.
THEOREM LengthsMatch == Spec => []LenMatches
<1>1. Init => WindowInv /\ LenInv
  BY WindowInit DEF Init, LenInv
<1>2. WindowInv /\ LenInv /\ [Next]_vars => WindowInv' /\ LenInv'
  BY WindowStep, LenStep
<1>3. WindowInv /\ LenInv => LenMatches
  <2> SUFFICES ASSUME WindowInv, LenInv, AtRest, NEW w \in DOMAIN bufs, vim[w].open
               PROVE  bufs[w].len = vim[w].len /\ bufs[w].ro = vim[w].ro
    BY DEF LenMatches
  <2>1. \A t \in Threads : pc[t] \notin {"printed", "cleared"}
    BY NobodyWaits DEF AtRest, WindowInv, Waits
  <2>. QED
    BY <2>1 DEF LenInv
<1>. QED
  BY <1>1, <1>2, <1>3, PTL DEF Spec

------------------------------------------------------------------------------
(* Annotation types *)

\* The types of a buffer are as many as vim's, in the order vim has numbered them, but
\* for the one that a thread has defined and not numbered yet.
AnnoOf(w) ==
    LET known == bufs[w].types
        n     == Cardinality(DOMAIN known)
    IN  /\ vim[w].types \in Seq(AnnoTypes)
        /\ (\A t \in Threads : win[t] = w => pc[t] \notin AnnoTypes) => Len(vim[w].types) = n
        /\ \A t \in Threads : win[t] = w /\ pc[t] \in AnnoTypes =>
              Len(vim[w].types) = n + 1 /\ vim[w].types[n + 1] = pc[t] /\ pc[t] \notin DOMAIN known
        /\ \A type \in DOMAIN known : known[type] \in 1..n /\ vim[w].types[known[type]] = type

AnnoInv ==
    \A w \in DOMAIN bufs : /\ IsFiniteSet(DOMAIN bufs[w].types)
                           /\ vim[w].open => AnnoOf(w)

\* A buffer that stays as it was, with nobody in a new place, keeps its types.
LEMMA SameAnno ==
    ASSUME NEW w, AnnoOf(w), bufs'[w].types = bufs[w].types, vim'[w].types = vim[w].types,
           \A t \in Threads : \/ pc'[t] = pc[t] /\ win'[t] = win[t]
                              \/ pc'[t] \notin AnnoTypes /\ (win[t] = w => pc[t] \notin AnnoTypes)
    PROVE  AnnoOf(w)'
<1> DEFINE known == bufs[w].types
           n == Cardinality(DOMAIN known)
           types == vim[w].types
<1>1. /\ types \in Seq(AnnoTypes)
      /\ (\A t \in Threads : win[t] = w => pc[t] \notin AnnoTypes) => Len(types) = n
      /\ \A t \in Threads : win[t] = w /\ pc[t] \in AnnoTypes =>
            Len(types) = n + 1 /\ types[n + 1] = pc[t] /\ pc[t] \notin DOMAIN known
      /\ \A type \in DOMAIN known : known[type] \in 1..n /\ types[known[type]] = type
  BY Zenon DEF AnnoOf
<1>2. known' = known /\ types' = types /\ n' = n
  OBVIOUS
<1> HIDE DEF known, n, types
<1>3. (\A t \in Threads : win'[t] = w => pc'[t] \notin AnnoTypes) => Len(types) = n
  BY <1>1
<1>4. \A t \in Threads : win'[t] = w /\ pc'[t] \in AnnoTypes =>
          Len(types) = n + 1 /\ types[n + 1] = pc'[t] /\ pc'[t] \notin DOMAIN known
  BY <1>1
<1>5. /\ types' \in Seq(AnnoTypes)
      /\ (\A t \in Threads : win'[t] = w => pc'[t] \notin AnnoTypes) => Len(types') = n'
      /\ \A t \in Threads : win'[t] = w /\ pc'[t] \in AnnoTypes =>
            Len(types') = n' + 1 /\ types'[n' + 1] = pc'[t] /\ pc'[t] \notin DOMAIN known'
      /\ \A type \in DOMAIN known' : known'[type] \in 1..n' /\ types'[known'[type]] = type
  BY <1>1, <1>2, <1>3, <1>4
<1>. QED
  BY <1>5, Zenon DEF AnnoOf, known, n, types

LEMMA QuietAnno ==
    ASSUME WindowInv, AnnoInv, Quiet
    PROVE  AnnoInv'
<1>1. {"idle", "create", "print", "clear"} \intersect AnnoTypes = {} /\ AnnoTypes \subseteq Waits
  BY PlacesAssumption DEF Waits
<1>2. ASSUME NEW w \in DOMAIN bufs'
      PROVE  IsFiniteSet(DOMAIN bufs'[w].types) /\ (vim'[w].open => AnnoOf(w)')
  <2>1. /\ w \in DOMAIN bufs /\ w \in DOMAIN vim
        /\ vim'[w].open => vim[w].open
        /\ bufs'[w].types = bufs[w].types /\ vim'[w].types = vim[w].types
    BY DEF Quiet, WindowInv, Buffers, SameBuf, SameVim
  <2>2. \A t \in Threads : \/ pc'[t] = pc[t] /\ win'[t] = win[t]
                           \/ pc'[t] \notin AnnoTypes /\ pc[t] \notin AnnoTypes
    BY <1>1 DEF Quiet
  <2>3. IsFiniteSet(DOMAIN bufs'[w].types)
    BY <2>1, Zenon DEF AnnoInv
  <2>4. AnnoOf(w) => AnnoOf(w)'
    BY <2>1, <2>2, SameAnno
  <2>. QED
    BY <2>1, <2>3, <2>4, Zenon DEF AnnoInv
<1>. QED
  BY <1>2, Zenon DEF AnnoInv

\* A function that does not define a type begins to wait, or has its reply.
LEMMA WriteAnno ==
    ASSUME WindowInv, AnnoInv, NEW t \in Threads,
           Begins(t, "printed") \/ Begins(t, "cleared") \/ (Ends(t) /\ pc[t] \notin AnnoTypes),
           bufs'[win[t]].types = bufs[win[t]].types, vim'[win[t]].types = vim[win[t]].types
    PROVE  AnnoInv'
<1>1. {"idle", "printed", "cleared"} \intersect AnnoTypes = {} /\ AnnoTypes \subseteq Waits
  BY PlacesAssumption DEF Waits
<1>2. \A u \in Threads : u # t => pc'[u] = pc[u] /\ win'[u] = win[u]
  BY DEF Begins, Ends, WindowInv, Places
<1>3. pc'[t] \notin AnnoTypes /\ pc[t] \notin AnnoTypes
  BY <1>1 DEF Begins, Ends, WindowInv, Places
<1>4. ASSUME NEW w \in DOMAIN bufs'
      PROVE  IsFiniteSet(DOMAIN bufs'[w].types) /\ (vim'[w].open => AnnoOf(w)')
  <2>1. /\ w \in DOMAIN bufs /\ w \in DOMAIN vim
        /\ vim'[w].open => vim[w].open
        /\ bufs'[w].types = bufs[w].types /\ vim'[w].types = vim[w].types
    BY DEF Begins, Ends, WindowInv, Buffers, SameBuf, SameVim
  <2>2. \A u \in Threads : \/ pc'[u] = pc[u] /\ win'[u] = win[u]
                           \/ pc'[u] \notin AnnoTypes /\ pc[u] \notin AnnoTypes
    BY <1>2, <1>3
  <2>3. IsFiniteSet(DOMAIN bufs'[w].types)
    BY <2>1, Zenon DEF AnnoInv
  <2>4. AnnoOf(w) => AnnoOf(w)'
    BY <2>1, <2>2, SameAnno
  <2>. QED
    BY <2>1, <2>3, <2>4, Zenon DEF AnnoInv
<1>. QED
  BY <1>4, Zenon DEF AnnoInv

\* vim numbers the new type when it is defined.
LEMMA DefineAnno ==
    ASSUME WindowInv, AnnoInv, NEW t \in Threads, NEW type \in AnnoTypes, AnnoDefine(t, type)
    PROVE  AnnoInv'
<1> DEFINE b == win[t]
<1>1. AnnoTypes \subseteq Waits
  BY DEF Waits
<1>2. /\ Begins(t, type) /\ type \notin DOMAIN bufs[b].types
      /\ vim'[b].types = IF vim[b].open THEN Append(vim[b].types, type) ELSE vim[b].types
  BY AnnoBegins DEF WindowInv
<1>3. \A u \in Threads : pc[u] \notin AnnoTypes
  BY <1>1, <1>2, NobodyWaits DEF Begins, WindowInv
<1>4. (\A u \in Threads : u # t => pc'[u] = pc[u]) /\ pc'[t] = type /\ win' = win
  BY <1>2 DEF Begins, WindowInv, Places
<1>5. ASSUME NEW w \in DOMAIN bufs'
      PROVE  IsFiniteSet(DOMAIN bufs'[w].types) /\ (vim'[w].open => AnnoOf(w)')
  <2>1. /\ w \in DOMAIN bufs /\ w \in DOMAIN vim
        /\ vim'[w].open => vim[w].open
        /\ bufs'[w].types = bufs[w].types
    BY <1>2 DEF Begins, WindowInv, Buffers, SameBuf, SameVim
  <2>2. IsFiniteSet(DOMAIN bufs'[w].types)
    BY <2>1, Zenon DEF AnnoInv
  <2>3. CASE w # b
    <3>1. vim'[w].types = vim[w].types
      BY <1>2, <2>1, <2>3 DEF Begins, SameVim
    <3>2. \A u \in Threads : /\ win'[u] = win[u]
                             /\ pc'[u] # pc[u] => win[u] # w
      BY <1>4, <2>3
    <3>3. AnnoOf(w) => AnnoOf(w)'
      <4> DEFINE known == bufs[w].types
                 n == Cardinality(DOMAIN known)
                 types == vim[w].types
      <4>1. known' = known /\ types' = types /\ n' = n
        BY <2>1, <3>1
      <4> HIDE DEF known, n, types
      <4> SUFFICES ASSUME AnnoOf(w) PROVE AnnoOf(w)'
        OBVIOUS
      <4>2. /\ types \in Seq(AnnoTypes)
            /\ (\A u \in Threads : win[u] = w => pc[u] \notin AnnoTypes) => Len(types) = n
            /\ \A x \in DOMAIN known : known[x] \in 1..n /\ types[known[x]] = x
        BY Zenon DEF AnnoOf, known, n, types
      <4>3. /\ types' \in Seq(AnnoTypes) /\ Len(types') = n'
            /\ \A u \in Threads : win'[u] = w => pc'[u] \notin AnnoTypes
            /\ \A x \in DOMAIN known' : known'[x] \in 1..n' /\ types'[known'[x]] = x
        BY <1>3, <3>2, <4>1, <4>2
      <4>. QED
        BY <4>3, Zenon DEF AnnoOf, known, n, types
    <3>. QED
      BY <2>1, <2>2, <3>3, Zenon DEF AnnoInv
  <2>4. CASE w = b
    <3>1. ASSUME vim'[w].open PROVE AnnoOf(w)'
      <4> DEFINE known == bufs[w].types
                 n == Cardinality(DOMAIN known)
                 types == vim[w].types
      <4>1. known' = known /\ n' = n /\ types' = Append(types, type) /\ type \notin DOMAIN known
        BY <1>2, <2>1, <2>4, <3>1
      <4>2. AnnoOf(w) /\ IsFiniteSet(DOMAIN known)
        BY <2>1, <3>1, Zenon DEF AnnoInv
      <4>3. n \in Nat
        BY <4>2, FS_CardinalityType
      <4>4. /\ types \in Seq(AnnoTypes)
            /\ (\A u \in Threads : win[u] = w => pc[u] \notin AnnoTypes) => Len(types) = n
            /\ \A x \in DOMAIN known : known[x] \in 1..n /\ types[known[x]] = x
        BY <4>2, Zenon DEF AnnoOf
      <4> HIDE DEF known, n, types
      <4>5. Len(types) = n
        BY <1>3, <4>4
      <4>6. /\ types' \in Seq(AnnoTypes) /\ Len(types') = n + 1 /\ types'[n + 1] = type
            /\ \A i \in 1..n : types'[i] = types[i]
        BY <4>1, <4>3, <4>4, <4>5
      <4>7. /\ \A u \in Threads : pc'[u] \in AnnoTypes => pc'[u] = type
            /\ win'[t] = w /\ pc'[t] \in AnnoTypes
        BY <1>3, <1>4, <2>4
      <4>8. \A x \in DOMAIN known' : known'[x] \in 1..n' /\ types'[known'[x]] = x
        BY <4>1, <4>4, <4>6
      <4>9. \A u \in Threads : win'[u] = w /\ pc'[u] \in AnnoTypes =>
               Len(types') = n' + 1 /\ types'[n' + 1] = pc'[u] /\ pc'[u] \notin DOMAIN known'
        BY <4>1, <4>6, <4>7
      <4>. QED
        BY <4>6, <4>7, <4>8, <4>9, Zenon DEF AnnoOf, known, n, types
    <3>. QED
      BY <2>2, <3>1
  <2>. QED
    BY <2>3, <2>4
<1>. QED
  BY <1>5, Zenon DEF AnnoInv

\* The program gives the type the same number when it has the reply.
LEMMA NumberAnno ==
    ASSUME WindowInv, AnnoInv, NEW t \in Threads, NEW type \in AnnoTypes, AnnoNumber(t, type)
    PROVE  AnnoInv'
<1> DEFINE b == win[t]
<1>1. AnnoTypes \subseteq Waits /\ "idle" \notin AnnoTypes
  BY PlacesAssumption DEF Waits
<1>2. /\ Ends(t) /\ pc[t] = type /\ vim' = vim
      /\ bufs'[b].types = With(bufs[b].types, type, Cardinality(DOMAIN bufs[b].types) + 1)
  BY AnnoEnds DEF WindowInv
<1>3. \A u \in Threads : (u # t => pc[u] \notin AnnoTypes) /\ pc'[u] \notin AnnoTypes
  BY <1>1, <1>2, OneWaits DEF Ends, WindowInv, Places
<1>4. (\A u \in Threads : u # t => pc'[u] = pc[u]) /\ win' = win
  BY <1>2 DEF Ends, WindowInv, Places
<1>5. ASSUME NEW w \in DOMAIN bufs'
      PROVE  IsFiniteSet(DOMAIN bufs'[w].types) /\ (vim'[w].open => AnnoOf(w)')
  <2>1. w \in DOMAIN bufs /\ w \in DOMAIN vim /\ vim'[w] = vim[w]
    BY <1>2 DEF Ends, WindowInv, Buffers
  <2>2. IsFiniteSet(DOMAIN bufs[w].types) /\ (vim[w].open => AnnoOf(w))
    BY <2>1, Zenon DEF AnnoInv
  <2>3. CASE w # b
    <3>1. bufs'[w].types = bufs[w].types
      BY <1>2, <2>1, <2>3 DEF Ends, SameBuf
    <3>2. \A u \in Threads : \/ pc'[u] = pc[u] /\ win'[u] = win[u]
                             \/ pc'[u] \notin AnnoTypes /\ (win[u] = w => pc[u] \notin AnnoTypes)
      BY <1>3, <1>4, <2>3
    <3>3. AnnoOf(w) => AnnoOf(w)'
      BY <2>1, <3>1, <3>2, SameAnno
    <3>. QED
      BY <2>1, <2>2, <3>1, <3>3, Zenon
  <2>4. CASE w = b
    <3> DEFINE known == bufs[w].types
               n == Cardinality(DOMAIN known)
               types == vim[w].types
    <3>1. known' = With(known, type, n + 1) /\ types' = types
      BY <1>2, <2>1, <2>4
    <3>2. DOMAIN known' = DOMAIN known \union {type}
          /\ \A x \in DOMAIN known' : known'[x] = IF x = type THEN n + 1 ELSE known[x]
      BY <3>1 DEF With
    <3>3. IsFiniteSet(DOMAIN known')
      BY <2>2, <3>2, FS_AddElement
    <3>4. ASSUME vim'[w].open PROVE AnnoOf(w)'
      <4>1. AnnoOf(w) /\ n \in Nat
        BY <2>1, <2>2, <3>4, FS_CardinalityType
      <4>2. /\ types \in Seq(AnnoTypes)
            /\ win[t] = w /\ pc[t] \in AnnoTypes =>
                 Len(types) = n + 1 /\ types[n + 1] = pc[t] /\ pc[t] \notin DOMAIN known
            /\ \A x \in DOMAIN known : known[x] \in 1..n /\ types[known[x]] = x
        BY <4>1, Zenon DEF AnnoOf
      <4>3. Len(types) = n + 1 /\ types[n + 1] = type /\ type \notin DOMAIN known
        BY <1>2, <2>4, <4>2
      <4>4. n' = n + 1
        BY <2>2, <3>2, <4>3, FS_AddElement
      <4> HIDE DEF known, n, types
      <4>5. \A x \in DOMAIN known' : known'[x] \in 1..n' /\ types'[known'[x]] = x
        BY <3>1, <3>2, <4>1, <4>2, <4>3, <4>4
      <4>6. types' \in Seq(AnnoTypes) /\ Len(types') = n'
        BY <3>1, <4>2, <4>3, <4>4
      <4>. QED
        BY <1>3, <4>5, <4>6, Zenon DEF AnnoOf, known, n, types
    <3>. QED
      BY <3>3, <3>4
  <2>. QED
    BY <2>3, <2>4
<1>. QED
  BY <1>5, Zenon DEF AnnoInv

LEMMA AnnoStep ==
    ASSUME WindowInv, AnnoInv, [Next]_vars
    PROVE  AnnoInv'
<1>0. AnnoTypes \subseteq Waits /\ {"idle", "printed", "cleared"} \intersect AnnoTypes = {}
  BY PlacesAssumption DEF Waits
<1>1. CASE Aside
  BY <1>1, AsideIsQuiet, QuietAnno DEF WindowInv
<1>2. ASSUME NEW t \in Threads, Create(t) PROVE AnnoInv'
  <2>1. \A u \in Threads : pc'[u] \notin AnnoTypes /\ pc[u] \notin AnnoTypes
    BY <1>0, <1>2, CreateFacts, NobodyWaits DEF WindowInv, Places
  <2>2. ASSUME NEW w \in DOMAIN bufs'
        PROVE  IsFiniteSet(DOMAIN bufs'[w].types) /\ (vim'[w].open => AnnoOf(w)')
    <3>1. CASE w = nextId
      <4>1. bufs'[w] = NewBuf(name[t]) /\ vim'[w] = NewVim
        BY <1>2, <3>1, CreateFacts DEF WindowInv
      <4>2. bufs'[w].types = <<>>
        BY <4>1 DEF NewBuf
      <4>3. vim'[w].types = <<>>
        BY <4>1 DEF NewVim
      <4>4. DOMAIN bufs'[w].types = {} /\ vim'[w].types \in Seq(AnnoTypes) /\ Len(vim'[w].types) = 0
        BY <4>2, <4>3
      <4>5. IsFiniteSet(DOMAIN bufs'[w].types) /\ Cardinality(DOMAIN bufs'[w].types) = 0
        BY <4>4, FS_EmptySet
      <4>. QED
        BY <2>1, <4>4, <4>5 DEF AnnoOf
    <3>2. CASE w \in DOMAIN bufs
      <4>1. w \in DOMAIN vim /\ bufs'[w] = bufs[w] /\ vim'[w] = vim[w]
        BY <1>2, <3>2, CreateFacts DEF WindowInv, Buffers
      <4>2. IsFiniteSet(DOMAIN bufs[w].types) /\ (vim[w].open => AnnoOf(w))
        BY <3>2, Zenon DEF AnnoInv
      <4>3. bufs'[w].types = bufs[w].types /\ vim'[w].types = vim[w].types
        BY <4>1
      <4>4. AnnoOf(w) => AnnoOf(w)'
        BY <2>1, <4>3, SameAnno
      <4>. QED
        BY <4>1, <4>2, <4>4
    <3>. QED
      BY <1>2, <3>1, <3>2, CreateFacts DEF WindowInv
  <2>. QED
    BY <2>2, Zenon DEF AnnoInv
<1>3. ASSUME NEW t \in Threads, PrintInsert(t) \/ ClearRemove(t) PROVE AnnoInv'
  <2>1. /\ Begins(t, "printed") \/ Begins(t, "cleared")
        /\ vim'[win[t]].types = vim[win[t]].types
    BY <1>3, PrintBegins, ClearBegins DEF WindowInv
  <2>2. bufs'[win[t]].types = bufs[win[t]].types
    BY <2>1 DEF Begins, SameBuf
  <2>. QED
    BY <2>1, <2>2, WriteAnno
<1>4. ASSUME NEW t \in Threads, PrintDone(t) \/ ClearDone(t) PROVE AnnoInv'
  <2>1. PICK len : pc[t] \in {"printed", "cleared"} /\ Written(t, len)
    BY <1>4 DEF PrintDone, ClearDone, At
  <2>2. /\ Ends(t) /\ pc[t] \notin AnnoTypes
        /\ bufs'[win[t]].types = bufs[win[t]].types /\ vim'[win[t]].types = vim[win[t]].types
    BY <1>0, <2>1, WriteEnds DEF WindowInv
  <2>. QED
    BY <2>2, WriteAnno
<1>5. ASSUME NEW t \in Threads, NEW type \in AnnoTypes, AnnoDefine(t, type) PROVE AnnoInv'
  BY <1>5, DefineAnno
<1>6. ASSUME NEW t \in Threads, NEW type \in AnnoTypes, AnnoNumber(t, type) PROVE AnnoInv'
  BY <1>6, NumberAnno
<1>7. ASSUME NEW w \in 1..MaxBufs, Destroy(w) PROVE AnnoInv'
  <2>1. DOMAIN bufs' \subseteq DOMAIN bufs /\ \A v \in DOMAIN bufs' : bufs'[v] = bufs[v]
    BY <1>7, DestroyFacts DEF Without
  <2>2. UNCHANGED <<vim, pc, win>>
    BY <1>7, DestroyFacts
  <2>3. ASSUME NEW v \in DOMAIN bufs'
        PROVE  IsFiniteSet(DOMAIN bufs'[v].types) /\ (vim'[v].open => AnnoOf(v)')
    <3>1. v \in DOMAIN bufs /\ bufs'[v].types = bufs[v].types /\ vim'[v] = vim[v]
      BY <2>1, <2>2
    <3>2. AnnoOf(v) => AnnoOf(v)'
      BY <2>2, <3>1, SameAnno
    <3>. QED
      BY <3>1, <3>2, Zenon DEF AnnoInv
  <2>. QED
    BY <2>3, Zenon DEF AnnoInv
<1>8. ASSUME NEW ro \in BOOLEAN, SetReadonly(ro) PROVE AnnoInv'
  <2>1. ASSUME NEW w \in DOMAIN bufs'
        PROVE  IsFiniteSet(DOMAIN bufs'[w].types) /\ (vim'[w].open => AnnoOf(w)')
    <3>1. /\ w \in DOMAIN bufs /\ w \in DOMAIN vim /\ vim'[w].open = vim[w].open
          /\ bufs'[w].types = bufs[w].types /\ vim'[w].types = vim[w].types
      BY <1>8, ReadonlyFacts DEF WindowInv, Buffers
    <3>2. pc' = pc /\ win' = win
      BY <1>8, ReadonlyFacts DEF WindowInv
    <3>3. AnnoOf(w) => AnnoOf(w)'
      BY <3>1, <3>2, SameAnno
    <3>. QED
      BY <3>1, <3>3, Zenon DEF AnnoInv
  <2>. QED
    BY <2>1, Zenon DEF AnnoInv
<1>. QED
  BY <1>1, <1>2, <1>3, <1>4, <1>5, <1>6, <1>7, <1>8, StepCases

\* Numbering the annotation types of a buffer by the size of the map agrees with vim, in
\* every buffer the user has not closed (vimui.cc:394-396), for any number of types.
THEOREM AnnoNumbersMatch == Spec => []AnnoTypesMatch
<1>1. Init => WindowInv /\ AnnoInv
  BY WindowInit DEF Init, AnnoInv
<1>2. WindowInv /\ AnnoInv /\ [Next]_vars => WindowInv' /\ AnnoInv'
  BY WindowStep, AnnoStep
<1>3. WindowInv /\ AnnoInv => AnnoTypesMatch
  <2> SUFFICES ASSUME WindowInv, AnnoInv, AtRest, NEW w \in DOMAIN bufs, vim[w].open
               PROVE  /\ Len(vim[w].types) = Cardinality(DOMAIN bufs[w].types)
                      /\ \A type \in DOMAIN bufs[w].types :
                            vim[w].types[bufs[w].types[type]] = type
    BY DEF AnnoTypesMatch
  <2>1. \A t \in Threads : pc[t] \notin AnnoTypes
    BY NobodyWaits DEF AtRest, WindowInv, Waits
  <2>2. AnnoOf(w)
    BY Zenon DEF AnnoInv
  <2>. QED
    BY <2>1, <2>2, Zenon DEF AnnoOf
<1>. QED
  BY <1>1, <1>2, <1>3, PTL DEF Spec

------------------------------------------------------------------------------
(* Atomic sections *)

AllOpen == \A w \in DOMAIN vim : vim[w].open

InSection(t) == IF section[t] # NoWin THEN 1 ELSE 0
Sections     == InSection("main") + InSection("event")

SomeWaits == \E t \in Threads : pc[t] \in Waits

\* While the user closes nothing every window has its buffer.
WindowsThere ==
    /\ killed = {} /\ DOMAIN bufs = DOMAIN vim
    /\ \A t \in Threads : win[t] = NoWin \/ win[t] \in DOMAIN bufs

\* vim is in the sections of the threads, and in that of the function that waits if it
\* was not called within one; the flag may say less, never more.
Balance ==
    /\ inAtomic => depth = Sections /\ Sections # 0
    /\ ~inAtomic /\ SomeWaits => depth = Sections + 1
    /\ ~inAtomic /\ ~SomeWaits => depth = Sections

DepthInv ==
    /\ DOMAIN section = Threads
    /\ fault = "none" /\ AllOpen => WindowsThere /\ Balance

\* What the start and the end of a section do.
LEMMA StartFacts ==
    ASSUME NEW w, Start(w, FALSE)
    PROVE  \/ inAtomic /\ inAtomic' /\ depth' = depth
           \/ ~inAtomic /\ ~inAtomic' /\ depth' = depth + 1
  BY Zenon DEF Start

LEMMA StopFacts ==
    ASSUME Stop(FALSE)
    PROVE  \/ inAtomic /\ inAtomic' /\ depth' = depth
           \/ ~inAtomic /\ ~inAtomic' /\ depth' = depth - 1
  BY Zenon DEF Stop

LEMMA SectionCount == Sections \in Nat
  BY DEF Sections, InSection

\* A function begins to wait.
LEMMA BeginsDepth ==
    ASSUME WindowInv, DepthInv, NEW t \in Threads, NEW place, Begins(t, place),
           Start(win[t], FALSE), UNCHANGED <<section, killed, fault>>
    PROVE  DepthInv'
<1>1. /\ ~SomeWaits /\ SomeWaits' /\ Sections' = Sections
      /\ DOMAIN section' = Threads
  BY NobodyWaits DEF SomeWaits, Begins, WindowInv, Places, Sections, InSection, DepthInv
<1>2. AllOpen' => AllOpen
  <2>1. \A v \in DOMAIN vim : v \in DOMAIN vim' /\ (vim'[v].open => vim[v].open)
    BY DEF Begins, SameVim
  <2>. QED
    BY <2>1 DEF AllOpen
<1>3. WindowsThere => WindowsThere'
  BY DEF WindowsThere, Begins
<1>4. ASSUME Balance PROVE Balance'
  <2>1. CASE inAtomic /\ inAtomic' /\ depth' = depth
    <3>1. depth = Sections /\ Sections # 0
      BY <1>4, <2>1, Zenon DEF Balance
    <3>2. depth' = Sections' /\ Sections' # 0
      BY <1>1, <2>1, <3>1
    <3>. QED
      BY <2>1, <3>2, Zenon DEF Balance
  <2>2. CASE ~inAtomic /\ ~inAtomic' /\ depth' = depth + 1
    <3>1. depth = Sections
      BY <1>1, <1>4, <2>2, Zenon DEF Balance
    <3>2. depth' = Sections' + 1
      BY <1>1, <2>2, <3>1
    <3>. QED
      BY <1>1, <2>2, <3>2, Zenon DEF Balance
  <2>. QED
    BY <2>1, <2>2, StartFacts
<1>. QED
  BY <1>1, <1>2, <1>3, <1>4, Zenon DEF DepthInv

\* It has its reply; if it faults there is no more to say.
LEMMA EndsDepth ==
    ASSUME WindowInv, DepthInv, NEW t \in Threads, Ends(t),
           (Stop(FALSE) /\ fault' = fault) \/ fault' # "none",
           UNCHANGED <<section, killed>>
    PROVE  DepthInv'
<1>1. /\ SomeWaits /\ Sections' = Sections /\ DOMAIN section' = Threads
  BY DEF SomeWaits, Ends, Sections, InSection, DepthInv
<1>2. ~SomeWaits'
  <2>1. \A u \in Threads : u # t => pc[u] \notin Waits
    BY OneWaits DEF WindowInv, Ends
  <2>2. "idle" \notin Waits
    BY PlacesAssumption DEF Waits
  <2>. QED
    BY <2>1, <2>2 DEF SomeWaits, Ends, WindowInv, Places
<1>3. AllOpen' => AllOpen
  <2>1. \A v \in DOMAIN vim : v \in DOMAIN vim' /\ (vim'[v].open => vim[v].open)
    BY DEF Ends, SameVim
  <2>. QED
    BY <2>1 DEF AllOpen
<1>4. WindowsThere => WindowsThere'
  BY DEF WindowsThere, Ends
<1>5. ASSUME Balance, Stop(FALSE) PROVE Balance'
  <2>1. CASE inAtomic /\ inAtomic' /\ depth' = depth
    <3>1. depth = Sections /\ Sections # 0
      BY <1>5, <2>1, Zenon DEF Balance
    <3>2. depth' = Sections' /\ Sections' # 0
      BY <1>1, <2>1, <3>1
    <3>. QED
      BY <2>1, <3>2, Zenon DEF Balance
  <2>2. CASE ~inAtomic /\ ~inAtomic' /\ depth' = depth - 1
    <3>1. depth = Sections + 1
      BY <1>1, <1>5, <2>2, Zenon DEF Balance
    <3>2. depth' = Sections'
      BY <1>1, <2>2, <3>1, SectionCount
    <3>. QED
      BY <1>2, <2>2, <3>2, Zenon DEF Balance
  <2>. QED
    BY <1>5, <2>1, <2>2, StopFacts
<1>. QED
  BY <1>1, <1>3, <1>4, <1>5, Zenon DEF DepthInv

\* Neither sections nor waiting threads change.
LEMMA SameDepth ==
    ASSUME DepthInv, UNCHANGED <<section, killed, inAtomic, depth>>,
           fault' = fault \/ fault' # "none", AllOpen' => AllOpen, SomeWaits' <=> SomeWaits,
           DOMAIN bufs' = DOMAIN bufs, DOMAIN vim' = DOMAIN vim,
           \A t \in Threads : win'[t] = win[t] \/ win'[t] \in DOMAIN bufs'
    PROVE  DepthInv'
<1>1. Sections' = Sections /\ DOMAIN section' = Threads
  BY DEF Sections, InSection, DepthInv
<1>2. WindowsThere => WindowsThere'
  BY DEF WindowsThere
<1>3. Balance => Balance'
  <2>1. depth' = depth /\ Sections' = Sections
    BY <1>1
  <2>2. (inAtomic' <=> inAtomic) /\ (SomeWaits' <=> SomeWaits)
    BY Zenon
  <2>. QED
    BY <2>1, <2>2, Zenon DEF Balance
<1>. QED
  BY <1>1, <1>2, <1>3, Zenon DEF DepthInv

\* A step that cannot happen before the user closes a buffer.
LEMMA LateDepth ==
    ASSUME DepthInv, section' = section, fault' = fault \/ fault' # "none", AllOpen' => AllOpen,
           ~WindowsThere
    PROVE  DepthInv'
  BY Zenon DEF DepthInv

LEMMA SectionStartDepth ==
    ASSUME WindowInv, DepthInv, NEW t \in Threads, SectionStart(t)
    PROVE  DepthInv'
<1>1. /\ section[t] = NoWin /\ win[t] # NoWin /\ section' = [section EXCEPT ![t] = win[t]]
      /\ uiMtx = NoThread /\ Start(win[t], TRUE)
      /\ UNCHANGED <<pc, win, vim, killed, fault>>
  BY DEF SectionStart, Locked, thread
<1>2. depth' = depth + 1 /\ inAtomic'
  BY <1>1, Zenon DEF Start
<1>3. DOMAIN bufs' = DOMAIN bufs
  BY <1>1, StartKeeps DEF WindowInv
<1>4. Sections' = Sections + 1 /\ DOMAIN section' = Threads
  BY <1>1 DEF Sections, InSection, DepthInv, Threads
<1>5. ~SomeWaits
  BY <1>1, NobodyWaits DEF SomeWaits, WindowInv
<1>6. AllOpen' => AllOpen
  BY <1>1 DEF AllOpen
<1>7. WindowsThere => WindowsThere'
  BY <1>1, <1>3 DEF WindowsThere
<1>8. ASSUME Balance PROVE Balance'
  <2>1. depth = Sections
    BY <1>5, <1>8, Zenon DEF Balance
  <2>2. depth' = Sections' /\ Sections' # 0
    BY <1>2, <1>4, <2>1, SectionCount
  <2>. QED
    BY <1>2, <2>2, Zenon DEF Balance
<1>. QED
  BY <1>1, <1>4, <1>6, <1>7, <1>8, Zenon DEF DepthInv

LEMMA SectionStopDepth ==
    ASSUME WindowInv, DepthInv, NEW t \in Threads, SectionStop(t)
    PROVE  DepthInv'
<1>1. /\ section[t] # NoWin /\ section' = [section EXCEPT ![t] = NoWin]
      /\ uiMtx = NoThread
      /\ UNCHANGED <<pc, win, bufs, vim, killed>>
  BY Zenon DEF SectionStop, Locked, thread, tables
<1>2. (Stop(TRUE) /\ fault' = fault) \/ fault' = "cursor"
  BY Zenon DEF SectionStop
<1>3. Stop(TRUE) => depth' = depth - 1 /\ ~inAtomic'
  BY Zenon DEF Stop
<1>4. Sections' = Sections - 1 /\ DOMAIN section' = Threads
  BY <1>1 DEF Sections, InSection, DepthInv, Threads
<1>5. ~SomeWaits /\ ~SomeWaits'
  BY <1>1, NobodyWaits DEF SomeWaits, WindowInv
<1>6. AllOpen' => AllOpen
  BY <1>1 DEF AllOpen
<1>7. WindowsThere => WindowsThere'
  BY <1>1 DEF WindowsThere
<1>8. ASSUME Balance, Stop(TRUE) PROVE Balance'
  <2>1. depth = Sections
    BY <1>5, <1>8, Zenon DEF Balance
  <2>2. depth' = Sections'
    BY <1>3, <1>4, <1>8, <2>1
  <2>. QED
    BY <1>3, <1>5, <1>8, <2>2, Zenon DEF Balance
<1>9. fault' = fault \/ fault' # "none"
  BY <1>2
<1>10. fault' = "cursor" => fault' # "none"
  OBVIOUS
<1>. QED
  BY <1>2, <1>4, <1>6, <1>7, <1>8, <1>9, <1>10, Zenon DEF DepthInv

LEMMA CreateDepth ==
    ASSUME WindowInv, DepthInv, NEW t \in Threads, Create(t)
    PROVE  DepthInv'
<1>1. /\ DOMAIN bufs' = DOMAIN bufs \union {nextId} /\ DOMAIN vim' = DOMAIN vim \union {nextId}
      /\ \A w \in DOMAIN vim : vim'[w] = vim[w]
  BY CreateFacts DEF WindowInv
<1>2. UNCHANGED <<section, killed, inAtomic, depth, fault>>
  BY DEF Create
<1>3. win' = [win EXCEPT ![t] = nextId] /\ pc' = [pc EXCEPT ![t] = "idle"] /\ uiMtx = NoThread
  BY CreateFacts DEF WindowInv
<1>4. "idle" \notin Waits
  BY PlacesAssumption DEF Waits
<1>5. ~SomeWaits /\ ~SomeWaits'
  BY <1>3, <1>4, NobodyWaits DEF SomeWaits, WindowInv, Places
<1>6. AllOpen' => AllOpen
  BY <1>1 DEF AllOpen
<1>7. \A u \in Threads : win'[u] = win[u] \/ win'[u] \in DOMAIN bufs'
  BY <1>1, <1>3 DEF WindowInv, Places
<1>8. Sections' = Sections /\ DOMAIN section' = Threads
  BY <1>2 DEF Sections, InSection, DepthInv
<1>9. WindowsThere => WindowsThere'
  BY <1>1, <1>2, <1>7 DEF WindowsThere
<1>10. Balance => Balance'
  BY <1>2, <1>5, <1>8, Zenon DEF Balance
<1>. QED
  BY <1>2, <1>6, <1>8, <1>9, <1>10, Zenon DEF DepthInv

LEMMA AsideDepth ==
    ASSUME WindowInv, DepthInv, Aside
    PROVE  DepthInv'
<1>0. {"idle", "create", "print", "clear"} \intersect Waits = {}
  BY PlacesAssumption DEF Waits
<1>1. Quiet
  BY AsideIsQuiet DEF WindowInv
<1>2. AllOpen' => AllOpen
  <2>1. \A v \in DOMAIN vim : v \in DOMAIN vim' /\ (vim'[v].open => vim[v].open)
    BY <1>1 DEF Quiet, SameVim
  <2>. QED
    BY <2>1 DEF AllOpen
<1>3. SomeWaits' <=> SomeWaits
  BY <1>0, <1>1 DEF Quiet, SomeWaits
<1>4. DOMAIN bufs' = DOMAIN bufs /\ DOMAIN vim' = DOMAIN vim
  BY <1>1 DEF Quiet
<1>5. ASSUME UNCHANGED <<section, killed, inAtomic, depth>>, fault' = fault \/ fault' # "none",
             \A t \in Threads : win'[t] = win[t] \/ win'[t] \in DOMAIN bufs'
      PROVE  DepthInv'
  BY <1>2, <1>3, <1>4, <1>5, SameDepth
<1>6. ASSUME NEW t \in Threads, NEW n \in Names, GetId(t, n) PROVE DepthInv'
  <2>1. UNCHANGED <<section, killed, inAtomic, depth, fault>>
    BY <1>6 DEF GetId
  <2>2. (n \in DOMAIN byName /\ win' = [win EXCEPT ![t] = byName[n]]) \/ win' = win
    BY <1>6, Zenon DEF GetId
  <2>3. \A u \in Threads : win'[u] = win[u] \/ win'[u] \in DOMAIN bufs'
    BY <1>4, <2>2 DEF WindowInv, NamesLead, Places
  <2>. QED
    BY <1>5, <2>1, <2>3
<1>7. ASSUME NEW t \in Threads, NEW op \in {"print", "clear"}, Find(t, op) PROVE DepthInv'
  BY <1>5, <1>7 DEF Find
<1>8. ASSUME NEW t \in Threads, Gone(t) PROVE DepthInv'
  <2>1. UNCHANGED <<section, killed, inAtomic, depth, win>> /\ fault = "none"
    BY <1>8 DEF Gone
  <2>. QED
    BY <1>5, <2>1
<1>9. ASSUME NEW t \in Threads, AnnoFails(t) PROVE DepthInv'
  <2>1. UNCHANGED <<section, fault>> /\ win[t] # NoWin /\ win[t] \notin DOMAIN bufs
    BY <1>9 DEF AnnoFails
  <2>2. ~WindowsThere
    BY <2>1 DEF WindowsThere
  <2>. QED
    BY <1>2, <2>1, <2>2, LateDepth
<1>10. ASSUME NEW t \in Threads, SectionStart(t) PROVE DepthInv'
  BY <1>10, SectionStartDepth
<1>11. ASSUME NEW t \in Threads, SectionStop(t) PROVE DepthInv'
  BY <1>11, SectionStopDepth
<1>12. ASSUME NEW w \in 1..MaxBufs, UserClose(w) PROVE DepthInv'
  <2>1. section' = section /\ w \in DOMAIN vim /\ vim' = [vim EXCEPT ![w].open = FALSE]
    BY <1>12, Zenon DEF UserClose
  <2>2. w \in DOMAIN vim' /\ vim'[w].open = FALSE
    BY <2>1 DEF WindowInv, Buffers, VimFields
  <2>3. ~AllOpen'
    BY <2>2, Zenon DEF AllOpen
  <2>. QED
    BY <2>1, <2>3, Zenon DEF DepthInv
<1>13. ASSUME NEW b \in BOOLEAN, SetPreserve(b) PROVE DepthInv'
  BY <1>5, <1>13 DEF SetPreserve, thread
<1>14. CASE UNCHANGED vars
  BY <1>5, <1>14 DEF vars, thread
<1>. QED
  BY <1>6, <1>7, <1>8, <1>9, <1>10, <1>11, <1>12, <1>13, <1>14 DEF Aside

LEMMA DepthStep ==
    ASSUME WindowInv, DepthInv, [Next]_vars
    PROVE  DepthInv'
<1>1. CASE Aside
  BY <1>1, AsideDepth
<1>2. ASSUME NEW t \in Threads, Create(t) PROVE DepthInv'
  BY <1>2, CreateDepth
<1>3. ASSUME NEW t \in Threads, PrintInsert(t) PROVE DepthInv'
  <2>1. Start(win[t], FALSE) /\ UNCHANGED <<section, killed, fault>>
    BY <1>3, Zenon DEF PrintInsert
  <2>2. Begins(t, "printed")
    BY <1>3, PrintBegins DEF WindowInv
  <2>. QED
    BY <2>1, <2>2, BeginsDepth
<1>4. ASSUME NEW t \in Threads, ClearRemove(t) PROVE DepthInv'
  <2>1. Start(win[t], FALSE) /\ UNCHANGED <<section, killed, fault>>
    BY <1>4, Zenon DEF ClearRemove
  <2>2. Begins(t, "cleared")
    BY <1>4, ClearBegins DEF WindowInv
  <2>. QED
    BY <2>1, <2>2, BeginsDepth
<1>5. ASSUME NEW t \in Threads, NEW type \in AnnoTypes, AnnoDefine(t, type) PROVE DepthInv'
  <2>1. Start(win[t], FALSE) /\ UNCHANGED <<section, killed, fault>>
    BY <1>5, Zenon DEF AnnoDefine
  <2>2. Begins(t, type)
    BY <1>5, AnnoBegins DEF WindowInv
  <2>. QED
    BY <2>1, <2>2, BeginsDepth
<1>6. ASSUME NEW t \in Threads, PrintDone(t) \/ ClearDone(t) PROVE DepthInv'
  <2>1. PICK len : pc[t] \in {"printed", "cleared"} /\ Written(t, len)
    BY <1>6 DEF PrintDone, ClearDone, At
  <2>2. /\ (Stop(FALSE) /\ fault' = fault) \/ fault' = "cursor"
        /\ UNCHANGED <<section, killed>>
    BY <2>1, Zenon DEF Written
  <2>3. Ends(t)
    BY <2>1, WriteEnds DEF WindowInv
  <2>. QED
    BY <2>2, <2>3, EndsDepth
<1>7. ASSUME NEW t \in Threads, NEW type \in AnnoTypes, AnnoNumber(t, type) PROVE DepthInv'
  <2>2. /\ (Stop(FALSE) /\ fault' = fault) \/ fault' = "cursor"
        /\ UNCHANGED <<section, killed>>
    BY <1>7, Zenon DEF AnnoNumber
  <2>3. Ends(t)
    BY <1>7, AnnoEnds DEF WindowInv
  <2>. QED
    BY <2>2, <2>3, EndsDepth
<1>8. ASSUME NEW w \in 1..MaxBufs, Destroy(w) PROVE DepthInv'
  <2>1. w \in killed /\ section' = section /\ vim' = vim /\ (fault' = fault \/ fault' = "erase")
    BY <1>8, Zenon DEF Destroy
  <2>2. ~WindowsThere
    BY <2>1 DEF WindowsThere
  <2>3. AllOpen' => AllOpen
    BY <2>1 DEF AllOpen
  <2>. QED
    BY <2>1, <2>2, <2>3, LateDepth
<1>9. ASSUME NEW b \in BOOLEAN, SetReadonly(b) PROVE DepthInv'
  <2>1. UNCHANGED <<section, killed, inAtomic, depth, fault>>
    BY <1>9 DEF SetReadonly
  <2>2. /\ UNCHANGED <<pc, win>> /\ DOMAIN bufs' = DOMAIN bufs /\ DOMAIN vim' = DOMAIN vim
        /\ \A w \in DOMAIN vim : vim'[w].open = vim[w].open
    BY <1>9, ReadonlyFacts DEF WindowInv
  <2>3. (AllOpen' => AllOpen) /\ (SomeWaits' <=> SomeWaits)
    BY <2>2 DEF AllOpen, SomeWaits
  <2>. QED
    BY <2>1, <2>2, <2>3, SameDepth
<1>. QED
  BY <1>1, <1>2, <1>3, <1>4, <1>5, <1>6, <1>7, <1>8, <1>9, StepCases

\* vim has left all sections when both threads have left theirs, in whatever order they
\* enter and leave them and whichever functions they call in between (vimui.cc:646-705),
\* as long as the user closes no buffer.
THEOREM SectionsBalance == Spec => []AtomicBalanced
<1>1. Init => WindowInv /\ DepthInv
  <2> SUFFICES ASSUME Init PROVE WindowInv /\ DepthInv
    OBVIOUS
  <2>1. WindowsThere /\ DOMAIN section = Threads /\ depth = Sections
    BY DEF Init, WindowsThere, Sections, InSection, Threads
  <2>2. ~SomeWaits
    BY PlacesAssumption DEF Init, SomeWaits, Waits
  <2>3. ~inAtomic
    BY Zenon DEF Init
  <2>4. Balance
    BY <2>1, <2>2, <2>3, Zenon DEF Balance
  <2>. QED
    BY <2>1, <2>4, WindowInit, Zenon DEF DepthInv
<1>2. WindowInv /\ DepthInv /\ [Next]_vars => WindowInv' /\ DepthInv'
  BY WindowStep, DepthStep
<1>3. WindowInv /\ DepthInv => AtomicBalanced
  <2> SUFFICES ASSUME WindowInv, DepthInv, AtRest, \A t \in Threads : section[t] = NoWin, AllOpen
               PROVE  depth = 0 /\ ~inAtomic
    BY Zenon DEF AtomicBalanced, AllOpen
  <2>1. Sections = 0
    BY DEF Sections, InSection, Threads
  <2>2. ~SomeWaits
    BY NobodyWaits DEF AtRest, WindowInv, SomeWaits
  <2>3. Balance
    BY Zenon DEF AtRest, DepthInv
  <2>. QED
    BY <2>1, <2>2, <2>3, Zenon DEF Balance
<1>. QED
  BY <1>1, <1>2, <1>3, PTL DEF Spec

==============================================================================
