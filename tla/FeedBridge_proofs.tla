------------------------ MODULE FeedBridge_proofs ------------------------
(***************************************************************************)
(* The bridge over any feeds, for any number of rows and faults: nothing   *)
(* is sent twice or out of order, and nothing behind a cursor is skipped.  *)
(***************************************************************************)
EXTENDS FeedBridge, FiniteSetTheorems, SequenceTheorems, TLAPS

There(d) == {p \in Paths : d[p] # Nothing}

\* Every file has its own inode, and holds rows of it in the order written.
Apart(d, r, n) ==
  /\ \A p \in There(d) : d[p].ino <= n
  /\ \A p, q \in There(d) : d[p].ino = d[q].ino => p = q
  /\ \A p \in There(d) : \A i \in DOMAIN d[p].rows :
       /\ r[d[p].rows[i]].ino = d[p].ino
       /\ \A j \in DOMAIN d[p].rows : i < j => d[p].rows[i] < d[p].rows[j]

\* The cursor at q is the file's at p: its own, or that of the path it left.
Covers(d, c, p, q) == c[q] # Nothing /\ c[q].ino = d[p].ino /\ (q = p \/ (c[p] = Nothing /\ q \notin There(d)))

\* No two cursors are of one file; each is of the file at its path, or waits to
\* be handed over; none is past the end of a file that was not cut.
CursorsApart(d, n, c) ==
  /\ \A p, q \in Paths : c[p] # Nothing /\ c[q] # Nothing /\ c[p].ino = c[q].ino => p = q
  /\ \A q \in Paths : c[q] # Nothing => c[q].ino <= n
  /\ \A q \in Paths, p \in There(d) : c[q] # Nothing /\ c[q].ino = d[p].ino =>
       Covers(d, c, p, q) /\ (~d[p].cut => c[q].pos <= Len(d[p].rows))

\* The rows behind a file's cursor are in S.
Passed(d, c, S) ==
  \A p \in There(d), q \in Paths : c[q] # Nothing /\ c[q].ino = d[p].ino =>
    \A i \in DOMAIN d[p].rows : i <= c[q].pos => d[p].rows[i] \in S

\* Row i of the file at p comes after the rows of S of that file.
Later(d, r, p, i, S) == \A s \in S : r[s].ino = d[p].ino => s < d[p].rows[i]

\* What a tick that begins now would read comes after the rows of S.
Fresh(d, r, c, S) ==
  \A p \in There(d) : \A i \in DOMAIN d[p].rows :
    \/ Later(d, r, p, i, S)
    \/ \E q \in Paths : Covers(d, c, p, q) /\ i <= c[q].pos /\ c[q].pos <= Len(d[p].rows)

\* What an older bridge's one offset leaves to be read, and what it passed.
Old == {Legacy, Moved}
OffsetFresh(d, r, n, S) ==
  \A p \in There(d) : \A i \in DOMAIN d[p].rows : Later(d, r, p, i, S) \/ (p \in Old /\ i <= n /\ n <= Len(d[p].rows))
OffsetPassed(d, n, S) == \A p \in Old \cap There(d) : \A i \in DOMAIN d[p].rows : i <= n => d[p].rows[i] \in S

Behind == Done \cup shadowed \cup Range(queue)
Sending == Range(sent) \cup Range(queue)
HasCursors == saved # Nothing /\ saved.form = "cursors"
HasOffset == saved # Nothing /\ saved.form = "offset"

\* The bridge that does not run holds nothing; a queue is rows in order; a feed
\* of this tick that has no cursor yet is not given one.
BridgeShape ==
  /\ pc = "down" => cursors = NoFiles
  /\ pc \in {"down", "begin"} => queue = << >> /\ todo = << >>
  /\ HasOffset => pc \in {"down", "begin"} /\ saved.pos > 0
  /\ saved = Nothing => pc \in {"down", "begin"} \/ torn
  /\ \A i, j \in DOMAIN queue : i < j => queue[i] < queue[j]
  /\ \A p \in Range(todo) \cap Present : cursors[p] = Nothing =>
       \A q \in Paths : cursors[q] # Nothing => cursors[q].ino # disk[p].ino

Cursored ==
  /\ \A c \in Known : CursorsApart(disk, newest, c) /\ Passed(disk, c, Behind)
  /\ HasOffset => OffsetPassed(disk, saved.pos, Behind)

\* Nothing a cursor still leads to was sent.
Unsent ==
  /\ \A i, j \in DOMAIN sent : i < j /\ rows[sent[i]].ino = rows[sent[j]].ino => sent[i] < sent[j]
  /\ \A i \in DOMAIN sent, j \in DOMAIN queue : rows[sent[i]].ino = rows[queue[j]].ino => sent[i] < queue[j]
  /\ pc # "down" => Fresh(disk, rows, cursors, Sending)
  /\ HasCursors => Fresh(disk, rows, saved.cursors, IF pc = "up" THEN Sending ELSE Range(sent))
  /\ HasOffset => OffsetFresh(disk, rows, saved.pos, Range(sent))
  /\ saved = Nothing => sent = << >>

FeedInv == TypeOK /\ Apart(disk, rows, newest) /\ BridgeShape /\ Cursored /\ (torn \/ Unsent)
-----------------------------------------------------------------------------
(* Induction over the naturals. *)

\* Every non-empty set of naturals has a least element.
LEMMA Least ==
  ASSUME NEW N \in SUBSET Nat, N # {}
  PROVE  \E m \in N : \A n \in N : m <= n
<1> DEFINE below(n) == 0 .. n - 1
           T == {below(n) : n \in N}
<1>1. \A n \in N : IsFiniteSet(below(n)) /\ below(n) \in SUBSET Nat
  BY FS_Interval
<1>2. T \subseteq FiniteSubsetsOf(Nat) /\ T # {}
  BY <1>1 DEF FiniteSubsetsOf
<1>3. PICK x \in T : \A y \in T : ~(<<y, x>> \in StrictSubsetOrdering(Nat))
  <2> HIDE DEF T
  <2> QED BY <1>2, FS_StrictSubsetOrderingWellFounded, WFMin
<1>4. PICK m \in N : x = below(m)
  OBVIOUS
<1>5. ASSUME NEW n \in N, n < m PROVE FALSE
  <2>1. below(n) \subseteq below(m) /\ n \in below(m) /\ n \notin below(n)
    BY <1>5
  <2>2. <<below(n), below(m)>> \in StrictSubsetOrdering(Nat)
    BY <1>1, <2>1, <1>5 DEF StrictSubsetOrdering
  <2> QED
    BY <1>3, <1>4, <2>2
<1> QED
  BY <1>5

\* Induction over the naturals, for a set in place of a predicate.
LEMMA Natural ==
  ASSUME NEW N \in SUBSET Nat, 0 \in N, \A n \in N : n + 1 \in N
  PROVE  N = Nat
<1>1. SUFFICES ASSUME Nat \ N # {} PROVE FALSE
  OBVIOUS
<1>2. PICK m \in Nat \ N : \A n \in Nat \ N : m <= n
  <2> DEFINE R == Nat \ N
  <2>1. R \in SUBSET Nat /\ R # {} BY <1>1
  <2> HIDE DEF R
  <2>2. \E m \in R : \A n \in R : m <= n BY <2>1, Least
  <2> QED BY <2>2 DEF R
<1>3. m # 0 /\ m - 1 \in Nat
  BY <1>2
<1>4. m - 1 \in Nat \ N
  BY <1>2, <1>3
<1> QED
  BY <1>2, <1>4
-----------------------------------------------------------------------------
(* The elements of a sequence that are in a set. *)

\* g holds, for each number of elements of s up to n, those that are in S.
Filters(g, s, S, n) ==
  g = [i \in 0..n |-> IF i = 0 THEN << >> ELSE IF s[i] \in S THEN Append(g[i - 1], s[i]) ELSE g[i - 1]]

LEMMA FiltersStep ==
  ASSUME NEW g, NEW s, NEW S, NEW n \in Nat, Filters(g, s, S, n)
  PROVE  /\ g[0] = << >>
         /\ \A i \in 1..n : g[i] = IF s[i] \in S THEN Append(g[i - 1], s[i]) ELSE g[i - 1]
<1>1. \A i \in 0..n : g[i] = IF i = 0 THEN << >> ELSE IF s[i] \in S THEN Append(g[i - 1], s[i]) ELSE g[i - 1]
  <2> TAKE i \in 0..n
  <2>1. g = [j \in 0..n |-> IF j = 0 THEN << >> ELSE IF s[j] \in S THEN Append(g[j - 1], s[j]) ELSE g[j - 1]]
    BY DEF Filters
  <2> QED
    BY <2>1, Zenon
<1>2. 0 \in 0..n /\ \A i \in 1..n : i \in 0..n /\ i # 0
  OBVIOUS
<1>3. \A i \in 1..n : g[i] = IF s[i] \in S THEN Append(g[i - 1], s[i]) ELSE g[i - 1]
  BY <1>1, <1>2, Zenon
<1>4. g[0] = << >>
  BY <1>1, <1>2, Zenon
<1> QED
  BY <1>3, <1>4

LEMMA FiltersExist ==
  ASSUME NEW s, NEW S, NEW n \in Nat
  PROVE  \E g : Filters(g, s, S, n)
<1> DEFINE N == {k \in Nat : \E g : Filters(g, s, S, k)}
<1>1. 0 \in N
  <2>1. Filters([i \in 0..0 |-> << >>], s, S, 0)
    BY DEF Filters
  <2> QED
    BY <2>1
<1>2. ASSUME NEW k \in N PROVE k + 1 \in N
  <2>1. PICK g : Filters(g, s, S, k)
    OBVIOUS
  <2>2. PICK h : h = [i \in 0..k + 1 |-> IF i = 0 THEN << >> ELSE IF s[i] \in S THEN Append(g[i - 1], s[i]) ELSE g[i - 1]]
    OBVIOUS
  <2>3. g[0] = << >> /\ \A i \in 1..k : g[i] = IF s[i] \in S THEN Append(g[i - 1], s[i]) ELSE g[i - 1]
    BY <2>1, FiltersStep
  <2>4. \A i \in 0..k + 1 : h[i] = IF i = 0 THEN << >> ELSE IF s[i] \in S THEN Append(g[i - 1], s[i]) ELSE g[i - 1]
    BY <2>2, Zenon
  <2>5. ASSUME NEW i \in 0..k PROVE h[i] = g[i]
    <3>1. i \in 0..k + 1 /\ (i # 0 => i \in 1..k)
      OBVIOUS
    <3> QED
      BY <2>3, <2>4, <3>1, Zenon
  <2>6. ASSUME NEW i \in 0..k + 1, i # 0 PROVE h[i - 1] = g[i - 1]
    <3>1. i - 1 \in 0..k
      BY <2>6
    <3> QED
      BY <2>5, <3>1, Zenon
  <2>7. [i \in 0..k + 1 |-> IF i = 0 THEN << >> ELSE IF s[i] \in S THEN Append(g[i - 1], s[i]) ELSE g[i - 1]]
        = [i \in 0..k + 1 |-> IF i = 0 THEN << >> ELSE IF s[i] \in S THEN Append(h[i - 1], s[i]) ELSE h[i - 1]]
    BY <2>6, Zenon
  <2>8. Filters(h, s, S, k + 1)
    BY <2>2, <2>7, Zenon DEF Filters
  <2> QED
    BY <2>8
<1>3. N = Nat
  <2> HIDE DEF N
  <2>1. N \in SUBSET Nat
    BY DEF N
  <2> QED
    BY <1>1, <1>2, <2>1, Natural
<1> QED
  BY <1>3

LEMMA ThoseFilters == ASSUME NEW s, NEW S, Len(s) \in Nat PROVE \E g : Filters(g, s, S, Len(s)) /\ Those(s, S) = g[Len(s)]
<1> DEFINE f == CHOOSE g : Filters(g, s, S, Len(s))
<1>1. Filters(f, s, S, Len(s))
  BY FiltersExist
<1>2. Those(s, S) = f[Len(s)]
  BY DEF Those, Filters
<1> QED
  BY <1>1, <1>2

LEMMA AppendIs ==
  ASSUME NEW E, NEW t \in Seq(E), NEW x \in E
  PROVE  /\ Append(t, x) \in Seq(E) /\ Len(Append(t, x)) = Len(t) + 1 /\ DOMAIN Append(t, x) = DOMAIN t \cup {Len(t) + 1}
         /\ Append(t, x)[Len(t) + 1] = x /\ \A j \in DOMAIN t : Append(t, x)[j] = t[j]
         /\ Range(Append(t, x)) = Range(t) \cup {x}
<1>1. PICK u : u = Append(t, x)
  OBVIOUS
<1>2. u \in Seq(E) /\ Len(u) = Len(t) + 1 /\ u[Len(t) + 1] = x /\ \A j \in DOMAIN t : u[j] = t[j]
  BY <1>1
<1>3. DOMAIN u = DOMAIN t \cup {Len(t) + 1}
  BY <1>2
<1>4. Range(u) = {u[j] : j \in DOMAIN t} \cup {u[Len(t) + 1]}
  BY <1>3, Zenon DEF Range
<1>5. {u[j] : j \in DOMAIN t} = Range(t)
  BY <1>2, Zenon DEF Range
<1> QED
  BY <1>1, <1>2, <1>3, <1>4, <1>5

\* Those of s in S, from a sequence over E.
LEMMA ThoseIs ==
  ASSUME NEW E, NEW s \in Seq(E), NEW S
  PROVE  /\ Those(s, S) \in Seq(E)
         /\ Range(Those(s, S)) = Range(s) \cap S
<1>1. PICK f : Filters(f, s, S, Len(s)) /\ Those(s, S) = f[Len(s)]
  BY ThoseFilters
<1>2. f[0] = << >> /\ \A i \in 1..Len(s) : f[i] = IF s[i] \in S THEN Append(f[i - 1], s[i]) ELSE f[i - 1]
  BY <1>1, FiltersStep
<1> DEFINE First(i) == {s[k] : k \in 1..i}
           N == {i \in Nat : i <= Len(s) => f[i] \in Seq(E) /\ Range(f[i]) = First(i) \cap S}
<1>3. 0 \in N
  <2>1. Range(<< >>) = {} /\ << >> \in Seq(E) /\ First(0) = {}
    BY DEF Range
  <2> QED
    BY <1>2, <2>1
<1>4. ASSUME NEW i \in N PROVE i + 1 \in N
  <2> SUFFICES ASSUME i + 1 <= Len(s) PROVE f[i + 1] \in Seq(E) /\ Range(f[i + 1]) = First(i + 1) \cap S
    OBVIOUS
  <2>1. PICK t, u, x : t = f[i] /\ u = f[i + 1] /\ x = s[i + 1]
    OBVIOUS
  <2>2. u = IF x \in S THEN Append(t, x) ELSE t
    <3>1. i + 1 \in 1..Len(s) /\ (i + 1) - 1 = i
      OBVIOUS
    <3> QED
      BY <1>2, <2>1, <3>1
  <2>3. x \in E /\ t \in Seq(E) /\ Range(t) = First(i) \cap S
    BY <2>1
  <2>4. First(i + 1) = First(i) \cup {x}
    BY <2>1
  <2> HIDE DEF First
  <2>5. Append(t, x) \in Seq(E) /\ Range(Append(t, x)) = Range(t) \cup {x}
    BY <2>3, AppendIs
  <2> QED
    BY <2>1, <2>2, <2>3, <2>4, <2>5
<1>5. N = Nat
  <2> HIDE DEF N
  <2>1. N \in SUBSET Nat
    BY DEF N
  <2> QED
    BY <1>3, <1>4, <2>1, Natural
<1>6. f[Len(s)] \in Seq(E) /\ Range(f[Len(s)]) = First(Len(s)) \cap S
  <2> HIDE DEF First
  <2>1. Len(s) \in N
    BY <1>5
  <2> QED
    BY <2>1
<1>7. Range(s) = First(Len(s))
  BY DEF Range
<1> QED
  BY <1>1, <1>6, <1>7

\* Of an increasing sequence they increase.
LEMMA ThoseIncrease ==
  ASSUME NEW s \in Seq(Nat), \A i, j \in DOMAIN s : i < j => s[i] < s[j], NEW S
  PROVE  \A i, j \in DOMAIN Those(s, S) : i < j => Those(s, S)[i] < Those(s, S)[j]
<1>1. PICK f : Filters(f, s, S, Len(s)) /\ Those(s, S) = f[Len(s)]
  BY ThoseFilters
<1>2. f[0] = << >> /\ \A i \in 1..Len(s) : f[i] = IF s[i] \in S THEN Append(f[i - 1], s[i]) ELSE f[i - 1]
  BY <1>1, FiltersStep
<1> DEFINE Ok(t, i) == /\ t \in Seq(Nat) /\ \A j \in DOMAIN t : \E k \in 1..i : t[j] = s[k]
                       /\ \A j, k \in DOMAIN t : j < k => t[j] < t[k]
           N == {i \in Nat : i <= Len(s) => Ok(f[i], i)}
<1>3. 0 \in N
  <2>1. Ok(<< >>, 0)
    OBVIOUS
  <2> QED
    BY <1>2, <2>1
<1>4. ASSUME NEW i \in N PROVE i + 1 \in N
  <2> SUFFICES ASSUME i + 1 <= Len(s) PROVE Ok(f[i + 1], i + 1)
    OBVIOUS
  <2>1. PICK t, u, x : t = f[i] /\ u = f[i + 1] /\ x = s[i + 1]
    OBVIOUS
  <2>2. u = IF x \in S THEN Append(t, x) ELSE t
    <3>1. i + 1 \in 1..Len(s) /\ (i + 1) - 1 = i
      OBVIOUS
    <3> QED
      BY <1>2, <2>1, <3>1
  <2>3. x \in Nat /\ Ok(t, i)
    BY <2>1
  <2>4. \A j \in DOMAIN t : t[j] < x
    <3> TAKE j \in DOMAIN t
    <3>1. PICK k \in 1..i : t[j] = s[k]
      BY <2>3
    <3> QED
      BY <2>1, <3>1, SMTT(60)
  <2>5. CASE x \notin S
    BY <2>1, <2>2, <2>3, <2>5
  <2>6. CASE x \in S
    <3>1. /\ u \in Seq(Nat) /\ DOMAIN u = DOMAIN t \cup {Len(t) + 1}
          /\ u[Len(t) + 1] = x /\ \A j \in DOMAIN t : u[j] = t[j]
      <4>1. u = Append(t, x) /\ t \in Seq(Nat) /\ x \in Nat
        BY <2>2, <2>3, <2>6
      <4> QED
        BY <4>1, AppendIs
    <3>2. \A j \in DOMAIN t : j \in Nat /\ j < Len(t) + 1
      BY <2>3
    <3>3. ASSUME NEW j \in DOMAIN u PROVE \E k \in 1..i + 1 : u[j] = s[k]
      <4>1. CASE j \in DOMAIN t
        <5>1. PICK k \in 1..i : t[j] = s[k]
          BY <2>3, <4>1
        <5>2. k \in 1..i + 1
          OBVIOUS
        <5>3. u[j] = t[j]
          BY <3>1, <4>1
        <5> QED
          BY <5>1, <5>2, <5>3, Zenon
      <4>2. CASE j = Len(t) + 1
        BY <2>1, <3>1, <4>2
      <4> QED
        BY <3>1, <4>1, <4>2
    <3>4. ASSUME NEW j \in DOMAIN u, NEW k \in DOMAIN u, j < k PROVE u[j] < u[k]
      <4>1. j \in DOMAIN t
        BY <2>3, <3>1, <3>2, <3>4
      <4>2. CASE k \in DOMAIN t
        BY <2>3, <3>1, <3>4, <4>1, <4>2
      <4>3. CASE k = Len(t) + 1
        BY <2>4, <3>1, <4>1, <4>3
      <4> QED
        BY <3>1, <4>2, <4>3
    <3> QED
      BY <2>1, <3>1, <3>3, <3>4
  <2> QED
    BY <2>5, <2>6
<1>5. N = Nat
  <2> HIDE DEF N
  <2>1. N \in SUBSET Nat
    BY DEF N
  <2> QED
    BY <1>3, <1>4, <2>1, Natural
<1>6. Ok(f[Len(s)], Len(s))
  BY <1>5
<1> QED
  BY <1>1, <1>6

-----------------------------------------------------------------------------
(* What the steps of files leave of the cursors. *)

Disks == [Paths -> Files \cup {Nothing}]

LEMMA FileIs ==
  ASSUME NEW d \in Disks, NEW p \in There(d)
  PROVE  /\ p \in Paths /\ d[p] \in Files /\ d[p].ino \in Nat /\ d[p].rows \in Seq(Nat) /\ Len(d[p].rows) \in Nat
         /\ d[p].rows \in Seq(1..MaxRows) /\ DOMAIN d[p].rows = 1..Len(d[p].rows)
         /\ d[p].cut \in BOOLEAN /\ d[p].half \in BOOLEAN
<1>1. d[p] \in Files /\ p \in Paths
  BY DEF Disks, There
<1>2. d[p].ino \in Inodes /\ d[p].rows \in Seq(1..MaxRows) /\ d[p].cut \in BOOLEAN /\ d[p].half \in BOOLEAN
  BY <1>1 DEF Files
<1>3. d[p].ino \in Nat
  BY <1>2 DEF Inodes
<1>4. MaxRows \in Nat
  BY FeedBridgeAssumption
<1> QED
  BY <1>1, <1>2, <1>3, <1>4

LEMMA CursorIs ==
  ASSUME NEW c \in Memory, NEW q \in Paths, c[q] # Nothing
  PROVE  c[q] \in Cursors /\ c[q].pos \in Nat /\ c[q].ino \in Nat
<1>1. c[q] \in Cursors
  BY DEF Memory
<1> QED
  BY <1>1, FeedBridgeAssumption DEF Cursors, Inodes

\* A step that adds no row: each file there is new and empty, or one that was
\* there, as it was or cut, with the cursors it had.
KeepsRows(d, e, c, n) ==
  \A q \in There(e) :
    \/ e[q].rows = << >> /\ e[q].ino > n
    \/ \E p \in There(d) :
         /\ e[q].ino = d[p].ino /\ (q \in Old <=> p \in Old)
         /\ \/ e[q].rows = d[p].rows /\ e[q].cut = d[p].cut
            \/ e[q].rows = << >> /\ e[q].cut
         /\ \A g \in Paths : Covers(d, c, p, g) => Covers(e, c, q, g)

LEMMA RowsKept ==
  ASSUME NEW d \in Disks, NEW e \in Disks, NEW r, NEW c \in Memory, NEW n \in Nat, NEW m \in Nat, n <= m,
         KeepsRows(d, e, c, n)
  PROVE  /\ CursorsApart(d, n, c) => CursorsApart(e, m, c)
         /\ \A S : Passed(d, c, S) => Passed(e, c, S)
         /\ \A S : Fresh(d, r, c, S) => Fresh(e, r, c, S)
         /\ \A k, S : OffsetFresh(d, r, k, S) => OffsetFresh(e, r, k, S)
         /\ \A k, S : OffsetPassed(d, k, S) => OffsetPassed(e, k, S)
<1>0. \A q \in There(e) : e[q].rows = << >> => DOMAIN e[q].rows = {}
  OBVIOUS
<1>1. ASSUME CursorsApart(d, n, c) PROVE CursorsApart(e, m, c)
  <2>1. ASSUME NEW q \in Paths, c[q] # Nothing PROVE c[q].ino <= n /\ c[q].ino <= m /\ c[q].ino \in Nat
    BY <1>1, <2>1, CursorIs DEF CursorsApart
  <2>2. ASSUME NEW q \in Paths, c[q] # Nothing, NEW p \in There(e), c[q].ino = e[p].ino
        PROVE  Covers(e, c, p, q) /\ (~e[p].cut => c[q].pos <= Len(e[p].rows))
    <3>1. ~(e[p].ino > n)
      BY <2>1, <2>2
    <3>2. PICK p1 \in There(d) : /\ e[p].ino = d[p1].ino /\ ((e[p].rows = d[p1].rows /\ e[p].cut = d[p1].cut) \/ e[p].cut)
                                 /\ \A g \in Paths : Covers(d, c, p1, g) => Covers(e, c, p, g)
      BY <3>1 DEF KeepsRows
    <3>3. Covers(d, c, p1, q) /\ (~d[p1].cut => c[q].pos <= Len(d[p1].rows))
      BY <1>1, <2>2, <3>2 DEF CursorsApart
    <3> QED
      BY <3>2, <3>3
  <2> QED
    BY <1>1, <2>1, <2>2 DEF CursorsApart
<1>2. ASSUME NEW S, Passed(d, c, S) PROVE Passed(e, c, S)
  <2> SUFFICES ASSUME NEW q \in There(e), NEW g \in Paths, c[g] # Nothing, c[g].ino = e[q].ino,
                      NEW i \in DOMAIN e[q].rows, i <= c[g].pos
               PROVE  e[q].rows[i] \in S
    BY DEF Passed
  <2>1. PICK p \in There(d) : e[q].ino = d[p].ino /\ e[q].rows = d[p].rows
    BY <1>0 DEF KeepsRows
  <2> QED
    BY <1>2, <2>1 DEF Passed
<1>3. ASSUME NEW S, Fresh(d, r, c, S) PROVE Fresh(e, r, c, S)
  <2> SUFFICES ASSUME NEW q \in There(e), NEW i \in DOMAIN e[q].rows
               PROVE  \/ Later(e, r, q, i, S)
                      \/ \E g \in Paths : Covers(e, c, q, g) /\ i <= c[g].pos /\ c[g].pos <= Len(e[q].rows)
    BY DEF Fresh
  <2>1. PICK p \in There(d) : /\ e[q].ino = d[p].ino /\ e[q].rows = d[p].rows
                              /\ \A g \in Paths : Covers(d, c, p, g) => Covers(e, c, q, g)
    BY <1>0 DEF KeepsRows
  <2>2. Later(d, r, p, i, S) => Later(e, r, q, i, S)
    BY <2>1 DEF Later
  <2>3. \/ Later(d, r, p, i, S)
        \/ \E g \in Paths : Covers(d, c, p, g) /\ i <= c[g].pos /\ c[g].pos <= Len(d[p].rows)
    BY <1>3, <2>1 DEF Fresh
  <2> QED
    BY <2>1, <2>2, <2>3
<1>4. ASSUME NEW k, NEW S, OffsetFresh(d, r, k, S) PROVE OffsetFresh(e, r, k, S)
  <2> SUFFICES ASSUME NEW q \in There(e), NEW i \in DOMAIN e[q].rows
               PROVE  Later(e, r, q, i, S) \/ (q \in Old /\ i <= k /\ k <= Len(e[q].rows))
    BY DEF OffsetFresh
  <2>1. PICK p \in There(d) : e[q].ino = d[p].ino /\ e[q].rows = d[p].rows /\ (q \in Old <=> p \in Old)
    BY <1>0 DEF KeepsRows
  <2>2. Later(d, r, p, i, S) => Later(e, r, q, i, S)
    BY <2>1 DEF Later
  <2> QED
    BY <1>4, <2>1, <2>2 DEF OffsetFresh
<1>5. ASSUME NEW k, NEW S, OffsetPassed(d, k, S) PROVE OffsetPassed(e, k, S)
  <2> SUFFICES ASSUME NEW q \in Old \cap There(e), NEW i \in DOMAIN e[q].rows, i <= k PROVE e[q].rows[i] \in S
    BY DEF OffsetPassed
  <2>1. PICK p \in There(d) : e[q].ino = d[p].ino /\ e[q].rows = d[p].rows /\ (q \in Old <=> p \in Old)
    BY <1>0 DEF KeepsRows
  <2> QED
    BY <1>5, <2>1 DEF OffsetPassed
<1> QED
  BY <1>1, <1>2, <1>3, <1>4, <1>5

\* One more row, after all others, at the end of the file at p.
AddsRow(d, e, r, r1, p, id) ==
  /\ p \in There(d) /\ There(e) = There(d)
  /\ \A q \in There(d) : e[q].ino = d[q].ino /\ e[q].cut = d[q].cut
  /\ \A q \in There(d) : q # p => e[q].rows = d[q].rows
  /\ e[p].rows = Append(d[p].rows, id)
  /\ \A s \in DOMAIN r : r1[s] = r[s] /\ s < id

LEMMA AddsRowIs ==
  ASSUME NEW d \in Disks, NEW e \in Disks, NEW r, NEW r1, NEW p, NEW id \in Nat, AddsRow(d, e, r, r1, p, id)
  PROVE  /\ Len(e[p].rows) = Len(d[p].rows) + 1 /\ DOMAIN e[p].rows = DOMAIN d[p].rows \cup {Len(d[p].rows) + 1}
         /\ e[p].rows[Len(d[p].rows) + 1] = id /\ \A i \in DOMAIN d[p].rows : e[p].rows[i] = d[p].rows[i]
         /\ \A q \in There(d) : Len(d[q].rows) \in Nat /\ Len(e[q].rows) \in Nat /\ Len(d[q].rows) <= Len(e[q].rows)
<1>1. PICK t, u : t = d[p].rows /\ u = e[p].rows
  OBVIOUS
<1>2. t \in Seq(Nat)
  BY <1>1, FileIs DEF AddsRow
<1>3. u = Append(t, id)
  BY <1>1 DEF AddsRow
<1>4. /\ Len(u) = Len(t) + 1 /\ DOMAIN u = DOMAIN t \cup {Len(t) + 1}
      /\ u[Len(t) + 1] = id /\ \A i \in DOMAIN t : u[i] = t[i]
  BY <1>2, <1>3, AppendIs
<1>5. ASSUME NEW q \in There(d) PROVE Len(d[q].rows) \in Nat /\ Len(e[q].rows) \in Nat /\ Len(d[q].rows) <= Len(e[q].rows)
  <2>1. Len(d[q].rows) \in Nat
    BY FileIs
  <2>2. CASE q = p
    BY <1>1, <1>4, <2>1, <2>2
  <2>3. CASE q # p
    BY <2>1, <2>3 DEF AddsRow
  <2> QED
    BY <2>2, <2>3
<1> QED
  BY <1>1, <1>4, <1>5

LEMMA RowAdded ==
  ASSUME NEW d \in Disks, NEW e \in Disks, NEW r, NEW r1, NEW p, NEW id \in Nat, AddsRow(d, e, r, r1, p, id),
         NEW c \in Memory, NEW n, CursorsApart(d, n, c)
  PROVE  /\ CursorsApart(e, n, c)
         /\ \A S, T : /\ Passed(d, c, S) /\ S \subseteq T
                      /\ d[p].cut /\ (\E q \in Paths : c[q] # Nothing /\ c[q].ino = d[p].ino /\ Len(d[p].rows) + 1 <= c[q].pos) => id \in T
                      => Passed(e, c, T)
         /\ \A S \in SUBSET DOMAIN r : Fresh(d, r, c, S) => Fresh(e, r1, c, S)
<1>1. /\ p \in There(d) /\ There(e) = There(d) /\ e[p].rows = Append(d[p].rows, id)
      /\ \A q \in There(d) : e[q].ino = d[q].ino /\ e[q].cut = d[q].cut /\ (q # p => e[q].rows = d[q].rows)
      /\ \A s \in DOMAIN r : r1[s] = r[s] /\ s < id
  BY DEF AddsRow
<1>2. /\ Len(e[p].rows) = Len(d[p].rows) + 1 /\ DOMAIN e[p].rows = DOMAIN d[p].rows \cup {Len(d[p].rows) + 1}
      /\ e[p].rows[Len(d[p].rows) + 1] = id /\ \A i \in DOMAIN d[p].rows : e[p].rows[i] = d[p].rows[i]
      /\ Len(d[p].rows) \in Nat
  <2>1. Len(e[p].rows) = Len(d[p].rows) + 1
    BY AddsRowIs
  <2>2. DOMAIN e[p].rows = DOMAIN d[p].rows \cup {Len(d[p].rows) + 1}
    BY AddsRowIs
  <2>3. e[p].rows[Len(d[p].rows) + 1] = id
    BY AddsRowIs
  <2>4. \A i \in DOMAIN d[p].rows : e[p].rows[i] = d[p].rows[i]
    BY AddsRowIs
  <2>5. Len(d[p].rows) \in Nat
    BY <1>1, FileIs
  <2> QED
    BY <2>1, <2>2, <2>3, <2>4, <2>5
<1>3. \A q \in There(d) : Len(d[q].rows) \in Nat /\ Len(e[q].rows) \in Nat /\ Len(d[q].rows) <= Len(e[q].rows)
  BY AddsRowIs
<1>4. CursorsApart(e, n, c)
  <2>1. ASSUME NEW q \in Paths, c[q] # Nothing, NEW p1 \in There(e), c[q].ino = e[p1].ino
        PROVE  Covers(e, c, p1, q) /\ (~e[p1].cut => c[q].pos <= Len(e[p1].rows))
    <3>1. Covers(d, c, p1, q) /\ (~d[p1].cut => c[q].pos <= Len(d[p1].rows)) /\ c[q].pos \in Nat
      BY <1>1, <2>1, CursorIs DEF CursorsApart
    <3>2. Covers(e, c, p1, q)
      BY <1>1, <3>1 DEF Covers
    <3> QED
      BY <1>1, <1>3, <3>1, <3>2
  <2> QED
    BY <2>1 DEF CursorsApart
<1>5. ASSUME NEW S, NEW T, Passed(d, c, S), S \subseteq T,
             d[p].cut /\ (\E q \in Paths : c[q] # Nothing /\ c[q].ino = d[p].ino /\ Len(d[p].rows) + 1 <= c[q].pos) => id \in T
      PROVE  Passed(e, c, T)
  <2> SUFFICES ASSUME NEW p1 \in There(e), NEW q \in Paths, c[q] # Nothing, c[q].ino = e[p1].ino,
                      NEW i \in DOMAIN e[p1].rows, i <= c[q].pos
               PROVE  e[p1].rows[i] \in T
    BY DEF Passed
  <2>1. CASE i \in DOMAIN d[p1].rows
    <3>1. d[p1].rows[i] \in S
      BY <1>1, <1>5, <2>1 DEF Passed
    <3> QED
      BY <1>1, <1>2, <1>5, <2>1, <3>1
  <2>2. CASE p1 = p /\ i = Len(d[p].rows) + 1
    <3>1. c[q].pos \in Nat /\ ~d[p].cut => c[q].pos <= Len(d[p].rows)
      BY <1>1, <2>2 DEF CursorsApart
    <3>2. d[p].cut
      BY <1>2, <2>2, <3>1, CursorIs
    <3> QED
      BY <1>1, <1>2, <1>5, <2>2, <3>2
  <2> QED
    BY <1>1, <1>2, <2>1, <2>2, SMTT(60)
<1>6. ASSUME NEW S \in SUBSET DOMAIN r, Fresh(d, r, c, S) PROVE Fresh(e, r1, c, S)
  <2> SUFFICES ASSUME NEW q \in There(e), NEW i \in DOMAIN e[q].rows
               PROVE  \/ Later(e, r1, q, i, S)
                      \/ \E g \in Paths : Covers(e, c, q, g) /\ i <= c[g].pos /\ c[g].pos <= Len(e[q].rows)
    BY DEF Fresh
  <2>1. CASE i \in DOMAIN d[q].rows
    <3>1. e[q].rows[i] = d[q].rows[i] /\ e[q].ino = d[q].ino
      BY <1>1, <1>2, <2>1
    <3>2. Later(d, r, q, i, S) => Later(e, r1, q, i, S)
      BY <1>1, <3>1 DEF Later
    <3>3. \A g \in Paths : Covers(d, c, q, g) => Covers(e, c, q, g)
      BY <1>1 DEF Covers
    <3>4. \A g \in Paths : Covers(d, c, q, g) /\ c[g].pos <= Len(d[q].rows) => c[g].pos <= Len(e[q].rows)
      <4> TAKE g \in Paths
      <4> HAVE Covers(d, c, q, g) /\ c[g].pos <= Len(d[q].rows)
      <4>1. c[g].pos \in Nat
        BY CursorIs DEF Covers
      <4> QED
        BY <1>1, <1>3, <4>1, SMTT(60)
    <3>5. \/ Later(d, r, q, i, S)
          \/ \E g \in Paths : Covers(d, c, q, g) /\ i <= c[g].pos /\ c[g].pos <= Len(d[q].rows)
      BY <1>1, <1>6, <2>1 DEF Fresh
    <3> QED
      BY <3>2, <3>3, <3>4, <3>5
  <2>2. CASE q = p /\ i = Len(d[p].rows) + 1
    BY <1>1, <1>2, <2>2 DEF Later
  <2> QED
    BY <1>1, <1>2, <2>1, <2>2
<1> QED
  BY <1>4, <1>5, <1>6

LEMMA RowAddedOffset ==
  ASSUME NEW d \in Disks, NEW e \in Disks, NEW r, NEW r1, NEW p, NEW id \in Nat, AddsRow(d, e, r, r1, p, id),
         NEW k \in Nat
  PROVE  /\ \A S, T : OffsetPassed(d, k, S) /\ S \subseteq T /\ (p \in Old /\ Len(d[p].rows) + 1 <= k => id \in T) => OffsetPassed(e, k, T)
         /\ \A S \in SUBSET DOMAIN r : OffsetFresh(d, r, k, S) => OffsetFresh(e, r1, k, S)
<1>1. /\ p \in There(d) /\ There(e) = There(d) /\ e[p].rows = Append(d[p].rows, id)
      /\ \A q \in There(d) : e[q].ino = d[q].ino /\ e[q].cut = d[q].cut /\ (q # p => e[q].rows = d[q].rows)
      /\ \A s \in DOMAIN r : r1[s] = r[s] /\ s < id
  BY DEF AddsRow
<1>2. /\ Len(e[p].rows) = Len(d[p].rows) + 1 /\ DOMAIN e[p].rows = DOMAIN d[p].rows \cup {Len(d[p].rows) + 1}
      /\ e[p].rows[Len(d[p].rows) + 1] = id /\ \A i \in DOMAIN d[p].rows : e[p].rows[i] = d[p].rows[i]
      /\ Len(d[p].rows) \in Nat
  <2>1. Len(e[p].rows) = Len(d[p].rows) + 1
    BY AddsRowIs
  <2>2. DOMAIN e[p].rows = DOMAIN d[p].rows \cup {Len(d[p].rows) + 1}
    BY AddsRowIs
  <2>3. e[p].rows[Len(d[p].rows) + 1] = id
    BY AddsRowIs
  <2>4. \A i \in DOMAIN d[p].rows : e[p].rows[i] = d[p].rows[i]
    BY AddsRowIs
  <2>5. Len(d[p].rows) \in Nat
    BY <1>1, FileIs
  <2> QED
    BY <2>1, <2>2, <2>3, <2>4, <2>5
<1>3. \A q \in There(d) : Len(d[q].rows) \in Nat /\ Len(e[q].rows) \in Nat /\ Len(d[q].rows) <= Len(e[q].rows)
  BY AddsRowIs
<1>5. ASSUME NEW S, NEW T, OffsetPassed(d, k, S), S \subseteq T, p \in Old /\ Len(d[p].rows) + 1 <= k => id \in T
      PROVE  OffsetPassed(e, k, T)
  <2> SUFFICES ASSUME NEW q \in Old \cap There(e), NEW i \in DOMAIN e[q].rows, i <= k PROVE e[q].rows[i] \in T
    BY DEF OffsetPassed
  <2>1. CASE i \in DOMAIN d[q].rows
    BY <1>1, <1>2, <1>5, <2>1 DEF OffsetPassed
  <2>2. CASE q = p /\ i = Len(d[p].rows) + 1
    BY <1>1, <1>2, <1>5, <2>2
  <2> QED
    BY <1>1, <1>2, <2>1, <2>2, SMTT(60)
<1>6. ASSUME NEW S \in SUBSET DOMAIN r, OffsetFresh(d, r, k, S) PROVE OffsetFresh(e, r1, k, S)
  <2> SUFFICES ASSUME NEW q \in There(e), NEW i \in DOMAIN e[q].rows
               PROVE  Later(e, r1, q, i, S) \/ (q \in Old /\ i <= k /\ k <= Len(e[q].rows))
    BY DEF OffsetFresh
  <2>1. CASE i \in DOMAIN d[q].rows
    <3>1. e[q].rows[i] = d[q].rows[i] /\ e[q].ino = d[q].ino
      BY <1>1, <1>2, <2>1
    <3>2. Later(d, r, q, i, S) => Later(e, r1, q, i, S)
      BY <1>1, <3>1 DEF Later
    <3>3. Later(d, r, q, i, S) \/ (q \in Old /\ i <= k /\ k <= Len(d[q].rows))
      BY <1>1, <1>6, <2>1 DEF OffsetFresh
    <3>4. Len(d[q].rows) <= Len(e[q].rows) /\ Len(d[q].rows) \in Nat /\ Len(e[q].rows) \in Nat
      BY <1>1, <1>3
    <3> QED
      BY <3>2, <3>3, <3>4
  <2>2. CASE q = p /\ i = Len(d[p].rows) + 1
    BY <1>1, <1>2, <2>2 DEF Later
  <2> QED
    BY <1>1, <1>2, <2>1, <2>2
<1> QED
  BY <1>5, <1>6

-----------------------------------------------------------------------------
(* The steps of the writers and the operator. *)

LEMMA TypesAre ==
  ASSUME TypeOK
  PROVE  /\ disk \in Disks /\ Ids = 1..Len(rows) /\ Len(rows) \in Nat /\ Ids \in SUBSET Nat /\ newest \in Nat
         /\ Range(sent) \in SUBSET Ids /\ Range(queue) \in SUBSET Ids
         /\ \A c \in Known : c \in Memory
         /\ HasOffset => saved.pos \in Nat
         /\ There(disk) = Present
<1>1. disk \in Disks /\ There(disk) = Present
  BY DEF TypeOK, Disks, There, Present
<1>2. Ids = 1..Len(rows) /\ Len(rows) \in Nat
  BY DEF TypeOK, Ids
<1>3. Range(sent) \in SUBSET Ids /\ Range(queue) \in SUBSET Ids
  BY DEF TypeOK, Range
<1>4. \A c \in Known : c \in Memory
  BY NothingAssumption DEF TypeOK, Known, States
<1>5. HasOffset => saved.pos \in Nat
  BY FeedBridgeAssumption DEF TypeOK, HasOffset, States
<1>6. newest \in Nat
  BY DEF TypeOK
<1> QED
  BY <1>1, <1>2, <1>3, <1>4, <1>5, <1>6

\* The bridge does not move: what it keeps is still so of the files there now.
LEMMA BridgeRests ==
  ASSUME FeedInv, UNCHANGED <<saved, bridge, history, torn>>, TypeOK', Apart(disk', rows', newest'),
         Ids \subseteq Ids', \A s \in Ids : rows'[s] = rows[s],
         \A c \in Known : /\ CursorsApart(disk', newest', c) /\ Passed(disk', c, Behind')
                          /\ \A S \in SUBSET Ids : Fresh(disk, rows, c, S) => Fresh(disk', rows', c, S),
         HasOffset => /\ OffsetPassed(disk', saved.pos, Behind')
                      /\ \A S \in SUBSET Ids : OffsetFresh(disk, rows, saved.pos, S) => OffsetFresh(disk', rows', saved.pos, S),
         \A p \in Range(todo) : disk'[p] # Nothing /\ cursors[p] = Nothing =>
            \A q \in Paths : cursors[q] # Nothing => cursors[q].ino # disk'[p].ino
  PROVE  FeedInv'
<1>0. /\ saved' = saved /\ cursors' = cursors /\ pc' = pc /\ todo' = todo /\ queue' = queue /\ sent' = sent
      /\ dropped' = dropped /\ lost' = lost /\ torn' = torn
  BY DEF bridge, history
<1>1. TypeOK
  BY DEF FeedInv
<1>2. Range(sent) \in SUBSET Ids /\ Range(queue) \in SUBSET Ids
  BY <1>1, TypesAre
<1>3. BridgeShape'
  <2>1. BridgeShape
    BY DEF FeedInv
  <2>2. HasOffset' <=> HasOffset
    BY <1>0 DEF HasOffset
  <2> QED
    BY <1>0, <2>1, <2>2 DEF BridgeShape, Present
<1>4. Cursored'
  <2>1. Known' = Known /\ (HasOffset' <=> HasOffset)
    BY <1>0 DEF Known, HasOffset
  <2> QED
    BY <1>0, <2>1 DEF Cursored
<1>5. ASSUME ~torn PROVE Unsent'
  <2>1. Unsent
    BY <1>5 DEF FeedInv
  <2>2. \A i \in DOMAIN sent : sent[i] \in Ids
    BY <1>2 DEF Range
  <2>3. \A j \in DOMAIN queue : queue[j] \in Ids
    BY <1>2 DEF Range
  <2>4. Sending' = Sending /\ Sending \in SUBSET Ids /\ (HasOffset' <=> HasOffset) /\ (HasCursors' <=> HasCursors)
    BY <1>0, <1>2 DEF Sending, HasOffset, HasCursors
  <2>5. cursors \in Known /\ (HasCursors => saved.cursors \in Known)
    BY DEF Known, HasCursors
  <2>6. pc # "down" => Fresh(disk', rows', cursors, Sending)
    BY <2>1, <2>4, <2>5 DEF Unsent
  <2>7. HasCursors => Fresh(disk', rows', saved.cursors, IF pc = "up" THEN Sending ELSE Range(sent))
    BY <1>2, <2>1, <2>4, <2>5 DEF Unsent
  <2>8. HasOffset => OffsetFresh(disk', rows', saved.pos, Range(sent))
    BY <1>2, <2>1 DEF Unsent
  <2>9. /\ \A i, j \in DOMAIN sent : i < j /\ rows'[sent[i]].ino = rows'[sent[j]].ino => sent[i] < sent[j]
        /\ \A i \in DOMAIN sent, j \in DOMAIN queue : rows'[sent[i]].ino = rows'[queue[j]].ino => sent[i] < queue[j]
    BY <2>1, <2>2, <2>3 DEF Unsent
  <2> QED
    BY <1>0, <2>1, <2>4, <2>6, <2>7, <2>8, <2>9 DEF Unsent
<1> QED
  BY <1>0, <1>3, <1>4, <1>5 DEF FeedInv

\* A step of files that writes no row.
LEMMA NoRowKeeps ==
  ASSUME FeedInv, UNCHANGED <<rows, shadowed, saved, bridge, history, torn>>, disk' \in Disks, faults' \in 0..MaxFaults,
         newest' \in newest..Cardinality(Inodes), Apart(disk', rows, newest'),
         \A q \in There(disk') : Range(disk'[q].rows) \subseteq Ids,
         \A c \in Known : KeepsRows(disk, disk', c, newest),
         \A p \in Range(todo) : disk'[p] # Nothing /\ cursors[p] = Nothing =>
            \A q \in Paths : cursors[q] # Nothing => cursors[q].ino # disk'[p].ino
  PROVE  FeedInv'
<1>0. /\ saved' = saved /\ cursors' = cursors /\ pc' = pc /\ todo' = todo /\ queue' = queue /\ sent' = sent
      /\ dropped' = dropped /\ lost' = lost /\ torn' = torn /\ rows' = rows /\ shadowed' = shadowed /\ blank' = blank
  BY DEF bridge, history
<1>1. TypeOK
  BY DEF FeedInv
<1>2. disk \in Disks /\ newest \in Nat /\ newest' \in Nat /\ newest <= newest' /\ \A c \in Known : c \in Memory
  BY <1>1, TypesAre
<1>3. Ids' = Ids /\ Behind' = Behind
  BY <1>0 DEF Ids, Behind, Done
<1>4. TypeOK'
  <2>1. newest' \in 0..Cardinality(Inodes)
    BY <1>2
  <2>2. \A p \in Present' : Range(disk'[p].rows) \subseteq Ids
    BY DEF There, Present
  <2>3. disk' \in [Paths -> Files \cup {Nothing}]
    BY DEF Disks
  <2> QED
    BY <1>0, <1>1, <1>3, <2>1, <2>2, <2>3 DEF TypeOK
<1>5. \A c \in Known : /\ CursorsApart(disk', newest', c) /\ Passed(disk', c, Behind)
                       /\ \A S \in SUBSET Ids : Fresh(disk, rows, c, S) => Fresh(disk', rows, c, S)
  BY <1>2, RowsKept DEF FeedInv, Cursored
<1>6. HasOffset => /\ OffsetPassed(disk', saved.pos, Behind)
                   /\ \A S \in SUBSET Ids : OffsetFresh(disk, rows, saved.pos, S) => OffsetFresh(disk', rows, saved.pos, S)
  <2>1. cursors \in Known
    BY DEF Known
  <2> QED
    BY <1>2, <2>1, RowsKept DEF FeedInv, Cursored
<1> QED
  BY <1>0, <1>3, <1>4, <1>5, <1>6, BridgeRests

LEMMA FaultIs == ASSUME TypeOK, Fault PROVE faults' \in 0..MaxFaults
BY FeedBridgeAssumption DEF TypeOK, Fault

\* The inodes there can be.
LEMMA InodesAre == \E k \in Nat \ {0} : Inodes = 1..k /\ Cardinality(Inodes) = k
<1>1. Feeds \in Surjection(1..Len(Feeds), Paths) /\ Len(Feeds) \in Nat
  BY FeedBridgeAssumption, SMTT(60) DEF Paths, Range, Surjection
<1>2. IsFiniteSet(Paths)
  BY <1>1, FS_Interval, FS_Surjection
<1>3. Cardinality(Paths) \in Nat /\ Cardinality(Paths) # 0
  BY <1>2, FS_CardinalityType, FS_EmptySet, FeedBridgeAssumption DEF Paths
<1>4. PICK k : k = Cardinality(Paths) + MaxFaults
  OBVIOUS
<1>5. k \in Nat \ {0} /\ Inodes = 1..k
  BY <1>3, <1>4, FeedBridgeAssumption DEF Inodes
<1>6. Cardinality(1..k) = k
  BY <1>5, FS_Interval
<1> QED
  BY <1>5, <1>6

LEMMA RotatedAwayKeeps == ASSUME FeedInv, NEW p \in Paths, RotatedAway(p) PROVE FeedInv'
<1>0. /\ TypeOK /\ disk[p] # Nothing /\ Fault /\ disk' = [disk EXCEPT ![p] = Nothing]
      /\ UNCHANGED <<rows, newest, shadowed, saved, bridge, history, torn>>
  BY DEF FeedInv, RotatedAway
<1>1. disk \in Disks /\ newest \in Nat /\ \A q \in There(disk) : Range(disk[q].rows) \subseteq Ids
  BY <1>0, TypesAre DEF TypeOK
<1>2. disk' \in Disks /\ \A q \in Paths : disk'[q] = IF q = p THEN Nothing ELSE disk[q]
  BY <1>0, <1>1 DEF Disks
<1>3. There(disk') = There(disk) \ {p} /\ \A q \in There(disk') : disk'[q] = disk[q]
  BY <1>2 DEF There
<1>4. Apart(disk', rows, newest)
  BY <1>3 DEF FeedInv, Apart
<1>5. \A c \in Known : KeepsRows(disk, disk', c, newest)
  <2> SUFFICES ASSUME NEW c \in Known, NEW q \in There(disk')
               PROVE  \A g \in Paths : Covers(disk, c, q, g) => Covers(disk', c, q, g)
    BY <1>3 DEF KeepsRows
  <2> QED
    BY <1>3 DEF Covers
<1>6. \A q \in Range(todo) : disk'[q] # Nothing /\ cursors[q] = Nothing =>
         \A g \in Paths : cursors[g] # Nothing => cursors[g].ino # disk'[q].ino
  <2>1. \A q \in Range(todo) : q \in Paths
    BY <1>0 DEF TypeOK, Range
  <2> QED
    BY <1>2, <2>1 DEF FeedInv, BridgeShape, Present
<1>7. newest' \in newest..Cardinality(Inodes) /\ newest' = newest
  BY <1>0, <1>1 DEF TypeOK
<1>8. \A q \in There(disk') : Range(disk'[q].rows) \subseteq Ids
  BY <1>1, <1>3
<1> QED
  BY <1>0, <1>2, <1>4, <1>5, <1>6, <1>7, <1>8, NoRowKeeps, FaultIs

LEMMA CutShortKeeps == ASSUME FeedInv, NEW p \in Paths, CutShort(p) PROVE FeedInv'
<1>0. /\ TypeOK /\ disk[p] # Nothing /\ Fault
      /\ disk' = [disk EXCEPT ![p] = [@ EXCEPT !.rows = << >>, !.half = FALSE, !.cut = TRUE]]
      /\ UNCHANGED <<rows, newest, shadowed, saved, bridge, history, torn>>
  BY DEF FeedInv, CutShort
<1>1. disk \in Disks /\ newest \in Nat /\ \A q \in There(disk) : Range(disk[q].rows) \subseteq Ids
  BY <1>0, TypesAre DEF TypeOK
<1>2. PICK f, g : f = disk[p] /\ g = [f EXCEPT !.rows = << >>, !.half = FALSE, !.cut = TRUE]
  OBVIOUS
<1>3. f \in Files
  BY <1>0, <1>1, <1>2 DEF Disks
<1>4. g \in Files /\ g.ino = f.ino /\ g.rows = << >> /\ g.cut
  <2>1. PICK none : none = << >>
    OBVIOUS
  <2>2. f.ino \in Inodes /\ none \in Seq(1..MaxRows)
    BY <1>3, <2>1 DEF Files
  <2>3. g = [ino |-> f.ino, rows |-> none, half |-> FALSE, cut |-> TRUE]
    BY <1>2, <1>3, <2>1 DEF Files
  <2> QED
    BY <2>1, <2>2, <2>3 DEF Files
<1>5. disk' = [disk EXCEPT ![p] = g]
  BY <1>0, <1>2
<1>6. disk' \in Disks /\ \A q \in Paths : disk'[q] = IF q = p THEN g ELSE disk[q]
  BY <1>1, <1>4, <1>5 DEF Disks
<1>7. There(disk') = There(disk) /\ \A q \in There(disk') : disk'[q].ino = disk[q].ino /\ (q # p => disk'[q] = disk[q])
  BY <1>0, <1>2, <1>4, <1>6, NothingAssumption DEF There
<1>8. disk'[p].rows = << >> /\ disk'[p].cut /\ DOMAIN disk'[p].rows = {}
  BY <1>4, <1>6
<1>9. Apart(disk', rows, newest)
  <2>1. \A q \in There(disk') : \A i \in DOMAIN disk'[q].rows : q # p
    BY <1>8
  <2> QED
    BY <1>7, <2>1 DEF FeedInv, Apart
<1>10. \A c \in Known : KeepsRows(disk, disk', c, newest)
  <2> SUFFICES ASSUME NEW c \in Known, NEW q \in There(disk')
               PROVE  \A g1 \in Paths : Covers(disk, c, q, g1) => Covers(disk', c, q, g1)
    BY <1>7, <1>8 DEF KeepsRows
  <2> QED
    BY <1>7 DEF Covers
<1>11. \A q \in Range(todo) : disk'[q] # Nothing /\ cursors[q] = Nothing =>
         \A g1 \in Paths : cursors[g1] # Nothing => cursors[g1].ino # disk'[q].ino
  <2>1. \A q \in Range(todo) : q \in Paths
    BY <1>0 DEF TypeOK, Range
  <2>2. \A q \in Paths : disk'[q] # Nothing => disk[q] # Nothing /\ disk'[q].ino = disk[q].ino
    BY <1>7 DEF There
  <2> QED
    BY <2>1, <2>2 DEF FeedInv, BridgeShape, Present
<1>12. newest' \in newest..Cardinality(Inodes) /\ newest' = newest
  BY <1>0, <1>1 DEF TypeOK
<1>13. \A q \in There(disk') : Range(disk'[q].rows) \subseteq Ids
  <2>1. Range(<< >>) = {}
    BY DEF Range
  <2> QED
    BY <1>1, <1>7, <1>8, <2>1
<1> QED
  BY <1>0, <1>6, <1>9, <1>10, <1>11, <1>12, <1>13, NoRowKeeps, FaultIs

LEMMA DeployMovesKeeps == ASSUME FeedInv, DeployMoves PROVE FeedInv'
<1>0. /\ TypeOK /\ disk[Legacy] # Nothing /\ disk[Moved] = Nothing /\ Fault /\ Moved \notin Range(todo)
      /\ \A c \in Known : c[Moved] = Nothing
      /\ disk' = [disk EXCEPT ![Legacy] = Nothing, ![Moved] = disk[Legacy]]
      /\ UNCHANGED <<rows, newest, shadowed, saved, bridge, history, torn>>
  BY DEF FeedInv, DeployMoves
<1>1. disk \in Disks /\ newest \in Nat /\ \A q \in There(disk) : Range(disk[q].rows) \subseteq Ids
  BY <1>0, TypesAre DEF TypeOK
<1>2. Legacy \in Paths /\ Moved \in Paths /\ Legacy # Moved
  BY FeedBridgeAssumption DEF Paths
<1>3. \A q \in Paths : disk'[q] = IF q = Legacy THEN Nothing ELSE IF q = Moved THEN disk[Legacy] ELSE disk[q]
  BY <1>0, <1>1, <1>2 DEF Disks
<1>4. disk' \in Disks
  BY <1>0, <1>1, <1>2 DEF Disks
<1>5. /\ There(disk') = (There(disk) \ {Legacy}) \cup {Moved} /\ Legacy \in There(disk) /\ Moved \notin There(disk)
      /\ disk'[Moved] = disk[Legacy] /\ \A q \in There(disk') \ {Moved} : disk'[q] = disk[q] /\ q \in There(disk)
  <2>1. Legacy \in There(disk) /\ Moved \notin There(disk)
    BY <1>0, <1>2 DEF There
  <2>2. disk'[Moved] = disk[Legacy] /\ disk'[Legacy] = Nothing
    BY <1>2, <1>3
  <2>3. \A q \in Paths \ {Legacy, Moved} : disk'[q] = disk[q]
    BY <1>3
  <2>4. \A q \in Paths : q \in There(disk') <=> q \in (There(disk) \ {Legacy}) \cup {Moved}
    <3> TAKE q \in Paths
    <3> QED
      BY <1>0, <2>1, <2>2, <2>3 DEF There
  <2>5. There(disk') = (There(disk) \ {Legacy}) \cup {Moved}
    BY <1>2, <2>4 DEF There
  <2> QED
    BY <2>1, <2>2, <2>3, <2>5 DEF There
<1>6. Apart(disk', rows, newest)
  <2>1. Apart(disk, rows, newest)
    BY DEF FeedInv
  <2>2. \A q \in There(disk') : \E g \in There(disk) : disk'[q] = disk[g]
    BY <1>5
  <2>3. \A q, g \in There(disk') : disk'[q].ino = disk'[g].ino => q = g
    BY <1>5, <2>1 DEF Apart
  <2> QED
    BY <2>1, <2>2, <2>3 DEF Apart
<1>7. \A c \in Known : KeepsRows(disk, disk', c, newest)
  <2> SUFFICES ASSUME NEW c \in Known, NEW q \in There(disk')
               PROVE  \E g \in There(disk) : /\ disk'[q] = disk[g] /\ (q \in Old <=> g \in Old)
                                             /\ \A g1 \in Paths : Covers(disk, c, g, g1) => Covers(disk', c, q, g1)
    BY DEF KeepsRows
  <2>1. CASE q = Moved
    <3>1. \A g1 \in Paths : Covers(disk, c, Legacy, g1) => Covers(disk', c, Moved, g1)
      BY <1>0, <1>5 DEF Covers
    <3> QED
      BY <1>5, <2>1, <3>1 DEF Old
  <2>2. CASE q # Moved
    <3>1. \A g1 \in Paths : Covers(disk, c, q, g1) => Covers(disk', c, q, g1)
      BY <1>0, <1>5, <2>2 DEF Covers
    <3> QED
      BY <1>5, <2>2, <3>1
  <2> QED
    BY <2>1, <2>2
<1>8. \A q \in Range(todo) : disk'[q] # Nothing /\ cursors[q] = Nothing =>
         \A g \in Paths : cursors[g] # Nothing => cursors[g].ino # disk'[q].ino
  <2>1. \A q \in Range(todo) : q \in Paths /\ q # Moved
    BY <1>0 DEF TypeOK, Range
  <2> QED
    BY <1>3, <2>1 DEF FeedInv, BridgeShape, Present
<1>9. newest' \in newest..Cardinality(Inodes) /\ newest' = newest
  BY <1>0, <1>1 DEF TypeOK
<1>10. \A q \in There(disk') : Range(disk'[q].rows) \subseteq Ids
  BY <1>1, <1>5
<1> QED
  BY <1>0, <1>4, <1>6, <1>7, <1>8, <1>9, <1>10, NoRowKeeps, FaultIs

LEMMA WriteHalfKeeps == ASSUME FeedInv, NEW p \in Paths, WriteHalf(p) PROVE FeedInv'
<1>0. /\ TypeOK /\ HandedOver(p) /\ newest + 1 \in Inodes
      /\ disk' = [disk EXCEPT ![p] = [FileOf(p) EXCEPT !.half = TRUE]]
      /\ newest' = IF disk[p] = Nothing THEN newest + 1 ELSE newest
      /\ UNCHANGED <<rows, shadowed, saved, bridge, history, torn, faults>>
  BY DEF FeedInv, WriteHalf
<1>1. disk \in Disks /\ newest \in Nat /\ \A q \in There(disk) : Range(disk[q].rows) \subseteq Ids
  BY <1>0, TypesAre DEF TypeOK
<1>2. PICK f, g : f = FileOf(p) /\ g = [f EXCEPT !.half = TRUE]
  OBVIOUS
<1>3. f \in Files
  <2>1. NewFile \in Files
    BY <1>0 DEF NewFile, Files
  <2> QED
    BY <1>1, <1>2, <2>1 DEF FileOf, Disks
<1>4. g \in Files /\ g.ino = f.ino /\ g.rows = f.rows /\ g.cut = f.cut /\ g # Nothing
  BY <1>2, <1>3, NothingAssumption DEF Files
<1>5. disk' \in Disks /\ \A q \in Paths : disk'[q] = IF q = p THEN g ELSE disk[q]
  BY <1>0, <1>1, <1>2, <1>4 DEF Disks
<1>6. There(disk') = There(disk) \cup {p}
  BY <1>4, <1>5 DEF There
<1>7. faults' \in 0..MaxFaults
  BY <1>0 DEF TypeOK
<1>8. newest' \in newest..Cardinality(Inodes)
  <2>1. PICK k \in Nat : Inodes = 1..k /\ Cardinality(Inodes) = k
    BY InodesAre
  <2> QED
    BY <1>0, <1>1, <2>1 DEF TypeOK
<1>9. \A q \in Range(todo) : q \in Paths
  BY <1>0 DEF TypeOK, Range
<1>10. cursors \in Known /\ cursors \in Memory
  BY <1>0 DEF Known, TypeOK
<1>11. CASE disk[p] # Nothing
  <2>1. There(disk') = There(disk) /\ p \in There(disk) /\ f = disk[p] /\ newest' = newest
    BY <1>0, <1>2, <1>6, <1>11 DEF There, FileOf
  <2>2. \A q \in There(disk) : disk'[q].ino = disk[q].ino /\ disk'[q].rows = disk[q].rows /\ disk'[q].cut = disk[q].cut
    BY <1>4, <1>5, <2>1 DEF There
  <2>3. Apart(disk', rows, newest')
    BY <2>1, <2>2 DEF FeedInv, Apart
  <2>4. \A c \in Known : KeepsRows(disk, disk', c, newest)
    <3> SUFFICES ASSUME NEW c \in Known, NEW q \in There(disk)
                 PROVE  \A g1 \in Paths : Covers(disk, c, q, g1) => Covers(disk', c, q, g1)
      BY <2>1, <2>2 DEF KeepsRows
    <3> QED
      BY <2>1, <2>2 DEF Covers
  <2>5. \A q \in There(disk') : Range(disk'[q].rows) \subseteq Ids
    BY <1>1, <2>1, <2>2
  <2>6. \A q \in Range(todo) : disk'[q] # Nothing /\ cursors[q] = Nothing =>
           \A g1 \in Paths : cursors[g1] # Nothing => cursors[g1].ino # disk'[q].ino
    <3>1. \A q \in Paths : disk'[q] # Nothing => disk[q] # Nothing /\ disk'[q].ino = disk[q].ino
      BY <2>1, <2>2 DEF There
    <3> QED
      BY <1>9, <3>1 DEF FeedInv, BridgeShape, Present
  <2> QED
    BY <1>0, <1>5, <1>7, <1>8, <2>3, <2>4, <2>5, <2>6, NoRowKeeps
<1>12. CASE disk[p] = Nothing
  <2>1. p \notin There(disk) /\ f.ino = newest + 1 /\ f.rows = << >> /\ newest' = newest + 1
    BY <1>0, <1>2, <1>12 DEF There, FileOf, NewFile
  <2>2. /\ disk'[p].ino = newest + 1 /\ disk'[p].rows = << >> /\ DOMAIN disk'[p].rows = {}
        /\ \A q \in There(disk) : disk'[q] = disk[q] /\ q # p
    BY <1>4, <1>5, <2>1 DEF There
  <2>3. Apart(disk, rows, newest) /\ \A q \in There(disk) : disk[q].ino \in Nat
    BY <1>1, FileIs DEF FeedInv
  <2>4. Apart(disk', rows, newest')
    <3>1. \A q \in There(disk') : disk'[q].ino <= newest'
      BY <1>1, <1>6, <2>1, <2>2, <2>3 DEF Apart
    <3>2. \A q, q1 \in There(disk') : disk'[q].ino = disk'[q1].ino => q = q1
      BY <1>1, <1>6, <2>1, <2>2, <2>3 DEF Apart
    <3>3. \A q \in There(disk') : \A i \in DOMAIN disk'[q].rows : q \in There(disk)
      BY <1>6, <2>2
    <3> QED
      BY <2>2, <2>3, <3>1, <3>2, <3>3 DEF Apart
  <2>5. \A c \in Known : KeepsRows(disk, disk', c, newest)
    <3> SUFFICES ASSUME NEW c \in Known, NEW q \in There(disk), NEW g1 \in Paths, Covers(disk, c, q, g1)
                 PROVE  Covers(disk', c, q, g1)
      BY <1>1, <1>6, <2>2 DEF KeepsRows
    <3>1. q \in Present
      BY DEF There, Present
    <3>2. c[p] # Nothing => c[p].ino # disk[q].ino
      BY <1>0, <1>12, <3>1 DEF HandedOver
    <3> QED
      BY <1>6, <2>2, <3>2 DEF Covers
  <2>6. \A q \in There(disk') : Range(disk'[q].rows) \subseteq Ids
    <3>1. Range(<< >>) = {}
      BY DEF Range
    <3> QED
      BY <1>1, <1>6, <2>2, <3>1
  <2>7. \A q \in Range(todo) : disk'[q] # Nothing /\ cursors[q] = Nothing =>
           \A g1 \in Paths : cursors[g1] # Nothing => cursors[g1].ino # disk'[q].ino
    <3>1. \A g1 \in Paths : cursors[g1] # Nothing => cursors[g1].ino # newest + 1
      <4> TAKE g1 \in Paths
      <4> HAVE cursors[g1] # Nothing
      <4>1. cursors[g1].ino <= newest /\ cursors[g1].ino \in Nat
        BY <1>10, CursorIs DEF FeedInv, Cursored, CursorsApart
      <4> QED
        BY <1>1, <4>1
    <3>2. \A q \in Paths : q # p /\ disk'[q] # Nothing => disk[q] # Nothing /\ disk'[q].ino = disk[q].ino
      BY <1>5
    <3> QED
      BY <1>9, <2>2, <3>1, <3>2 DEF FeedInv, BridgeShape, Present
  <2> QED
    BY <1>0, <1>5, <1>7, <1>8, <2>4, <2>5, <2>6, <2>7, NoRowKeeps
<1> QED
  BY <1>11, <1>12

LEMMA FinishLineKeeps == ASSUME FeedInv, NEW p \in Paths, FinishLine(p) PROVE FeedInv'
<1> DEFINE id == Len(rows) + 1
<1>0. /\ TypeOK /\ disk[p] # Nothing /\ id <= MaxRows
      /\ \E json \in BOOLEAN : rows' = Append(rows, [json |-> json, ino |-> disk[p].ino])
      /\ disk' = [disk EXCEPT ![p] = [@ EXCEPT !.rows = Append(disk[p].rows, id), !.half = FALSE]]
      /\ shadowed' = IF BehindCursor(p) THEN shadowed \cup {id} ELSE shadowed
      /\ UNCHANGED <<newest, saved, bridge, history, torn, faults>>
  BY DEF FeedInv, FinishLine
<1>1. /\ disk \in Disks /\ newest \in Nat /\ Ids = 1..Len(rows) /\ Len(rows) \in Nat /\ Ids \in SUBSET Nat
      /\ (\A q \in There(disk) : Range(disk[q].rows) \subseteq Ids) /\ p \in There(disk) /\ rows \in Seq([json : BOOLEAN, ino : Inodes])
  BY <1>0, TypesAre DEF TypeOK, There
<1>2. PICK f, g, more : /\ f = disk[p] /\ more = Append(f.rows, id) /\ g = [f EXCEPT !.rows = more, !.half = FALSE]
                        /\ g = [disk[p] EXCEPT !.rows = Append(disk[p].rows, id), !.half = FALSE]
  OBVIOUS
<1>3. f \in Files /\ f.ino \in Inodes /\ f.rows \in Seq(1..MaxRows) /\ f.cut \in BOOLEAN
  BY <1>0, <1>1, <1>2 DEF Disks, Files
<1>4. more \in Seq(1..MaxRows)
  <2>1. id \in 1..MaxRows
    BY <1>0, <1>1, FeedBridgeAssumption
  <2> QED
    BY <1>2, <1>3, <2>1, AppendIs
<1>5. g \in Files /\ g.ino = f.ino /\ g.rows = more /\ g.cut = f.cut /\ g # Nothing
  <2>1. g = [ino |-> f.ino, rows |-> more, half |-> FALSE, cut |-> f.cut]
    BY <1>2, <1>3 DEF Files
  <2>2. g \in Files
    BY <1>3, <1>4, <2>1 DEF Files
  <2> QED
    BY <2>1, <2>2, NothingAssumption
<1>6. disk' \in Disks /\ \A q \in Paths : disk'[q] = IF q = p THEN g ELSE disk[q]
  <2>1. disk' = [disk EXCEPT ![p] = g]
    BY <1>0, <1>2, Zenon
  <2> QED
    BY <1>1, <1>5, <2>1 DEF Disks
<1>7. PICK json \in BOOLEAN : rows' = Append(rows, [json |-> json, ino |-> f.ino])
  BY <1>0, <1>2
<1>8. /\ rows' \in Seq([json : BOOLEAN, ino : Inodes]) /\ Len(rows') = id /\ rows'[id].ino = f.ino
      /\ \A s \in Ids : rows'[s] = rows[s]
  <2>1. PICK x : x = [json |-> json, ino |-> f.ino]
    OBVIOUS
  <2>2. x \in [json : BOOLEAN, ino : Inodes] /\ x.ino = f.ino
    BY <1>3, <2>1
  <2> QED
    BY <1>1, <1>7, <2>1, <2>2, AppendIs DEF Ids
<1>9. Ids' = Ids \cup {id} /\ Ids \subseteq Ids' /\ id \in Nat
  <2>1. DOMAIN rows' = 1..id
    BY <1>8
  <2> QED
    BY <1>1, <2>1 DEF Ids
<1> HIDE DEF id
<1>10. There(disk') = There(disk)
  BY <1>0, <1>5, <1>6 DEF There
<1>11. AddsRow(disk, disk', rows, rows', p, id)
  <2>1. \A s \in DOMAIN rows : rows'[s] = rows[s] /\ s < id
    BY <1>1, <1>8 DEF Ids, id
  <2>2. \A q \in There(disk) : q \in Paths
    BY DEF There
  <2>3. disk'[p].rows = Append(disk[p].rows, id)
    BY <1>2, <1>5, <1>6
  <2> QED
    BY <1>1, <1>2, <1>5, <1>6, <1>10, <2>1, <2>2, <2>3 DEF AddsRow
<1>12. /\ DOMAIN disk'[p].rows = DOMAIN disk[p].rows \cup {Len(disk[p].rows) + 1}
       /\ disk'[p].rows[Len(disk[p].rows) + 1] = id /\ \A i \in DOMAIN disk[p].rows : disk'[p].rows[i] = disk[p].rows[i]
  BY <1>1, <1>6, <1>9, <1>11, AddsRowIs
<1>13. \A q \in There(disk) : Range(disk'[q].rows) \subseteq Ids'
  <2>1. Range(more) = Range(f.rows) \cup {id}
    <3>1. id \in 1..MaxRows
      BY <1>0, <1>1, FeedBridgeAssumption DEF id
    <3>2. PICK E, t : E = 1..MaxRows /\ t = f.rows
      OBVIOUS
    <3>3. id \in E /\ t \in Seq(E) /\ more = Append(t, id)
      BY <1>2, <1>3, <3>1, <3>2
    <3>4. Range(more) = Range(t) \cup {id}
      BY <3>3, AppendIs
    <3> QED
      BY <3>2, <3>4
  <2>2. disk'[p].rows = more
    BY <1>5, <1>6
  <2>3. Range(f.rows) \subseteq Ids
    BY <1>1, <1>2
  <2> QED
    BY <1>1, <1>9, <1>11, <2>1, <2>2, <2>3 DEF AddsRow
<1>14. TypeOK'
  <2>1. shadowed' \subseteq Ids'
    BY <1>0, <1>9 DEF TypeOK
  <2>2. queue' \in Seq(Ids') /\ sent' \in Seq(Ids')
    BY <1>0, <1>9 DEF TypeOK, bridge, history
  <2>3. dropped' \subseteq Ids' /\ lost' \subseteq Ids'
    BY <1>0, <1>9 DEF TypeOK, history
  <2>4. disk' \in [Paths -> Files \cup {Nothing}] /\ \A q \in Present' : Range(disk'[q].rows) \subseteq Ids'
    BY <1>6, <1>10, <1>13 DEF Disks, Present, There
  <2>5. Len(rows') <= MaxRows
    BY <1>0, <1>8
  <2> QED
    BY <1>0, <1>8, <2>1, <2>2, <2>3, <2>4, <2>5 DEF TypeOK, bridge, history
<1>15. Apart(disk', rows', newest')
  <2>0. Apart(disk, rows, newest)
    BY DEF FeedInv
  <2>1. \A q \in There(disk) : disk'[q].ino = disk[q].ino /\ (q # p => disk'[q].rows = disk[q].rows)
    BY <1>11 DEF AddsRow
  <2>2. \A q \in There(disk) : \A i \in DOMAIN disk[q].rows : disk[q].rows[i] \in Ids
    BY <1>1 DEF Range
  <2>3. \A q \in There(disk) : \A i \in DOMAIN disk'[q].rows :
           rows'[disk'[q].rows[i]].ino = disk'[q].ino
    <3> TAKE q \in There(disk)
    <3> TAKE i \in DOMAIN disk'[q].rows
    <3>1. CASE i \in DOMAIN disk[q].rows
      <4>1. disk'[q].rows[i] = disk[q].rows[i] /\ disk[q].rows[i] \in Ids
        BY <1>12, <2>1, <2>2, <3>1
      <4>2. rows[disk[q].rows[i]].ino = disk[q].ino
        BY <2>0, <3>1 DEF Apart
      <4> QED
        BY <1>8, <2>1, <4>1, <4>2
    <3>2. CASE q = p /\ i = Len(disk[p].rows) + 1
      BY <1>2, <1>8, <1>12, <2>1, <3>2
    <3> QED
      BY <1>12, <2>1, <3>1, <3>2
  <2>4. \A q \in There(disk) : \A i, j \in DOMAIN disk'[q].rows : i < j => disk'[q].rows[i] < disk'[q].rows[j]
    <3> SUFFICES ASSUME NEW q \in There(disk), NEW i \in DOMAIN disk'[q].rows, NEW j \in DOMAIN disk'[q].rows, i < j
                 PROVE  disk'[q].rows[i] < disk'[q].rows[j]
      OBVIOUS
    <3>1. DOMAIN disk[q].rows = 1..Len(disk[q].rows) /\ Len(disk[q].rows) \in Nat
      BY <1>1, FileIs
    <3>2. i \in DOMAIN disk[q].rows
      BY <1>12, <2>1, <3>1
    <3>3. disk'[q].rows[i] = disk[q].rows[i] /\ disk[q].rows[i] \in Ids
      BY <1>12, <2>1, <2>2, <3>2
    <3>4. CASE j \in DOMAIN disk[q].rows
      <4>1. disk[q].rows[i] < disk[q].rows[j]
        BY <2>0, <3>2, <3>4 DEF Apart
      <4>2. disk'[q].rows[j] = disk[q].rows[j]
        BY <1>12, <2>1, <3>4
      <4> QED
        BY <3>3, <4>1, <4>2
    <3>5. CASE q = p /\ j = Len(disk[p].rows) + 1
      BY <1>1, <1>12, <3>3, <3>5 DEF id
    <3> QED
      BY <1>12, <2>1, <3>4, <3>5
  <2>5. \A q \in There(disk') : disk'[q].ino <= newest'
    BY <1>0, <1>10, <2>0, <2>1 DEF Apart
  <2>6. \A q, q1 \in There(disk') : disk'[q].ino = disk'[q1].ino => q = q1
    BY <1>10, <2>0, <2>1 DEF Apart
  <2> QED
    BY <1>10, <2>3, <2>4, <2>5, <2>6 DEF Apart
<1>16. Behind \subseteq Behind' /\ (BehindCursor(p) => id \in Behind')
  BY <1>0 DEF Behind, Done, bridge, history
<1>17. \A c \in Known : /\ CursorsApart(disk', newest', c) /\ Passed(disk', c, Behind')
                        /\ \A S \in SUBSET Ids : Fresh(disk, rows, c, S) => Fresh(disk', rows', c, S)
  <2> TAKE c \in Known
  <2>1. c \in Memory /\ CursorsApart(disk, newest, c) /\ Passed(disk, c, Behind)
    BY <1>0, TypesAre DEF FeedInv, Cursored
  <2>2. disk[p].cut /\ (\E q \in Paths : c[q] # Nothing /\ c[q].ino = disk[p].ino /\ Len(disk[p].rows) + 1 <= c[q].pos)
        => id \in Behind'
    BY <1>16 DEF BehindCursor
  <2>3. CursorsApart(disk', newest, c)
    BY <1>1, <1>6, <1>9, <1>11, <2>1, RowAdded
  <2>4. Passed(disk', c, Behind')
    BY <1>1, <1>6, <1>9, <1>11, <1>16, <2>1, <2>2, RowAdded
  <2>5. \A S \in SUBSET Ids : Fresh(disk, rows, c, S) => Fresh(disk', rows', c, S)
    BY <1>1, <1>6, <1>9, <1>11, <2>1, RowAdded DEF Ids
  <2> QED
    BY <1>0, <2>3, <2>4, <2>5
<1>18. HasOffset => /\ OffsetPassed(disk', saved.pos, Behind')
                    /\ \A S \in SUBSET Ids : OffsetFresh(disk, rows, saved.pos, S) => OffsetFresh(disk', rows', saved.pos, S)
  <2> HAVE HasOffset
  <2>1. saved.pos \in Nat /\ OffsetPassed(disk, saved.pos, Behind)
    BY <1>0, TypesAre DEF FeedInv, Cursored
  <2>2. p \in Old /\ Len(disk[p].rows) + 1 <= saved.pos => id \in Behind'
    BY <1>16 DEF BehindCursor, HasOffset, Old
  <2>3. OffsetPassed(disk', saved.pos, Behind')
    BY <1>1, <1>6, <1>9, <1>11, <1>16, <2>1, <2>2, RowAddedOffset
  <2>4. \A S \in SUBSET Ids : OffsetFresh(disk, rows, saved.pos, S) => OffsetFresh(disk', rows', saved.pos, S)
    BY <1>1, <1>6, <1>9, <1>11, <2>1, RowAddedOffset DEF Ids
  <2> QED
    BY <2>3, <2>4
<1>19. \A q \in Range(todo) : disk'[q] # Nothing /\ cursors[q] = Nothing =>
         \A g1 \in Paths : cursors[g1] # Nothing => cursors[g1].ino # disk'[q].ino
  <2>1. \A q \in Range(todo) : q \in Paths
    BY <1>0 DEF TypeOK, Range
  <2>2. \A q \in Paths : disk'[q] # Nothing => disk[q] # Nothing /\ disk'[q].ino = disk[q].ino
    BY <1>10, <1>11 DEF There, AddsRow
  <2> QED
    BY <2>1, <2>2 DEF FeedInv, BridgeShape, Present
<1> QED
  BY <1>0, <1>8, <1>9, <1>14, <1>15, <1>17, <1>18, <1>19, BridgeRests

-----------------------------------------------------------------------------
(* The steps of the bridge, which moves no file. *)

LEMMA FreshLess ==
  ASSUME NEW d, NEW r, NEW c, NEW S, NEW T, S \subseteq T, Fresh(d, r, c, T)
  PROVE  Fresh(d, r, c, S)
BY DEF Fresh, Later

\* A bridge without cursors.
LEMMA NoCursors ==
  ASSUME NEW n
  PROVE  /\ NoFiles \in Memory /\ CursorsApart(disk, n, NoFiles) /\ \A S : Passed(disk, NoFiles, S)
<1>1. \A p \in Paths : NoFiles[p] = Nothing
  BY DEF NoFiles
<1> QED
  BY <1>1 DEF NoFiles, Memory, CursorsApart, Passed

\* What the cursors passed is still so of those kept, and of new ones if it is.
LEMMA CursoredStays ==
  ASSUME FeedInv, UNCHANGED files, Behind \subseteq Behind',
         \A c \in Known' : c \in Known \/ (CursorsApart(disk, newest, c) /\ Passed(disk, c, Behind')),
         HasOffset' => HasOffset /\ saved' = saved
  PROVE  Cursored'
<1>1. disk' = disk /\ newest' = newest
  BY DEF files
<1>2. \A c \in Known' : CursorsApart(disk, newest, c) /\ Passed(disk, c, Behind')
  BY DEF FeedInv, Cursored, Passed
<1>3. HasOffset' => OffsetPassed(disk, saved'.pos, Behind')
  BY DEF FeedInv, Cursored, OffsetPassed
<1> QED
  BY <1>1, <1>2, <1>3 DEF Cursored

LEMMA SaveKeeps == ASSUME FeedInv, Save PROVE FeedInv'
<1>0. /\ TypeOK /\ BridgeShape /\ pc \in {"begin", "save"} /\ pc' = "up" /\ saved' = [form |-> "cursors", cursors |-> cursors]
      /\ disk' = disk /\ rows' = rows /\ newest' = newest /\ shadowed' = shadowed /\ cursors' = cursors /\ todo' = todo
      /\ queue' = queue /\ sent' = sent /\ dropped' = dropped /\ lost' = lost /\ torn' = torn /\ faults' = faults
      /\ blank' = blank
  BY DEF FeedInv, Save, ToDisk, files, history
<1>1. saved' \in States /\ saved'.form = "cursors" /\ saved'.cursors = cursors /\ saved' # Nothing
  BY <1>0, NothingAssumption DEF TypeOK, States
<1>2. Ids' = Ids /\ Behind' = Behind /\ Sending' = Sending
  BY <1>0 DEF Ids, Behind, Done, Sending
<1>3. TypeOK'
  BY <1>0, <1>1, <1>2 DEF TypeOK, Present
<1>4. Apart(disk', rows', newest')
  BY <1>0 DEF FeedInv
<1>5. ~HasOffset'
  BY <1>1 DEF HasOffset
<1>6. BridgeShape'
  BY <1>0, <1>1, <1>5 DEF BridgeShape, Present
<1>7. Cursored'
  <2>1. \A c \in Known' : c \in Known
    BY <1>0, <1>1 DEF Known
  <2> QED
    BY <1>0, <1>2, <1>5, <2>1, CursoredStays DEF files
<1>8. ASSUME ~torn' PROVE Unsent'
  <2>1. Unsent
    BY <1>0, <1>8 DEF FeedInv
  <2>2. Fresh(disk, rows, cursors, Sending)
    BY <1>0, <2>1 DEF Unsent
  <2> QED
    BY <1>0, <1>1, <1>2, <1>5, <2>1, <2>2 DEF Unsent
<1> QED
  BY <1>3, <1>4, <1>6, <1>7, <1>8 DEF FeedInv

\* What is not sent of the queue is lost, and the state file is as it was or gone.
LEMMA Stopped ==
  ASSUME FeedInv, UNCHANGED <<files, sent, dropped>>, blank' \subseteq Paths, lost' = lost \cup Range(queue), queue' = << >>, todo' = << >>,
         faults' \in 0..MaxFaults, pc # "down", (UNCHANGED <<saved, torn>>) \/ (saved' = Nothing /\ torn' = TRUE),
         \/ pc' = "down" /\ cursors' = NoFiles
         \/ pc = "save" /\ pc' = "up" /\ cursors' = cursors
  PROVE  FeedInv'
<1>0. /\ TypeOK /\ BridgeShape /\ disk' = disk /\ rows' = rows /\ newest' = newest /\ shadowed' = shadowed
      /\ sent' = sent /\ dropped' = dropped
  BY DEF FeedInv, files
<1>1. Range(<< >>) = {}
  BY DEF Range
<1>2. Ids' = Ids /\ Behind' = Behind /\ Sending' = Range(sent)
  BY <1>0, <1>1 DEF Ids, Behind, Done, Sending
<1>3. cursors' \in Memory /\ saved' \in States \cup {Nothing} /\ torn' \in BOOLEAN /\ pc' \in {"down", "up"}
  BY <1>0, NoCursors DEF TypeOK
<1>4. TypeOK'
  <2>1. lost' \subseteq Ids
    BY <1>0, TypesAre DEF TypeOK
  <2> QED
    BY <1>0, <1>2, <1>3, <2>1 DEF TypeOK, Present
<1>5. Apart(disk', rows', newest')
  BY <1>0 DEF FeedInv
<1>6. (HasOffset' => HasOffset /\ saved' = saved) /\ (HasCursors' => HasCursors /\ saved' = saved)
  BY DEF HasOffset, HasCursors
<1>7. BridgeShape'
  <2>1. HasOffset' => pc' = "down" /\ saved'.pos > 0
    BY <1>0, <1>6 DEF BridgeShape
  <2>2. saved' = Nothing => pc' = "down" \/ torn'
    BY <1>0 DEF BridgeShape
  <2> QED
    BY <1>1, <1>3, <2>1, <2>2 DEF BridgeShape
<1>8. Cursored'
  <2>1. \A c \in Known' : c \in Known \/ c = NoFiles
    BY DEF Known
  <2> QED
    BY <1>0, <1>2, <1>6, <2>1, CursoredStays, NoCursors DEF files
<1>9. ASSUME ~torn' PROVE Unsent'
  <2>1. Unsent /\ saved' = saved
    BY <1>9 DEF FeedInv
  <2>2. Range(sent) \subseteq Sending
    BY DEF Sending
  <2>3. pc' # "down" => Fresh(disk, rows, cursors', Range(sent))
    BY <2>1, <2>2, FreshLess DEF Unsent
  <2>4. HasCursors => Fresh(disk, rows, saved.cursors, Range(sent))
    BY <2>1, <2>2, FreshLess DEF Unsent
  <2>5. HasOffset => OffsetFresh(disk, rows, saved.pos, Range(sent))
    BY <2>1 DEF Unsent
  <2>6. saved = Nothing => sent = << >>
    BY <2>1 DEF Unsent
  <2>7. \A i, j \in DOMAIN sent : i < j /\ rows[sent[i]].ino = rows[sent[j]].ino => sent[i] < sent[j]
    BY <2>1 DEF Unsent
  <2> QED
    BY <1>0, <1>2, <1>6, <2>1, <2>3, <2>4, <2>5, <2>6, <2>7 DEF Unsent
<1> QED
  BY <1>4, <1>5, <1>7, <1>8, <1>9 DEF FeedInv

LEMMA SaveFailsKeeps == ASSUME FeedInv, SaveFails PROVE FeedInv'
<1>1. faults' \in 0..MaxFaults
  BY FaultIs DEF FeedInv, SaveFails
<1>2. blank' \subseteq Paths
  BY DEF FeedInv, TypeOK, SaveFails
<1> QED
  BY <1>1, <1>2, Stopped DEF SaveFails

LEMMA CrashKeeps == ASSUME FeedInv, Crash PROVE FeedInv'
<1>1. faults' \in 0..MaxFaults
  BY FaultIs DEF FeedInv, Crash
<1>2. blank' \subseteq Paths
  BY DEF FeedInv, TypeOK, Crash
<1> QED
  BY <1>1, <1>2, Stopped DEF Crash

\* An old offset given to the feeds that hold so many rows.
LEMMA OffsetGiven ==
  ASSUME FeedInv, HasOffset, NEW c,
         c = [p \in Paths |-> IF p \in Old \cap Present /\ saved.pos > 0 /\ Len(disk[p].rows) >= saved.pos
                              THEN [pos |-> saved.pos, ino |-> disk[p].ino] ELSE Nothing]
  PROVE  /\ c \in Memory /\ CursorsApart(disk, newest, c) /\ Passed(disk, c, Behind)
         /\ \A S : OffsetFresh(disk, rows, saved.pos, S) => Fresh(disk, rows, c, S)
<1>0. /\ TypeOK /\ disk \in Disks /\ saved.pos \in 0..MaxRows /\ saved.pos > 0 /\ There(disk) = Present
      /\ Apart(disk, rows, newest) /\ OffsetPassed(disk, saved.pos, Behind)
  BY TypesAre DEF FeedInv, BridgeShape, Cursored, TypeOK, HasOffset, States
<1> DEFINE Given(p) == p \in Old \cap There(disk) /\ Len(disk[p].rows) >= saved.pos
<1>1. \A p \in Paths : c[p] = IF Given(p) THEN [pos |-> saved.pos, ino |-> disk[p].ino] ELSE Nothing
  BY <1>0
<1>2. \A p \in There(disk) : p \in Paths /\ disk[p].ino \in Inodes
  BY <1>0 DEF There, Disks, Files
<1> HIDE DEF Given
<1>3. \A p \in Paths : Given(p) => p \in Old \cap There(disk) /\ Len(disk[p].rows) >= saved.pos
                                   /\ [pos |-> saved.pos, ino |-> disk[p].ino] \in Cursors
  BY <1>0, <1>2 DEF Given, Cursors
<1>4. \A p \in Paths : c[p] # Nothing <=> Given(p)
  BY <1>1, <1>3, NothingAssumption
<1>5. ASSUME NEW p \in Paths, Given(p) PROVE c[p].pos = saved.pos /\ c[p].ino = disk[p].ino
  <2>1. c[p] = [pos |-> saved.pos, ino |-> disk[p].ino]
    BY <1>1, <1>5, Zenon
  <2> QED
    BY <2>1
<1>6. c \in Memory
  BY <1>1, <1>3 DEF Memory
<1>7. CursorsApart(disk, newest, c)
  <2>1. \A p, q \in Paths : c[p] # Nothing /\ c[q] # Nothing /\ c[p].ino = c[q].ino => p = q
    BY <1>0, <1>3, <1>4, <1>5 DEF Apart
  <2>2. \A q \in Paths : c[q] # Nothing => c[q].ino <= newest
    BY <1>0, <1>3, <1>4, <1>5 DEF Apart
  <2>3. ASSUME NEW q \in Paths, NEW p \in There(disk), c[q] # Nothing, c[q].ino = disk[p].ino
        PROVE  Covers(disk, c, p, q) /\ c[q].pos <= Len(disk[p].rows)
    <3>1. q = p
      BY <1>0, <1>3, <1>4, <1>5, <2>3 DEF Apart
    <3>2. Len(disk[p].rows) \in Nat
      BY <1>0, FileIs
    <3> QED
      BY <1>0, <1>3, <1>4, <1>5, <2>3, <3>1, <3>2 DEF Covers
  <2> QED
    BY <2>1, <2>2, <2>3 DEF CursorsApart
<1>8. Passed(disk, c, Behind)
  <2> SUFFICES ASSUME NEW p \in There(disk), NEW q \in Paths, c[q] # Nothing, c[q].ino = disk[p].ino,
                      NEW i \in DOMAIN disk[p].rows, i <= c[q].pos
               PROVE  disk[p].rows[i] \in Behind
    BY DEF Passed
  <2>1. q = p /\ p \in Old
    BY <1>0, <1>3, <1>4, <1>5 DEF Apart
  <2> QED
    BY <1>0, <1>4, <1>5, <2>1 DEF OffsetPassed
<1>9. ASSUME NEW S, OffsetFresh(disk, rows, saved.pos, S) PROVE Fresh(disk, rows, c, S)
  <2> SUFFICES ASSUME NEW p \in There(disk), NEW i \in DOMAIN disk[p].rows, ~Later(disk, rows, p, i, S)
               PROVE  Covers(disk, c, p, p) /\ i <= c[p].pos /\ c[p].pos <= Len(disk[p].rows)
    BY <1>2 DEF Fresh
  <2>1. p \in Old /\ i <= saved.pos /\ saved.pos <= Len(disk[p].rows) /\ p \in Paths
    BY <1>2, <1>9 DEF OffsetFresh
  <2>2. Len(disk[p].rows) \in Nat
    BY <1>0, FileIs
  <2>3. Given(p)
    BY <1>0, <2>1, <2>2 DEF Given
  <2> QED
    BY <1>4, <1>5, <2>1, <2>3 DEF Covers
<1> QED
  BY <1>6, <1>7, <1>8, <1>9

LEMMA StartKeeps == ASSUME FeedInv, Start PROVE FeedInv'
<1>0. /\ TypeOK /\ BridgeShape /\ pc = "down" /\ pc' = "begin" /\ cursors' = MigrateState /\ todo' = << >> /\ queue' = << >>
      /\ disk' = disk /\ rows' = rows /\ newest' = newest /\ shadowed' = shadowed
      /\ saved' = saved /\ sent' = sent /\ dropped' = dropped /\ lost' = lost /\ torn' = torn /\ faults' = faults
      /\ blank' = {}
  BY DEF FeedInv, Start, files, history
<1>1. queue = << >> /\ todo = << >> /\ cursors = NoFiles
  BY <1>0 DEF BridgeShape
<1>2. Ids' = Ids /\ Behind' = Behind /\ Sending' = Sending /\ Sending = Range(sent)
  <2>1. Range(<< >>) = {}
    BY DEF Range
  <2> QED
    BY <1>0, <1>1, <2>1 DEF Ids, Behind, Done, Sending
<1>3. (HasOffset' <=> HasOffset) /\ (HasCursors' <=> HasCursors) /\ (saved = Nothing \/ HasCursors \/ HasOffset)
      /\ ~(HasCursors /\ HasOffset)
  BY <1>0 DEF HasOffset, HasCursors, TypeOK, States
<1>4. /\ saved = Nothing => cursors' = NoFiles
      /\ HasCursors => cursors' = saved.cursors
      /\ HasOffset => cursors' = [p \in Paths |->
            IF p \in Old \cap Present /\ saved.pos > 0 /\ Len(disk[p].rows) >= saved.pos
            THEN [pos |-> saved.pos, ino |-> disk[p].ino] ELSE Nothing]
  <2>1. saved = Nothing => MigrateState = NoFiles
    BY DEF MigrateState
  <2>2. HasCursors => MigrateState = saved.cursors
    BY DEF MigrateState, HasCursors
  <2>3. HasOffset => MigrateState = [p \in Paths |->
            IF p \in Old \cap Present /\ saved.pos > 0 /\ Len(disk[p].rows) >= saved.pos
            THEN [pos |-> saved.pos, ino |-> disk[p].ino] ELSE Nothing]
    BY DEF MigrateState, HasOffset, Old
  <2> QED
    BY <1>0, <2>1, <2>2, <2>3
<1>5. /\ cursors' \in Memory /\ CursorsApart(disk, newest, cursors') /\ Passed(disk, cursors', Behind)
      /\ torn \/ Fresh(disk, rows, cursors', Sending)
  <2>1. CASE saved = Nothing
    <3>1. torn \/ sent = << >>
      BY <2>1 DEF FeedInv, Unsent
    <3>2. sent = << >> => Fresh(disk, rows, cursors', Sending)
      BY <1>2 DEF Fresh, Later, Range
    <3> QED
      BY <1>4, <2>1, <3>1, <3>2, NoCursors
  <2>2. CASE HasCursors
    <3>1. saved.cursors \in Known
      BY <2>2 DEF Known, HasCursors
    <3>2. torn \/ Fresh(disk, rows, saved.cursors, Range(sent))
      BY <1>0, <2>2 DEF FeedInv, Unsent
    <3> QED
      BY <1>0, <1>2, <1>4, <2>2, <3>1, <3>2, TypesAre DEF FeedInv, Cursored
  <2>3. CASE HasOffset
    <3>1. torn \/ OffsetFresh(disk, rows, saved.pos, Range(sent))
      BY <2>3 DEF FeedInv, Unsent
    <3> QED
      BY <1>2, <1>4, <2>3, <3>1, OffsetGiven
  <2> QED
    BY <1>3, <2>1, <2>2, <2>3
<1>6. TypeOK'
  BY <1>0, <1>1, <1>2, <1>5 DEF TypeOK, Present
<1>7. Apart(disk', rows', newest')
  BY <1>0 DEF FeedInv
<1>8. BridgeShape'
  <2>1. Range(<< >>) = {}
    BY DEF Range
  <2> QED
    BY <1>0, <1>3, <2>1 DEF BridgeShape
<1>9. Cursored'
  <2>1. \A c \in Known' : c \in Known \/ c = cursors'
    BY <1>0 DEF Known
  <2> QED
    BY <1>0, <1>2, <1>3, <1>5, <2>1, CursoredStays DEF files
<1>10. ASSUME ~torn PROVE Unsent'
  <2>1. Unsent
    BY <1>10 DEF FeedInv
  <2>2. HasCursors => Fresh(disk, rows, saved.cursors, Range(sent))
    BY <1>0, <2>1 DEF Unsent
  <2> QED
    BY <1>0, <1>1, <1>2, <1>3, <1>5, <1>10, <2>1, <2>2 DEF Unsent
<1> QED
  BY <1>0, <1>6, <1>7, <1>8, <1>9, <1>10 DEF FeedInv

\* The cursors handed over: those of the feeds there, each of its own file.
LEMMA HandedOverIs ==
  ASSUME NEW c \in Memory, CursorsApart(disk, newest, c), Apart(disk, rows, newest), disk \in Disks, NEW h, h = HandOver(c)
  PROVE  /\ h \in Memory /\ CursorsApart(disk, newest, h)
         /\ \A S : Passed(disk, c, S) => Passed(disk, h, S)
         /\ \A S : Fresh(disk, rows, c, S) => Fresh(disk, rows, h, S)
         /\ \A p \in Present : h[p] = Nothing => \A q \in Paths : h[q] # Nothing => h[q].ino # disk[p].ino
<1> DEFINE Heirs(p) == {g \in Paths \ Present : c[g] # Nothing /\ c[g].ino = disk[p].ino}
<1>1. \A p \in Paths : h[p] = IF p \notin Present THEN Nothing
                              ELSE IF c[p] # Nothing \/ Heirs(p) = {} THEN c[p] ELSE c[CHOOSE g \in Heirs(p) : TRUE]
  <2> TAKE p \in Paths
  <2>1. {g \in {g1 \in Paths \ Present : c[g1] # Nothing} : c[g].ino = disk[p].ino} = Heirs(p)
    OBVIOUS
  <2>2. HandOver(c)[p] = IF p \notin Present THEN Nothing
           ELSE IF c[p] # Nothing \/ {g \in {g1 \in Paths \ Present : c[g1] # Nothing} : c[g].ino = disk[p].ino} = {} THEN c[p]
           ELSE c[CHOOSE g \in {g \in {g1 \in Paths \ Present : c[g1] # Nothing} : c[g].ino = disk[p].ino} : TRUE]
    BY Zenon DEF HandOver
  <2> HIDE DEF Heirs
  <2> QED
    BY <2>1, <2>2, Zenon
<1>2. ASSUME NEW p \in Paths, h[p] # Nothing
      PROVE  p \in Present /\ \/ h[p] = c[p]
                              \/ c[p] = Nothing /\ \E g \in Heirs(p) : h[p] = c[g]
  <2>1. \A S : S # {} => (CHOOSE g \in S : TRUE) \in S
    OBVIOUS
  <2> QED
    BY <1>1, <1>2, <2>1
<1>3. \A p \in Present : p \in There(disk) /\ p \in Paths
  BY DEF Present, There
<1>4. ASSUME NEW p \in Paths, h[p] # Nothing
      PROVE  \E g \in Paths : c[g] # Nothing /\ h[p] = c[g] /\ (g = p \/ c[g].ino = disk[p].ino)
  BY <1>2, <1>4
<1>5. ASSUME NEW q \in Paths, h[q] # Nothing, NEW p \in There(disk), h[q].ino = disk[p].ino PROVE q = p
  <2>1. q \in There(disk) /\ q \in Present
    BY <1>2, <1>3, <1>5
  <2>2. CASE h[q] = c[q]
    BY <1>5, <2>1, <2>2 DEF CursorsApart, Covers
  <2>3. CASE h[q].ino = disk[q].ino
    BY <1>5, <2>1, <2>3 DEF Apart
  <2> QED
    BY <1>2, <1>5, <2>2, <2>3
<1>6. ASSUME NEW p \in There(disk), NEW q \in Paths, c[q] # Nothing, c[q].ino = disk[p].ino, Covers(disk, c, p, q)
      PROVE  h[p] = c[q] /\ h[p] # Nothing /\ p \in Paths
  <2>1. p \in Present /\ p \in Paths
    BY DEF There, Present
  <2>2. CASE q = p
    BY <1>1, <1>6, <2>1, <2>2
  <2>3. CASE c[p] = Nothing /\ q \notin There(disk)
    <3>1. q \in Heirs(p)
      BY <1>6, <2>3 DEF There, Present
    <3>2. \A g \in Heirs(p) : g = q
      BY <1>6 DEF CursorsApart
    <3> HIDE DEF Heirs
    <3>3. (CHOOSE g \in Heirs(p) : TRUE) = q
      BY <3>1, <3>2
    <3> QED
      BY <1>1, <1>6, <2>1, <2>3, <3>1, <3>3
  <2> QED
    BY <1>6, <2>1, <2>2, <2>3 DEF Covers
<1>7. h \in Memory
  <2>1. DOMAIN h = Paths /\ h = [p \in Paths |-> h[p]]
    BY DEF HandOver
  <2>2. \A p \in Paths : h[p] \in Cursors \cup {Nothing}
    BY <1>4 DEF Memory
  <2> QED
    BY <2>1, <2>2 DEF Memory
<1>8. CursorsApart(disk, newest, h)
  <2>1. ASSUME NEW p \in Paths, NEW q \in Paths, h[p] # Nothing, h[q] # Nothing, h[p].ino = h[q].ino PROVE p = q
    <3>1. p \in There(disk) /\ q \in There(disk) /\ p \in Present /\ q \in Present
      BY <1>2, <1>3, <2>1
    <3>2. CASE h[p].ino = disk[p].ino \/ h[q].ino = disk[q].ino
      BY <1>5, <2>1, <3>1, <3>2
    <3>3. CASE h[p] = c[p] /\ h[q] = c[q]
      BY <2>1, <3>3 DEF CursorsApart
    <3> QED
      BY <1>2, <2>1, <3>2, <3>3
  <2>2. \A q \in Paths : h[q] # Nothing => h[q].ino <= newest
    BY <1>4 DEF CursorsApart
  <2>3. ASSUME NEW q \in Paths, NEW p \in There(disk), h[q] # Nothing, h[q].ino = disk[p].ino
        PROVE  Covers(disk, h, p, q) /\ (~disk[p].cut => h[q].pos <= Len(disk[p].rows))
    <3>1. q = p
      BY <1>5, <2>3
    <3>2. PICK g \in Paths : c[g] # Nothing /\ h[q] = c[g]
      BY <1>4, <2>3
    <3> QED
      BY <2>3, <3>1, <3>2 DEF CursorsApart, Covers
  <2> QED
    BY <2>1, <2>2, <2>3 DEF CursorsApart
<1>9. ASSUME NEW S, Passed(disk, c, S) PROVE Passed(disk, h, S)
  <2> SUFFICES ASSUME NEW p \in There(disk), NEW q \in Paths, h[q] # Nothing, h[q].ino = disk[p].ino,
                      NEW i \in DOMAIN disk[p].rows, i <= h[q].pos
               PROVE  disk[p].rows[i] \in S
    BY DEF Passed
  <2>1. PICK g \in Paths : c[g] # Nothing /\ h[q] = c[g]
    BY <1>4
  <2> QED
    BY <1>9, <2>1 DEF Passed
<1>10. ASSUME NEW S, Fresh(disk, rows, c, S) PROVE Fresh(disk, rows, h, S)
  <2> SUFFICES ASSUME NEW p \in There(disk), NEW i \in DOMAIN disk[p].rows, ~Later(disk, rows, p, i, S)
               PROVE  p \in Paths /\ Covers(disk, h, p, p) /\ i <= h[p].pos /\ h[p].pos <= Len(disk[p].rows)
    BY DEF Fresh
  <2>1. PICK q \in Paths : Covers(disk, c, p, q) /\ i <= c[q].pos /\ c[q].pos <= Len(disk[p].rows)
    BY <1>10 DEF Fresh
  <2>2. h[p] = c[q] /\ h[p] # Nothing /\ p \in Paths /\ h[p].ino = disk[p].ino
    BY <1>6, <2>1 DEF Covers
  <2> QED
    BY <2>1, <2>2 DEF Covers
<1>11. ASSUME NEW p \in Present, h[p] = Nothing, NEW q \in Paths, h[q] # Nothing PROVE h[q].ino # disk[p].ino
  BY <1>3, <1>5, <1>11
<1> QED
  BY <1>7, <1>8, <1>9, <1>10, <1>11

LEMMA TickKeeps == ASSUME FeedInv, Tick PROVE FeedInv'
<1>0. /\ TypeOK /\ BridgeShape /\ pc = "up" /\ queue = << >> /\ todo = << >> /\ cursors' = HandOver(cursors) /\ todo' = FeedFiles
      /\ disk' = disk /\ rows' = rows /\ newest' = newest /\ shadowed' = shadowed /\ pc' = pc /\ queue' = queue
      /\ saved' = saved /\ sent' = sent /\ dropped' = dropped /\ lost' = lost /\ torn' = torn /\ faults' = faults
  BY DEF FeedInv, Tick, files, history
<1>1. Ids' = Ids /\ Behind' = Behind /\ Sending' = Sending
  BY <1>0 DEF Ids, Behind, Done, Sending
<1>2. cursors \in Known /\ cursors \in Memory /\ disk \in Disks
  BY <1>0, TypesAre DEF Known
<1>3. /\ cursors' \in Memory /\ CursorsApart(disk, newest, cursors') /\ Passed(disk, cursors', Behind)
      /\ Fresh(disk, rows, cursors, Sending) => Fresh(disk, rows, cursors', Sending)
      /\ \A p \in Present : cursors'[p] = Nothing => \A q \in Paths : cursors'[q] # Nothing => cursors'[q].ino # disk[p].ino
  BY <1>0, <1>2, HandedOverIs DEF FeedInv, Cursored
<1>4. todo' \in Seq(Paths) /\ Range(todo') \subseteq Present
  BY <1>0, FeedBridgeAssumption, ThoseIs DEF FeedFiles, Paths
<1>5. TypeOK'
  <2>1. blank' \subseteq Paths
    BY DEF Tick, Present
  <2> QED
    BY <1>0, <1>1, <1>3, <1>4, <2>1 DEF TypeOK, Present
<1>6. Apart(disk', rows', newest')
  BY <1>0 DEF FeedInv
<1>7. BridgeShape'
  <2>1. HasOffset' <=> HasOffset
    BY <1>0 DEF HasOffset
  <2>2. \A p \in Range(todo') \cap Present' : cursors'[p] = Nothing =>
          \A q \in Paths : cursors'[q] # Nothing => cursors'[q].ino # disk'[p].ino
    BY <1>0, <1>3 DEF Present
  <2> QED
    BY <1>0, <2>1, <2>2 DEF BridgeShape
<1>8. Cursored'
  <2>1. \A c \in Known' : c \in Known \/ c = cursors'
    BY <1>0 DEF Known
  <2> QED
    BY <1>0, <1>1, <1>3, <2>1, CursoredStays DEF files, HasOffset
<1>9. ASSUME ~torn PROVE Unsent'
  <2>1. Unsent
    BY <1>9 DEF FeedInv
  <2>2. Fresh(disk, rows, cursors', Sending)
    BY <1>0, <1>3, <2>1 DEF Unsent
  <2>3. (HasOffset' <=> HasOffset) /\ (HasCursors' <=> HasCursors)
    BY <1>0 DEF HasOffset, HasCursors
  <2> QED
    BY <1>0, <1>1, <2>1, <2>2, <2>3 DEF Unsent
<1> QED
  BY <1>0, <1>5, <1>6, <1>7, <1>8, <1>9 DEF FeedInv

\* The head and the rest of a sequence; what lies past its first n elements.
LEMMA HeadAndRest ==
  ASSUME NEW E, NEW s \in Seq(E), s # << >>
  PROVE  /\ Head(s) \in E /\ Tail(s) \in Seq(E) /\ Range(s) = {Head(s)} \cup Range(Tail(s))
         /\ 1 \in DOMAIN s /\ Head(s) = s[1]
         /\ \A i \in DOMAIN Tail(s) : i + 1 \in DOMAIN s /\ 1 < i + 1 /\ Tail(s)[i] = s[i + 1]
<1>1. PICK h, t, n : h = Head(s) /\ t = Tail(s) /\ n = Len(s)
  OBVIOUS
<1>2. /\ n \in Nat /\ n >= 1 /\ h \in E /\ t \in Seq(E) /\ Len(t) = n - 1 /\ h = s[1]
      /\ \A i \in 1..n - 1 : t[i] = s[i + 1]
  BY <1>1
<1>3. DOMAIN s = 1..n /\ DOMAIN t = 1..n - 1
  BY <1>1, <1>2
<1>4. Range(s) = {h} \cup Range(t)
  <2>1. ASSUME NEW i \in 1..n PROVE s[i] \in {h} \cup Range(t)
    <3>1. CASE i = 1
      BY <1>2, <3>1
    <3>2. CASE i # 1
      <4>1. i - 1 \in 1..n - 1 /\ s[i] = t[i - 1]
        BY <1>2, <3>2
      <4> QED
        BY <1>3, <4>1 DEF Range
    <3> QED
      BY <3>1, <3>2
  <2>2. ASSUME NEW i \in 1..n - 1 PROVE t[i] \in Range(s)
    <3>1. i + 1 \in 1..n /\ t[i] = s[i + 1]
      BY <1>2
    <3> QED
      BY <1>3, <3>1 DEF Range
  <2>3. h \in Range(s)
    BY <1>2, <1>3 DEF Range
  <2> QED
    BY <1>3, <2>1, <2>2, <2>3 DEF Range
<1> QED
  BY <1>1, <1>2, <1>3, <1>4

LEMMA RestIs ==
  ASSUME NEW E, NEW s \in Seq(E), NEW n \in 0..Len(s)
  PROVE  /\ SubSeq(s, n + 1, Len(s)) \in Seq(E)
         /\ \A i \in DOMAIN SubSeq(s, n + 1, Len(s)) : n + i \in DOMAIN s /\ SubSeq(s, n + 1, Len(s))[i] = s[n + i]
         /\ \A k \in DOMAIN s : n < k => s[k] \in Range(SubSeq(s, n + 1, Len(s)))
<1>1. PICK l, m : m = Len(s) /\ l = SubSeq(s, n + 1, m)
  OBVIOUS
<1>2. m \in Nat /\ n \in Nat /\ n <= m /\ DOMAIN s = 1..m
  BY <1>1
<1>3. \A i \in n + 1..m : s[i] \in E
  BY <1>2
<1>4. /\ l \in Seq(E) /\ Len(l) = (IF n + 1 <= m THEN m - (n + 1) + 1 ELSE 0)
      /\ \A i \in 1..m - (n + 1) + 1 : l[i] = s[n + 1 + i - 1]
  BY <1>1, <1>2, <1>3, SubSeqProperties
<1>5. DOMAIN l = 1..m - n /\ \A i \in 1..m - n : l[i] = s[n + i]
  BY <1>2, <1>4
<1>6. ASSUME NEW k \in DOMAIN s, n < k PROVE s[k] \in Range(l)
  <2>1. k - n \in DOMAIN l /\ l[k - n] = s[k]
    BY <1>2, <1>5, <1>6
  <2> QED
    BY <2>1 DEF Range
<1>7. \A i \in DOMAIN l : n + i \in DOMAIN s /\ l[i] = s[n + i]
  BY <1>2, <1>5
<1> QED
  BY <1>1, <1>4, <1>6, <1>7

LEMMA SendRowKeeps == ASSUME FeedInv, SendRow PROVE FeedInv'
<1>0. /\ TypeOK /\ BridgeShape /\ pc = "up" /\ queue # << >> /\ queue' = Tail(queue) /\ sent' = Append(sent, Head(queue))
      /\ disk' = disk /\ rows' = rows /\ newest' = newest /\ shadowed' = shadowed /\ cursors' = cursors /\ todo' = todo
      /\ pc' = pc /\ saved' = saved /\ dropped' = dropped /\ lost' = lost /\ torn' = torn /\ faults' = faults
      /\ blank' = blank
  BY DEF FeedInv, SendRow, NextRow, files
<1>1. PICK h : h = Head(queue)
  OBVIOUS
<1>2. /\ h \in Ids /\ queue' \in Seq(Ids) /\ Range(queue) = {h} \cup Range(queue') /\ 1 \in DOMAIN queue /\ h = queue[1]
      /\ \A i \in DOMAIN queue' : i + 1 \in DOMAIN queue /\ 1 < i + 1 /\ queue'[i] = queue[i + 1]
  BY <1>0, <1>1, HeadAndRest DEF TypeOK
<1>3. /\ sent' \in Seq(Ids) /\ Range(sent') = Range(sent) \cup {h} /\ DOMAIN sent' = DOMAIN sent \cup {Len(sent) + 1}
      /\ sent'[Len(sent) + 1] = h /\ \A i \in DOMAIN sent : sent'[i] = sent[i]
  BY <1>0, <1>1, <1>2, AppendIs DEF TypeOK
<1>4. Ids' = Ids /\ Behind' = Behind /\ Sending' = Sending
  BY <1>0, <1>2, <1>3 DEF Ids, Behind, Done, Sending
<1>5. TypeOK'
  BY <1>0, <1>2, <1>3, <1>4 DEF TypeOK, Present
<1>6. Apart(disk', rows', newest')
  BY <1>0 DEF FeedInv
<1>7. (HasOffset' <=> HasOffset) /\ (HasCursors' <=> HasCursors) /\ ~HasOffset
  BY <1>0 DEF HasOffset, HasCursors, BridgeShape
<1>8. BridgeShape'
  <2>1. \A i, j \in DOMAIN queue' : i < j => queue'[i] < queue'[j]
    <3> SUFFICES ASSUME NEW i \in DOMAIN queue', NEW j \in DOMAIN queue', i < j PROVE queue'[i] < queue'[j]
      OBVIOUS
    <3>1. i + 1 < j + 1
      BY <1>2
    <3> QED
      BY <1>0, <1>2, <3>1 DEF BridgeShape
  <2> QED
    BY <1>0, <1>7, <2>1 DEF BridgeShape, Present
<1>9. Cursored'
  <2>1. Known' = Known
    BY <1>0 DEF Known
  <2> QED
    BY <1>0, <1>4, <1>7, <2>1, CursoredStays DEF files
<1>10. ASSUME ~torn PROVE Unsent'
  <2>0. Unsent /\ saved # Nothing
    BY <1>0, <1>10 DEF FeedInv, BridgeShape
  <2>1. \A i \in DOMAIN sent, j \in DOMAIN queue : rows[sent[i]].ino = rows[queue[j]].ino => sent[i] < queue[j]
    BY <2>0 DEF Unsent
  <2>2. DOMAIN sent = 1..Len(sent) /\ Len(sent) \in Nat
    BY <1>0 DEF TypeOK
  <2>3. ASSUME NEW i \in DOMAIN sent', NEW j \in DOMAIN sent', i < j, rows[sent'[i]].ino = rows[sent'[j]].ino
        PROVE  sent'[i] < sent'[j]
    <3>1. i \in DOMAIN sent
      BY <1>3, <2>2, <2>3
    <3>2. CASE j \in DOMAIN sent
      BY <1>3, <2>0, <2>3, <3>1, <3>2 DEF Unsent
    <3>3. CASE j = Len(sent) + 1
      BY <1>2, <1>3, <2>1, <2>3, <3>1, <3>3
    <3> QED
      BY <1>3, <3>2, <3>3
  <2>4. ASSUME NEW i \in DOMAIN sent', NEW j \in DOMAIN queue', rows[sent'[i]].ino = rows[queue'[j]].ino
        PROVE  sent'[i] < queue'[j]
    <3>1. CASE i \in DOMAIN sent
      BY <1>2, <1>3, <2>1, <2>4, <3>1
    <3>2. CASE i = Len(sent) + 1
      <4>1. queue[1] < queue[j + 1]
        BY <1>0, <1>2 DEF BridgeShape
      <4> QED
        BY <1>2, <1>3, <3>2, <4>1
    <3> QED
      BY <1>3, <3>1, <3>2
  <2>5. Fresh(disk, rows, cursors, Sending) /\ (HasCursors => Fresh(disk, rows, saved.cursors, Sending))
    BY <1>0, <2>0 DEF Unsent
  <2> QED
    BY <1>0, <1>4, <1>7, <2>0, <2>3, <2>4, <2>5 DEF Unsent
<1> QED
  BY <1>0, <1>5, <1>6, <1>8, <1>9, <1>10 DEF FeedInv

LEMMA SendFailsKeeps == ASSUME FeedInv, SendFails PROVE FeedInv'
<1>0. /\ TypeOK /\ BridgeShape /\ pc = "up" /\ queue # << >> /\ queue' = Tail(queue) /\ dropped' = dropped \cup {Head(queue)}
      /\ disk' = disk /\ rows' = rows /\ newest' = newest /\ shadowed' = shadowed /\ cursors' = cursors /\ todo' = todo
      /\ pc' = pc /\ saved' = saved /\ sent' = sent /\ lost' = lost /\ torn' = torn /\ faults' = faults
      /\ blank' = blank
  BY DEF FeedInv, SendFails, NextRow, files
<1>1. PICK h : h = Head(queue)
  OBVIOUS
<1>2. /\ h \in Ids /\ queue' \in Seq(Ids) /\ Range(queue) = {h} \cup Range(queue')
      /\ \A i \in DOMAIN queue' : i + 1 \in DOMAIN queue /\ queue'[i] = queue[i + 1]
  BY <1>0, <1>1, HeadAndRest DEF TypeOK
<1>3. Ids' = Ids /\ Behind' = Behind /\ Sending' \subseteq Sending
  BY <1>0, <1>1, <1>2 DEF Ids, Behind, Done, Sending
<1>4. TypeOK'
  BY <1>0, <1>1, <1>2, <1>3 DEF TypeOK, Present
<1>5. Apart(disk', rows', newest')
  BY <1>0 DEF FeedInv
<1>6. (HasOffset' <=> HasOffset) /\ (HasCursors' <=> HasCursors) /\ ~HasOffset
  BY <1>0 DEF HasOffset, HasCursors, BridgeShape
<1>7. BridgeShape'
  <2>1. \A i, j \in DOMAIN queue' : i < j => queue'[i] < queue'[j]
    <3> SUFFICES ASSUME NEW i \in DOMAIN queue', NEW j \in DOMAIN queue', i < j PROVE queue'[i] < queue'[j]
      OBVIOUS
    <3>1. i + 1 < j + 1
      BY <1>2
    <3> QED
      BY <1>0, <1>2, <3>1 DEF BridgeShape
  <2> QED
    BY <1>0, <1>6, <2>1 DEF BridgeShape, Present
<1>8. Cursored'
  <2>1. Known' = Known
    BY <1>0 DEF Known
  <2> QED
    BY <1>0, <1>3, <1>6, <2>1, CursoredStays DEF files
<1>9. ASSUME ~torn PROVE Unsent'
  <2>0. Unsent /\ saved # Nothing
    BY <1>0, <1>9 DEF FeedInv, BridgeShape
  <2>1. \A i \in DOMAIN sent, j \in DOMAIN queue' : rows[sent[i]].ino = rows[queue'[j]].ino => sent[i] < queue'[j]
    BY <1>2, <2>0 DEF Unsent
  <2>2. Fresh(disk, rows, cursors, Sending') /\ (HasCursors => Fresh(disk, rows, saved.cursors, Sending'))
    BY <1>0, <1>3, <2>0, FreshLess DEF Unsent
  <2>3. \A i, j \in DOMAIN sent : i < j /\ rows[sent[i]].ino = rows[sent[j]].ino => sent[i] < sent[j]
    BY <2>0 DEF Unsent
  <2> QED
    BY <1>0, <1>6, <2>0, <2>1, <2>2, <2>3 DEF Unsent
<1> QED
  BY <1>0, <1>4, <1>5, <1>7, <1>8, <1>9 DEF FeedInv

\* An increasing sequence of numbers from 1 to n has at most n.
LEMMA IncreasingIsShort ==
  ASSUME NEW n \in Nat, NEW s \in Seq(1..n), \A i, j \in 1..Len(s) : i < j => s[i] < s[j]
  PROVE  Len(s) <= n
<1> DEFINE N == {k \in Nat : k \in 1..Len(s) => s[k] >= k}
<1>1. 0 \in N
  OBVIOUS
<1>2. ASSUME NEW k \in N PROVE k + 1 \in N
  <2> SUFFICES ASSUME k + 1 \in 1..Len(s) PROVE s[k + 1] >= k + 1
    OBVIOUS
  <2>1. s[k + 1] \in 1..n
    OBVIOUS
  <2>2. CASE k = 0
    BY <2>1, <2>2
  <2>3. CASE k # 0
    <3>1. k \in 1..Len(s) /\ s[k] \in 1..n /\ s[k] >= k /\ s[k] < s[k + 1]
      BY <2>3
    <3> QED
      BY <2>1, <3>1
  <2> QED
    BY <2>2, <2>3
<1>3. N = Nat
  <2> HIDE DEF N
  <2>1. N \in SUBSET Nat
    BY DEF N
  <2> QED
    BY <1>1, <1>2, <2>1, Natural
<1>4. Len(s) \in N
  BY <1>3
<1> QED
  BY <1>4

\* The cursor moved past the file it was read to the end of.
LEMMA ReadOn ==
  ASSUME FeedInv, NEW p \in Range(todo), disk[p] # Nothing, NEW c,
         c = [cursors EXCEPT ![p] = [pos |-> Len(disk[p].rows), ino |-> disk[p].ino]]
  PROVE  /\ c \in Memory /\ CursorsApart(disk, newest, c)
         /\ \A q \in Paths : q # p => c[q] = cursors[q]
         /\ c[p].pos = Len(disk[p].rows) /\ c[p].ino = disk[p].ino /\ c[p] # Nothing
         /\ \A q \in Paths : Covers(disk, cursors, p, q) => q = p
<1>0. /\ TypeOK /\ disk \in Disks /\ Apart(disk, rows, newest) /\ CursorsApart(disk, newest, cursors) /\ cursors \in Memory
      /\ p \in Paths /\ p \in There(disk) /\ p \in Present
  BY TypesAre DEF FeedInv, Cursored, Known, TypeOK, Range, There, Present
<1>1. PICK x : x = [pos |-> Len(disk[p].rows), ino |-> disk[p].ino]
  OBVIOUS
<1>2. x \in Cursors /\ x # Nothing /\ x.pos = Len(disk[p].rows) /\ x.ino = disk[p].ino
  <2>1. disk[p].ino \in Inodes /\ Len(disk[p].rows) \in 0..MaxRows
    <3>1. disk[p] \in Files
      BY <1>0 DEF Disks
    <3>2. disk[p].rows \in Seq(1..MaxRows)
      BY <3>1 DEF Files
    <3>3. \A i, j \in 1..Len(disk[p].rows) : i < j => disk[p].rows[i] < disk[p].rows[j]
      BY <1>0, <3>2 DEF Apart
    <3>4. Len(disk[p].rows) <= MaxRows
      BY <3>2, <3>3, IncreasingIsShort, FeedBridgeAssumption
    <3> QED
      BY <3>1, <3>2, <3>4, FeedBridgeAssumption DEF Files
  <2> QED
    BY <1>1, <2>1, NothingAssumption DEF Cursors
<1>3. c = [cursors EXCEPT ![p] = x]
  BY <1>1
<1>4. c \in Memory /\ c[p] = x /\ \A q \in Paths : q # p => c[q] = cursors[q]
  BY <1>0, <1>2, <1>3 DEF Memory
<1>5. ASSUME NEW q \in Paths, cursors[q] # Nothing, cursors[q].ino = disk[p].ino PROVE q = p
  <2>1. Covers(disk, cursors, p, q)
    BY <1>0, <1>5 DEF CursorsApart
  <2>2. cursors[p] # Nothing
    BY <1>0, <1>5 DEF FeedInv, BridgeShape
  <2> QED
    BY <2>1, <2>2 DEF Covers
<1>6. CursorsApart(disk, newest, c)
  <2>1. \A q, g \in Paths : c[q] # Nothing /\ c[g] # Nothing /\ c[q].ino = c[g].ino => q = g
    BY <1>0, <1>2, <1>4, <1>5 DEF CursorsApart
  <2>2. \A q \in Paths : c[q] # Nothing => c[q].ino <= newest
    BY <1>0, <1>2, <1>4 DEF CursorsApart, Apart
  <2>3. ASSUME NEW q \in Paths, NEW g \in There(disk), c[q] # Nothing, c[q].ino = disk[g].ino
        PROVE  Covers(disk, c, g, q) /\ (~disk[g].cut => c[q].pos <= Len(disk[g].rows))
    <3>1. CASE q = p
      <4>1. g = p
        BY <1>0, <1>2, <1>4, <2>3, <3>1 DEF Apart
      <4>2. Len(disk[p].rows) \in Nat
        BY <1>0, FileIs
      <4> QED
        BY <1>2, <1>4, <2>3, <3>1, <4>1, <4>2 DEF Covers
    <3>2. CASE q # p
      <4>1. cursors[q] # Nothing /\ cursors[q].ino = disk[g].ino
        BY <1>4, <2>3, <3>2
      <4>2. g # p
        BY <1>5, <3>2, <4>1
      <4>3. Covers(disk, cursors, g, q) /\ (~disk[g].cut => cursors[q].pos <= Len(disk[g].rows)) /\ g \in Paths
        BY <1>0, <4>1 DEF CursorsApart, There
      <4> QED
        BY <1>4, <3>2, <4>2, <4>3 DEF Covers
    <3> QED
      BY <3>1, <3>2
  <2> QED
    BY <2>1, <2>2, <2>3 DEF CursorsApart
<1> QED
  BY <1>2, <1>4, <1>5, <1>6 DEF Covers

LEMMA SeqIn ==
  ASSUME NEW E, NEW F, E \subseteq F, NEW s \in Seq(E)
  PROVE  s \in Seq(F)
OBVIOUS

LEMMA SeqIs == ASSUME NEW E, NEW s \in Seq(E) PROVE Range(s) \subseteq E /\ \A i \in DOMAIN s : i \in Nat /\ i >= 1
BY DEF Range

LEMMA ReadKeeps == ASSUME FeedInv, Read PROVE FeedInv'
<1> DEFINE p == Head(todo)
           from == ReadFrom(disk[p], cursors[p])
           lines == SubSeq(disk[p].rows, from + 1, Len(disk[p].rows))
<1>0. /\ TypeOK /\ BridgeShape /\ pc = "up" /\ queue = << >> /\ todo # << >> /\ todo' = Tail(todo) /\ pc' = "save"
      /\ disk' = disk /\ rows' = rows /\ newest' = newest /\ shadowed' = shadowed
      /\ saved' = saved /\ sent' = sent /\ lost' = lost /\ torn' = torn /\ faults' = faults
  BY DEF FeedInv, Read, files
<1>1. /\ disk[p] = Nothing => queue' = << >> /\ cursors' = cursors /\ dropped' = dropped
      /\ disk[p] # Nothing => /\ queue' = Those(lines, {id \in Ids : rows[id].json})
                              /\ dropped' = dropped \cup {id \in Range(lines) : ~rows[id].json}
                              /\ cursors' = [cursors EXCEPT ![p] = [pos |-> Len(disk[p].rows), ino |-> disk[p].ino]]
  BY DEF Read
<1>2. p \in Paths /\ p \in Range(todo) /\ todo' \in Seq(Paths) /\ Range(todo') \subseteq Range(todo)
  BY <1>0, HeadAndRest DEF TypeOK
<1>8. blank' \subseteq Paths
  <2>1. blank' \subseteq blank \cup {p}
    BY DEF Read
  <2> QED
    BY <1>0, <1>2, <2>1 DEF TypeOK
<1> HIDE DEF p, from, lines
<1>3. Ids' = Ids /\ Range(queue) = {} /\ Sending = Range(sent) /\ Apart(disk, rows, newest) /\ disk \in Disks
  BY <1>0, TypesAre DEF Ids, FeedInv, Sending, Range
<1>4. (HasOffset' <=> HasOffset) /\ (HasCursors' <=> HasCursors) /\ ~HasOffset /\ (saved = Nothing => torn)
  BY <1>0 DEF HasOffset, HasCursors, BridgeShape
<1>5. cursors \in Known /\ cursors \in Memory /\ CursorsApart(disk, newest, cursors) /\ Passed(disk, cursors, Behind)
  BY <1>0, TypesAre DEF Known, FeedInv, Cursored
<1>6. CASE disk[p] = Nothing
  <2>1. Behind' = Behind /\ Sending' = Sending /\ queue' = queue /\ cursors' = cursors /\ dropped' = dropped
    BY <1>0, <1>1, <1>6 DEF Behind, Done, Sending
  <2>2. TypeOK'
    BY <1>0, <1>2, <1>3, <1>8, <2>1 DEF TypeOK, Present
  <2>3. BridgeShape'
    BY <1>0, <1>2, <1>4, <2>1 DEF BridgeShape, Present
  <2>4. Cursored'
    <3>1. Known' = Known
      BY <1>0, <2>1 DEF Known
    <3> QED
      BY <1>0, <1>4, <2>1, <3>1, CursoredStays DEF files
  <2>5. ASSUME ~torn PROVE Unsent'
    <3>1. Unsent
      BY <2>5 DEF FeedInv
    <3> QED
      BY <1>0, <1>3, <1>4, <2>1, <2>5, <3>1 DEF Unsent
  <2> QED
    BY <1>0, <1>3, <2>2, <2>3, <2>4, <2>5 DEF FeedInv
<1>7. CASE disk[p] # Nothing
  <2>0. PICK r : r = disk[p].rows
    OBVIOUS
  <2>1. /\ p \in There(disk) /\ p \in Present /\ r \in Seq(Nat) /\ Len(r) \in Nat /\ DOMAIN r = 1..Len(r) /\ Range(r) \subseteq Ids
        /\ \A i \in DOMAIN r : rows[r[i]].ino = disk[p].ino /\ \A j \in DOMAIN r : i < j => r[i] < r[j]
    BY <1>0, <1>2, <1>3, <1>7, <2>0, FileIs DEF There, Present, TypeOK, Apart
  <2>2. /\ cursors' \in Memory /\ CursorsApart(disk, newest, cursors')
        /\ \A q \in Paths : q # p => cursors'[q] = cursors[q]
        /\ cursors'[p].pos = Len(r) /\ cursors'[p].ino = disk[p].ino /\ cursors'[p] # Nothing
        /\ \A q \in Paths : Covers(disk, cursors, p, q) => q = p
    BY <1>1, <1>2, <1>7, <2>0, ReadOn
  <2>3. from \in 0..Len(r)
        /\ (from > 0 => cursors[p] # Nothing /\ cursors[p].ino = disk[p].ino /\ from = cursors[p].pos)
        /\ (cursors[p] # Nothing /\ cursors[p].ino = disk[p].ino /\ cursors[p].pos <= Len(r) => from = cursors[p].pos)
    <3>1. cursors[p] # Nothing => cursors[p].pos \in Nat
      BY <1>2, <1>5, CursorIs
    <3> QED
      BY <2>0, <2>1, <3>1 DEF from, ReadFrom
  <2>4. r \in Seq(Ids)
    BY <2>1 DEF Range
  <2>5. /\ lines \in Seq(Ids) /\ \A i \in DOMAIN lines : from + i \in DOMAIN r /\ lines[i] = r[from + i]
        /\ \A k \in DOMAIN r : from < k => r[k] \in Range(lines)
    BY <2>0, <2>3, <2>4, RestIs DEF lines
  <2>6. lines \in Seq(Nat) /\ \A i, j \in DOMAIN lines : i < j => lines[i] < lines[j]
    <3>1. Ids \in SUBSET Nat
      BY <1>0, TypesAre
    <3>2. lines \in Seq(Nat) /\ \A i \in DOMAIN lines : i \in Nat
      BY <2>5, <3>1, SeqIn, SeqIs
    <3>3. ASSUME NEW i \in DOMAIN lines, NEW j \in DOMAIN lines, i < j PROVE lines[i] < lines[j]
      <4>1. from + i < from + j
        BY <2>3, <3>2, <3>3
      <4> QED
        BY <2>1, <2>5, <4>1
    <3> QED
      BY <3>2, <3>3
  <2>7. /\ queue' \in Seq(Ids) /\ Range(queue') = Range(lines) \cap {id \in Ids : rows[id].json}
        /\ \A i, j \in DOMAIN queue' : i < j => queue'[i] < queue'[j]
    BY <1>1, <1>7, <2>5, <2>6, ThoseIs, ThoseIncrease, SMTT(60)
  <2>8. /\ Range(lines) \subseteq Ids /\ dropped' = dropped \cup {id \in Range(lines) : ~rows[id].json}
        /\ \A x \in Range(lines) : x \in Range(queue') \/ x \in dropped'
    <3>1. Range(lines) \subseteq Ids
      BY <2>5, SeqIs
    <3>2. dropped' = dropped \cup {id \in Range(lines) : ~rows[id].json}
      BY <1>1, <1>7
    <3> QED
      BY <2>7, <3>1, <3>2
  <2>9. \A x \in Range(queue') : \E k \in DOMAIN r : from < k /\ x = r[k]
    <3> TAKE x \in Range(queue')
    <3>1. x \in Range(lines)
      BY <2>7
    <3>2. PICK i \in DOMAIN lines : x = lines[i]
      BY <3>1 DEF Range
    <3>3. from + i \in DOMAIN r /\ x = r[from + i] /\ i \in Nat /\ i >= 1
      BY <2>5, <3>2, SeqIs
    <3>4. from < from + i
      BY <2>3, <3>3
    <3> QED
      BY <3>3, <3>4
  <2>10. \A x \in Range(queue') : rows[x].ino = disk[p].ino
    BY <2>1, <2>9
  <2>11. Behind \subseteq Behind' /\ Range(lines) \subseteq Behind' /\ Sending' = Range(sent) \cup Range(queue')
    BY <1>0, <1>3, <2>8 DEF Behind, Done, Sending
  <2>12. TypeOK'
    BY <1>0, <1>2, <1>3, <1>8, <2>2, <2>7, <2>8 DEF TypeOK, Present
  <2>13. \A g \in There(disk) : g # p => disk[g].ino # disk[p].ino
    BY <1>3, <2>1 DEF Apart
  <2>14. BridgeShape'
    <3>1. \A g \in Range(todo') \cap Present' : cursors'[g] = Nothing =>
            \A q \in Paths : cursors'[q] # Nothing => cursors'[q].ino # disk'[g].ino
      <4> SUFFICES ASSUME NEW g \in Range(todo) \cap Present, cursors'[g] = Nothing, NEW q \in Paths, cursors'[q] # Nothing
                   PROVE  cursors'[q].ino # disk[g].ino
        BY <1>0, <1>2 DEF Present
      <4>1. g # p /\ g \in Paths /\ g \in There(disk) /\ cursors[g] = Nothing
        BY <2>2 DEF Present, There
      <4>2. CASE q = p
        BY <2>2, <2>13, <4>1, <4>2
      <4>3. CASE q # p
        BY <1>0, <2>2, <4>1, <4>3 DEF BridgeShape
      <4> QED
        BY <4>2, <4>3
    <3> QED
      BY <1>0, <1>4, <2>7, <3>1 DEF BridgeShape
  <2>15. Passed(disk, cursors', Behind')
    <3> SUFFICES ASSUME NEW g \in There(disk), NEW q \in Paths, cursors'[q] # Nothing, cursors'[q].ino = disk[g].ino,
                        NEW i \in DOMAIN disk[g].rows, i <= cursors'[q].pos
                 PROVE  disk[g].rows[i] \in Behind'
      BY DEF Passed
    <3>1. CASE q = p
      <4>1. g = p
        BY <2>2, <2>13, <3>1
      <4>2. CASE from < i
        BY <2>0, <2>5, <2>11, <4>1, <4>2
      <4>3. CASE i <= from
        <5>1. i \in Nat /\ i >= 1
          BY <2>0, <2>1, <4>1
        <5>2. cursors[p] # Nothing /\ cursors[p].ino = disk[p].ino /\ i <= cursors[p].pos
          BY <2>3, <4>3, <5>1
        <5>3. disk[p].rows[i] \in Behind
          BY <1>2, <1>5, <4>1, <5>2 DEF Passed
        <5> QED
          BY <2>11, <4>1, <5>3
      <4> QED
        BY <2>0, <2>1, <2>3, <4>1, <4>2, <4>3
    <3>2. CASE q # p
      <4>1. cursors[q] # Nothing /\ cursors[q].ino = disk[g].ino /\ i <= cursors[q].pos
        BY <2>2, <3>2
      <4> QED
        BY <1>5, <2>11, <4>1 DEF Passed
    <3> QED
      BY <3>1, <3>2
  <2>16. Cursored'
    <3>1. \A c \in Known' : c \in Known \/ c = cursors'
      BY <1>0 DEF Known
    <3> QED
      BY <1>0, <1>4, <2>2, <2>11, <2>15, <3>1, CursoredStays DEF files
  <2>17. ASSUME ~torn PROVE Unsent'
    <3>0. Unsent /\ Fresh(disk, rows, cursors, Range(sent))
      BY <1>0, <1>3, <2>17 DEF FeedInv, Unsent
    <3>1. ASSUME NEW i \in DOMAIN sent, NEW j \in DOMAIN queue', rows[sent[i]].ino = rows[queue'[j]].ino
          PROVE  sent[i] < queue'[j]
      <4>1. PICK k \in DOMAIN r : from < k /\ queue'[j] = r[k]
        BY <2>9 DEF Range
      <4>2. rows[sent[i]].ino = disk[p].ino /\ sent[i] \in Range(sent)
        BY <2>1, <3>1, <4>1 DEF Range
      <4>3. CASE Later(disk, rows, p, k, Range(sent))
        BY <2>0, <4>1, <4>2, <4>3 DEF Later
      <4>4. CASE \E q \in Paths : Covers(disk, cursors, p, q) /\ k <= cursors[q].pos /\ cursors[q].pos <= Len(disk[p].rows)
        <5>1. Covers(disk, cursors, p, p) /\ k <= cursors[p].pos /\ cursors[p].pos <= Len(r)
          BY <2>0, <2>2, <4>4
        <5>2. from = cursors[p].pos
          BY <2>3, <5>1 DEF Covers
        <5> QED
          BY <2>1, <2>3, <4>1, <5>1, <5>2
      <4> QED
        BY <2>0, <2>1, <3>0, <4>3, <4>4 DEF Fresh
    <3>2. Fresh(disk, rows, cursors', Sending')
      <4> SUFFICES ASSUME NEW g \in There(disk), NEW i \in DOMAIN disk[g].rows
                   PROVE  \/ Later(disk, rows, g, i, Sending')
                          \/ \E q \in Paths : /\ Covers(disk, cursors', g, q) /\ i <= cursors'[q].pos
                                              /\ cursors'[q].pos <= Len(disk[g].rows)
        BY DEF Fresh
      <4>1. CASE g = p
        <5>1. Covers(disk, cursors', p, p) /\ i <= cursors'[p].pos /\ cursors'[p].pos <= Len(disk[p].rows)
          BY <2>0, <2>1, <2>2, <4>1 DEF Covers
        <5> QED
          BY <1>2, <4>1, <5>1
      <4>2. CASE g # p
        <5>1. Later(disk, rows, g, i, Range(sent)) => Later(disk, rows, g, i, Sending')
          BY <2>10, <2>11, <2>13, <4>2 DEF Later
        <5>2. ASSUME NEW q \in Paths, Covers(disk, cursors, g, q) PROVE Covers(disk, cursors', g, q) /\ cursors'[q] = cursors[q]
          <6>1. q # p /\ g \in Paths
            BY <2>1, <4>2, <5>2 DEF Covers, There
          <6> QED
            BY <2>2, <4>2, <5>2, <6>1 DEF Covers
        <5> QED
          BY <3>0, <5>1, <5>2 DEF Fresh
      <4> QED
        BY <4>1, <4>2
    <3>3. HasCursors => Fresh(disk, rows, saved.cursors, Range(sent))
      BY <1>0, <1>3, <3>0 DEF Unsent
    <3>4. \A i, j \in DOMAIN sent : i < j /\ rows[sent[i]].ino = rows[sent[j]].ino => sent[i] < sent[j]
      BY <3>0 DEF Unsent
    <3> QED
      BY <1>0, <1>4, <2>17, <3>1, <3>2, <3>3, <3>4 DEF Unsent
  <2> QED
    BY <1>0, <1>3, <2>12, <2>14, <2>16, <2>17 DEF FeedInv
<1> QED
  BY <1>6, <1>7

-----------------------------------------------------------------------------
(* The theorems. *)

\* The first state of either kind: no feed, or an older bridge's.
LEMMA InitFeed == ASSUME Init PROVE FeedInv
<1>1. PICK n \in 0..2, done \in 0..2 :
        /\ done <= n /\ n <= MaxRows
        /\ rows = [i \in 1..n |-> [json |-> TRUE, ino |-> 1]]
        /\ newest = IF n = 0 THEN 0 ELSE 1
        /\ disk = IF n = 0 THEN NoFiles
                  ELSE [NoFiles EXCEPT ![Legacy] = [ino |-> 1, rows |-> FirstRows(n), half |-> FALSE, cut |-> FALSE]]
        /\ sent = FirstRows(done)
        /\ saved = IF done = 0 THEN Nothing ELSE [form |-> "offset", pos |-> done]
  BY DEF Init
<1>2. /\ cursors = NoFiles /\ pc = "down" /\ todo = << >> /\ queue = << >>
      /\ dropped = {} /\ lost = {} /\ shadowed = {} /\ torn = FALSE /\ faults = 0 /\ blank = {}
  BY DEF Init
<1>3. MaxRows \in Nat /\ MaxFaults \in Nat /\ Legacy \in Paths
  BY FeedBridgeAssumption DEF Paths
<1>4. PICK k \in Nat \ {0} : Inodes = 1..k /\ Cardinality(Inodes) = k
  BY InodesAre
<1>5. Ids = 1..n /\ rows \in Seq([json : BOOLEAN, ino : Inodes]) /\ Len(rows) = n /\ \A i \in Ids : rows[i].ino = 1
  <2>1. 1 \in Inodes
    BY <1>4
  <2>2. PICK x : x = [json |-> TRUE, ino |-> 1]
    OBVIOUS
  <2>3. x \in [json : BOOLEAN, ino : Inodes] /\ x.ino = 1
    BY <2>1, <2>2
  <2>4. rows = [i \in 1..n |-> x]
    BY <1>1, <2>2
  <2> QED
    BY <2>3, <2>4 DEF Ids
<1>6. sent = [i \in 1..done |-> i] /\ sent \in Seq(Ids) /\ Range(sent) = 1..done /\ Range(<< >>) = {}
  <2>1. sent = [i \in 1..done |-> i]
    BY <1>1 DEF FirstRows
  <2>2. sent \in Seq(Ids)
    BY <1>1, <1>5, <2>1
  <2> QED
    BY <2>1, <2>2 DEF Range
<1>7. NoFiles \in Memory /\ \A p \in Paths : NoFiles[p] = Nothing
  BY DEF NoFiles, Memory
<1>8. PICK f : f = [ino |-> 1, rows |-> FirstRows(n), half |-> FALSE, cut |-> FALSE]
  OBVIOUS
<1>9. f \in Files /\ f.ino = 1 /\ (\A i \in 1..n : f.rows[i] = i) /\ f # Nothing /\ DOMAIN f.rows = 1..n /\ Len(f.rows) = n
      /\ ~f.cut /\ Range(f.rows) = 1..n
  <2>1. PICK r : r = [i \in 1..n |-> i]
    OBVIOUS
  <2>2. r \in Seq(1..MaxRows) /\ DOMAIN r = 1..n /\ Len(r) = n /\ Range(r) = 1..n
    BY <1>1, <1>3, <2>1 DEF Range
  <2>3. f.rows = r /\ f.ino = 1 /\ ~f.cut
    BY <1>8, <2>1 DEF FirstRows
  <2>4. f \in Files
    BY <1>4, <1>8, <2>1, <2>2 DEF FirstRows, Files
  <2> QED
    BY <2>1, <2>2, <2>3, <2>4, NothingAssumption
<1>10. \A p \in Paths : disk[p] = IF n # 0 /\ p = Legacy THEN f ELSE Nothing
  BY <1>1, <1>3, <1>8 DEF NoFiles
<1>11. disk \in Disks
  <2>1. disk = [p \in Paths |-> IF n # 0 /\ p = Legacy THEN f ELSE Nothing]
    BY <1>1, <1>3, <1>8 DEF NoFiles
  <2> QED
    BY <1>9, <2>1 DEF Disks
<1>12. /\ \A p \in There(disk) : n # 0 /\ p = Legacy /\ disk[p] = f
       /\ There(disk) = Present
  BY <1>10 DEF There, Present
<1>13. saved \in States \cup {Nothing}
  BY <1>1, <1>3 DEF States
<1>14. TypeOK
  <2>1. newest \in 0..Cardinality(Inodes)
    BY <1>1, <1>4
  <2>2. \A p \in Present : Range(disk[p].rows) \subseteq Ids
    <3>1. \A p \in Present : disk[p] = f
      BY <1>12
    <3> QED
      BY <1>5, <1>9, <3>1
  <2>3. torn \in BOOLEAN /\ faults \in 0..MaxFaults
    <3>1. torn \in BOOLEAN
      BY Zenon DEF Init
    <3> QED
      BY <1>2, <1>3, <3>1
  <2>4. queue \in Seq(Ids) /\ todo \in Seq(Paths)
    BY <1>2
  <2>5. disk \in [Paths -> Files \cup {Nothing}]
    BY <1>11 DEF Disks
  <2> QED
    BY <1>1, <1>2, <1>5, <1>6, <1>7, <1>13, <2>1, <2>2, <2>3, <2>4, <2>5 DEF TypeOK
<1>15. Apart(disk, rows, newest)
  <2>1. \A p \in There(disk) : disk[p].ino = 1 /\ DOMAIN disk[p].rows = 1..n /\ \A i \in 1..n : disk[p].rows[i] = i
    BY <1>9, <1>12
  <2>2. \A p \in There(disk) : disk[p].ino <= newest
    <3>1. n # 0 => newest = 1
      BY <1>1
    <3> QED
      BY <1>12, <2>1, <3>1
  <2>3. \A p, q \in There(disk) : disk[p].ino = disk[q].ino => p = q
    BY <1>12
  <2>4. \A p \in There(disk) : \A i \in DOMAIN disk[p].rows :
          /\ rows[disk[p].rows[i]].ino = disk[p].ino
          /\ \A j \in DOMAIN disk[p].rows : i < j => disk[p].rows[i] < disk[p].rows[j]
    <3> TAKE p \in There(disk)
    <3>1. DOMAIN disk[p].rows = 1..n /\ disk[p].ino = 1 /\ \A i \in 1..n : disk[p].rows[i] = i
      BY <2>1
    <3> QED
      BY <1>5, <3>1
  <2> QED
    BY <2>2, <2>3, <2>4 DEF Apart
<1>16. ~HasCursors /\ (HasOffset => saved.pos = done /\ done > 0) /\ (saved = Nothing => done = 0)
  <2>1. CASE done = 0
    BY <1>1, <2>1 DEF HasCursors, HasOffset
  <2>2. CASE done # 0
    <3>1. saved \in States /\ saved.form = "offset" /\ saved.pos = done
      BY <1>1, <1>3, <2>2 DEF States
    <3> QED
      BY <2>2, <3>1, NothingAssumption DEF HasCursors, HasOffset
  <2> QED
    BY <2>1, <2>2
<1>17. BridgeShape
  BY <1>2, <1>6, <1>16 DEF BridgeShape
<1>18. Cursored
  <2>1. \A c \in Known : c = NoFiles
    BY <1>2, <1>16 DEF Known, HasCursors
  <2>2. HasOffset => OffsetPassed(disk, saved.pos, Behind)
    BY <1>6, <1>9, <1>12, <1>16 DEF OffsetPassed, Behind, Done
  <2> QED
    BY <2>1, <2>2, NoCursors DEF Cursored
<1>19. Unsent
  <2>1. HasOffset => OffsetFresh(disk, rows, saved.pos, Range(sent))
    <3> SUFFICES ASSUME HasOffset, NEW p \in There(disk), NEW i \in DOMAIN disk[p].rows
                 PROVE  Later(disk, rows, p, i, Range(sent)) \/ (p \in Old /\ i <= done /\ done <= Len(disk[p].rows))
      BY <1>16 DEF OffsetFresh
    <3>1. p = Legacy /\ i \in 1..n /\ disk[p].rows[i] = i /\ Len(disk[p].rows) = n
      BY <1>9, <1>12
    <3>2. CASE i <= done
      BY <1>1, <3>1, <3>2 DEF Old
    <3>3. CASE i > done
      BY <1>6, <3>1, <3>3 DEF Later
    <3> QED
      BY <3>1, <3>2, <3>3
  <2>2. saved = Nothing => sent = << >>
    BY <1>6, <1>16
  <2>3. \A i, j \in DOMAIN sent : i < j => sent[i] < sent[j]
    BY <1>6
  <2> QED
    BY <1>2, <1>16, <2>1, <2>2, <2>3 DEF Unsent
<1> QED
  BY <1>14, <1>15, <1>17, <1>18, <1>19 DEF FeedInv

LEMMA RestKeeps == ASSUME FeedInv, UNCHANGED vars PROVE FeedInv'
<1>1. UNCHANGED <<disk, rows, newest, shadowed, saved, cursors, blank, pc, todo, queue, sent, dropped, lost, torn, faults>>
  BY DEF vars, files, bridge, history
<1>2. Ids' = Ids /\ Behind' = Behind /\ Sending' = Sending /\ Known' = Known /\ Present' = Present
      /\ (HasOffset' <=> HasOffset) /\ (HasCursors' <=> HasCursors)
  BY <1>1 DEF Ids, Behind, Done, Sending, Known, Present, HasOffset, HasCursors
<1>3. TypeOK'
  BY <1>1, <1>2 DEF FeedInv, TypeOK
<1>4. BridgeShape' /\ Apart(disk', rows', newest')
  BY <1>1, <1>2 DEF FeedInv, BridgeShape
<1>5. Cursored'
  BY <1>1, <1>2 DEF FeedInv, Cursored
<1>6. torn' \/ Unsent'
  BY <1>1, <1>2 DEF FeedInv, Unsent
<1> QED
  BY <1>3, <1>4, <1>5, <1>6 DEF FeedInv

\* Every step of the writers, the operator and the bridge keeps what the
\* bridge and its state file know of the files.
LEMMA NextFeed == ASSUME FeedInv, [Next]_vars PROVE FeedInv'
<1>1. ASSUME NEW p \in Paths, WriteHalf(p) PROVE FeedInv'
  BY <1>1, WriteHalfKeeps
<1>2. ASSUME NEW p \in Paths, FinishLine(p) PROVE FeedInv'
  BY <1>2, FinishLineKeeps
<1>3. ASSUME NEW p \in Paths, RotatedAway(p) PROVE FeedInv'
  BY <1>3, RotatedAwayKeeps
<1>4. ASSUME NEW p \in Paths, CutShort(p) PROVE FeedInv'
  BY <1>4, CutShortKeeps
<1>5. CASE DeployMoves
  BY <1>5, DeployMovesKeeps
<1>6. CASE Work
  BY <1>6, StartKeeps, SaveKeeps, TickKeeps, ReadKeeps, SendRowKeeps, SendFailsKeeps DEF Work
<1>7. CASE SaveFails
  BY <1>7, SaveFailsKeeps
<1>8. CASE Crash
  BY <1>8, CrashKeeps
<1>9. CASE UNCHANGED vars
  BY <1>9, RestKeeps
<1> QED
  BY <1>1, <1>2, <1>3, <1>4, <1>5, <1>6, <1>7, <1>8, <1>9 DEF Next

\* What the bridge knows of the files, in memory and in its state file, is so
\* in every state: the inductive invariant (telegram_bridge.mjs, run).
THEOREM FeedHolds == Spec => []FeedInv
<1>1. Init => FeedInv
  BY InitFeed
<1>2. FeedInv /\ [Next]_vars => FeedInv'
  BY NextFeed
<1> QED
  BY <1>1, <1>2, PTL DEF Spec

\* Files, cursors, queue and history keep their types (telegram_bridge.mjs,
\* the state run() keeps).
THEOREM FeedTypes == Spec => []TypeOK
<1>1. FeedInv => TypeOK
  BY DEF FeedInv
<1> QED
  BY <1>1, FeedHolds, PTL

\* Unless a state file was left unreadable, the rows of one file go out once
\* and in order, through crashes, failed saves, moves and the old offset.
THEOREM OnceInOrderHolds == Spec => []SentOnceInOrder
<1>1. FeedInv => SentOnceInOrder
  BY DEF FeedInv, Unsent, SentOnceInOrder
<1> QED
  BY <1>1, FeedHolds, PTL

\* A row behind the cursor of its file was sent, is about to be, was dropped or
\* lost on the way, or was written behind the cursor.
THEOREM SkippedHolds == Spec => []NothingSkipped
<1>1. ASSUME FeedInv PROVE NothingSkipped
  <2> SUFFICES ASSUME NEW p \in Present, cursors[p] # Nothing, cursors[p].ino = disk[p].ino,
                      NEW i \in 1..Len(disk[p].rows), i <= cursors[p].pos
               PROVE  disk[p].rows[i] \in Behind
    BY DEF NothingSkipped, Behind
  <2>1. disk \in Disks /\ p \in There(disk) /\ p \in Paths /\ cursors \in Known
    BY <1>1, TypesAre DEF FeedInv, Present, Known
  <2>2. i \in DOMAIN disk[p].rows
    BY <2>1, FileIs
  <2> QED
    BY <1>1, <2>1, <2>2 DEF FeedInv, Cursored, Passed
<1>2. FeedInv => NothingSkipped
  BY <1>1
<1> QED
  BY <1>2, FeedHolds, PTL
=============================================================================
