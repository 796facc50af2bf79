------------------------ MODULE WalletClaims_proofs ------------------------
(***************************************************************************)
(* Proofs about WalletClaims, for every set of profiles, every amount and  *)
(* every number of writes and slots: its types, and that a claim moves     *)
(* only by what its claimant's transactions moved.                         *)
(***************************************************************************)
EXTENDS WalletClaims, FiniteSetTheorems, TLAPS

-----------------------------------------------------------------------------
(* The sum of a function over a finite set (SumFunctionOnSet).  It is      *)
(* defined by recursion over the subsets, and the library's induction      *)
(* theorems take an operator, which no prover here instantiates: induction *)
(* is replaced by the well-founded order of the finite subsets and its     *)
(* minimal elements (WFMin).                                               *)

\* Every non-empty set of naturals has a least element.
LEMMA Least ==
  ASSUME NEW N \in SUBSET Nat, N # {}
  PROVE  \E m \in N : \A n \in N : m <= n
<1> DEFINE below(n) == 0 .. n - 1
           T == {below(n) : n \in N}
<1>1. \A n \in N : IsFiniteSet(below(n)) /\ below(n) \in SUBSET Nat
  BY FS_Interval
<1>2. T \subseteq FiniteSubsetsOf(Nat) /\ T # {}
  BY <1>1 DEF FiniteSubsetsOf
<1>3. PICK x \in T : \A y \in T : ~(<<y, x>> \in StrictSubsetOrdering(Nat))
  <2> HIDE DEF T
  <2> QED BY <1>2, FS_StrictSubsetOrderingWellFounded, WFMin
<1>4. PICK m \in N : x = below(m)
  OBVIOUS
<1>5. ASSUME NEW n \in N, n < m PROVE FALSE
  <2>1. below(n) \subseteq below(m) /\ n \in below(m) /\ n \notin below(n)
    BY <1>5
  <2>2. <<below(n), below(m)>> \in StrictSubsetOrdering(Nat)
    BY <1>1, <2>1, <1>5 DEF StrictSubsetOrdering
  <2> QED
    BY <1>3, <1>4, <2>2
<1> QED
  BY <1>5

\* Induction over the naturals, for a set in place of a predicate.
LEMMA Natural ==
  ASSUME NEW N \in SUBSET Nat, 0 \in N, \A n \in N : n + 1 \in N
  PROVE  N = Nat
<1>1. SUFFICES ASSUME Nat \ N # {} PROVE FALSE
  OBVIOUS
<1>2. PICK m \in Nat \ N : \A n \in Nat \ N : m <= n
  <2> DEFINE R == Nat \ N
  <2>1. R \in SUBSET Nat /\ R # {} BY <1>1
  <2> HIDE DEF R
  <2>2. \E m \in R : \A n \in R : m <= n BY <2>1, Least
  <2> QED BY <2>2 DEF R
<1>3. m # 0 /\ m - 1 \in Nat
  BY <1>2
<1>4. m - 1 \in Nat \ N
  BY <1>2, <1>3
<1> QED
  BY <1>2, <1>4

\* g is the recursion behind the sum of f, on every subset of S.
IsSum(g, f, S) ==
  g = [s \in SUBSET S |-> IF s = {} THEN 0 ELSE f[CHOOSE x \in s : TRUE] + g[s \ {CHOOSE x \in s : TRUE}]]

\* Of any subsets of a finite set, one contains none of the others.
LEMMA SmallestSet ==
  ASSUME NEW S, IsFiniteSet(S), NEW T, T \subseteq SUBSET S, T # {}
  PROVE  \E s \in T : \A t \in T : t \subseteq s => t = s
<1>1. T \subseteq FiniteSubsetsOf(S)
  BY FS_FiniteSubsetsOfFinite
<1>2. PICK s \in T : \A t \in T : ~(<<t, s>> \in StrictSubsetOrdering(S))
  BY <1>1, FS_StrictSubsetOrderingWellFounded, WFMin
<1> QED
  BY <1>2 DEF StrictSubsetOrdering

\* The recursion of the sum has a solution on every finite set.
LEMMA SumExists ==
  ASSUME NEW S, IsFiniteSet(S), NEW f
  PROVE  \E g : IsSum(g, f, S)
<1> DEFINE c(s) == CHOOSE x \in s : TRUE
           Upto(n) == {s \in SUBSET S : Cardinality(s) <= n}
           Sum(g, n) == g = [s \in Upto(n) |-> IF s = {} THEN 0 ELSE f[c(s)] + g[s \ {c(s)}]]
           N == {n \in Nat : \E g : Sum(g, n)}
<1>1. \A s \in SUBSET S : s # {} => /\ c(s) \in s /\ s \ {c(s)} \in SUBSET S
                                   /\ Cardinality(s) \in Nat \ {0}
                                   /\ Cardinality(s \ {c(s)}) = Cardinality(s) - 1
  <2> TAKE s \in SUBSET S
  <2> HAVE s # {}
  <2>1. c(s) \in s
    OBVIOUS
  <2>2. IsFiniteSet(s)
    BY FS_Subset
  <2> HIDE DEF c
  <2> QED
    BY <2>1, <2>2, FS_RemoveElement, FS_CardinalityType, FS_EmptySet
<1>2. \A s \in SUBSET S : Cardinality(s) \in Nat /\ (Cardinality(s) = 0 <=> s = {})
  BY FS_Subset, FS_CardinalityType, FS_EmptySet
<1> HIDE DEF c
<1>3. 0 \in N
  <2>1. Upto(0) = {{}}
    BY <1>2
  <2>2. Sum([s \in Upto(0) |-> 0], 0)
    BY <2>1
  <2> QED
    BY <2>2
<1>4. ASSUME NEW n \in N PROVE n + 1 \in N
  <2>1. PICK g : Sum(g, n)
    OBVIOUS
  <2> DEFINE h == [s \in Upto(n + 1) |-> IF s = {} THEN 0 ELSE f[c(s)] + g[s \ {c(s)}]]
  <2>2. ASSUME NEW s \in Upto(n) PROVE s \in Upto(n + 1) /\ h[s] = g[s]
    <3>1. s \in Upto(n + 1)
      BY <1>2
    <3>2. g[s] = IF s = {} THEN 0 ELSE f[c(s)] + g[s \ {c(s)}]
      BY <2>1
    <3> QED
      BY <3>1, <3>2
  <2>3. ASSUME NEW s \in Upto(n + 1), s # {} PROVE s \ {c(s)} \in Upto(n)
    BY <1>1, <2>3
  <2>4. Sum(h, n + 1)
    <3> HIDE DEF Upto
    <3>1. ASSUME NEW s \in Upto(n + 1), s # {} PROVE h[s \ {c(s)}] = g[s \ {c(s)}]
      BY <2>2, <2>3, <3>1
    <3> QED
      BY <3>1
  <2> HIDE DEF Sum
  <2> QED
    BY <2>4
<1>5. N = Nat
  <2> HIDE DEF N
  <2>1. N \in SUBSET Nat
    BY DEF N
  <2> QED
    BY <1>3, <1>4, <2>1, Natural
<1>6. Cardinality(S) \in Nat /\ Upto(Cardinality(S)) = SUBSET S
  BY FS_Subset, FS_CardinalityType
<1>7. PICK g : Sum(g, Cardinality(S))
  BY <1>5, <1>6
<1> QED
  BY <1>6, <1>7 DEF IsSum, c

\* The sum of f over S is the value of such a solution.
LEMMA SumIs ==
  ASSUME NEW S, IsFiniteSet(S), NEW f
  PROVE  \E g : IsSum(g, f, S) /\ SumFunctionOnSet(f, S) = g[S]
<1> DEFINE g == CHOOSE g : IsSum(g, f, S)
<1>1. IsSum(g, f, S)
  BY SumExists
<1>2. SumFunctionOnSet(f, S) = g[S]
  BY DEF SumFunctionOnSet, FoldFunctionOnSet, MapThenFoldSet, IsSum
<1> QED
  BY <1>1, <1>2

\* f and e alike on T, part of S.
LEMMA SumUnique ==
  ASSUME NEW S, IsFiniteSet(S), NEW f, NEW g, IsSum(g, f, S),
         NEW T \in SUBSET S, NEW e, NEW h, IsSum(h, e, T), \A x \in T : f[x] = e[x]
  PROVE  \A s \in SUBSET T : g[s] = h[s]
<1> DEFINE c(s) == CHOOSE x \in s : TRUE
           Bad == {s \in SUBSET T : g[s] # h[s]}
<1>1. SUFFICES ASSUME Bad # {} PROVE FALSE
  OBVIOUS
<1>2. IsFiniteSet(T)
  BY FS_Subset
<1>3. PICK s \in Bad : \A t \in Bad : t \subseteq s => t = s
  <2>1. Bad \subseteq SUBSET T
    OBVIOUS
  <2> HIDE DEF Bad
  <2> QED
    BY <1>1, <1>2, <2>1, SmallestSet
<1>4. s # {}
  BY <1>3 DEF IsSum
<1>5. c(s) \in s /\ s \ {c(s)} \subseteq s /\ s \ {c(s)} # s
  BY <1>4
<1>6. g[s] = f[c(s)] + g[s \ {c(s)}] /\ h[s] = e[c(s)] + h[s \ {c(s)}]
  BY <1>4 DEF IsSum
<1> HIDE DEF c
<1>7. s \ {c(s)} \notin Bad
  BY <1>3, <1>5
<1> QED
  BY <1>3, <1>5, <1>6, <1>7

\* The empty sum.
LEMMA SumEmpty == ASSUME NEW f PROVE SumFunctionOnSet(f, {}) = 0
BY SumIs, FS_EmptySet DEF IsSum

\* A sum depends on the summands alone.
LEMMA SumSame ==
  ASSUME NEW S, IsFiniteSet(S), NEW f, NEW e, \A x \in S : f[x] = e[x]
  PROVE  SumFunctionOnSet(f, S) = SumFunctionOnSet(e, S)
<1>1. PICK g : IsSum(g, f, S) /\ SumFunctionOnSet(f, S) = g[S]
  BY SumIs
<1>2. PICK h : IsSum(h, e, S) /\ SumFunctionOnSet(e, S) = h[S]
  BY SumIs
<1> QED
  BY <1>1, <1>2, SumUnique

\* The recursion of the sum itself.
LEMMA SumChosen ==
  ASSUME NEW S, IsFiniteSet(S), S # {}, NEW f
  PROVE  \E x \in S : SumFunctionOnSet(f, S) = f[x] + SumFunctionOnSet(f, S \ {x})
<1> DEFINE x == CHOOSE x \in S : TRUE
<1>1. PICK g : IsSum(g, f, S) /\ SumFunctionOnSet(f, S) = g[S]
  BY SumIs
<1>2. x \in S /\ g[S] = f[x] + g[S \ {x}]
  BY <1>1 DEF IsSum
<1> HIDE DEF x
<1>3. IsFiniteSet(S \ {x}) /\ S \ {x} \in SUBSET S
  BY FS_Subset
<1>4. PICK h : IsSum(h, f, S \ {x}) /\ SumFunctionOnSet(f, S \ {x}) = h[S \ {x}]
  BY <1>3, SumIs
<1>5. g[S \ {x}] = h[S \ {x}]
  BY <1>1, <1>3, <1>4, SumUnique
<1> QED
  BY <1>1, <1>2, <1>4, <1>5

\* A sum of integers is an integer.
LEMMA SumInt ==
  ASSUME NEW S, IsFiniteSet(S), NEW f, \A x \in S : f[x] \in Int
  PROVE  SumFunctionOnSet(f, S) \in Int
<1> DEFINE Bad == {s \in SUBSET S : SumFunctionOnSet(f, s) \notin Int}
<1>1. SUFFICES ASSUME Bad # {} PROVE FALSE
  OBVIOUS
<1>2. PICK s \in Bad : \A t \in Bad : t \subseteq s => t = s
  <2>1. Bad \subseteq SUBSET S
    OBVIOUS
  <2> HIDE DEF Bad
  <2> QED
    BY <1>1, <2>1, SmallestSet
<1>3. IsFiniteSet(s) /\ s # {}
  <2>1. IsFiniteSet(s)
    BY FS_Subset
  <2>2. SumFunctionOnSet(f, {}) \in Int
    BY SumEmpty
  <2> QED
    BY <2>1, <2>2
<1>4. PICK x \in s : SumFunctionOnSet(f, s) = f[x] + SumFunctionOnSet(f, s \ {x})
  BY <1>3, SumChosen
<1>5. s \ {x} \notin Bad
  BY <1>2
<1> QED
  BY <1>4, <1>5

\* Any of the summands may be taken out.
LEMMA SumSplits ==
  ASSUME NEW S, IsFiniteSet(S), NEW f, \A x \in S : f[x] \in Int, NEW z \in S
  PROVE  SumFunctionOnSet(f, S) = f[z] + SumFunctionOnSet(f, S \ {z})
<1> DEFINE Total(s) == SumFunctionOnSet(f, s)
           Bad == {s \in SUBSET S : \E y \in s : Total(s) # f[y] + Total(s \ {y})}
<1>1. SUFFICES ASSUME Bad # {} PROVE FALSE
  OBVIOUS
<1>2. PICK s \in Bad : \A t \in Bad : t \subseteq s => t = s
  <2>1. Bad \subseteq SUBSET S
    OBVIOUS
  <2> HIDE DEF Bad
  <2> QED
    BY <1>1, <2>1, SmallestSet
<1>3. PICK y \in s : Total(s) # f[y] + Total(s \ {y})
  OBVIOUS
<1>4. \A t \in SUBSET S : IsFiniteSet(t) /\ Total(t) \in Int
  <2> TAKE t \in SUBSET S
  <2>1. IsFiniteSet(t)
    BY FS_Subset
  <2> QED
    BY <2>1, SumInt
<1>5. PICK x \in s : Total(s) = f[x] + Total(s \ {x})
  BY <1>3, <1>4, SumChosen
<1> HIDE DEF Total
<1>6. x # y
  BY <1>3, <1>5
<1>7. s \ {x} \notin Bad /\ s \ {y} \notin Bad
  BY <1>2, <1>3
<1>8. Total(s \ {x}) = f[y] + Total((s \ {x}) \ {y}) /\ Total(s \ {y}) = f[x] + Total((s \ {x}) \ {y})
  <2>1. (s \ {x}) \ {y} = (s \ {y}) \ {x}
    OBVIOUS
  <2> QED
    BY <1>3, <1>6, <1>7, <2>1
<1>9. /\ f[x] \in Int /\ f[y] \in Int /\ Total(s) \in Int /\ Total((s \ {x}) \ {y}) \in Int
       /\ Total(s \ {x}) \in Int /\ Total(s \ {y}) \in Int
  BY <1>4
<1>10. f[x] + (f[y] + Total((s \ {x}) \ {y})) = f[y] + (f[x] + Total((s \ {x}) \ {y}))
  BY <1>9
<1> QED
  BY <1>3, <1>5, <1>8, <1>10, Zenon

\* A sum of naturals is a natural.
LEMMA SumNat ==
  ASSUME NEW S, IsFiniteSet(S), NEW f, \A x \in S : f[x] \in Nat
  PROVE  SumFunctionOnSet(f, S) \in Nat
<1> DEFINE Bad == {s \in SUBSET S : SumFunctionOnSet(f, s) \notin Nat}
<1>1. SUFFICES ASSUME Bad # {} PROVE FALSE
  OBVIOUS
<1>2. PICK s \in Bad : \A t \in Bad : t \subseteq s => t = s
  <2>1. Bad \subseteq SUBSET S
    OBVIOUS
  <2> HIDE DEF Bad
  <2> QED
    BY <1>1, <2>1, SmallestSet
<1>3. IsFiniteSet(s) /\ s # {}
  <2>1. IsFiniteSet(s)
    BY FS_Subset
  <2>2. SumFunctionOnSet(f, {}) \in Nat
    BY SumEmpty
  <2> QED
    BY <2>1, <2>2
<1>4. PICK x \in s : SumFunctionOnSet(f, s) = f[x] + SumFunctionOnSet(f, s \ {x})
  BY <1>3, SumChosen
<1>5. s \ {x} \notin Bad
  BY <1>2
<1> QED
  BY <1>4, <1>5

\* When one value moves by d, the sum does.
LEMMA SumMoves ==
  ASSUME NEW S, IsFiniteSet(S), NEW z \in S, NEW f, NEW e,
         \A x \in S : f[x] \in Int /\ e[x] \in Int,
         \A x \in S \ {z} : e[x] = f[x]
  PROVE  SumFunctionOnSet(e, S) = SumFunctionOnSet(f, S) + (e[z] - f[z])
<1>1. IsFiniteSet(S \ {z})
  BY FS_Subset
<1>2. SumFunctionOnSet(e, S \ {z}) = SumFunctionOnSet(f, S \ {z})
  BY <1>1, SumSame
<1>3. SumFunctionOnSet(f, S \ {z}) \in Int
  BY <1>1, SumInt
<1>4. /\ SumFunctionOnSet(f, S) = f[z] + SumFunctionOnSet(f, S \ {z})
      /\ SumFunctionOnSet(e, S) = e[z] + SumFunctionOnSet(e, S \ {z})
  BY SumSplits
<1> QED
  BY <1>2, <1>3, <1>4

-----------------------------------------------------------------------------
(* The claims.                                                             *)

USE DEF NoTx, Txs, Slots, Claimers

\* The larger of two integers.
LEMMA LargerFacts ==
  ASSUME NEW a \in Int, NEW b \in Int
  PROVE  /\ Larger(a, b) \in {a, b}
         /\ Larger(a, b) >= a
         /\ Larger(a, b) >= b
BY DEF Larger

\* The null pending write is well typed.
LEMMA NoWriteType ==
  TypeOK => NoWrite \in [by : Profiles \cup {NoOne}, before : Int, slot : 0 .. head, tx : Txs \cup {NoTx}]
BY BoundsAssumption DEF TypeOK, NoWrite

-----------------------------------------------------------------------------
(* Types                                                                   *)

\* The fields of the pending write.
LEMMA PendingType ==
  ASSUME TypeOK
  PROVE  /\ pending.by \in Profiles \cup {NoOne}
         /\ pending.before \in Int
         /\ pending.slot \in 0 .. head
         /\ pending.tx \in Txs \cup {NoTx}
BY DEF TypeOK

\* The slots the chain may report are slots.
LEMMA ReportedType ==
  ASSUME TypeOK, NEW at \in ReportedSlots
  PROVE  Need(at) \in 0 .. head
<1>1. at \in 0 .. head
  BY BoundsAssumption, SMTT(60) DEF ReportedSlots, TypeOK
<1> QED
  BY <1>1, BoundsAssumption DEF Need, Larger, TypeOK

\* Booking keeps the database well typed.
LEMMA BookType ==
  ASSUME TypeOK, Book
  PROVE  /\ claims' \in [Profiles -> Nat]
         /\ overdrawn' \in [Profiles -> Int]
         /\ settled' \in 0 .. head
         /\ aged' \in BOOLEAN
         /\ pending' = NoWrite
<1>1. PICK at \in ReportedSlots :
        IF pending.by = Residual THEN BookNothing(Need(at))
        ELSE \E s \in Larger(Need(at), floor) .. head : BookAt(s)
  BY DEF Book
<1>2. Need(at) \in 0 .. head
  BY ReportedType
<1>3. CASE BookNothing(Need(at))
  BY <1>2, <1>3, BoundsAssumption DEF BookNothing, Book, TypeOK, Larger
<1>4. ASSUME NEW s \in Larger(Need(at), floor) .. head, BookAt(s)
      PROVE  /\ claims' \in [Profiles -> Nat]
             /\ overdrawn' \in [Profiles -> Int]
             /\ settled' \in 0 .. head
  <2>1. s \in 0 .. head /\ s \in Slots
    BY <1>2, BoundsAssumption DEF TypeOK, Larger
  <2>2. bal[s] - pending.before \in Int
    <3>1. bal \in [Slots -> Int]
      BY DEF TypeOK
    <3>2. bal[s] \in Int
      BY <2>1, <3>1
    <3> QED
      BY <3>2, PendingType
  <2> DEFINE new == ClaimAfter(claims[pending.by], bal[s] - pending.before)
  <2>3. pending.by \in Profiles => new \in Nat
    <3>1. pending.by \in Profiles => claims[pending.by] \in Nat
      BY DEF TypeOK
    <3> QED
      BY <2>2, <3>1 DEF ClaimAfter
  <2>4. claims' = [claims EXCEPT ![pending.by] = new]
    BY <1>4 DEF BookAt
  <2>5. claims' \in [Profiles -> Nat]
    BY <2>3, <2>4 DEF TypeOK
  <2>6. overdrawn' = [overdrawn EXCEPT ![pending.by] = @ + new - (claims[pending.by] + (bal[s] - pending.before))]
    BY <1>4 DEF BookAt
  <2> HIDE DEF new
  <2>7. overdrawn' \in [Profiles -> Int]
    <3>1. ASSUME NEW p \in Profiles, p = pending.by
          PROVE  overdrawn[p] + new - (claims[p] + (bal[s] - pending.before)) \in Int
      <4>1. overdrawn[p] \in Int /\ claims[p] \in Int
        BY DEF TypeOK
      <4>2. new \in Int
        BY <2>3, <3>1
      <4> QED
        BY <2>2, <4>1, <4>2
    <3> QED
      BY <2>6, <3>1 DEF TypeOK
  <2>8. settled' \in 0 .. head
    BY <1>4, <2>1, BoundsAssumption DEF BookAt, TypeOK, Larger
  <2> QED
    BY <2>5, <2>7, <2>8
<1> QED
  BY <1>1, <1>3, <1>4 DEF Book

\* At first all is well typed.
LEMMA InitTyped == Init => TypeOK
<1> SUFFICES ASSUME Init PROVE TypeOK
  OBVIOUS
<1>1. 0 \in Slots
  BY BoundsAssumption
<1>2. bal \in [Slots -> Int] /\ outside \in [Slots -> Int]
  <2>1. SumFunction(InitFunds) \in Int
    <3>1. DOMAIN InitFunds = Profiles /\ \A p \in Profiles : InitFunds[p] \in Int
      BY AmountsAssumption
    <3>2. SumFunctionOnSet(InitFunds, Profiles) \in Int
      BY <3>1, SumInt, ProfilesAssumption
    <3> QED
      BY <3>1, <3>2 DEF SumFunction
  <2> QED
    BY <2>1 DEF Init
<1>3. pending \in [by : Profiles \cup {NoOne}, before : Int, slot : 0 .. head, tx : Txs \cup {NoTx}]
  BY <1>1, BoundsAssumption DEF Init, NoWrite
<1>4. txs \in [Txs -> [by : Profiles \cup {NoOne}, delta : Int,
                       state : {"unsent", "flying", "landed", "failed", "dead"}, slot : 0 .. head]]
  BY DEF Init
<1>5. claims \in [Profiles -> Nat] /\ own \in [Profiles -> Int] /\ overdrawn \in [Profiles -> Int]
  BY AmountsAssumption DEF Init
<1>6. job \in [Profiles -> [delta : Int, tx : Txs \cup {NoTx}]]
  BY DEF Init, NoJob
<1>7. pc \in [Profiles -> States]
  BY DEF Init, States
<1>8. head \in Slots /\ floor \in 0 .. head /\ settled \in 0 .. head /\ sent \in 0 .. MaxWrites
  BY <1>1, BoundsAssumption DEF Init
<1>9. lock \in Profiles \cup {NoOne} /\ aged \in BOOLEAN
  BY DEF Init
<1> QED
  BY <1>2, <1>3, <1>4, <1>5, <1>6, <1>7, <1>8, <1>9 DEF TypeOK

\* A process that goes back to its poll, or on to another step.
LEMMA MovesTyped ==
  ASSUME TypeOK, NEW p \in Profiles
  PROVE  /\ Forget(p) => /\ pc' \in [Profiles -> States]
                         /\ job' \in [Profiles -> [delta : Int, tx : Txs \cup {NoTx}]]
         /\ \A from, to : to \in States /\ GoTo(p, from, to) => pc' \in [Profiles -> States]
         /\ Release(p) => lock' \in Profiles \cup {NoOne}
<1>1. "idle" \in States
  BY DEF States
<1>2. NoJob \in [delta : Int, tx : Txs \cup {NoTx}]
  BY DEF NoJob
<1>3. ASSUME Forget(p)
      PROVE  /\ pc' \in [Profiles -> States]
             /\ job' \in [Profiles -> [delta : Int, tx : Txs \cup {NoTx}]]
  <2>1. pc' = [pc EXCEPT ![p] = "idle"] /\ job' = [job EXCEPT ![p] = NoJob]
    BY <1>3 DEF Forget
  <2> QED
    BY <1>1, <1>2, <2>1 DEF TypeOK
<1>4. ASSUME NEW from, NEW to, to \in States, GoTo(p, from, to)
      PROVE  pc' \in [Profiles -> States]
  BY <1>4 DEF GoTo, TypeOK
<1>5. Release(p) => lock' \in Profiles \cup {NoOne}
  BY DEF Release, TypeOK
<1> QED
  BY <1>3, <1>4, <1>5

\* A read keeps the types.
LEMMA LookTyped ==
  ASSUME TypeOK, NEW p \in Profiles, Look(p) \/ Size(p) \/ Rest(p)
  PROVE  TypeOK'
<1> USE MovesTyped
<1>1. CASE Look(p)
  <2>1. pc' \in [Profiles -> States]
    BY <1>1 DEF Look, MarkBefore, ReadBalance, ReadClaims, MarkAfter, States
  <2> QED
    BY <1>1, <2>1 DEF Look, MarkBefore, ReadBalance, ReadClaims, MarkAfter, TypeOK, chain, database, history
<1>2. CASE Size(p)
  <2>1. pc' \in [Profiles -> States]
    BY <1>2 DEF Size, States
  <2>2. PICK d \in Amounts : job' = [job EXCEPT ![p].delta = d]
    BY <1>2 DEF Size
  <2>3. job' \in [Profiles -> [delta : Int, tx : Txs \cup {NoTx}]]
    BY <2>2, AmountsAssumption, ZenonT(60) DEF TypeOK
  <2> QED
    BY <1>2, <2>1, <2>3 DEF Size, TypeOK, chain, database
<1>3. CASE Rest(p)
  BY <1>3 DEF Rest, TypeOK, chain, database, history
<1> QED
  BY <1>1, <1>2, <1>3

\* A write's steps keep the types.
LEMMA WriteTyped ==
  ASSUME TypeOK, NEW p \in Profiles, Write(p) \/ Crash(p)
  PROVE  TypeOK'
<1> USE MovesTyped
<1>1. CASE TakeLock(p)
  <2>1. pc' \in [Profiles -> States]
    BY <1>1 DEF TakeLock, States
  <2> QED
    BY <1>1, <2>1 DEF TakeLock, TypeOK, chain, database, history
<1>2. CASE LockTimeout(p)
  BY <1>2 DEF LockTimeout, TypeOK, chain, database, history
<1>3. CASE SettleEarlier(p)
  <2>1. pc' \in [Profiles -> States]
    BY <1>3 DEF SettleEarlier, States
  <2>2. CASE pending = NoWrite
    BY <1>3, <2>1, <2>2 DEF SettleEarlier, TypeOK, chain, database
  <2>3. CASE pending # NoWrite
    <3>1. Book
      BY <1>3, <2>3 DEF SettleEarlier
    <3> QED
      BY <1>3, <2>1, <3>1, BookType, NoWriteType DEF SettleEarlier, TypeOK, chain
  <2> QED
    BY <2>2, <2>3
<1>4. CASE Refuse(p)
  BY <1>4 DEF Refuse, TypeOK, chain, database, history
<1>5. CASE Prepare(p)
  <2>1. pc' \in [Profiles -> States]
    BY <1>5 DEF Prepare, States
  <2>2. PICK s \in BeforeSlots(p) :
          pending' = [by |-> p, before |-> IF p = Residual THEN 0 ELSE bal[s], slot |-> s, tx |-> NoTx]
    BY <1>5 DEF Prepare
  <2>3. s \in 0 .. head /\ s \in Slots
    BY <2>2, BoundsAssumption, SMTT(60) DEF BeforeSlots, TypeOK, Larger
  <2>4. bal[s] \in Int
    BY <2>3 DEF TypeOK
  <2>5. pending' \in [by : Profiles \cup {NoOne}, before : Int, slot : 0 .. head, tx : Txs \cup {NoTx}]
    BY <2>2, <2>3, <2>4
  <2> QED
    BY <1>5, <2>1, <2>5 DEF Prepare, TypeOK, chain, history
<1>6. CASE Send(p)
  <2>1. pc' \in [Profiles -> States]
    BY <1>6 DEF Send, States
  <2>2. sent + 1 \in Txs /\ sent' \in 0 .. MaxWrites
    BY <1>6, BoundsAssumption DEF Send, TypeOK
  <2>3. job[p].delta \in Int /\ 0 \in 0 .. head
    BY BoundsAssumption DEF TypeOK
  <2>4. txs' \in [Txs -> [by : Profiles \cup {NoOne}, delta : Int,
                          state : {"unsent", "flying", "landed", "failed", "dead"}, slot : 0 .. head]]
    BY <1>6, <2>3 DEF Send, TypeOK
  <2>5. job' \in [Profiles -> [delta : Int, tx : Txs \cup {NoTx}]]
    BY <1>6, <2>2 DEF Send, TypeOK
  <2> QED
    BY <1>6, <2>1, <2>2, <2>4, <2>5 DEF Send, TypeOK, database, history
<1>7. CASE SendNothing(p)
  <2>1. pc' \in [Profiles -> States]
    BY <1>7 DEF SendNothing, States
  <2> QED
    BY <1>7, <2>1 DEF SendNothing, TypeOK, chain, database, history
<1>8. CASE Return(p)
  <2>1. pc' \in [Profiles -> States]
    BY <1>8 DEF Return, States
  <2>2. job[p].tx \in Txs \cup {NoTx}
    BY DEF TypeOK
  <2>3. pending' \in [by : Profiles \cup {NoOne}, before : Int, slot : 0 .. head, tx : Txs \cup {NoTx}]
    BY <1>8, <2>2 DEF Return, TypeOK
  <2>4. NoJob \in [delta : Int, tx : Txs \cup {NoTx}]
    BY DEF NoJob
  <2>5. job' \in [Profiles -> [delta : Int, tx : Txs \cup {NoTx}]]
    BY <1>8, <2>4 DEF Return, TypeOK
  <2> QED
    BY <1>8, <2>1, <2>3, <2>5 DEF Return, TypeOK, chain, history
<1>9. CASE ReturnNothing(p)
  <2>1. pc' \in [Profiles -> States]
    BY <1>9 DEF ReturnNothing, States
  <2>2. NoJob \in [delta : Int, tx : Txs \cup {NoTx}]
    BY DEF NoJob
  <2>3. job' \in [Profiles -> [delta : Int, tx : Txs \cup {NoTx}]]
    BY <1>9, <2>2 DEF ReturnNothing, TypeOK
  <2> QED
    BY <1>9, <2>1, <2>3 DEF ReturnNothing, TypeOK, chain, database
<1>10. CASE SettleOwn(p)
  BY <1>10, BookType, NoWriteType DEF SettleOwn, TypeOK, chain
<1>11. CASE LeavePending(p)
  BY <1>11 DEF LeavePending, TypeOK, chain, database, history
<1>12. CASE Crash(p)
  BY <1>12 DEF Crash, TypeOK, chain, database
<1> QED
  BY <1>1, <1>2, <1>3, <1>4, <1>5, <1>6, <1>7, <1>8, <1>9, <1>10, <1>11, <1>12 DEF Write

\* A new slot keeps the types of the balances.
LEMMA AdvanceTyped ==
  ASSUME TypeOK, NEW d \in Int, NEW o \in Int, Advance(d, o)
  PROVE  /\ head' \in Slots
         /\ head' = head + 1
         /\ bal' \in [Slots -> Int]
         /\ outside' \in [Slots -> Int]
<1>1. head \in Slots /\ head + 1 \in Slots
  BY BoundsAssumption DEF Advance, TypeOK
<1>2. bal[head] \in Int /\ outside[head] \in Int
  BY <1>1 DEF TypeOK
<1>3. bal' \in [Slots -> Int]
  <2>1. bal' = [bal EXCEPT ![head + 1] = bal[head] + d]
    BY DEF Advance
  <2>2. bal[head] + d \in Int
    BY <1>2
  <2> QED
    BY <2>1, <2>2 DEF TypeOK
<1>4. outside' \in [Slots -> Int]
  <2>1. outside' = [outside EXCEPT ![head + 1] = outside[head] + o]
    BY DEF Advance
  <2>2. outside[head] + o \in Int
    BY <1>2
  <2> QED
    BY <2>1, <2>2 DEF TypeOK
<1> QED
  BY <1>1, <1>3, <1>4 DEF Advance

\* The types that hold of slots up to head hold of them up to the next.
LEMMA HigherTyped ==
  ASSUME TypeOK, head' \in Slots, head' = head + 1
  PROVE  /\ floor \in 0 .. head' /\ settled \in 0 .. head'
         /\ pending \in [by : Profiles \cup {NoOne}, before : Int, slot : 0 .. head', tx : Txs \cup {NoTx}]
         /\ txs \in [Txs -> [by : Profiles \cup {NoOne}, delta : Int,
                             state : {"unsent", "flying", "landed", "failed", "dead"}, slot : 0 .. head']]
<1>1. 0 .. head \subseteq 0 .. head' /\ head \in Int
  BY BoundsAssumption DEF TypeOK
<1>2. ASSUME NEW i \in Txs
      PROVE  txs[i] \in [by : Profiles \cup {NoOne}, delta : Int,
                         state : {"unsent", "flying", "landed", "failed", "dead"}, slot : 0 .. head']
  <2>1. txs[i] \in [by : Profiles \cup {NoOne}, delta : Int,
                    state : {"unsent", "flying", "landed", "failed", "dead"}, slot : 0 .. head]
    BY DEF TypeOK
  <2> QED
    BY <1>1, <2>1
<1>3. pending \in [by : Profiles \cup {NoOne}, before : Int, slot : 0 .. head, tx : Txs \cup {NoTx}]
  BY DEF TypeOK
<1>4. pending \in [by : Profiles \cup {NoOne}, before : Int, slot : 0 .. head', tx : Txs \cup {NoTx}]
  BY <1>1, <1>3
<1> QED
  BY <1>1, <1>2, <1>4 DEF TypeOK

\* A transaction whose fate is decided keeps the others' types.
LEMMA DecidedTyped ==
  ASSUME TypeOK, NEW i \in Txs
  PROVE  /\ txs' = [txs EXCEPT ![i].state = "dead"]
            => txs' \in [Txs -> [by : Profiles \cup {NoOne}, delta : Int,
                                 state : {"unsent", "flying", "landed", "failed", "dead"}, slot : 0 .. head]]
         /\ head \in 0 .. head /\ txs' = [txs EXCEPT ![i].state = "failed", ![i].slot = head]
            => txs' \in [Txs -> [by : Profiles \cup {NoOne}, delta : Int,
                                 state : {"unsent", "flying", "landed", "failed", "dead"}, slot : 0 .. head]]
<1> DEFINE Tx == [by : Profiles \cup {NoOne}, delta : Int,
                  state : {"unsent", "flying", "landed", "failed", "dead"}, slot : 0 .. head]
<1>1. txs \in [Txs -> Tx]
  BY DEF TypeOK
<1>2. [txs[i] EXCEPT !.state = "dead"] \in Tx
  BY <1>1
<1>3. head \in 0 .. head => [txs[i] EXCEPT !.state = "failed", !.slot = head] \in Tx
  BY <1>1
<1> HIDE DEF Tx
<1>4. txs' = [txs EXCEPT ![i].state = "dead"] => txs' \in [Txs -> Tx]
  BY <1>1, <1>2
<1>5. head \in 0 .. head /\ txs' = [txs EXCEPT ![i].state = "failed", ![i].slot = head] => txs' \in [Txs -> Tx]
  BY <1>1, <1>3
<1> QED
  BY <1>4, <1>5 DEF Tx

\* The chain's steps keep the types.
LEMMA ChainTyped ==
  ASSUME TypeOK,
         \/ \E i \in Txs : Land(i) \/ FailOnChain(i) \/ Expire(i)
         \/ Age
         \/ \E d \in Donations : Donate(d)
  PROVE  TypeOK'
<1>1. ASSUME NEW i \in Txs, Land(i)
      PROVE  TypeOK'
  <2>1. txs[i].delta \in Int /\ txs[i].by \in Profiles \cup {NoOne}
    BY DEF TypeOK
  <2>2. Advance(txs[i].delta, 0)
    BY <1>1 DEF Land
  <2>3. /\ head' \in Slots /\ head' = head + 1
        /\ bal' \in [Slots -> Int] /\ outside' \in [Slots -> Int]
    BY <2>1, <2>2, AdvanceTyped
  <2>4. head + 1 \in 0 .. head'
    BY <2>3
  <2>5. txs' \in [Txs -> [by : Profiles \cup {NoOne}, delta : Int,
                          state : {"unsent", "flying", "landed", "failed", "dead"}, slot : 0 .. head']]
    BY <1>1, <2>3, <2>4, HigherTyped DEF Land
  <2>6. own' \in [Profiles -> Int]
    <3>1. own' = [own EXCEPT ![txs[i].by] = @ + txs[i].delta]
      BY <1>1 DEF Land
    <3>2. \A p \in Profiles : own[p] + txs[i].delta \in Int
      BY <2>1 DEF TypeOK
    <3> QED
      BY <3>1, <3>2 DEF TypeOK
  <2> QED
    BY <1>1, <2>3, <2>5, <2>6, HigherTyped DEF Land, TypeOK, database
<1>2. ASSUME NEW i \in Txs, FailOnChain(i)
      PROVE  TypeOK'
  <2>1. head \in 0 .. head
    BY BoundsAssumption DEF TypeOK
  <2>2. txs' \in [Txs -> [by : Profiles \cup {NoOne}, delta : Int,
                          state : {"unsent", "flying", "landed", "failed", "dead"}, slot : 0 .. head]]
    BY <1>2, <2>1, DecidedTyped DEF FailOnChain
  <2> QED
    BY <1>2, <2>2 DEF FailOnChain, TypeOK, database, history
<1>3. ASSUME NEW i \in Txs, Expire(i)
      PROVE  TypeOK'
  <2>1. txs' \in [Txs -> [by : Profiles \cup {NoOne}, delta : Int,
                          state : {"unsent", "flying", "landed", "failed", "dead"}, slot : 0 .. head]]
    BY <1>3, DecidedTyped DEF Expire
  <2> QED
    BY <1>3, <2>1 DEF Expire, TypeOK, database, history
<1>4. CASE Age
  <2>1. floor .. head \subseteq 0 .. head
    BY BoundsAssumption DEF TypeOK
  <2> QED
    BY <1>4, <2>1 DEF Age, TypeOK
<1>5. ASSUME NEW d \in Donations, Donate(d)
      PROVE  TypeOK'
  <2>1. d \in Int
    BY AmountsAssumption
  <2>2. /\ head' \in Slots /\ head' = head + 1
        /\ bal' \in [Slots -> Int] /\ outside' \in [Slots -> Int]
    BY <1>5, <2>1, AdvanceTyped DEF Donate
  <2>3. own' \in [Profiles -> Int]
    <3>1. own' = [own EXCEPT ![Residual] = @ + d]
      BY <1>5 DEF Donate
    <3>2. own[Residual] + d \in Int
      BY <2>1, ProfilesAssumption DEF TypeOK
    <3> QED
      BY <3>1, <3>2 DEF TypeOK
  <2> QED
    BY <1>5, <2>2, <2>3, HigherTyped DEF Donate, TypeOK, database
<1> QED
  BY <1>1, <1>2, <1>3, <1>4, <1>5

\* Every step keeps the types.
LEMMA NextTyped == TypeOK /\ [Next]_vars => TypeOK'
<1> SUFFICES ASSUME TypeOK, [Next]_vars PROVE TypeOK'
  OBVIOUS
<1>1. CASE UNCHANGED vars
  BY <1>1 DEF vars, TypeOK, chain, database, history
<1>2. CASE Next
  BY <1>2, LookTyped, WriteTyped, ChainTyped DEF Next
<1> QED
  BY <1>1, <1>2

\* The chain's and the database's variables keep their types, and no claim
\* is ever below 0 (wallets.claim_after's floor).
THEOREM TypesHold == Spec => []TypeOK
BY InitTyped, NextTyped, PTL DEF Spec

-----------------------------------------------------------------------------
(***************************************************************************)
(* ClaimsInv is inductive, and with it: at most one transaction of the     *)
(* wallet is in flight, and a claim moves only by what its claimant's own  *)
(* transactions moved.  One lemma per group of actions; each gives what    *)
(* the group leaves of ClaimsInv.                                          *)
(***************************************************************************)

\* 0 names no transaction.
LEMMA NoTxIsNone == 0 \notin Txs
<1>1. MaxWrites \in Int
  BY BoundsAssumption
<1> QED
  BY <1>1 DEF Txs

\* ClaimsInv holds at first.
LEMMA InitClaims == Init => ClaimsInv
<1> SUFFICES ASSUME Init PROVE ClaimsInv
  OBVIOUS
<1>1. pending = NoWrite /\ pending.by = NoOne /\ pending.tx = 0 /\ pending.by \notin Profiles /\ ~aged
  BY ProfilesAssumption DEF Init, NoWrite
<1>2. Outstanding = 0
  BY <1>1 DEF Outstanding
<1>3. \A i \in Txs : txs[i].state = "unsent"
  BY DEF Init
<1>4. SectionInv
  BY <1>1, ProfilesAssumption DEF Init, SectionInv, Section
<1>5. PendingInv
  BY <1>1, <1>2, <1>3 DEF PendingInv, Init
<1>6. OneInFlight
  BY <1>3 DEF OneInFlight
<1>7. From = 0 /\ head = 0
  BY <1>1 DEF From, Low, Init, Larger
<1>8. LevelInv
  <2>1. 0 \in Slots
    BY BoundsAssumption
  <2>2. Inside(0) \in Int
    <3>1. bal \in [Slots -> Int] /\ outside \in [Slots -> Int]
      BY InitTyped DEF TypeOK
    <3> QED
      BY <2>1, <3>1 DEF Inside
  <2>3. Step(0) = 0
    BY <1>2 DEF Step, Landed
  <2> QED
    BY <1>7, <2>2, <2>3 DEF LevelInv
<1>9. Exact
  <2> SUFFICES ASSUME NEW p \in Claimers
               PROVE  claims[p] + Unbooked(p) = own[p] + overdrawn[p]
    BY DEF Exact
  <2>1. Unbooked(p) = 0
    BY <1>2 DEF Unbooked, Landed
  <2>2. claims[p] = InitFunds[p] /\ own[p] = InitFunds[p] /\ overdrawn[p] = 0 /\ InitFunds[p] \in Nat
    BY AmountsAssumption DEF Init
  <2> QED
    BY <2>1, <2>2
<1> QED
  BY <1>4, <1>5, <1>6, <1>8, <1>9 DEF ClaimsInv

-----------------------------------------------------------------------------
(* Steps that neither send, book nor touch the chain.                      *)

\* Nothing the accounting reads has moved.
Untouched == /\ UNCHANGED <<head, floor, bal, txs, sent, database, own, outside>>
             /\ strays \subseteq strays'
             /\ Outstanding' = Outstanding

\* A step that touches none of its variables keeps the rest of ClaimsInv.
LEMMA UntouchedKeeps ==
  ASSUME TypeOK, ClaimsInv, Untouched
  PROVE  /\ PendingInv'
         /\ OneInFlight'
         /\ Accountable' => LevelInv' /\ Exact'
<1>1. PendingInv'
  BY DEF ClaimsInv, PendingInv, Untouched, database, Landed, Traced
<1>2. OneInFlight'
  BY DEF ClaimsInv, OneInFlight, Untouched, Traced
<1>3. Accountable' => Accountable
  BY DEF Accountable, Untouched
<1>4. Accountable' => LevelInv'
  <2>1. From' = From
    BY DEF From, Low, Untouched, database
  <2>2. \A s : Inside(s)' = Inside(s) /\ Step(s)' = Step(s)
    BY DEF Inside, Step, Landed, Untouched
  <2> QED
    BY <1>3, <2>1, <2>2 DEF ClaimsInv, LevelInv, Untouched
<1>5. Accountable' => Exact'
  BY <1>3 DEF ClaimsInv, Exact, Unbooked, Landed, Untouched, database
<1> QED
  BY <1>1, <1>2, <1>4, <1>5

\* A process elsewhere than at its send leaves the outstanding transaction.
LEMMA SameOutstanding ==
  ASSUME TypeOK, NEW p \in Profiles, NEW to,
         pc' = [pc EXCEPT ![p] = to],
         pc[p] # "sent", to # "sent",
         \A q \in Profiles \ {p} : job'[q] = job[q],
         UNCHANGED pending
  PROVE  Outstanding' = Outstanding
BY DEF Outstanding, TypeOK

\* Looking at the wallet, sizing a move on it, resting, waiting in vain.
LEMMA LookKeeps ==
  ASSUME TypeOK, ClaimsInv, NEW p \in Profiles,
         Look(p) \/ Size(p) \/ Rest(p) \/ LockTimeout(p)
  PROVE  ClaimsInv'
<1>1. PICK to \in {"idle", "marked", "read", "claimed", "viewed", "waiting"} :
        pc' = [pc EXCEPT ![p] = to]
  BY DEF Look, MarkBefore, ReadBalance, ReadClaims, MarkAfter, Size, Rest, LockTimeout, GoTo, Forget
<1>2. pc[p] \in {"idle", "marked", "read", "claimed", "viewed", "waiting"}
  BY DEF Look, MarkBefore, ReadBalance, ReadClaims, MarkAfter, Size, Rest, LockTimeout, GoTo, Forget
<1>3. /\ UNCHANGED <<head, floor, bal, txs, sent, database, own, outside, lock>>
      /\ strays \subseteq strays'
  BY DEF Look, MarkBefore, ReadBalance, ReadClaims, MarkAfter, Size, Rest, LockTimeout, chain, history
<1>4. \A q \in Profiles \ {p} : job'[q] = job[q]
  BY DEF Look, MarkBefore, ReadBalance, ReadClaims, MarkAfter, Size, Rest, LockTimeout, Forget, TypeOK
<1>5. UNCHANGED pending
  BY <1>3 DEF database
<1>6. Untouched
  BY <1>1, <1>2, <1>3, <1>4, <1>5, SameOutstanding DEF Untouched
<1>7. SectionInv'
  BY <1>1, <1>2, <1>3, <1>4 DEF ClaimsInv, SectionInv, Section, TypeOK, database
<1> QED
  BY <1>6, <1>7, UntouchedKeeps DEF ClaimsInv

\* Into the section and out of it, nothing in flight or booked.
LEMMA LockKeeps ==
  ASSUME TypeOK, ClaimsInv, NEW p \in Profiles,
         \/ TakeLock(p) \/ Refuse(p) \/ SendNothing(p) \/ LeavePending(p)
         \/ SettleEarlier(p) /\ pending = NoWrite
         \/ Crash(p) /\ pc[p] # "sent"
  PROVE  ClaimsInv'
<1>1. PICK to \in {"idle", "locked", "clear", "returned"} : pc' = [pc EXCEPT ![p] = to]
  BY DEF TakeLock, Refuse, SendNothing, LeavePending, SettleEarlier, Crash, GoTo, Forget
<1>2. pc[p] # "sent"
  BY DEF TakeLock, Refuse, SendNothing, LeavePending, SettleEarlier, GoTo
<1>3. /\ UNCHANGED <<head, floor, bal, txs, sent, database, own, outside>>
      /\ strays \subseteq strays'
  BY DEF TakeLock, Refuse, SendNothing, LeavePending, SettleEarlier, Crash, chain, history
<1>4. \A q \in Profiles \ {p} : job'[q] = job[q]
  BY DEF TakeLock, Refuse, SendNothing, LeavePending, SettleEarlier, Crash, Forget, TypeOK
<1>5. UNCHANGED pending
  BY <1>3 DEF database
<1>6. Untouched
  BY <1>1, <1>2, <1>3, <1>4, <1>5, SameOutstanding DEF Untouched
<1>7. SectionInv'
  <2>1. CASE TakeLock(p)
    BY <2>1, ProfilesAssumption DEF TakeLock, GoTo, ClaimsInv, SectionInv, Section, TypeOK, database
  <2>2. CASE Refuse(p)
    BY <2>2, ProfilesAssumption DEF Refuse, Forget, Release, ClaimsInv, SectionInv, Section, TypeOK, database
  <2>3. CASE SendNothing(p)
    BY <2>3, ProfilesAssumption DEF SendNothing, GoTo, ClaimsInv, SectionInv, Section, TypeOK, database
  <2>4. CASE LeavePending(p)
    BY <2>4, ProfilesAssumption DEF LeavePending, Forget, Release, ClaimsInv, SectionInv, Section, TypeOK, database
  <2>5. CASE SettleEarlier(p) /\ pending = NoWrite
    BY <2>5, ProfilesAssumption DEF SettleEarlier, GoTo, ClaimsInv, SectionInv, Section, TypeOK, database
  <2>6. CASE Crash(p) /\ pc[p] # "sent"
    <3>1. /\ pc' = [pc EXCEPT ![p] = "idle"]
          /\ lock' = IF lock = p THEN NoOne ELSE lock
          /\ UNCHANGED <<pending, aged, sent>>
          /\ \A q \in Profiles \ {p} : job'[q] = job[q]
      BY <1>4, <2>6 DEF Crash, Forget, Release, database, chain
    <3>2. \A q \in Profiles : lock' = q <=> pc'[q] \in Section
      BY <3>1, ProfilesAssumption, ZenonT(60) DEF ClaimsInv, SectionInv, Section, TypeOK
    <3> QED
      BY <3>1, <3>2 DEF ClaimsInv, SectionInv, TypeOK
  <2> QED
    BY <2>1, <2>2, <2>3, <2>4, <2>5, <2>6
<1> QED
  BY <1>6, <1>7, UntouchedKeeps DEF ClaimsInv

-----------------------------------------------------------------------------
(* The write itself.                                                       *)

\* No process is at its send but the one named: the lock's section is its own.
LEMMA Alone ==
  ASSUME ClaimsInv, NEW p \in Profiles, pc[p] \in Section
  PROVE  \A q \in Profiles \ {p} : pc[q] \notin Section
BY DEF ClaimsInv, SectionInv

\* Recording a pending write keeps ClaimsInv.
LEMMA PrepareKeeps ==
  ASSUME TypeOK, ClaimsInv, NEW p \in Profiles, Prepare(p)
  PROVE  ClaimsInv'
<1>1. /\ pc[p] = "clear" /\ pc' = [pc EXCEPT ![p] = "prepared"]
      /\ UNCHANGED <<head, floor, bal, txs, sent, lock, settled, claims, overdrawn, aged, job, own, outside, strays>>
  BY DEF Prepare, GoTo, chain, history
<1>2. PICK s \in BeforeSlots(p) :
        pending' = [by |-> p, before |-> IF p = Residual THEN 0 ELSE bal[s], slot |-> s, tx |-> NoTx]
  BY DEF Prepare
<1>3. pending = NoWrite
  BY <1>1 DEF ClaimsInv, SectionInv
<1>4. pending.tx = 0 /\ pending.by = NoOne /\ NoOne \notin Profiles
  BY <1>3, ProfilesAssumption DEF NoWrite
<1>5. pending'.by = p /\ pending'.tx = 0 /\ pending'.slot = s
      /\ (p # Residual => pending'.before = bal[s])
  BY <1>2
<1>6. Outstanding = 0 /\ Outstanding' = 0
  BY <1>1, <1>4, <1>5 DEF Outstanding, TypeOK
<1>7. pc[p] \in Section
  BY <1>1 DEF Section
<1>8. ~aged
  BY <1>4 DEF ClaimsInv, SectionInv
<1>9. SectionInv'
  <2>1. \A q \in Profiles : lock' = q <=> pc'[q] \in Section
    BY <1>1, <1>7 DEF ClaimsInv, SectionInv, Section, TypeOK
  <2>2. \A q \in Profiles \ {p} : pc'[q] \notin Section
    BY <1>1, <1>7, Alone DEF TypeOK
  <2>3. pc'[p] = "prepared"
    BY <1>1 DEF TypeOK
  <2> QED
    BY <1>1, <1>4, <1>5, <1>8, <2>1, <2>2, <2>3 DEF SectionInv, Section
<1>10. settled \in Int /\ floor \in Int /\ head \in Int /\ settled <= head /\ floor <= head
  BY BoundsAssumption DEF TypeOK
<1>11. s \in Int /\ settled <= s /\ s <= head /\ (p # Residual => Low <= s)
  BY <1>2, <1>10 DEF BeforeSlots, Low, Larger
<1>12. PendingInv'
  BY <1>1, <1>4, <1>5, <1>6, <1>8, <1>11 DEF ClaimsInv, PendingInv, Landed
<1>13. OneInFlight'
  BY <1>1, <1>6 DEF ClaimsInv, OneInFlight, Traced
<1>14. ASSUME Accountable'
       PROVE  LevelInv' /\ Exact'
  <2>1. LevelInv /\ Exact
    BY <1>1, <1>14 DEF ClaimsInv, Accountable
  <2>2. From = Low /\ From' = Low
    BY <1>1, <1>4, <1>5, <1>10, <1>11 DEF From, Low, Larger
  <2>3. \A t : Inside(t)' = Inside(t) /\ Step(t) = 0 /\ Step(t)' = 0
    BY <1>1, <1>6 DEF Inside, Step, Landed
  <2>4. Low \in Int /\ From' \in Int /\ Low <= From'
    BY <1>10, <1>11, <2>2 DEF Low, Larger
  <2>5. From' .. head \subseteq From .. head
    BY <1>10, <2>2, <2>4
  <2>6. LevelInv'
    BY <1>1, <2>1, <2>3, <2>5 DEF LevelInv
  <2>7. \A q : Unbooked(q) = 0 /\ Unbooked(q)' = 0
    BY <1>6 DEF Unbooked, Landed
  <2> QED
    BY <1>1, <2>1, <2>6, <2>7 DEF Exact
<1> QED
  BY <1>9, <1>12, <1>13, <1>14 DEF ClaimsInv

\* So does its send.
LEMMA SendKeeps ==
  ASSUME TypeOK, ClaimsInv, NEW p \in Profiles, Send(p)
  PROVE  ClaimsInv'
<1>1. /\ pc[p] = "prepared" /\ pc' = [pc EXCEPT ![p] = "sent"]
      /\ sent' = sent + 1
      /\ UNCHANGED <<head, floor, bal, lock, settled, pending, claims, overdrawn, aged, own, outside, strays>>
  BY DEF Send, GoTo, database, history
<1>2. txs' = [txs EXCEPT ![sent + 1] = [by |-> p, delta |-> job[p].delta, state |-> "flying", slot |-> 0]]
  BY DEF Send
<1>3. job' = [job EXCEPT ![p] = [delta |-> 0, tx |-> sent + 1]]
  BY DEF Send
<1>4. sent \in Nat /\ sent + 1 \in Txs
  BY BoundsAssumption DEF Send, TypeOK
<1>5. pc[p] \in Section /\ pc'[p] = "sent" /\ job'[p].tx = sent + 1
  BY <1>1, <1>3 DEF Section, TypeOK
<1>6. pending.by = p /\ pending.tx = 0 /\ ~aged
  BY <1>1 DEF ClaimsInv, SectionInv
<1>7. Outstanding = 0 /\ Outstanding' = sent + 1
  BY <1>1, <1>4, <1>5, <1>6 DEF Outstanding
<1>8. /\ txs'[sent + 1].state = "flying" /\ txs'[sent + 1].by = p
      /\ \A i \in Txs \ {sent + 1} : txs'[i] = txs[i]
  BY <1>2, <1>4 DEF TypeOK
<1>9. SectionInv'
  <2>1. \A q \in Profiles : lock' = q <=> pc'[q] \in Section
    BY <1>1, <1>5 DEF ClaimsInv, SectionInv, Section, TypeOK
  <2>2. \A q \in Profiles \ {p} : pc'[q] \notin Section
    BY <1>1, <1>5, Alone DEF TypeOK
  <2> QED
    BY <1>1, <1>4, <1>5, <1>6, <2>1, <2>2 DEF ClaimsInv, SectionInv, Section
<1>10. ~Landed(Outstanding)'
  BY <1>7, <1>8 DEF Landed
<1>11. PendingInv'
  <2>1. \A i \in Txs : i > sent' => txs'[i].state = "unsent"
    BY <1>1, <1>4, <1>8 DEF ClaimsInv, PendingInv
  <2> QED
    BY <1>1, <1>4, <1>6, <1>7, <1>8, <1>10, <2>1 DEF ClaimsInv, PendingInv
<1>12. OneInFlight'
  <2> SUFFICES ASSUME Traced', NEW i \in Txs, txs'[i].state = "flying"
               PROVE  i = Outstanding'
    BY DEF OneInFlight
  <2>1. CASE i # sent + 1
    <3>1. txs[i].state = "flying" /\ Traced
      BY <1>1, <1>8, <2>1 DEF Traced
    <3>2. i = 0
      BY <1>7, <3>1 DEF ClaimsInv, OneInFlight
    <3> QED
      BY <3>2, NoTxIsNone
  <2> QED
    BY <1>7, <2>1
<1>13. ASSUME Accountable'
       PROVE  LevelInv' /\ Exact'
  <2>1. LevelInv /\ Exact
    BY <1>1, <1>13 DEF ClaimsInv, Accountable
  <2>2. From' = From
    BY <1>1 DEF From, Low
  <2>3. \A t : Inside(t)' = Inside(t) /\ Step(t) = 0 /\ Step(t)' = 0
    BY <1>1, <1>7, <1>10 DEF Inside, Step, Landed
  <2>4. LevelInv'
    BY <1>1, <2>1, <2>2, <2>3 DEF LevelInv
  <2>5. \A q : Unbooked(q) = 0 /\ Unbooked(q)' = 0
    BY <1>7, <1>10 DEF Unbooked, Landed
  <2> QED
    BY <1>1, <2>1, <2>4, <2>5 DEF Exact
<1> QED
  BY <1>9, <1>11, <1>12, <1>13 DEF ClaimsInv

\* The signer's answer puts the signature on the pending write's record: the
\* outstanding transaction is the one it was.
LEMMA ReturnKeeps ==
  ASSUME TypeOK, ClaimsInv, NEW p \in Profiles, Return(p)
  PROVE  ClaimsInv'
<1>1. /\ pc[p] = "sent" /\ pc' = [pc EXCEPT ![p] = "returned"]
      /\ pending' = [pending EXCEPT !.tx = job[p].tx]
      /\ aged' = FALSE
      /\ job' = [job EXCEPT ![p] = NoJob]
      /\ UNCHANGED <<head, floor, bal, txs, sent, lock, settled, claims, overdrawn, own, outside, strays>>
  BY DEF Return, GoTo, chain, history
<1>2. pc[p] \in Section
  BY <1>1 DEF Section
<1>3. pending.by = p /\ pending.tx = 0 /\ job[p].tx \in 1 .. sent /\ sent \in Nat
  BY <1>1, BoundsAssumption DEF ClaimsInv, SectionInv, TypeOK
<1>4. /\ pending'.by = p /\ pending'.tx = job[p].tx
      /\ pending'.slot = pending.slot /\ pending'.before = pending.before
  BY <1>1, <1>3 DEF TypeOK
<1>5. Outstanding = job[p].tx /\ Outstanding' = Outstanding
  BY <1>1, <1>3, <1>4 DEF Outstanding
<1>6. SectionInv'
  <2>1. \A q \in Profiles : lock' = q <=> pc'[q] \in Section
    BY <1>1, <1>2 DEF ClaimsInv, SectionInv, Section, TypeOK
  <2>2. \A q \in Profiles \ {p} : pc'[q] \notin Section
    BY <1>1, <1>2, Alone DEF TypeOK
  <2>3. pc'[p] = "returned" /\ pending'.by # NoOne
    BY <1>1, <1>4, ProfilesAssumption DEF TypeOK
  <2> QED
    BY <1>1, <1>4, <2>1, <2>2, <2>3 DEF SectionInv, Section
<1>7. pending # NoWrite
  BY <1>3, ProfilesAssumption DEF NoWrite
<1>8. PendingInv'
  BY <1>1, <1>3, <1>4, <1>5, <1>7 DEF ClaimsInv, PendingInv, Landed
<1>9. OneInFlight'
  BY <1>1, <1>5 DEF ClaimsInv, OneInFlight, Traced
<1>10. ASSUME Accountable'
       PROVE  LevelInv' /\ Exact'
  <2>1. LevelInv /\ Exact
    BY <1>1, <1>10 DEF ClaimsInv, Accountable
  <2>2. From' = From
    BY <1>1, <1>3, <1>4 DEF From, Low
  <2>3. \A t : Inside(t)' = Inside(t) /\ Step(t)' = Step(t)
    BY <1>1, <1>5 DEF Inside, Step, Landed
  <2>4. LevelInv'
    BY <1>1, <2>1, <2>2, <2>3 DEF LevelInv
  <2>5. \A q : Unbooked(q)' = Unbooked(q)
    BY <1>1, <1>3, <1>4, <1>5 DEF Unbooked, Landed
  <2> QED
    BY <1>1, <2>1, <2>4, <2>5 DEF Exact
<1> QED
  BY <1>6, <1>8, <1>9, <1>10 DEF ClaimsInv

\* A signature lost for good: the accounting claims nothing any more.
LEMMA LossKeeps ==
  ASSUME TypeOK, ClaimsInv, NEW p \in Profiles,
         (ReturnNothing(p) \/ Crash(p)) /\ pc[p] = "sent"
  PROVE  ClaimsInv'
<1>1. PICK to \in {"idle", "returned"} :
        /\ pc' = [pc EXCEPT ![p] = to]
        /\ to = "idle" => lock' = IF lock = p THEN NoOne ELSE lock
        /\ to = "returned" => lock' = lock
  BY DEF ReturnNothing, Crash, GoTo, Forget, Release
<1>2. /\ pc[p] = "sent"
      /\ job' = [job EXCEPT ![p] = NoJob]
      /\ "lost signature" \in strays'
      /\ UNCHANGED <<head, floor, bal, txs, sent, settled, pending, claims, overdrawn, aged, own, outside>>
  BY DEF ReturnNothing, Crash, GoTo, Forget, chain, database
<1>3. pending.by = p /\ pending.tx = 0 /\ pc[p] \in Section /\ ~aged /\ sent \in Nat
  <2>1. pending.by = p /\ pending.tx = 0 /\ pc[p] \in Section
    BY <1>2 DEF ClaimsInv, SectionInv, Section
  <2>2. ~aged
    BY <2>1 DEF ClaimsInv, SectionInv
  <2>3. sent \in Nat
    BY BoundsAssumption DEF TypeOK
  <2> QED
    BY <2>1, <2>2, <2>3
<1>4. Outstanding' = 0
  BY <1>1, <1>2, <1>3 DEF Outstanding, TypeOK
<1>5. SectionInv'
  <2>1. \A q \in Profiles \ {p} : pc[q] \notin Section /\ pc'[q] = pc[q]
    BY <1>1, <1>3, Alone DEF TypeOK
  <2>2. pc'[p] = to /\ lock = p
    BY <1>1, <1>3 DEF ClaimsInv, SectionInv, TypeOK
  <2>3. \A q \in Profiles : lock' = q <=> pc'[q] \in Section
    BY <1>1, <2>1, <2>2, ProfilesAssumption DEF Section
  <2> QED
    BY <1>1, <1>2, <1>3, <2>1, <2>2, <2>3 DEF ClaimsInv, SectionInv, Section
<1>6. PendingInv'
  <2>1. ~Landed(Outstanding)'
    BY <1>4 DEF Landed
  <2>2. \A i \in Txs : i > sent' => txs'[i].state = "unsent"
    BY <1>2 DEF ClaimsInv, PendingInv
  <2>3. ~aged'
    BY <1>2, <1>3
  <2>4. Outstanding' \in 0 .. sent'
    <3>1. sent' = sent
      BY <1>2
    <3>2. sent \in Nat
      BY <1>3
    <3> QED
      BY <1>4, <3>1, <3>2
  <2> QED
    BY <1>2, <1>4, <2>1, <2>2, <2>3, <2>4 DEF ClaimsInv, PendingInv
<1>7. OneInFlight' /\ ~Accountable'
  BY <1>2 DEF OneInFlight, Traced, Accountable
<1> QED
  BY <1>5, <1>6, <1>7 DEF ClaimsInv

-----------------------------------------------------------------------------
(* Booking.                                                                *)

\* A read the booking admits holds the pending write's transaction, if it
\* landed, and nothing is in flight when it is taken.
LEMMA BookedFacts ==
  ASSUME TypeOK, ClaimsInv, pending # NoWrite,
         \A q \in Profiles : pc[q] # "sent",
         NEW at \in ReportedSlots
  PROVE  /\ Outstanding = pending.tx
         /\ ~(\E i \in Txs : txs[i].state = "flying") \/ ~Traced
         /\ Need(at) \in 0 .. head
         /\ Need(at) >= settled /\ Need(at) >= pending.slot
         /\ Landed(pending.tx) /\ Traced => txs[pending.tx].slot <= Larger(Need(at), floor)
<1>1. Outstanding = pending.tx
  BY DEF Outstanding
<1>2. pending.tx # 0 => \/ txs[pending.tx].state \in {"landed", "failed"} /\ at = txs[pending.tx].slot
                        \/ aged /\ at = 0
  BY DEF ReportedSlots
<1>3. pending.tx = 0 => at = 0
  BY DEF ReportedSlots
<1>4. pending.tx # 0 /\ Traced => txs[pending.tx].state # "flying"
  BY <1>2 DEF ClaimsInv, PendingInv
<1>5. ~(\E i \in Txs : txs[i].state = "flying") \/ ~Traced
  <2> SUFFICES ASSUME Traced, NEW i \in Txs, txs[i].state = "flying"
               PROVE  FALSE
    OBVIOUS
  <2>1. i = pending.tx
    BY <1>1 DEF ClaimsInv, OneInFlight
  <2>2. i # 0
    BY NoTxIsNone
  <2> QED
    BY <1>4, <2>1, <2>2
<1>6. /\ head \in Int /\ settled \in 0 .. head /\ floor \in 0 .. head
      /\ pending.slot \in 0 .. head
  BY PendingType, BoundsAssumption DEF TypeOK
<1>7. at \in 0 .. head
  <2>1. pending.tx \in Txs => txs[pending.tx].slot \in 0 .. head
    BY DEF TypeOK
  <2>2. pending.tx \in Txs \cup {0}
    BY PendingType
  <2> QED
    BY <1>2, <1>3, <1>6, <2>1, <2>2
<1>8. Need(at) \in 0 .. head /\ Need(at) >= settled /\ Need(at) >= pending.slot /\ Need(at) >= at
  BY <1>6, <1>7 DEF Need, Larger
<1>9. ASSUME Landed(pending.tx), Traced
      PROVE  txs[pending.tx].slot <= Larger(Need(at), floor)
  <2>1. pending.tx # 0
    BY <1>9 DEF Landed
  <2>2. CASE at = txs[pending.tx].slot
    BY <1>6, <1>7, <1>8, <2>2 DEF Larger
  <2>3. CASE aged
    <3>1. txs[pending.tx].slot <= floor
      BY <1>9, <2>3 DEF ClaimsInv, PendingInv
    <3>2. txs[pending.tx].slot \in Int
      BY <2>1, PendingType, <1>6 DEF TypeOK
    <3> QED
      BY <1>6, <1>8, <3>1, <3>2 DEF Larger
  <2> QED
    BY <1>2, <2>1, <2>2, <2>3
<1> QED
  BY <1>1, <1>5, <1>8, <1>9

\* Every read at or past the one that booked has one balance, outside
\* transfers apart.
LEMMA BookLevels ==
  ASSUME TypeOK, ClaimsInv, pending # NoWrite,
         \A q \in Profiles : pc[q] # "sent",
         Book, UNCHANGED <<head, floor, bal, txs, outside>>,
         Accountable'
  PROVE  /\ Accountable
         /\ \A t \in Low' .. head : Inside(t) = Inside(head)
         /\ \A p \in Claimers : claims'[p] = own[p] + overdrawn'[p]
<1>1. PICK at \in ReportedSlots :
        IF pending.by = Residual THEN BookNothing(Need(at))
        ELSE \E s \in Larger(Need(at), floor) .. head : BookAt(s)
  BY DEF Book
<1>2. /\ Outstanding = pending.tx
      /\ Need(at) \in 0 .. head
      /\ Need(at) >= settled /\ Need(at) >= pending.slot
      /\ Landed(pending.tx) => txs[pending.tx].slot <= Larger(Need(at), floor)
  <2>1. Accountable
    BY <1>1 DEF Accountable, BookNothing, BookAt
  <2>2. Traced
    BY <2>1 DEF Accountable, Traced
  <2> QED
    BY <1>1, <2>2, BookedFacts
<1>3. /\ head \in Int /\ settled \in 0 .. head /\ floor \in 0 .. head
      /\ pending.slot \in 0 .. head /\ head \in Slots
  BY PendingType, BoundsAssumption DEF TypeOK
<1>4. pending.by \in Profiles
  BY PendingType DEF ClaimsInv, SectionInv
<1>5. Accountable
  BY <1>1 DEF Accountable, BookNothing, BookAt
<1>6. LevelInv /\ Exact
  BY <1>5 DEF ClaimsInv
<1>7. \A t \in 0 .. head : bal[t] \in Int /\ outside[t] \in Int /\ Inside(t) \in Int
  <2>1. bal \in [Slots -> Int] /\ outside \in [Slots -> Int]
    BY DEF TypeOK
  <2>2. 0 .. head \subseteq Slots
    BY <1>3, BoundsAssumption DEF Slots
  <2> QED
    BY <2>1, <2>2 DEF Inside
<1>8. Landed(pending.tx) => /\ txs[pending.tx].slot \in Int
                            /\ txs[pending.tx].delta \in Int
  BY PendingType, <1>3 DEF TypeOK, Landed
<1>9. CASE pending.by = Residual
  <2>1. settled' = Need(at) /\ UNCHANGED <<claims, overdrawn>>
    BY <1>1, <1>2, <1>3, <1>9 DEF BookNothing, Larger
  <2>2. Low' = Larger(Need(at), floor)
    BY <2>1 DEF Low
  <2>3. From = Low
    BY <1>9 DEF From, Claimers
  <2>4. Low \in Int /\ Low' \in Int /\ Low <= Low' /\ Low' <= head
    BY <1>2, <1>3, <2>2 DEF Low, Larger
  <2>5. \A t \in Low' .. head : Inside(t) = Inside(head)
    <3> SUFFICES ASSUME NEW t \in Low' .. head
                 PROVE  Inside(t) = Inside(head)
      OBVIOUS
    <3>1. t \in From .. head /\ t \in 0 .. head /\ t >= Low'
      BY <1>3, <2>3, <2>4 DEF Low, Larger
    <3>2. Step(t) = 0
      BY <1>2, <1>8, <2>2, <2>4, <3>1 DEF Step
    <3>3. Inside(t) + Step(t) = Inside(head)
      BY <1>6, <3>1 DEF LevelInv
    <3> QED
      BY <1>7, <3>1, <3>2, <3>3
  <2>6. \A p \in Claimers : claims'[p] = own[p] + overdrawn'[p]
    <3> SUFFICES ASSUME NEW p \in Claimers
                 PROVE  claims'[p] = own[p] + overdrawn'[p]
      OBVIOUS
    <3>1. Unbooked(p) = 0
      BY <1>9 DEF Unbooked, Claimers
    <3>2. claims[p] + Unbooked(p) = own[p] + overdrawn[p]
      BY <1>6 DEF Exact
    <3>3. claims[p] \in Int
      BY DEF TypeOK, Claimers
    <3> QED
      BY <2>1, <3>1, <3>2, <3>3
  <2> QED
    BY <1>5, <2>5, <2>6
<1>10. CASE pending.by # Residual
  <2>1. PICK s \in Larger(Need(at), floor) .. head : BookAt(s)
    BY <1>1, <1>10
  <2>2. /\ pending.by \in Claimers
        /\ From \in Int /\ From <= pending.slot /\ 0 <= From
    BY <1>3, <1>4, <1>10 DEF From, Claimers, Low, Larger
  <2>3. /\ s \in 0 .. head /\ s >= settled /\ s >= floor /\ s >= pending.slot
        /\ Landed(pending.tx) => txs[pending.tx].slot <= s
    BY <1>2, <1>3, <1>8, <2>1 DEF Larger
  <2>4. settled' = s /\ Low' = s
    <3>1. settled' = s
      <4>1. settled' = Larger(settled, s)
        BY <2>1 DEF BookAt
      <4>2. s \in Int /\ settled \in Int
        BY <1>3, <2>3
      <4> QED
        BY <2>3, <4>1, <4>2 DEF Larger
    <3> QED
      BY <1>3, <2>3, <3>1 DEF Low, Larger
  <2>5. ASSUME NEW t \in s .. head
        PROVE  Inside(t) = Inside(head)
    <3>1. t \in From .. head /\ t \in 0 .. head
      BY <1>3, <2>2, <2>3
    <3>2. Step(t) = 0
      BY <1>2, <1>8, <2>3, <3>1 DEF Step
    <3>3. Inside(t) + Step(t) = Inside(head)
      BY <1>6, <3>1 DEF LevelInv
    <3> QED
      BY <1>7, <3>1, <3>2, <3>3
  <2>6. outside[s] = outside[pending.slot]
    BY <2>1 DEF BookAt, Accountable
  <2> DEFINE moved == bal[s] - pending.before
  <2>7. moved = Unbooked(pending.by) /\ moved \in Int
    <3>1. pending.before = bal[pending.slot]
      BY <2>2 DEF ClaimsInv, PendingInv
    <3>2. Inside(pending.slot) + Step(pending.slot) = Inside(head)
      BY <1>3, <1>6, <2>2 DEF LevelInv
    <3>3. Inside(s) = Inside(head)
      BY <1>3, <2>3, <2>5
    <3>4. Step(pending.slot) = Unbooked(pending.by)
      BY <1>2, <2>2 DEF Step, Unbooked, ClaimsInv, PendingInv
    <3>5. Unbooked(pending.by) \in Int
      BY <1>2, <1>8 DEF Unbooked
    <3> QED
      BY <1>3, <1>7, <2>3, <2>6, <3>1, <3>2, <3>3, <3>4, <3>5 DEF Inside
  <2> DEFINE new == ClaimAfter(claims[pending.by], moved)
  <2>8. /\ claims' = [claims EXCEPT ![pending.by] = new]
        /\ overdrawn' = [overdrawn EXCEPT ![pending.by] = @ + new - (claims[pending.by] + moved)]
    BY <2>1 DEF BookAt
  <2>9. claims[pending.by] \in Int
    BY <1>4 DEF TypeOK
  <2>10. new \in Int
    BY <2>7, <2>9 DEF ClaimAfter
  <2> HIDE DEF new, moved
  <2>11. ASSUME NEW p \in Claimers
         PROVE  claims'[p] = own[p] + overdrawn'[p]
    <3>1. claims[p] + Unbooked(p) = own[p] + overdrawn[p]
      BY <1>6 DEF Exact
    <3>2. p \in Profiles /\ claims[p] \in Int /\ own[p] \in Int /\ overdrawn[p] \in Int
      BY DEF TypeOK, Claimers
    <3>3. CASE p = pending.by
      <4>1. claims'[p] = new /\ overdrawn'[p] = overdrawn[p] + new - (claims[p] + moved)
        BY <2>8, <3>2, <3>3 DEF TypeOK
      <4> QED
        BY <2>7, <2>10, <3>1, <3>2, <3>3, <4>1
    <3>4. CASE p # pending.by
      <4>1. claims'[p] = claims[p] /\ overdrawn'[p] = overdrawn[p]
        BY <2>8, <3>2, <3>4 DEF TypeOK
      <4>2. Unbooked(p) = 0
        BY <3>4 DEF Unbooked
      <4> QED
        BY <3>1, <3>2, <4>1, <4>2
    <3> QED
      BY <3>3, <3>4
  <2> QED
    BY <1>5, <2>4, <2>5, <2>11
<1> QED
  BY <1>9, <1>10

\* Booked: by the process itself, or by the next one before its own write.
LEMMA BookKeeps ==
  ASSUME TypeOK, ClaimsInv, NEW p \in Profiles,
         \/ SettleEarlier(p) /\ pending # NoWrite
         \/ SettleOwn(p)
  PROVE  ClaimsInv'
<1>1. /\ Book
      /\ UNCHANGED <<head, floor, bal, txs, sent, own, outside>>
      /\ pending' = NoWrite /\ aged' = FALSE
  BY DEF SettleEarlier, SettleOwn, Book, chain
<1>2. PICK to \in {"clear", "idle"} :
        /\ pc' = [pc EXCEPT ![p] = to]
        /\ to = "idle" => lock' = IF lock = p THEN NoOne ELSE lock
        /\ to = "clear" => lock' = lock
  BY DEF SettleEarlier, SettleOwn, GoTo, Forget, Release
<1>3. pc[p] \in {"locked", "returned"} /\ pc[p] \in Section
  BY DEF SettleEarlier, SettleOwn, GoTo, Section
<1>4. pending # NoWrite
  BY ProfilesAssumption DEF ClaimsInv, SectionInv, SettleOwn, NoWrite
<1>5. \A q \in Profiles : pc[q] # "sent"
  BY <1>3, Alone DEF Section
<1>6. pending'.tx = 0 /\ pending'.by = NoOne /\ pending'.by \notin Profiles
  BY <1>1, ProfilesAssumption DEF NoWrite
<1>7. Outstanding' = 0 /\ ~Landed(Outstanding)'
  BY <1>6 DEF Outstanding, Landed
<1>8. SectionInv'
  <2>1. \A q \in Profiles \ {p} : pc[q] \notin Section /\ pc'[q] = pc[q]
    BY <1>2, <1>3, Alone DEF TypeOK
  <2>2. pc'[p] = to /\ lock = p
    BY <1>2, <1>3 DEF ClaimsInv, SectionInv, TypeOK
  <2>3. \A q \in Profiles : lock' = q <=> pc'[q] \in Section
    BY <1>2, <2>1, <2>2, ProfilesAssumption DEF Section
  <2> QED
    BY <1>1, <1>2, <2>1, <2>2, <2>3 DEF SectionInv, Section
<1>9. PendingInv'
  <2>1. \A i \in Txs : i > sent' => txs'[i].state = "unsent"
    BY <1>1 DEF ClaimsInv, PendingInv
  <2>2. Outstanding' \in 0 .. sent'
    <3>1. sent' = sent
      BY <1>1
    <3>2. sent \in Nat
      BY BoundsAssumption DEF TypeOK
    <3> QED
      BY <1>7, <3>1, <3>2
  <2>3. pending'.by \notin Claimers
    BY <1>6 DEF Claimers
  <2> QED
    BY <1>1, <1>7, <2>1, <2>2, <2>3 DEF PendingInv
<1>10. OneInFlight'
  <2>1. strays \subseteq strays'
    BY <1>1 DEF Book, BookAt, BookNothing
  <2>2. PICK at \in ReportedSlots : TRUE
    BY <1>1 DEF Book
  <2>3. ~(\E i \in Txs : txs[i].state = "flying") \/ ~Traced
    BY <1>4, <1>5, <2>2, BookedFacts
  <2> QED
    BY <1>1, <2>1, <2>3 DEF OneInFlight, Traced
<1>11. ASSUME Accountable'
       PROVE  LevelInv' /\ Exact'
  <2>1. /\ \A t \in Low' .. head : Inside(t) = Inside(head)
        /\ \A q \in Claimers : claims'[q] = own[q] + overdrawn'[q]
    BY <1>1, <1>4, <1>5, <1>11, BookLevels
  <2>2. From' = Low'
    BY <1>6 DEF From, Claimers
  <2>3. \A t : Inside(t)' = Inside(t) /\ Step(t)' = 0
    BY <1>1, <1>7 DEF Inside, Step
  <2>4. \A t \in Low' .. head : Inside(t) \in Int
    <3>1. settled' \in 0 .. head /\ floor' \in 0 .. head
      BY <1>1, BookType DEF TypeOK
    <3>2. Low' \in Nat /\ head \in Slots
      BY <3>1 DEF Low, Larger, TypeOK
    <3>3. bal \in [Slots -> Int] /\ outside \in [Slots -> Int]
      BY DEF TypeOK
    <3>4. Low' .. head \subseteq Slots
      BY <3>2, BoundsAssumption DEF Slots
    <3> QED
      BY <3>3, <3>4 DEF Inside
  <2>5. LevelInv'
    BY <1>1, <2>1, <2>2, <2>3, <2>4 DEF LevelInv
  <2>6. \A q : Unbooked(q)' = 0
    BY <1>7 DEF Unbooked
  <2>7. \A q \in Claimers : claims'[q] \in Int
    BY <1>1, BookType DEF Claimers
  <2> QED
    BY <1>1, <2>1, <2>5, <2>6, <2>7 DEF Exact
<1> QED
  BY <1>8, <1>9, <1>10, <1>11 DEF ClaimsInv

-----------------------------------------------------------------------------
(* The chain.                                                              *)

\* No process moves, nor does its record in the database.
LEMMA SectionStays ==
  ASSUME ClaimsInv, UNCHANGED <<sent, lock, settled, pending, pc, job>>,
         aged' => aged \/ pending.tx # NoTx
  PROVE  SectionInv' /\ Outstanding' = Outstanding
BY DEF ClaimsInv, SectionInv, Outstanding

\* A new slot keeps the balances of those before it.
LEMMA AdvanceKeeps ==
  ASSUME TypeOK, NEW d \in Int, NEW o \in Int, Advance(d, o)
  PROVE  /\ head' = head + 1
         /\ \A s \in 0 .. head : Inside(s)' = Inside(s) /\ bal'[s] = bal[s]
         /\ \A s : s = head + 1 => Inside(s)' = Inside(head) + d - o
         /\ \A s \in 0 .. head : Inside(s) \in Int
<1>1. head \in Int /\ head \in Slots /\ head + 1 \in Slots /\ 0 .. head \subseteq Slots
  BY BoundsAssumption DEF Advance, TypeOK, Slots
<1>2. bal \in [Slots -> Int] /\ outside \in [Slots -> Int]
  BY DEF TypeOK
<1>3. /\ head' = head + 1
      /\ bal' = [bal EXCEPT ![head + 1] = bal[head] + d]
      /\ outside' = [outside EXCEPT ![head + 1] = outside[head] + o]
  BY DEF Advance
<1>4. \A s \in 0 .. head : s # head + 1
  BY <1>1
<1>5. \A s \in 0 .. head : bal'[s] = bal[s] /\ outside'[s] = outside[s]
  BY <1>1, <1>2, <1>3, <1>4
<1>6. bal'[head + 1] = bal[head] + d /\ outside'[head + 1] = outside[head] + o
  BY <1>1, <1>2, <1>3
<1>7. \A s \in 0 .. head : Inside(s) \in Int
  BY <1>1, <1>2 DEF Inside
<1>8. bal[head] \in Int /\ outside[head] \in Int
  BY <1>1, <1>2
<1> QED
  <2>1. \A s : s = head + 1 => Inside(s)' = Inside(head) + d - o
    BY <1>6, <1>8 DEF Inside
  <2>2. \A s \in 0 .. head : Inside(s)' = Inside(s)
    BY <1>5 DEF Inside
  <2> QED
    BY <1>3, <1>5, <1>7, <2>1, <2>2

\* So does a landing.
LEMMA LandKeeps ==
  ASSUME TypeOK, ClaimsInv, NEW i \in Txs, Land(i)
  PROVE  ClaimsInv'
<1>1. /\ txs[i].state = "flying"
      /\ Advance(txs[i].delta, 0)
      /\ txs' = [txs EXCEPT ![i].state = "landed", ![i].slot = head + 1]
      /\ own' = [own EXCEPT ![txs[i].by] = @ + txs[i].delta]
      /\ UNCHANGED <<floor, sent, lock, settled, pending, claims, overdrawn, aged, pc, job>>
  BY DEF Land, database
<1>2. txs[i].delta \in Int
  BY DEF TypeOK
<1>3. /\ head' = head + 1
      /\ \A s \in 0 .. head : Inside(s)' = Inside(s) /\ bal'[s] = bal[s]
      /\ \A s : s = head + 1 => Inside(s)' = Inside(head) + txs[i].delta - 0
      /\ \A s \in 0 .. head : Inside(s) \in Int
  BY <1>1, <1>2, AdvanceKeeps
<1>4. /\ head \in Nat /\ settled \in 0 .. head /\ floor \in 0 .. head
      /\ pending.slot \in 0 .. head /\ sent \in Nat
  BY PendingType, BoundsAssumption DEF TypeOK
<1>5. SectionInv' /\ Outstanding' = Outstanding
  BY <1>1, SectionStays
<1>6. /\ txs'[i].state = "landed" /\ txs'[i].slot = head + 1
      /\ txs'[i].delta = txs[i].delta /\ txs'[i].by = txs[i].by
      /\ \A j \in Txs \ {i} : txs'[j] = txs[j]
  BY <1>1 DEF TypeOK
<1>7. Outstanding \in Txs \cup {0}
  BY <1>4, BoundsAssumption DEF ClaimsInv, PendingInv, TypeOK, Txs
<1>8. ~Landed(i) /\ i # 0
  BY <1>1, NoTxIsNone DEF Landed
<1>9. strays \subseteq strays'
  BY DEF Land
<1>10. PendingInv'
  <2>1. i <= sent
    BY <1>1, <1>4, BoundsAssumption DEF ClaimsInv, PendingInv, Txs
  <2>2. \A j \in Txs : j > sent' => txs'[j].state = "unsent"
    BY <1>1, <1>6, <2>1 DEF ClaimsInv, PendingInv
  <2>3. Outstanding' # NoTx => txs'[Outstanding'].by = pending'.by
    <3>1. \A j \in Txs : txs'[j].by = txs[j].by
      BY <1>6
    <3>2. Outstanding # 0 => txs[Outstanding].by = pending.by
      BY DEF ClaimsInv, PendingInv
    <3> QED
      BY <1>1, <1>5, <1>7, <3>1, <3>2
  <2>4. pending'.by \in Claimers => pending'.before = bal'[pending'.slot]
    BY <1>1, <1>3, <1>4 DEF ClaimsInv, PendingInv
  <2>5. pending'.by \in Claimers /\ Landed(Outstanding)' => txs'[Outstanding'].slot > pending'.slot
    <3>1. CASE Outstanding = i
      BY <1>1, <1>4, <1>5, <1>6, <3>1, SMTT(60)
    <3>2. CASE Outstanding # i
      <4>1. Outstanding # 0 => txs'[Outstanding] = txs[Outstanding]
        BY <1>6, <1>7, <3>2
      <4>2. pending.by \in Claimers /\ Landed(Outstanding) => txs[Outstanding].slot > pending.slot
        BY DEF ClaimsInv, PendingInv
      <4>3. Landed(Outstanding)' => Landed(Outstanding)
        BY <1>5, <4>1 DEF Landed
      <4> QED
        BY <1>1, <1>5, <4>1, <4>2, <4>3 DEF Landed
    <3> QED
      BY <3>1, <3>2
  <2>6. aged' => pending.tx \in Txs
    BY <1>1, PendingType DEF ClaimsInv, SectionInv
  <2>8. aged' /\ Traced' => txs'[pending'.tx].state # "flying" /\ txs'[pending'.tx].slot <= floor'
    <3> SUFFICES ASSUME aged', Traced' PROVE txs'[pending'.tx].state # "flying" /\ txs'[pending'.tx].slot <= floor'
      OBVIOUS
    <3>1. aged /\ Traced
      BY <1>1, <1>9 DEF Traced
    <3>2. txs[pending.tx].state # "flying" /\ txs[pending.tx].slot <= floor
      BY <3>1 DEF ClaimsInv, PendingInv
    <3>3. pending.tx # i
      BY <1>1, <3>2
    <3>4. txs'[pending.tx] = txs[pending.tx]
      BY <1>6, <2>6, <3>3
    <3> QED
      BY <1>1, <3>2, <3>4
  <2>9. Outstanding' \in 0 .. sent' /\ (pending' # NoWrite => settled' <= pending'.slot)
    BY <1>1, <1>5 DEF ClaimsInv, PendingInv
  <2> QED
    BY <1>1, <2>2, <2>3, <2>4, <2>5, <2>8, <2>9 DEF PendingInv
<1>11. OneInFlight'
  BY <1>1, <1>5, <1>6, <1>9 DEF ClaimsInv, OneInFlight, Traced
<1>12. ASSUME Accountable'
       PROVE  LevelInv' /\ Exact'
  <2>1. LevelInv /\ Exact /\ Outstanding = i
    BY <1>1, <1>12, <1>9 DEF ClaimsInv, Accountable, OneInFlight, Traced
  <2>2. From' = From /\ From \in 0 .. head
    BY <1>1, <1>4 DEF From, Low, Larger
  <2>3. txs[i].by = pending.by
    BY <1>8, <2>1 DEF ClaimsInv, PendingInv
  <2>4. \A s \in 0 .. head : Step(s) = 0 /\ Step(s)' = txs[i].delta
    BY <1>4, <1>5, <1>6, <1>8, <2>1 DEF Step, Landed
  <2>5. \A s : s = head + 1 => Step(s)' = 0
    BY <1>4, <1>5, <1>6, <2>1 DEF Step
  <2>6. LevelInv'
    <3> SUFFICES ASSUME NEW s \in From' .. head'
                 PROVE  Inside(s)' + Step(s)' = Inside(head)'
      BY DEF LevelInv
    <3>1. Inside(head) \in Int
      BY <1>3, <1>4
    <3>2. \A t : t = head + 1 => Inside(t)' = Inside(head) + txs[i].delta
      BY <1>2, <1>3, <3>1
    <3>3. Inside(head)' = Inside(head) + txs[i].delta
      BY <1>3, <3>2 DEF Inside
    <3>4. CASE s = head + 1
      BY <1>2, <2>5, <3>1, <3>2, <3>4, <3>3
    <3>5. CASE s # head + 1
      <4>1. s \in From .. head /\ s \in 0 .. head
        BY <1>3, <1>4, <2>2, <3>5
      <4>2. Inside(s) + Step(s) = Inside(head)
        BY <2>1, <4>1 DEF LevelInv
      <4>3. Inside(s) = Inside(head)
        BY <1>3, <2>4, <4>1, <4>2
      <4>4. Inside(s)' = Inside(s) /\ Step(s)' = txs[i].delta
        BY <1>3, <2>4, <4>1
      <4> QED
        BY <3>3, <4>3, <4>4
    <3> QED
      BY <3>4, <3>5
  <2>7. ASSUME NEW p \in Claimers
        PROVE  claims'[p] + Unbooked(p)' = own'[p] + overdrawn'[p]
    <3>1. p \in Profiles /\ claims[p] \in Int /\ own[p] \in Int /\ overdrawn[p] \in Int
      BY DEF TypeOK, Claimers
    <3>2. claims[p] + Unbooked(p) = own[p] + overdrawn[p] /\ Unbooked(p) = 0
      BY <1>8, <2>1 DEF Exact, Unbooked
    <3>3. CASE p = pending.by
      <4>1. own'[p] = own[p] + txs[i].delta
        BY <1>1, <2>3, <3>1, <3>3 DEF TypeOK
      <4>2. Unbooked(p)' = txs[i].delta
        BY <1>1, <1>5, <1>6, <1>8, <2>1, <3>3 DEF Unbooked, Landed
      <4> QED
        BY <1>1, <1>2, <3>1, <3>2, <4>1, <4>2
    <3>4. CASE p # pending.by
      <4>1. own'[p] = own[p]
        BY <1>1, <2>3, <3>1, <3>4 DEF TypeOK
      <4>2. Unbooked(p)' = 0
        BY <1>1, <3>4 DEF Unbooked
      <4> QED
        BY <1>1, <3>1, <3>2, <4>1, <4>2
    <3> QED
      BY <3>3, <3>4
  <2> QED
    BY <2>6, <2>7 DEF Exact
<1> QED
  BY <1>5, <1>10, <1>11, <1>12 DEF ClaimsInv

\* Failed on chain, or expired: nothing of the mint moved.
LEMMA DeadKeeps ==
  ASSUME TypeOK, ClaimsInv, NEW i \in Txs, FailOnChain(i) \/ Expire(i)
  PROVE  ClaimsInv'
<1>1. /\ txs[i].state = "flying"
      /\ \/ txs' = [txs EXCEPT ![i].state = "failed", ![i].slot = head]
         \/ txs' = [txs EXCEPT ![i].state = "dead"]
      /\ UNCHANGED <<head, floor, bal, sent, lock, settled, pending, claims, overdrawn, aged, pc, job, own, outside, strays>>
  BY DEF FailOnChain, Expire, database, history
<1>2. SectionInv' /\ Outstanding' = Outstanding
  BY <1>1, SectionStays
<1>3. /\ txs'[i].state \in {"failed", "dead"} /\ txs'[i].by = txs[i].by
      /\ \A j \in Txs \ {i} : txs'[j] = txs[j]
  <2>1. CASE txs' = [txs EXCEPT ![i].state = "failed", ![i].slot = head]
    BY <2>1 DEF TypeOK
  <2>2. CASE txs' = [txs EXCEPT ![i].state = "dead"]
    BY <2>2 DEF TypeOK
  <2> QED
    BY <1>1, <2>1, <2>2
<1>4. Outstanding \in Txs \cup {0} /\ sent \in Nat /\ MaxWrites \in Nat
  BY BoundsAssumption DEF ClaimsInv, PendingInv, TypeOK, Txs
<1>5. \A j \in Txs : /\ Landed(j) <=> Landed(j)'
                     /\ Landed(j) => txs'[j] = txs[j]
  BY <1>1, <1>3 DEF Landed
<1>6. Landed(Outstanding)' <=> Landed(Outstanding)
  BY <1>2, <1>4, <1>5 DEF Landed
<1>7. PendingInv'
  <2>1. i <= sent
    BY <1>1, <1>4 DEF ClaimsInv, PendingInv, Txs
  <2>2. \A j \in Txs : j > sent' => txs'[j].state = "unsent"
    BY <1>1, <1>3, <2>1 DEF ClaimsInv, PendingInv
  <2>3. Outstanding' # NoTx => txs'[Outstanding'].by = pending'.by
    BY <1>1, <1>2, <1>3, <1>4 DEF ClaimsInv, PendingInv
  <2>4. pending'.by \in Claimers /\ Landed(Outstanding)' => txs'[Outstanding'].slot > pending'.slot
    BY <1>1, <1>2, <1>4, <1>5, <1>6 DEF ClaimsInv, PendingInv, Landed
  <2>5. aged' => pending.tx \in Txs
    BY <1>1, PendingType DEF ClaimsInv, SectionInv
  <2>6. aged' /\ Traced' => txs[pending.tx].state # "flying" /\ txs[pending.tx].slot <= floor
    BY <1>1 DEF ClaimsInv, PendingInv, Traced
  <2>7. aged' /\ Traced' => txs'[pending'.tx].state # "flying" /\ txs'[pending'.tx].slot <= floor'
    <3>1. aged' /\ Traced' => pending.tx # i
      BY <1>1, <2>6
    <3> QED
      BY <1>1, <1>3, <2>5, <2>6, <3>1
  <2>8. /\ Outstanding' \in 0 .. sent'
        /\ pending' # NoWrite => settled' <= pending'.slot
        /\ pending'.by \in Claimers => pending'.before = bal'[pending'.slot]
    BY <1>1, <1>2 DEF ClaimsInv, PendingInv
  <2> QED
    BY <1>1, <2>2, <2>3, <2>4, <2>7, <2>8 DEF PendingInv
<1>8. OneInFlight'
  BY <1>1, <1>2, <1>3 DEF ClaimsInv, OneInFlight, Traced
<1>9. ASSUME Accountable'
      PROVE  LevelInv' /\ Exact'
  <2>1. LevelInv /\ Exact
    BY <1>1, <1>9 DEF ClaimsInv, Accountable
  <2>2. From' = From
    BY <1>1 DEF From, Low
  <2>3. Landed(Outstanding) => txs'[Outstanding] = txs[Outstanding]
    BY <1>4, <1>5 DEF Landed
  <2>4. \A s : Inside(s)' = Inside(s) /\ Step(s)' = Step(s)
    BY <1>1, <1>2, <1>6, <2>3 DEF Inside, Step
  <2>5. LevelInv'
    BY <1>1, <2>1, <2>2, <2>4 DEF LevelInv
  <2>6. \A p : Unbooked(p)' = Unbooked(p)
    BY <1>1, <1>2, <1>6, <2>3 DEF Unbooked
  <2> QED
    BY <1>1, <2>1, <2>5, <2>6 DEF Exact
<1> QED
  BY <1>2, <1>7, <1>8, <1>9 DEF ClaimsInv

\* So does the expiry of a pending write.
LEMMA AgeKeeps ==
  ASSUME TypeOK, ClaimsInv, Age
  PROVE  ClaimsInv'
<1>1. /\ pending.tx # 0
      /\ aged' = TRUE /\ floor' \in floor .. head
      /\ UNCHANGED <<head, bal, txs, sent, lock, settled, pending, claims, overdrawn, pc, job, own, outside>>
  BY DEF Age
<1>2. SectionInv' /\ Outstanding' = Outstanding
  BY <1>1, SectionStays
<1>3. /\ head \in Nat /\ settled \in 0 .. head /\ floor \in 0 .. head
      /\ pending.slot \in 0 .. head
  BY PendingType, BoundsAssumption DEF TypeOK
<1>4. strays \subseteq strays'
  BY DEF Age
<1>5. (Accountable' => Accountable) /\ (Traced' => Traced)
  BY <1>4 DEF Accountable, Traced
<1>6. PendingInv'
  <2>1. txs[pending.tx].slot \in 0 .. head
    BY <1>1, PendingType DEF TypeOK
  <2>2. ASSUME Traced'
        PROVE  txs[pending.tx].state # "flying" /\ txs[pending.tx].slot <= floor'
    <3>1. ~(txs[pending.tx].state = "flying" \/ txs[pending.tx].slot > floor')
      BY <2>2 DEF Age, Traced
    <3>2. txs[pending.tx].slot \in Int /\ floor' \in Int
      BY <1>1, <1>3, <2>1
    <3> QED
      BY <3>1, <3>2
  <2>3. Traced' => txs'[pending'.tx].state # "flying" /\ txs'[pending'.tx].slot <= floor'
    BY <1>1, <2>2
  <2> QED
    BY <1>1, <1>2, <2>3 DEF ClaimsInv, PendingInv, Landed
<1>7. OneInFlight'
  BY <1>1, <1>2, <1>5 DEF ClaimsInv, OneInFlight
<1>8. ASSUME Accountable'
      PROVE  LevelInv' /\ Exact'
  <2>1. LevelInv /\ Exact
    BY <1>5, <1>8 DEF ClaimsInv
  <2>2. From \in Int /\ From' \in Int /\ From <= From'
    BY <1>1, <1>3 DEF From, Low, Larger
  <2>3. From' .. head \subseteq From .. head
    BY <1>3, <2>2
  <2>4. \A s : Inside(s)' = Inside(s) /\ Step(s)' = Step(s)
    BY <1>1, <1>2 DEF Inside, Step, Landed
  <2>5. LevelInv'
    BY <1>1, <2>1, <2>3, <2>4 DEF LevelInv
  <2>6. \A p : Unbooked(p)' = Unbooked(p)
    BY <1>1, <1>2 DEF Unbooked, Landed
  <2> QED
    BY <1>1, <2>1, <2>5, <2>6 DEF Exact
<1> QED
  BY <1>2, <1>6, <1>7, <1>8 DEF ClaimsInv

\* So does an outside transfer.
LEMMA DonateKeeps ==
  ASSUME TypeOK, ClaimsInv, NEW d \in Donations, Donate(d)
  PROVE  ClaimsInv'
<1>1. /\ Advance(d, d)
      /\ own' = [own EXCEPT ![Residual] = @ + d]
      /\ UNCHANGED <<floor, txs, sent, lock, settled, pending, claims, overdrawn, aged, pc, job, strays>>
  BY DEF Donate, database
<1>2. d \in Int
  BY AmountsAssumption
<1>3. /\ head' = head + 1
      /\ \A s \in 0 .. head : Inside(s)' = Inside(s) /\ bal'[s] = bal[s]
      /\ \A s : s = head + 1 => Inside(s)' = Inside(head) + d - d
      /\ \A s \in 0 .. head : Inside(s) \in Int
  BY <1>1, <1>2, AdvanceKeeps
<1>4. /\ head \in Nat /\ settled \in 0 .. head /\ floor \in 0 .. head
      /\ pending.slot \in 0 .. head /\ sent \in Nat
  BY PendingType, BoundsAssumption DEF TypeOK
<1>5. SectionInv' /\ Outstanding' = Outstanding
  BY <1>1, SectionStays
<1>6. PendingInv'
  <2>1. pending'.by \in Claimers => pending'.before = bal'[pending'.slot]
    BY <1>1, <1>3, <1>4 DEF ClaimsInv, PendingInv
  <2> QED
    BY <1>1, <1>5, <2>1 DEF ClaimsInv, PendingInv, Landed, Traced
<1>7. OneInFlight'
  BY <1>1, <1>5 DEF ClaimsInv, OneInFlight, Traced
<1>8. ASSUME Accountable'
      PROVE  LevelInv' /\ Exact'
  <2>1. LevelInv /\ Exact
    BY <1>1, <1>8 DEF ClaimsInv, Accountable
  <2>2. From' = From /\ From \in 0 .. head
    BY <1>1, <1>4 DEF From, Low, Larger
  <2>3. \A s : Step(s)' = Step(s)
    BY <1>1, <1>5 DEF Step, Landed
  <2>4. Inside(head) \in Int /\ \A s : s = head + 1 => Inside(s)' = Inside(head)
    <3>1. Inside(head) \in Int
      BY <1>3, <1>4
    <3> QED
      BY <1>2, <1>3, <3>1
  <2>5. \A s : s = head + 1 => Step(s) = 0
    <3>1. Landed(Outstanding) => txs[Outstanding].slot \in 0 .. head
      BY <1>4, BoundsAssumption DEF ClaimsInv, PendingInv, TypeOK, Txs, Landed
    <3> QED
      BY <1>4, <3>1 DEF Step
  <2>6. LevelInv'
    <3> SUFFICES ASSUME NEW s \in From' .. head'
                 PROVE  Inside(s)' + Step(s)' = Inside(head)'
      BY DEF LevelInv
    <3>1. Inside(head)' = Inside(head)
      BY <1>3, <2>4 DEF Inside
    <3>2. CASE s = head + 1
      BY <2>3, <2>4, <2>5, <3>1, <3>2
    <3>3. CASE s # head + 1
      <4>1. s \in From .. head /\ s \in 0 .. head
        BY <1>3, <1>4, <2>2, <3>3
      <4> QED
        BY <1>3, <2>1, <2>3, <3>1, <4>1 DEF LevelInv
    <3> QED
      BY <3>2, <3>3
  <2>7. \A p \in Claimers : own'[p] = own[p] /\ Unbooked(p)' = Unbooked(p)
    BY <1>1, <1>5 DEF Unbooked, Landed, TypeOK, Claimers
  <2> QED
    BY <1>1, <2>1, <2>6, <2>7 DEF Exact
<1> QED
  BY <1>5, <1>6, <1>7, <1>8 DEF ClaimsInv

-----------------------------------------------------------------------------
(* Together.                                                               *)

\* Every step keeps ClaimsInv.
LEMMA NextClaims == TypeOK /\ ClaimsInv /\ [Next]_vars => ClaimsInv'
<1> SUFFICES ASSUME TypeOK, ClaimsInv, [Next]_vars PROVE ClaimsInv'
  OBVIOUS
<1>1. ASSUME NEW p \in Profiles, Look(p) \/ Size(p) \/ Rest(p) \/ Write(p) \/ Crash(p)
      PROVE  ClaimsInv'
  <2>1. CASE Look(p) \/ Size(p) \/ Rest(p)
    BY <2>1, LookKeeps
  <2>2. CASE Write(p)
    <3>1. CASE SettleEarlier(p)
      BY <3>1, LockKeeps, BookKeeps
    <3>2. CASE LockTimeout(p)
      BY <3>2, LookKeeps
    <3>3. CASE TakeLock(p) \/ Refuse(p) \/ SendNothing(p) \/ LeavePending(p)
      BY <3>3, LockKeeps
    <3>4. CASE Prepare(p) \/ Send(p) \/ Return(p)
      BY <3>4, PrepareKeeps, SendKeeps, ReturnKeeps
    <3>5. CASE ReturnNothing(p)
      <4>1. pc[p] = "sent"
        BY <3>5 DEF ReturnNothing, GoTo
      <4> QED
        BY <3>5, <4>1, LossKeeps
    <3>6. CASE SettleOwn(p)
      BY <3>6, BookKeeps
    <3> QED
      BY <2>2, <3>1, <3>2, <3>3, <3>4, <3>5, <3>6 DEF Write
  <2>3. CASE Crash(p)
    BY <2>3, LockKeeps, LossKeeps
  <2> QED
    BY <1>1, <2>1, <2>2, <2>3
<1>2. ASSUME NEW i \in Txs, Land(i) \/ FailOnChain(i) \/ Expire(i)
      PROVE  ClaimsInv'
  BY <1>2, LandKeeps, DeadKeeps
<1>3. CASE \E d \in Donations : Donate(d)
  BY <1>3, DonateKeeps
<1>4. CASE UNCHANGED vars
  <2>1. Untouched /\ SectionInv'
    BY <1>4, SectionStays DEF vars, chain, database, history, Untouched
  <2> QED
    BY <2>1, UntouchedKeeps DEF ClaimsInv
<1> QED
  BY <1>1, <1>2, <1>3, <1>4, AgeKeeps DEF Next

\* The inductive invariant: the lock's section, the pending write and the
\* level of the balance around it.
THEOREM ClaimsHold == Spec => []ClaimsInv
<1>1. Init => TypeOK /\ ClaimsInv
  BY InitTyped, InitClaims
<1>2. TypeOK /\ ClaimsInv /\ [Next]_vars => (TypeOK /\ ClaimsInv)'
  BY NextTyped, NextClaims
<1> QED
  BY <1>1, <1>2, PTL DEF Spec

\* However the profiles, the endpoints and the crashes interleave, a claim
\* moves only by what its claimant's own transactions moved (wallets.py:16).
THEOREM AttributionHolds == Spec => []AttributionExact
<1>1. ClaimsInv => AttributionExact
  BY DEF ClaimsInv, AttributionExact
<1> QED
  BY <1>1, ClaimsHold, PTL

\* No write goes out while another of the wallet is undecided (locked_chain).
THEOREM OneInFlightHolds == Spec => []OneInFlight
<1>1. ClaimsInv => OneInFlight
  BY DEF ClaimsInv
<1> QED
  BY <1>1, ClaimsHold, PTL
=============================================================================
