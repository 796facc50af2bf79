------------------------ MODULE VaultLife_proofs ------------------------
(***************************************************************************)
(* What the page tells a vault's owner stays true, for every set of venues *)
(* and every number of faults and flows: types, then the exit, then the    *)
(* revoke.                                                                 *)
(***************************************************************************)
EXTENDS VaultLife, FiniteSetTheorems, TLAPS

\* What VaultSystem assumes of the constants.
Bounded ==
  /\ IsFiniteSet(Venues) /\ Staged \subseteq Venues /\ Staged # Venues
  /\ Spares \subseteq [faults : Nat, flows : Nat]

LEMMA SetAsSeq ==
  ASSUME NEW S, IsFiniteSet(S)
  PROVE  /\ SetToSeq(S) \in Seq(S) /\ Len(SetToSeq(S)) = Cardinality(S)
         /\ \A x \in S : \E i \in 1..Len(SetToSeq(S)) : SetToSeq(S)[i] = x
<1> DEFINE n == Cardinality(S)
           f == SetToSeq(S)
<1>1. n \in Nat /\ ExistsBijection(1..n, S)
  BY FS_CardinalityType
<1>2. PICK g : g \in Bijection(1..n, S)
  BY <1>1 DEF ExistsBijection
<1>3. g \in [1..n -> S] /\ IsInjective(g)
  BY <1>2 DEF Bijection, Injection, IsInjective
<1>4. f \in [1..n -> S] /\ IsInjective(f)
  BY <1>3 DEF SetToSeq
<1>5. f \in Injection(1..n, S)
  BY <1>4 DEF Injection, IsInjective
<1>6. Cardinality(1..n) = n
  BY <1>1, FS_Interval
<1>7. f \in Surjection(1..n, S)
  BY <1>5, <1>6, FS_Injection
<1>8. f \in Seq(S) /\ Len(f) = n
  BY <1>1, <1>4
<1> QED
  BY <1>7, <1>8 DEF Surjection

-----------------------------------------------------------------------------
(* Types                                                                   *)

Steps == {"fund", "start", "regrant", "add", "part", "all", "approve", "revoke", "final", "ask", "own"}
PageTxs == [kind : {"revoke", "approve", "deposit", "close", "part", "all"}, at : Venues]
BotTxs == [kind : {"open", "shut"}, at : Venues]
PageAts == {"view", "step", "waits", "saw", "signs", "sends", "landed", "starts", "failed"}
BotAts == {"off", "down", "poll", "leaves", "exits", "closes", "marks", "acts", "moves", "opens"}
Pages == [at : PageAts, todo : Seq(Steps), list : Seq(PageTxs), index : Nat, asked : BOOLEAN]

MoneyTyped ==
  /\ policy \in [Venues -> {"none", "bot", "old", "owner"}] /\ pos \subseteq Venues /\ idle \in BOOLEAN
  /\ txs \subseteq PageTxs \cup BotTxs /\ home \in Venues
BotTyped == bot \in [at : BotAts, id : Nat]
ExitTyped == exit \in [id : Nat, state : {"none", "pending", "closed", "revoked", "cancelled"}]
StartTyped == start \in {"never", "checked", "running", "done"}
SpareTyped == spare \in [faults : Nat, flows : Nat]
ToldTyped == told \in [asked : BOOLEAN, closed : BOOLEAN, revoked : BOOLEAN, late : BOOLEAN]
\* A step is at hand, and the transactions it signs.
PageTyped(t) ==
  /\ t \in Pages
  /\ t.at # "view" => t.todo # <<>>
  /\ t.at \in {"signs", "sends", "landed"} => t.list # <<>>
TabTyped == PageTyped(tab)

LifeTyped == MoneyTyped /\ BotTyped /\ ExitTyped /\ StartTyped /\ SpareTyped /\ ToldTyped /\ TabTyped

LEMMA SeqSplits ==
  ASSUME NEW S, NEW s \in Seq(S), s # <<>>
  PROVE  /\ Len(s) \in Nat \ {0} /\ Head(s) \in S /\ Tail(s) \in Seq(S) /\ Head(s) = s[1]
         /\ Len(Tail(s)) = Len(s) - 1 /\ (Len(s) # 1 => Tail(s) # <<>>)
         /\ \A i \in 1..(Len(s) - 1) : Tail(s)[i] = s[i + 1]
<1>1. Len(s) \in Nat \ {0}
  OBVIOUS
<1>2. Head(s) = s[1] /\ s[1] \in S
  BY <1>1
<1>3. Tail(s) \in Seq(S) /\ Len(Tail(s)) = Len(s) - 1
  BY <1>1
<1>4. \A i \in 1..(Len(s) - 1) : Tail(s)[i] = s[i + 1]
  BY <1>1
<1> QED
  BY <1>1, <1>2, <1>3, <1>4

LEMMA TodoSplits ==
  ASSUME TabTyped, tab.at # "view"
  PROVE  /\ Len(tab.todo) \in Nat \ {0} /\ Head(tab.todo) \in Steps /\ Tail(tab.todo) \in Seq(Steps)
         /\ Len(tab.todo) # 1 => Tail(tab.todo) # <<>>
<1>1. tab.todo \in Seq(Steps) /\ tab.todo # <<>>
  BY DEF TabTyped, PageTyped, Pages
<1> QED
  BY <1>1, SeqSplits

LEMMA ListSplits ==
  ASSUME TabTyped, tab.at \in {"signs", "sends", "landed"}
  PROVE  /\ Len(tab.list) \in Nat \ {0} /\ Head(tab.list) \in PageTxs /\ Tail(tab.list) \in Seq(PageTxs)
         /\ Head(tab.list) = tab.list[1]
         /\ Len(Tail(tab.list)) = Len(tab.list) - 1 /\ (Len(tab.list) # 1 => Tail(tab.list) # <<>>)
         /\ \A i \in 1..(Len(tab.list) - 1) : Tail(tab.list)[i] = tab.list[i + 1]
<1>1. tab.list \in Seq(PageTxs) /\ tab.list # <<>>
  BY DEF TabTyped, PageTyped, Pages
<1> QED
  BY <1>1, SeqSplits

\* A page's record with three fields set.
LEMMA PageExcept ==
  ASSUME NEW t \in Pages, NEW a, NEW d, NEW l
  PROVE  [t EXCEPT !.at = a, !.todo = d, !.list = l] = [at |-> a, todo |-> d, list |-> l, index |-> t.index, asked |-> t.asked]
<1>1. t = [at |-> t.at, todo |-> t.todo, list |-> t.list, index |-> t.index, asked |-> t.asked]
  BY DEF Pages
<1>2. [t EXCEPT !.at = a] = [at |-> a, todo |-> t.todo, list |-> t.list, index |-> t.index, asked |-> t.asked]
  BY <1>1
<1>3. [[at |-> a, todo |-> t.todo, list |-> t.list, index |-> t.index, asked |-> t.asked] EXCEPT !.todo = d]
        = [at |-> a, todo |-> d, list |-> t.list, index |-> t.index, asked |-> t.asked]
  OBVIOUS
<1>4. [[at |-> a, todo |-> d, list |-> t.list, index |-> t.index, asked |-> t.asked] EXCEPT !.list = l]
        = [at |-> a, todo |-> d, list |-> l, index |-> t.index, asked |-> t.asked]
  OBVIOUS
<1> QED
  BY <1>2, <1>3, <1>4

LEMMA ViewTyped == PageTyped(View) /\ View.at = "view"
BY DEF View, Pages, PageAts, PageTyped

LEMMA StepDoneTyped ==
  ASSUME TabTyped, tab.at # "view", NEW t, t = StepDone(tab)
  PROVE  PageTyped(t) /\ t.at \in {"view", "step"}
<1>1. Tail(tab.todo) \in Seq(Steps) /\ (Len(tab.todo) # 1 => Tail(tab.todo) # <<>>)
  BY TodoSplits
<1>2. tab \in Pages
  BY DEF TabTyped, PageTyped
<1>3. CASE Len(tab.todo) = 1
  BY <1>3, ViewTyped DEF StepDone, PageTyped
<1>4. CASE Len(tab.todo) # 1
  <2>1. t = [tab EXCEPT !.at = "step", !.todo = Tail(tab.todo), !.list = <<>>]
    BY <1>4 DEF StepDone
  <2>2. t = [at |-> "step", todo |-> Tail(tab.todo), list |-> <<>>, index |-> tab.index, asked |-> tab.asked]
    BY <1>2, <2>1, PageExcept
  <2> QED
    BY <1>1, <1>2, <1>4, <2>2 DEF Pages, PageAts, PageTyped
<1> QED
  BY <1>3, <1>4

\* The page moves on within a step: the same step, and the same list.
LEMMA AtSet ==
  ASSUME TabTyped, tab.at # "view", NEW a \in PageAts, NEW t, t = [tab EXCEPT !.at = a],
         a \in {"signs", "sends", "landed"} => tab.at \in {"signs", "sends", "landed"}
  PROVE  PageTyped(t) /\ t.at = a /\ t.todo = tab.todo /\ t.list = tab.list
<1>1. tab \in Pages
  BY DEF TabTyped, PageTyped
<1>2. t \in Pages /\ t.at = a /\ t.todo = tab.todo /\ t.list = tab.list
  BY <1>1 DEF Pages
<1> QED
  BY <1>2 DEF TabTyped, PageTyped

\* With another list.
WithList(a, l) == [tab EXCEPT !.at = a, !.list = l]

LEMMA ListSet ==
  ASSUME TabTyped, tab.at # "view", NEW a \in PageAts, NEW l \in Seq(PageTxs),
         a \in {"signs", "sends", "landed"} => l # <<>>
  PROVE  /\ PageTyped(WithList(a, l)) /\ WithList(a, l).at = a
         /\ WithList(a, l).todo = tab.todo /\ WithList(a, l).list = l
<1> DEFINE t == WithList(a, l)
<1>1. tab \in Pages
  BY DEF TabTyped, PageTyped
<1>2. t = [[tab EXCEPT !.at = a] EXCEPT !.list = l]
  BY DEF WithList
<1> HIDE DEF t
<1>3. [tab EXCEPT !.at = a] \in Pages /\ [tab EXCEPT !.at = a].at = a /\ [tab EXCEPT !.at = a].todo = tab.todo
  BY <1>1 DEF Pages
<1>4. t \in Pages /\ t.at = a /\ t.todo = tab.todo /\ t.list = l
  BY <1>2, <1>3 DEF Pages
<1>5. PageTyped(t)
  BY <1>4 DEF TabTyped, PageTyped
<1> QED
  BY <1>4, <1>5 DEF t

\* An answer's transactions from an index on.
LEMMA SignsSet ==
  ASSUME TabTyped, tab.at # "view", NEW l \in Seq(PageTxs), l # <<>>, NEW n \in Nat
  PROVE  PageTyped(Signs(l, n)) /\ Signs(l, n).at = "signs" /\ Signs(l, n).todo = tab.todo /\ Signs(l, n).list = l
<1> DEFINE t == Signs(l, n)
<1>1. t = [WithList("signs", l) EXCEPT !.index = n]
  BY DEF Signs, WithList
<1>2. "signs" \in PageAts
  BY DEF PageAts
<1>3. WithList("signs", l) \in Pages /\ WithList("signs", l).at = "signs"
      /\ WithList("signs", l).todo = tab.todo /\ WithList("signs", l).list = l
  BY <1>2, ListSet DEF PageTyped
<1> HIDE DEF t
<1>4. t \in Pages /\ t.at = "signs" /\ t.todo = tab.todo /\ t.list = l
  BY <1>1, <1>3 DEF Pages
<1>5. PageTyped(t)
  BY <1>4 DEF TabTyped, PageTyped
<1> QED
  BY <1>4, <1>5 DEF t

\* With other steps, at their first.
LEMMA TodoSet ==
  ASSUME TabTyped, NEW d \in Seq(Steps), d # <<>>, NEW t, t = [tab EXCEPT !.at = "step", !.todo = d]
  PROVE  PageTyped(t) /\ t.at = "step"
<1>1. tab \in Pages
  BY DEF TabTyped, PageTyped
<1>2. t = [[tab EXCEPT !.at = "step"] EXCEPT !.todo = d]
  OBVIOUS
<1>3. [tab EXCEPT !.at = "step"] \in Pages /\ [tab EXCEPT !.at = "step"].at = "step"
  BY <1>1 DEF Pages, PageAts
<1>4. t \in Pages /\ t.at = "step" /\ t.todo = d
  BY <1>2, <1>3 DEF Pages
<1> QED
  BY <1>4 DEF PageTyped

LEMMA StepFailedTyped ==
  ASSUME TabTyped, tab.at # "view", NEW t, t = StepFailed(tab)
  PROVE  PageTyped(t) /\ t.at = "failed"
<1>1. t = WithList("failed", <<>>) /\ <<>> \in Seq(PageTxs)
  BY DEF StepFailed, WithList
<1>2. "failed" \in PageAts /\ "failed" \notin {"signs", "sends", "landed"}
  BY DEF PageAts
<1>3. PageTyped(WithList("failed", <<>>)) /\ WithList("failed", <<>>).at = "failed"
  BY <1>1, <1>2, ListSet
<1> QED
  BY <1>1, <1>3

LEMMA Tuples ==
  ASSUME NEW S, NEW a \in S, NEW b \in S, NEW c \in S
  PROVE  /\ <<a>> \in Seq(S) /\ <<a, b>> \in Seq(S) /\ <<a, b, c>> \in Seq(S)
         /\ <<a>> # <<>> /\ <<a, b>> # <<>> /\ <<a, b, c>> # <<>>
OBVIOUS

LEMMA Appended ==
  ASSUME NEW S, NEW s \in Seq(S), NEW e \in S
  PROVE  s \o <<e>> \in Seq(S) /\ s \o <<e>> # <<>>
<1>1. <<e>> \in Seq(S) /\ Len(<<e>>) = 1
  OBVIOUS
<1>2. s \o <<e>> \in Seq(S) /\ Len(s \o <<e>>) = Len(s) + 1 /\ Len(s) \in Nat
  BY <1>1
<1> QED
  BY <1>2

LEMMA StepNames ==
  /\ "fund" \in Steps /\ "start" \in Steps /\ "regrant" \in Steps /\ "add" \in Steps /\ "part" \in Steps /\ "all" \in Steps
  /\ "approve" \in Steps /\ "revoke" \in Steps /\ "final" \in Steps /\ "ask" \in Steps /\ "own" \in Steps
BY DEF Steps

LEMMA FlowsTyped == ASSUME NEW todo \in Flows PROVE todo \in Seq(Steps) /\ todo # <<>>
<1>1. /\ CloseSteps \in Seq(Steps) /\ OwnCloseSteps \in Seq(Steps)
      /\ <<"revoke">> \in Seq(Steps) /\ <<"revoke">> \o OwnCloseSteps \in Seq(Steps)
  <2>1. <<>> \in Seq(Steps) /\ <<"ask">> \in Seq(Steps) /\ <<"own">> \in Seq(Steps) /\ <<"revoke">> \in Seq(Steps)
    BY Tuples, StepNames
  <2> QED
    BY <2>1 DEF CloseSteps, OwnCloseSteps
<1>2. ASSUME NEW s \in Seq(Steps)
      PROVE  /\ s \o <<"all">> \in Seq(Steps) /\ s \o <<"all">> # <<>>
             /\ s \o <<"part", "start">> \in Seq(Steps) /\ s \o <<"part", "start">> # <<>>
             /\ s \o <<"revoke">> \in Seq(Steps)
             /\ s \o <<"final">> \in Seq(Steps) /\ s \o <<"final">> # <<>>
  <2>1. s \o <<"part", "start">> = (s \o <<"part">>) \o <<"start">>
    OBVIOUS
  <2> QED
    BY <2>1, Appended, StepNames
<1>3. \/ todo \in {<<"regrant", "start">>, <<"fund", "start">>, <<"add", "start">>, <<"part">>, <<"approve", "start">>}
      \/ todo \in {CloseSteps \o <<"all">>, CloseSteps \o <<"part", "start">>}
      \/ todo \in {(CloseSteps \o <<"revoke">>) \o <<"final">>, (<<"revoke">> \o OwnCloseSteps) \o <<"final">>}
  BY DEF Flows
<1>4. CASE todo \in {<<"regrant", "start">>, <<"fund", "start">>, <<"add", "start">>, <<"part">>, <<"approve", "start">>}
  BY <1>4, Tuples, StepNames
<1> QED
  BY <1>1, <1>2, <1>3, <1>4

LEMMA VenuesFinite == ASSUME Bounded, NEW S \in SUBSET Venues PROVE IsFiniteSet(S)
BY FS_Subset DEF Bounded

LEMMA SeedOrder ==
  ASSUME Bounded, NEW S \in SUBSET Venues
  PROVE  /\ InSeedOrder(S) \in Seq(Venues)
         /\ \A v \in S : \E i \in 1..Len(InSeedOrder(S)) : InSeedOrder(S)[i] = v
<1> DEFINE a == SetToSeq(S \ Staged)
           b == SetToSeq(S \cap Staged)
<1>1. a \in Seq(S \ Staged) /\ \A x \in S \ Staged : \E i \in 1..Len(a) : a[i] = x
  BY SetAsSeq, VenuesFinite
<1>2. b \in Seq(S \cap Staged) /\ \A x \in S \cap Staged : \E i \in 1..Len(b) : b[i] = x
  BY SetAsSeq, VenuesFinite
<1>3. a \in Seq(Venues) /\ b \in Seq(Venues)
  BY <1>1, <1>2
<1> HIDE DEF a, b
<1>4. a \o b \in Seq(Venues) /\ Len(a \o b) = Len(a) + Len(b) /\ Len(a) \in Nat /\ Len(b) \in Nat
  BY <1>3
<1>5. /\ \A i \in 1..Len(a) : (a \o b)[i] = a[i]
      /\ \A i \in 1..Len(b) : (a \o b)[Len(a) + i] = b[i]
  BY <1>3
<1>6. \A v \in S : \E i \in 1..Len(a \o b) : (a \o b)[i] = v
  <2> SUFFICES ASSUME NEW v \in S PROVE \E i \in 1..Len(a \o b) : (a \o b)[i] = v
    OBVIOUS
  <2>1. CASE v \notin Staged
    BY <1>1, <1>4, <1>5, <2>1
  <2>2. CASE v \in Staged
    <3>1. PICK i \in 1..Len(b) : b[i] = v
      BY <1>2, <2>2
    <3>2. Len(a) + i \in 1..Len(a \o b) /\ (a \o b)[Len(a) + i] = v
      BY <1>4, <1>5, <3>1
    <3> QED
      BY <3>2
  <2> QED
    BY <2>1, <2>2
<1>7. InSeedOrder(S) = a \o b
  BY DEF InSeedOrder, a, b
<1> QED
  BY <1>4, <1>6, <1>7
LEMMA OwnTxs ==
  ASSUME Bounded, LifeTyped
  PROVE  /\ Deposit \in PageTxs /\ CloseTxs \in Seq(PageTxs)
         /\ \A kind \in {"part", "all"} : WithdrawTxs(kind) \in Seq(PageTxs)
<1>1. home \in Venues /\ pos \in SUBSET Venues
  BY DEF LifeTyped, MoneyTyped
<1>2. Deposit \in PageTxs
  BY <1>1 DEF Deposit, Tx, PageTxs
<1>3. CloseTxs \in Seq(PageTxs)
  <2> DEFINE S == {Tx("close", v) : v \in pos}
  <2>1. IsFiniteSet(S)
    <3> DEFINE f == [v \in pos |-> Tx("close", v)]
    <3>1. f \in Surjection(pos, S)
      BY DEF Surjection
    <3> HIDE DEF f, S
    <3>2. IsFiniteSet(pos)
      BY <1>1, VenuesFinite
    <3> QED
      BY <3>1, <3>2, FS_Surjection
  <2>2. SetToSeq(S) \in Seq(S)
    BY <2>1, SetAsSeq
  <2>3. S \subseteq PageTxs
    BY <1>1 DEF Tx, PageTxs
  <2> HIDE DEF S
  <2>4. SetToSeq(S) \in Seq(PageTxs)
    BY <2>2, <2>3
  <2> QED
    BY <2>4 DEF CloseTxs, S
<1>4. ASSUME NEW kind \in {"part", "all"} PROVE WithdrawTxs(kind) \in Seq(PageTxs)
  <2>1. Tx(kind, home) \in PageTxs
    BY <1>1, <1>4 DEF Tx, PageTxs
  <2>2. <<Tx(kind, home)>> \in Seq(PageTxs) /\ <<>> \in Seq(PageTxs)
    BY <2>1
  <2> QED
    BY <2>2 DEF WithdrawTxs
<1> QED
  BY <1>2, <1>3, <1>4

\* What a rules request signs: its kind for every venue it changes.
LEMMA RulesTyped ==
  ASSUME Bounded, LifeTyped, NEW signer \in {"owner", "bot"}
  PROVE  /\ RulesTxs(signer) \in Seq(PageTxs)
         /\ \A i \in 1..Len(RulesTxs(signer)) :
              RulesTxs(signer)[i].kind = IF signer = "owner" THEN "revoke" ELSE "approve"
         /\ \A v \in RulesChanged(signer) : \E i \in 1..Len(RulesTxs(signer)) : RulesTxs(signer)[i].at = v
<1> DEFINE order == InSeedOrder(RulesChanged(signer))
           kind == IF signer = "owner" THEN "revoke" ELSE "approve"
<1>1. RulesChanged(signer) \in SUBSET Venues
  BY DEF RulesChanged
<1>2. order \in Seq(Venues) /\ \A v \in RulesChanged(signer) : \E i \in 1..Len(order) : order[i] = v
  BY <1>1, SeedOrder
<1>3. RulesTxs(signer) = [i \in 1..Len(order) |-> [kind |-> kind, at |-> order[i]]]
  BY DEF RulesTxs, Tx
<1>4. kind \in {"revoke", "approve"}
  OBVIOUS
<1> HIDE DEF order, kind
<1>5. Len(order) \in Nat /\ \A i \in 1..Len(order) : order[i] \in Venues
  BY <1>2
<1>6. \A i \in 1..Len(order) : [kind |-> kind, at |-> order[i]] \in PageTxs
  BY <1>4, <1>5 DEF PageTxs
<1>7. RulesTxs(signer) \in Seq(PageTxs) /\ Len(RulesTxs(signer)) = Len(order)
  BY <1>3, <1>5, <1>6
<1>8. \A i \in 1..Len(order) : RulesTxs(signer)[i].kind = kind /\ RulesTxs(signer)[i].at = order[i]
  BY <1>3
<1> QED
  BY <1>2, <1>7, <1>8 DEF kind

\* The next close to sign, or none.
LEMMA NextCloseTyped ==
  ASSUME Bounded, LifeTyped, tab.at # "view"
  PROVE  /\ PageTyped(NextClose)
         /\ \/ NextClose.at = "failed"
            \/ NextClose.at = "signs" /\ NextClose.todo = tab.todo
<1> DEFINE i == tab.index + 1
           rest == SubSeq(CloseTxs, i + 1, Len(CloseTxs))
<1>0. TabTyped /\ tab.index \in Nat
  BY DEF LifeTyped, TabTyped, PageTyped, Pages
<1>1. CloseTxs \in Seq(PageTxs) /\ i \in Nat
  BY <1>0, OwnTxs
<1> HIDE DEF i
<1>2. CASE i < Len(CloseTxs)
  <2>1. rest \in Seq(PageTxs) /\ rest # <<>>
    <3>1. Len(CloseTxs) \in Nat /\ i + 1 \in 1..Len(CloseTxs)
      BY <1>1, <1>2
    <3>2. rest = [k \in 1..(Len(CloseTxs) - i) |-> CloseTxs[i + k]]
      BY <1>1, <3>1
    <3>3. \A k \in 1..(Len(CloseTxs) - i) : CloseTxs[i + k] \in PageTxs
      BY <1>1, <3>1
    <3>4. Len(CloseTxs) - i \in Nat \ {0}
      BY <1>1, <1>2, <3>1
    <3> HIDE DEF rest
    <3> QED
      BY <3>2, <3>3, <3>4
  <2>2. NextClose = Signs(rest, i)
    BY <1>2 DEF NextClose, i
  <2> HIDE DEF rest
  <2> QED
    BY <1>0, <1>1, <2>1, <2>2, SignsSet
<1>3. CASE ~(i < Len(CloseTxs))
  <2>1. NextClose = StepFailed(tab)
    BY <1>3 DEF NextClose, i
  <2>2. PageTyped(StepFailed(tab)) /\ StepFailed(tab).at = "failed"
    BY <1>0, StepFailedTyped
  <2> QED
    BY <2>1, <2>2
<1> QED
  BY <1>2, <1>3

LEMMA BuiltTyped ==
  ASSUME Bounded, LifeTyped, NEW step \in Steps \ {"ask", "start", "final"}
  PROVE  Built(step) \in Seq(PageTxs)
<1>1. RulesTxs("owner") \in Seq(PageTxs) /\ RulesTxs("bot") \in Seq(PageTxs) /\ <<>> \in Seq(PageTxs)
  BY RulesTyped
<1>2. Append(RulesTxs("bot"), Deposit) \in Seq(PageTxs) /\ <<Deposit>> \in Seq(PageTxs)
  BY <1>1, OwnTxs
<1> QED
  BY <1>1, <1>2, OwnTxs DEF Built, Steps
-----------------------------------------------------------------------------
\* Each action of the page keeps the page's type.
LEMMA PageKeepsTab ==
  ASSUME Bounded, LifeTyped,
         OpenFlow \/ Final \/ Ask \/ ReadPositions \/ WaitEnds \/ WaitFails \/ Build \/ SendOne \/ OneLanded \/ AfterFailure \/ LeavePage
  PROVE  PageTyped(tab')
<1>0. TabTyped
  BY DEF LifeTyped
<1>1. CASE OpenFlow
  <2>1. PICK todo \in Flows : tab' = [View EXCEPT !.at = "step", !.todo = todo]
    BY <1>1 DEF OpenFlow
  <2>2. todo \in Seq(Steps) /\ todo # <<>>
    BY FlowsTyped
  <2>3. tab' = [at |-> "step", todo |-> todo, list |-> View.list, index |-> View.index, asked |-> View.asked]
    BY <2>1 DEF View
  <2> QED
    BY <2>2, <2>3 DEF PageTyped, Pages, PageAts, View
<1>2. CASE Final
  <2>1. <<"all">> \in Seq(Steps) /\ <<"all">> # <<>>
    BY Tuples, StepNames
  <2>2. CASE tab' = View
    BY <2>2, ViewTyped
  <2>3. CASE tab' = [tab EXCEPT !.todo = <<"all">>]
    BY <1>0, <1>2, <2>1, <2>3 DEF Final, TabTyped, PageTyped, Pages
  <2> QED
    BY <1>2, <2>2, <2>3 DEF Final
<1>3. CASE Ask
  <2>1. tab' = [[tab EXCEPT !.at = "waits"] EXCEPT !.asked = TRUE] /\ tab.at = "step"
    BY <1>3 DEF Ask
  <2>2. "waits" \in PageAts
    BY DEF PageAts
  <2>3. PageTyped([tab EXCEPT !.at = "waits"]) /\ [tab EXCEPT !.at = "waits"].at = "waits"
    BY <1>0, <2>1, <2>2, AtSet
  <2> QED
    BY <2>1, <2>3 DEF PageTyped, Pages
<1>4. CASE ReadPositions
  <2>1. "saw" \in PageAts /\ tab.at = "waits" /\ (tab' = StepDone(tab) \/ tab' = [tab EXCEPT !.at = "saw"])
    BY <1>4 DEF ReadPositions, PageAts
  <2> QED
    BY <1>0, <2>1, AtSet, StepDoneTyped
<1>5. CASE WaitEnds
  <2>1. "waits" \in PageAts /\ tab.at = "saw" /\ (tab' = StepDone(tab) \/ tab' = [tab EXCEPT !.at = "waits"])
    BY <1>5 DEF WaitEnds, PageAts
  <2> QED
    BY <1>0, <2>1, AtSet, StepDoneTyped
<1>6. CASE WaitFails
  BY <1>0, <1>6, StepFailedTyped DEF WaitFails
<1>7. CASE Build
  <2>0. tab.at = "step" /\ Head(tab.todo) \in Steps \ {"ask", "start", "final"}
    BY <1>0, <1>7, TodoSplits DEF Build
  <2>1. Built(Head(tab.todo)) \in Seq(PageTxs)
    BY <2>0, BuiltTyped
  <2>2. CASE Built(Head(tab.todo)) # <<>>
    <3>1. tab' = Signs(Built(Head(tab.todo)), 0)
      BY <1>7, <2>2 DEF Build
    <3> QED
      BY <1>0, <2>0, <2>1, <2>2, <3>1, SignsSet
  <2>3. CASE Built(Head(tab.todo)) = <<>>
    BY <1>0, <1>7, <2>0, <2>3, StepDoneTyped, StepFailedTyped DEF Build
  <2> QED
    BY <2>2, <2>3
<1>8. CASE SendOne
  <2>1. "sends" \in PageAts /\ tab.at = "signs" /\ tab' = [tab EXCEPT !.at = "sends"]
    BY <1>8 DEF SendOne, PageAts
  <2> QED
    BY <1>0, <2>1, AtSet
<1>9. CASE OneLanded
  <2>0. tab.at = "landed" /\ "signs" \in PageAts /\ "waits" \in PageAts /\ <<>> \in Seq(PageTxs)
    BY <1>9 DEF OneLanded, PageAts
  <2>1. CASE Len(tab.list) # 1 /\ Head(tab.todo) # "own"
    <3>1. tab' = WithList("signs", Tail(tab.list))
      BY <1>9, <2>1 DEF OneLanded, WithList
    <3>2. Tail(tab.list) \in Seq(PageTxs) /\ Tail(tab.list) # <<>>
      BY <1>0, <2>0, <2>1, ListSplits
    <3> QED
      BY <1>0, <2>0, <3>1, <3>2, ListSet
  <2>2. CASE Len(tab.list) = 1 /\ Head(tab.todo) = "own"
    <3>1. tab' = WithList("waits", <<>>)
      BY <1>9, <2>2 DEF OneLanded, WithList
    <3> QED
      BY <1>0, <2>0, <3>1, ListSet
  <2>3. CASE Len(tab.list) = 1 /\ Head(tab.todo) # "own"
    BY <1>0, <1>9, <2>0, <2>3, StepDoneTyped DEF OneLanded
  <2>4. CASE Len(tab.list) # 1 /\ Head(tab.todo) = "own"
    BY <1>9, <2>0, <2>4, NextCloseTyped DEF OneLanded
  <2> QED
    BY <2>1, <2>2, <2>3, <2>4
<1>10. CASE AfterFailure
  <2>0. tab.at = "failed" /\ "step" \in PageAts
    BY <1>10 DEF AfterFailure, PageAts
  <2>1. CASE tab' = [tab EXCEPT !.at = "step"]
    BY <1>0, <2>0, <2>1, AtSet
  <2>2. CASE tab' = View
    BY <2>2, ViewTyped
  <2>3. CASE \/ tab' = [tab EXCEPT !.at = "step", !.todo = <<"revoke", "own", "final">>]
             \/ tab' = [tab EXCEPT !.at = "step", !.todo = <<"own">> \o Tail(tab.todo)]
    <3>1. <<"revoke", "own", "final">> \in Seq(Steps) /\ <<"revoke", "own", "final">> # <<>>
      BY Tuples, StepNames
    <3>2. <<"own">> \o Tail(tab.todo) \in Seq(Steps) /\ <<"own">> \o Tail(tab.todo) # <<>>
      <4>1. Tail(tab.todo) \in Seq(Steps) /\ <<"own">> \in Seq(Steps) /\ Len(<<"own">>) = 1
        BY <1>0, <2>0, TodoSplits, Tuples, StepNames
      <4>2. <<"own">> \o Tail(tab.todo) \in Seq(Steps) /\ Len(<<"own">> \o Tail(tab.todo)) = 1 + Len(Tail(tab.todo)) /\ Len(Tail(tab.todo)) \in Nat
        BY <4>1
      <4> QED
        BY <4>2
    <3> QED
      BY <1>0, <2>3, <3>1, <3>2, TodoSet
  <2> QED
    BY <1>10, <2>1, <2>2, <2>3 DEF AfterFailure
<1>11. CASE LeavePage
  BY <1>0, <1>11, ViewTyped, StepFailedTyped DEF LeavePage
<1> QED
  BY <1>1, <1>2, <1>3, <1>4, <1>5, <1>6, <1>7, <1>8, <1>9, <1>10, <1>11

LEMMA PageKeeps ==
  ASSUME Bounded, LifeTyped,
         OpenFlow \/ Final \/ Ask \/ ReadPositions \/ WaitEnds \/ WaitFails \/ Build \/ SendOne \/ OneLanded \/ AfterFailure \/ LeavePage
  PROVE  LifeTyped'
<1>1. TabTyped'
  BY PageKeepsTab DEF TabTyped
<1>2. CASE OpenFlow
  <2>1. SpareTyped'
    <3>1. spare.flows > 0 /\ spare' = [spare EXCEPT !.flows = spare.flows - 1]
      BY <1>2 DEF OpenFlow
    <3> QED
      BY <3>1 DEF LifeTyped, SpareTyped
  <2>2. UNCHANGED <<policy, pos, idle, txs, home, bot, exit, start, told>>
    BY <1>2 DEF OpenFlow, money
  <2> QED
    BY <1>1, <2>1, <2>2 DEF LifeTyped, MoneyTyped, BotTyped, ExitTyped, StartTyped, ToldTyped
<1>3. CASE Final \/ ReadPositions \/ WaitFails \/ AfterFailure
  BY <1>1, <1>3 DEF LifeTyped, MoneyTyped, BotTyped, ExitTyped, StartTyped, SpareTyped, ToldTyped, money, Final, ReadPositions, WaitFails, AfterFailure
<1>4. CASE Ask
  <2>1. ExitTyped'
    BY <1>4 DEF LifeTyped, ExitTyped, Ask
  <2>2. ToldTyped'
    BY <1>4 DEF LifeTyped, ToldTyped, Ask
  <2> QED
    BY <1>1, <1>4, <2>1, <2>2 DEF LifeTyped, MoneyTyped, BotTyped, ExitTyped, StartTyped, SpareTyped, ToldTyped, money, Ask
<1>5. CASE WaitEnds
  <2>1. ToldTyped'
    BY <1>5 DEF LifeTyped, ToldTyped, WaitEnds
  <2> QED
    BY <1>1, <1>5, <2>1 DEF LifeTyped, MoneyTyped, BotTyped, ExitTyped, StartTyped, SpareTyped, ToldTyped, money, WaitEnds
<1>6. CASE Build
  <2>1. ToldTyped'
    BY <1>6 DEF LifeTyped, ToldTyped, Build
  <2> QED
    BY <1>1, <1>6, <2>1 DEF LifeTyped, MoneyTyped, BotTyped, ExitTyped, StartTyped, SpareTyped, ToldTyped, money, Build
<1>7. CASE SendOne
  <2>1. ToldTyped'
    BY <1>7 DEF LifeTyped, ToldTyped, SendOne
  <2>2. Head(tab.list) \in PageTxs
    BY <1>7, ListSplits DEF LifeTyped, SendOne
  <2>3. MoneyTyped'
    BY <1>7, <2>2 DEF LifeTyped, MoneyTyped, SendOne, money
  <2> QED
    BY <1>1, <1>7, <2>1, <2>3 DEF LifeTyped, MoneyTyped, BotTyped, ExitTyped, StartTyped, SpareTyped, ToldTyped, money, SendOne
<1>8. CASE OneLanded
  <2>1. ToldTyped'
    BY <1>8 DEF LifeTyped, ToldTyped, OneLanded
  <2> QED
    BY <1>1, <1>8, <2>1 DEF LifeTyped, MoneyTyped, BotTyped, ExitTyped, StartTyped, SpareTyped, ToldTyped, money, OneLanded
<1>9. CASE LeavePage
  BY <1>1, <1>9 DEF LifeTyped, MoneyTyped, BotTyped, ExitTyped, StartTyped, SpareTyped, ToldTyped, money, LeavePage, Fault
<1> QED
  BY <1>2, <1>3, <1>4, <1>5, <1>6, <1>7, <1>8, <1>9

LEMMA ServerKeeps == ASSUME LifeTyped, StartAsked \/ ServiceStarts \/ Started PROVE LifeTyped'
<1>0. TabTyped
  BY DEF LifeTyped
<1>1. CASE StartAsked
  <2>1. TabTyped'
    <3>1. "starts" \in PageAts /\ tab.at = "step" /\ (tab' = [tab EXCEPT !.at = "starts"] \/ tab' = StepFailed(tab))
      BY <1>1 DEF StartAsked, PageAts
    <3> QED
      BY <1>0, <3>1, AtSet, StepFailedTyped DEF TabTyped
  <2> QED
    BY <1>1, <2>1 DEF LifeTyped, MoneyTyped, BotTyped, ExitTyped, StartTyped, SpareTyped, ToldTyped, money, StartAsked
<1>2. CASE ServiceStarts
  <2>1. ToldTyped'
    BY <1>2 DEF LifeTyped, ToldTyped, ServiceStarts
  <2>2. BotTyped'
    BY <1>2 DEF LifeTyped, BotTyped, ServiceStarts, Bot, BotAts
  <2> QED
    BY <1>2, <2>1, <2>2 DEF LifeTyped, MoneyTyped, ExitTyped, StartTyped, SpareTyped, TabTyped, money, ServiceStarts
<1>3. CASE Started
  <2>1. TabTyped'
    <3>1. tab' = tab \/ (tab.at # "view" /\ tab' = StepDone(tab))
      BY <1>3 DEF Started
    <3> QED
      BY <1>0, <3>1, StepDoneTyped DEF TabTyped
  <2>2. ToldTyped'
    BY <1>3 DEF LifeTyped, ToldTyped, Started
  <2>3. ExitTyped'
    BY <1>3 DEF LifeTyped, ExitTyped, Started
  <2> QED
    BY <1>3, <2>1, <2>2, <2>3 DEF LifeTyped, MoneyTyped, BotTyped, StartTyped, SpareTyped, money, Started
<1> QED
  BY <1>1, <1>2, <1>3

LEMMA BotKeeps ==
  ASSUME LifeTyped,
         Poll \/ ExitUnread \/ StopRevoked \/ CloseForOwner \/ ReadAgain \/ RequestDone \/ Act \/ Reopen \/ OpenDecided \/ BotCrash \/ Restart
  PROVE  LifeTyped'
<1>1. BotTyped'
  BY DEF LifeTyped, BotTyped, ExitTyped, Bot, BotAts, Poll, ExitUnread, StopRevoked, CloseForOwner, ReadAgain, RequestDone,
         Act, Reopen, OpenDecided, BotCrash, Restart
<1>2. MoneyTyped'
  BY DEF LifeTyped, MoneyTyped, BotTxs, Tx, money, Poll, ExitUnread, StopRevoked, CloseForOwner, ReadAgain, RequestDone,
         Act, Reopen, OpenDecided, BotCrash, Restart
<1>3. ExitTyped'
  BY DEF LifeTyped, ExitTyped, Poll, ExitUnread, StopRevoked, CloseForOwner, ReadAgain, RequestDone,
         Act, Reopen, OpenDecided, BotCrash, Restart
<1>4. ToldTyped'
  BY DEF LifeTyped, ToldTyped, Poll, ExitUnread, StopRevoked, CloseForOwner, ReadAgain, RequestDone,
         Act, Reopen, OpenDecided, BotCrash, Restart
<1>5. SpareTyped'
  BY DEF LifeTyped, SpareTyped, Fault, Poll, ExitUnread, StopRevoked, CloseForOwner, ReadAgain, RequestDone,
         Act, Reopen, OpenDecided, BotCrash, Restart
<1>6. UNCHANGED <<tab, start>>
  BY DEF Poll, ExitUnread, StopRevoked, CloseForOwner, ReadAgain, RequestDone, Act, Reopen, OpenDecided, BotCrash, Restart
<1> QED
  BY <1>1, <1>2, <1>3, <1>4, <1>5, <1>6 DEF LifeTyped, StartTyped, TabTyped

LEMMA DecidedTyped ==
  ASSUME TabTyped, NEW t, NEW fate \in BOOLEAN, Decided(t, fate)
  PROVE  PageTyped(tab')
<1>1. "landed" \in PageAts
  BY DEF PageAts
<1>2. \/ tab' = tab
      \/ tab.at = "sends" /\ tab' = [tab EXCEPT !.at = "landed"]
      \/ tab.at = "sends" /\ tab' = StepFailed(tab)
  BY DEF Decided
<1> QED
  BY <1>1, <1>2, AtSet, StepFailedTyped DEF TabTyped

LEMMA ChainKeeps ==
  ASSUME LifeTyped, (\E t \in txs : Land(t) \/ Die(t)) \/ RulesGrow
  PROVE  LifeTyped'
<1>0. TabTyped /\ txs \subseteq PageTxs \cup BotTxs
  BY DEF LifeTyped, MoneyTyped
<1>1. ASSUME NEW t \in txs, Land(t) PROVE LifeTyped'
  <2>1. TabTyped'
    BY <1>0, <1>1, DecidedTyped DEF Land, TabTyped
  <2>2. t.at \in Venues
    BY <1>0 DEF PageTxs, BotTxs
  <2>3. policy' \in [Venues -> {"none", "bot", "old", "owner"}]
    BY <1>1, <2>2 DEF LifeTyped, MoneyTyped, Land
  <2>4. MoneyTyped'
    BY <1>1, <2>2, <2>3 DEF LifeTyped, MoneyTyped, Land, Decided
  <2> QED
    BY <1>1, <2>1, <2>4 DEF LifeTyped, BotTyped, ExitTyped, StartTyped, SpareTyped, ToldTyped, Land
<1>2. ASSUME NEW t \in txs, Die(t) PROVE LifeTyped'
  <2>1. TabTyped'
    BY <1>0, <1>2, DecidedTyped DEF Die, TabTyped
  <2>2. SpareTyped'
    BY <1>2 DEF LifeTyped, SpareTyped, Die, Fault
  <2> QED
    BY <1>2, <2>1, <2>2 DEF LifeTyped, MoneyTyped, BotTyped, ExitTyped, StartTyped, ToldTyped, Die, Decided, money
<1>3. CASE RulesGrow
  BY <1>3 DEF LifeTyped, MoneyTyped, BotTyped, ExitTyped, StartTyped, SpareTyped, ToldTyped, TabTyped, RulesGrow, Fault
<1> QED
  BY <1>1, <1>2, <1>3

LEMMA InitTyped == ASSUME Bounded, Init PROVE LifeTyped
<1>1. TabTyped
  <2>1. <<"fund", "start">> \in Seq(Steps) /\ <<"fund", "start">> # <<>>
    BY Tuples, StepNames
  <2>2. CASE tab = View
    BY <2>2, ViewTyped DEF TabTyped
  <2>3. CASE tab = [View EXCEPT !.at = "step", !.todo = <<"fund", "start">>]
    <3>1. tab = [at |-> "step", todo |-> <<"fund", "start">>, list |-> View.list, index |-> View.index, asked |-> View.asked]
      BY <2>3 DEF View
    <3> QED
      BY <2>1, <3>1 DEF TabTyped, PageTyped, Pages, PageAts, View
  <2> QED
    BY <2>2, <2>3 DEF Init
<1> QED
  BY <1>1 DEF Init, Bounded, LifeTyped, MoneyTyped, BotTyped, ExitTyped, StartTyped, SpareTyped, ToldTyped, Bot, BotAts

LEMMA NextTyped == ASSUME Bounded, LifeTyped, [Next]_lifeVars PROVE LifeTyped'
<1>1. CASE UNCHANGED lifeVars
  BY <1>1 DEF lifeVars, money, LifeTyped, MoneyTyped, BotTyped, ExitTyped, StartTyped, SpareTyped, ToldTyped, TabTyped
<1>2. CASE Next
  BY <1>2, PageKeeps, ServerKeeps, BotKeeps, ChainKeeps DEF Next
<1> QED
  BY <1>1, <1>2

-----------------------------------------------------------------------------
(***************************************************************************)
(* Closed, it stays closed.  While the page holds what it was told, the    *)
(* request is pending or the bot has ended, and a bot that polls again     *)
(* reads it before it acts.                                                *)
(***************************************************************************)
ExitInv ==
  /\ told.asked => exit.state = "pending" \/ bot.at = "off"
  /\ told.closed => told.asked /\ bot.at \notin {"acts", "moves", "opens"}

LEMMA InitExit == Init => ExitInv
BY DEF Init, ExitInv

LEMMA PageKeepsExit ==
  ASSUME LifeTyped, ExitInv,
         OpenFlow \/ Final \/ Ask \/ ReadPositions \/ WaitEnds \/ WaitFails \/ Build \/ SendOne \/ OneLanded \/ AfterFailure \/ LeavePage
  PROVE  ExitInv'
<1>1. UNCHANGED bot
  BY DEF OpenFlow, Final, Ask, ReadPositions, WaitEnds, WaitFails, Build, SendOne, OneLanded, AfterFailure, LeavePage
<1>2. CASE Ask
  BY <1>1, <1>2 DEF LifeTyped, ToldTyped, ExitTyped, ExitInv, Ask
<1>3. CASE WaitEnds
  <2>1. told'.asked = told.asked /\ exit' = exit
    BY <1>3 DEF LifeTyped, ToldTyped, WaitEnds
  <2>2. CASE told' = told
    BY <1>1, <2>1, <2>2 DEF ExitInv
  <2>3. CASE told' # told
    <3>1. told'.closed = told.asked /\ (exit.state # "pending" \/ bot.at \in {"off", "down"})
      BY <1>3, <2>3 DEF LifeTyped, ToldTyped, WaitEnds, ReadAnswer, Reachable
    <3> QED
      BY <1>1, <2>1, <3>1 DEF ExitInv
  <2> QED
    BY <2>2, <2>3
<1>4. CASE Build \/ SendOne \/ OneLanded
  <2>1. told'.asked = told.asked /\ told'.closed = told.closed /\ exit' = exit
    BY <1>4 DEF LifeTyped, ToldTyped, Build, SendOne, OneLanded
  <2> QED
    BY <1>1, <2>1 DEF ExitInv
<1>5. CASE OpenFlow \/ Final \/ ReadPositions \/ WaitFails \/ AfterFailure \/ LeavePage
  BY <1>1, <1>5 DEF ExitInv, OpenFlow, Final, ReadPositions, WaitFails, AfterFailure, LeavePage
<1> QED
  BY <1>2, <1>3, <1>4, <1>5

LEMMA ServerKeepsExit ==
  ASSUME LifeTyped, ExitInv, StartAsked \/ ServiceStarts \/ Started
  PROVE  ExitInv'
BY DEF LifeTyped, ToldTyped, ExitInv, StartAsked, ServiceStarts, Started

LEMMA BotKeepsExit ==
  ASSUME LifeTyped, ExitInv,
         Poll \/ ExitUnread \/ StopRevoked \/ CloseForOwner \/ ReadAgain \/ RequestDone \/ Act \/ Reopen \/ OpenDecided \/ BotCrash \/ Restart
  PROVE  ExitInv'
<1>1. CASE ExitUnread
  BY <1>1 DEF LifeTyped, ToldTyped, ExitInv, ExitUnread
<1>2. CASE Poll
  BY <1>2 DEF ExitInv, Poll, Bot
<1>3. CASE StopRevoked \/ RequestDone
  BY <1>3 DEF ExitInv, StopRevoked, RequestDone, Bot
<1>4. CASE CloseForOwner \/ ReadAgain
  BY <1>4 DEF ExitInv, CloseForOwner, ReadAgain, Bot
<1>5. CASE Act \/ Reopen \/ OpenDecided
  BY <1>5 DEF ExitInv, Act, Reopen, OpenDecided, Bot
<1>6. CASE BotCrash \/ Restart
  BY <1>6 DEF ExitInv, BotCrash, Restart, Bot, Reachable
<1> QED
  BY <1>1, <1>2, <1>3, <1>4, <1>5, <1>6

LEMMA NextExit == ASSUME LifeTyped, ExitInv, [Next]_lifeVars PROVE ExitInv'
<1>1. CASE UNCHANGED lifeVars
  BY <1>1 DEF lifeVars, ExitInv
<1>2. CASE (\E t \in txs : Land(t) \/ Die(t)) \/ RulesGrow
  BY <1>2 DEF ExitInv, Land, Die, RulesGrow
<1> QED
  BY <1>1, <1>2, PageKeepsExit, ServerKeepsExit, BotKeepsExit DEF Next

\* A bot that opens was acting; the page's transactions open nothing.
LEMMA NoOpen ==
  ASSUME LifeTyped, ExitInv, [Next]_lifeVars, NEW t \in txs' \ txs, t.kind = "open"
  PROVE  ~told.closed
<1>1. CASE Act
  BY <1>1 DEF ExitInv, Act
<1>2. CASE Reopen
  BY <1>2 DEF ExitInv, Reopen
<1>3. CASE SendOne
  <2>1. t = Head(tab.list) /\ Head(tab.list) \in PageTxs
    BY <1>3, ListSplits DEF LifeTyped, SendOne
  <2> QED
    BY <2>1 DEF PageTxs
<1>4. CASE CloseForOwner
  BY <1>4 DEF CloseForOwner, Tx
<1>5. CASE OpenFlow \/ Final \/ Ask \/ ReadPositions \/ WaitEnds \/ WaitFails \/ Build \/ OneLanded \/ AfterFailure \/ LeavePage
  BY <1>5 DEF OpenFlow, Final, Ask, ReadPositions, WaitEnds, WaitFails, Build, OneLanded, AfterFailure, LeavePage
<1>6. CASE StartAsked \/ ServiceStarts \/ Started
  BY <1>6 DEF StartAsked, ServiceStarts, Started
<1>7. CASE Poll \/ ExitUnread \/ StopRevoked \/ ReadAgain \/ RequestDone \/ OpenDecided \/ BotCrash \/ Restart
  BY <1>7 DEF Poll, ExitUnread, StopRevoked, ReadAgain, RequestDone, OpenDecided, BotCrash, Restart
<1>8. CASE (\E u \in txs : Land(u) \/ Die(u)) \/ RulesGrow
  BY <1>8 DEF Land, Die, Decided, RulesGrow
<1>9. CASE UNCHANGED lifeVars
  BY <1>9 DEF lifeVars
<1> QED
  BY <1>1, <1>2, <1>3, <1>4, <1>5, <1>6, <1>7, <1>8, <1>9 DEF Next

-----------------------------------------------------------------------------
(***************************************************************************)
(* Revoked, it stays revoked.  While a revoke runs that no approval was in *)
(* flight for, each policy that names the bot has its transaction left in  *)
(* the page's list; the page says so once the list is through.             *)
(***************************************************************************)
NoApproval == \A t \in txs : t.kind # "approve"

RevokeRuns == tab.at \in {"signs", "sends", "landed"} /\ Head(tab.todo) = "revoke" /\ ~told.late

\* Transaction i of the list is still to land.
Left(i) == i \in 1..Len(tab.list) /\ (tab.at = "landed" => i # 1)

RevokeListed ==
  /\ NoApproval
  /\ \A i \in 1..Len(tab.list) : tab.list[i].kind = "revoke"
  /\ \A v \in Venues : Names(v) => \E i \in 1..Len(tab.list) : Left(i) /\ tab.list[i].at = v

RevokeInv ==
  /\ told.revoked => NoApproval /\ \A v \in Venues : ~Names(v)
  /\ RevokeRuns => RevokeListed

LEMMA InitRevoke == Init => RevokeInv
BY DEF Init, View, RevokeInv, RevokeRuns

\* A step that starts no revoke and takes none away, and sends nothing.
LEMMA RevokeStutters ==
  ASSUME RevokeInv, UNCHANGED txs, \A v \in Venues : Names(v)' => Names(v),
         told'.revoked => told.revoked, ~told'.late => ~told.late,
         tab' = tab \/ tab'.at \notin {"signs", "sends", "landed"}
  PROVE  RevokeInv'
<1>1. NoApproval => NoApproval'
  BY DEF NoApproval
<1>2. RevokeRuns' => tab' = tab /\ RevokeRuns
  BY DEF RevokeRuns
<1>3. RevokeListed /\ tab' = tab => RevokeListed'
  BY <1>1 DEF RevokeListed, Left
<1> QED
  BY <1>1, <1>2, <1>3 DEF RevokeInv

LEMMA PageKeepsRevoke ==
  ASSUME Bounded, LifeTyped, RevokeInv,
         OpenFlow \/ Final \/ Ask \/ ReadPositions \/ WaitEnds \/ WaitFails \/ Build \/ SendOne \/ OneLanded \/ AfterFailure \/ LeavePage
  PROVE  RevokeInv'
<1>0. TabTyped /\ ToldTyped
  BY DEF LifeTyped
<1>1. policy' = policy /\ \A v \in Venues : Names(v)' <=> Names(v)
  BY DEF OpenFlow, Final, Ask, ReadPositions, WaitEnds, WaitFails, Build, SendOne, OneLanded, AfterFailure, LeavePage, money, Names
<1>2. CASE OpenFlow \/ Final \/ Ask \/ ReadPositions \/ WaitEnds \/ WaitFails \/ AfterFailure \/ LeavePage
  <2>1. UNCHANGED txs /\ told'.revoked = told.revoked /\ told'.late = told.late
    BY <1>0, <1>2 DEF ToldTyped, OpenFlow, Final, Ask, ReadPositions, WaitEnds, WaitFails, AfterFailure, LeavePage
  <2>2. tab'.at \notin {"signs", "sends", "landed"}
    <3>1. tab \in Pages
      BY <1>0 DEF TabTyped, PageTyped
    <3>2. StepDone(tab).at \in {"view", "step"} \/ tab.at = "view"
      BY <1>0, StepDoneTyped
    <3>3. StepFailed(tab).at = "failed" \/ tab.at = "view"
      BY <1>0, StepFailedTyped
    <3>4. \A d : [tab EXCEPT !.at = "step", !.todo = d].at = "step"
      BY <3>1, PageExcept DEF Pages
    <3>5. CASE OpenFlow
      BY <3>5 DEF OpenFlow, View
    <3>6. CASE Final \/ Ask
      <4>1. [tab EXCEPT !.todo = <<"all">>].at = tab.at /\ [tab EXCEPT !.at = "waits", !.asked = TRUE].at = "waits"
        BY <3>1 DEF Pages
      <4>2. CASE Final
        BY <4>1, <4>2, ViewTyped DEF Final
      <4>3. CASE Ask
        BY <4>1, <4>3 DEF Ask
      <4> QED
        BY <3>6, <4>2, <4>3
    <3>7. CASE ReadPositions \/ WaitEnds \/ WaitFails
      BY <3>1, <3>2, <3>3, <3>7 DEF ReadPositions, WaitEnds, WaitFails, Pages
    <3>8. CASE AfterFailure
      BY <3>1, <3>4, <3>8, ViewTyped DEF AfterFailure, Pages
    <3>9. CASE LeavePage
      BY <3>3, <3>9, ViewTyped DEF LeavePage
    <3> QED
      BY <1>2, <3>5, <3>6, <3>7, <3>8, <3>9
  <2> QED
    BY <1>1, <2>1, <2>2, RevokeStutters
<1>3. CASE Build
  <2>0. txs' = txs /\ tab.at = "step" /\ told'.revoked = told.revoked
    BY <1>0, <1>3 DEF Build, ToldTyped
  <2>1. NoApproval' <=> NoApproval
    BY <2>0 DEF NoApproval
  <2>2. ASSUME RevokeRuns' PROVE RevokeListed'
    <3> DEFINE l == Built(Head(tab.todo))
    <3>1. l # <<>> /\ tab' = Signs(l, 0)
      <4>1. StepDone(tab).at \in {"view", "step"} /\ StepFailed(tab).at = "failed"
        BY <1>0, <2>0, StepDoneTyped, StepFailedTyped
      <4> QED
        BY <1>3, <2>2, <4>1 DEF Build, RevokeRuns
    <3>2. Head(tab.todo) \in Steps \ {"ask", "start", "final"}
      BY <1>0, <1>3, TodoSplits DEF Build
    <3>3. l \in Seq(PageTxs)
      BY <3>2, BuiltTyped
    <3>4. tab'.at = "signs" /\ tab'.list = l /\ tab'.todo = tab.todo
      BY <1>0, <2>0, <3>1, <3>3, SignsSet
    <3>5. Head(tab.todo) = "revoke" /\ l = RulesTxs("owner")
      BY <2>2, <3>4 DEF RevokeRuns, Built
    <3>6. NoApproval
      <4>1. told'.late = \E t \in txs : t.kind = "approve"
        BY <1>0, <1>3, <3>5 DEF Build, ToldTyped
      <4> QED
        BY <2>2, <4>1 DEF RevokeRuns, NoApproval
    <3>7. \A i \in 1..Len(l) : l[i].kind = "revoke"
      BY <3>5, RulesTyped
    <3>8. \A v \in Venues : Names(v) => \E i \in 1..Len(l) : l[i].at = v
      BY <3>5, RulesTyped DEF Names, RulesChanged
    <3> HIDE DEF l
    <3> QED
      BY <1>1, <2>1, <3>4, <3>6, <3>7, <3>8 DEF RevokeListed, Left
  <2> QED
    BY <1>1, <2>0, <2>1, <2>2 DEF RevokeInv
<1>4. CASE SendOne
  <2>0. "sends" \in PageAts /\ tab.at = "signs" /\ tab' = [tab EXCEPT !.at = "sends"] /\ txs' = txs \cup {Head(tab.list)}
    BY <1>4 DEF SendOne, PageAts
  <2>1. tab'.at = "sends" /\ tab'.todo = tab.todo /\ tab'.list = tab.list
    BY <1>0, <2>0, AtSet
  <2>2. told'.late = told.late /\ (told'.revoked => told.revoked /\ Head(tab.list).kind # "approve")
    BY <1>0, <1>4 DEF SendOne, ToldTyped
  <2>3. told'.revoked => NoApproval' /\ \A v \in Venues : ~Names(v)'
    BY <1>1, <2>0, <2>2 DEF RevokeInv, NoApproval
  <2>4. ASSUME RevokeRuns' PROVE RevokeListed'
    <3>1. RevokeListed
      BY <2>0, <2>1, <2>2, <2>4 DEF RevokeInv, RevokeRuns
    <3>2. Head(tab.list).kind = "revoke"
      BY <1>0, <2>0, <3>1, ListSplits DEF RevokeListed
    <3>3. NoApproval'
      BY <2>0, <3>1, <3>2 DEF RevokeListed, NoApproval
    <3> QED
      BY <1>1, <2>0, <2>1, <3>1, <3>3 DEF RevokeListed, Left
  <2> QED
    BY <2>3, <2>4 DEF RevokeInv
<1>5. CASE OneLanded
  <2>0. "signs" \in PageAts /\ tab.at = "landed" /\ txs' = txs /\ told'.late = told.late
    BY <1>0, <1>5 DEF OneLanded, PageAts, ToldTyped
  <2>1. NoApproval' <=> NoApproval
    BY <2>0 DEF NoApproval
  <2>2. CASE Len(tab.list) = 1
    <3>1. tab'.at \notin {"signs", "sends", "landed"}
      <4>1. StepDone(tab).at \in {"view", "step"} /\ WithList("waits", <<>>).at = "waits"
        <5>1. "waits" \in PageAts /\ <<>> \in Seq(PageTxs)
          BY DEF PageAts
        <5> QED
          BY <1>0, <2>0, <5>1, StepDoneTyped, ListSet
      <4> QED
        BY <1>5, <2>2, <4>1 DEF OneLanded, WithList
    <3>2. CASE Head(tab.todo) = "revoke" /\ ~told.late
      <4>1. RevokeListed
        BY <2>0, <3>2 DEF RevokeInv, RevokeRuns
      <4>2. \A v \in Venues : ~Names(v)
        BY <2>0, <2>2, <4>1 DEF RevokeListed, Left
      <4> QED
        BY <1>1, <2>1, <3>1, <4>1, <4>2 DEF RevokeInv, RevokeRuns, RevokeListed
    <3>3. CASE ~(Head(tab.todo) = "revoke" /\ ~told.late)
      <4>1. told'.revoked => told.revoked
        BY <1>0, <1>5, <2>2, <3>3 DEF OneLanded, ToldTyped
      <4> QED
        BY <1>1, <2>0, <3>1, <4>1, RevokeStutters
    <3> QED
      BY <3>2, <3>3
  <2>4. CASE Len(tab.list) # 1 /\ Head(tab.todo) = "own"
    <3>1. tab' = NextClose /\ told' = told
      BY <1>5, <2>4 DEF OneLanded
    <3>2. ~RevokeRuns'
      BY <2>0, <2>4, <3>1, NextCloseTyped DEF RevokeRuns
    <3> QED
      BY <1>1, <2>1, <3>1, <3>2 DEF RevokeInv
  <2>3. CASE Len(tab.list) # 1 /\ Head(tab.todo) # "own"
    <3>1. tab' = WithList("signs", Tail(tab.list)) /\ told' = told
      BY <1>5, <2>3 DEF OneLanded, WithList
    <3>2. /\ Tail(tab.list) \in Seq(PageTxs) /\ Tail(tab.list) # <<>> /\ Len(Tail(tab.list)) = Len(tab.list) - 1
          /\ Len(tab.list) \in Nat \ {0}
          /\ \A i \in 1..(Len(tab.list) - 1) : Tail(tab.list)[i] = tab.list[i + 1]
      BY <1>0, <2>0, <2>3, ListSplits
    <3>3. tab'.at = "signs" /\ tab'.todo = tab.todo /\ tab'.list = Tail(tab.list)
      BY <1>0, <2>0, <3>1, <3>2, ListSet
    <3>4. ASSUME RevokeRuns' PROVE RevokeListed'
      <4>1. RevokeListed
        BY <2>0, <3>1, <3>3, <3>4 DEF RevokeInv, RevokeRuns
      <4>2. \A i \in 1..Len(tab'.list) : tab'.list[i].kind = "revoke"
        BY <3>2, <3>3, <4>1 DEF RevokeListed
      <4>3. ASSUME NEW v \in Venues, Names(v) PROVE \E i \in 1..Len(tab'.list) : tab'.list[i].at = v
        <5>1. PICK i \in 1..Len(tab.list) : i # 1 /\ tab.list[i].at = v
          BY <2>0, <4>1, <4>3 DEF RevokeListed, Left
        <5>2. i - 1 \in 1..Len(tab'.list) /\ tab'.list[i - 1] = tab.list[i]
          BY <3>2, <3>3, <5>1
        <5> QED
          BY <5>1, <5>2
      <4> QED
        BY <1>1, <2>1, <3>3, <4>1, <4>2, <4>3 DEF RevokeListed, Left
    <3> QED
      BY <1>1, <2>1, <3>1, <3>4 DEF RevokeInv
  <2> QED
    BY <2>2, <2>3, <2>4
<1> QED
  BY <1>2, <1>3, <1>4, <1>5

LEMMA ServerKeepsRevoke ==
  ASSUME LifeTyped, RevokeInv, StartAsked \/ ServiceStarts \/ Started
  PROVE  RevokeInv'
<1>0. TabTyped /\ ToldTyped
  BY DEF LifeTyped
<1>1. txs' = txs /\ policy' = policy /\ told'.revoked = told.revoked /\ told'.late = told.late
  BY <1>0 DEF ToldTyped, StartAsked, ServiceStarts, Started, money
<1>2. tab' = tab \/ tab'.at \notin {"signs", "sends", "landed"}
  <2>1. tab.at # "view" => StepDone(tab).at \in {"view", "step"} /\ StepFailed(tab).at = "failed"
    BY <1>0, StepDoneTyped, StepFailedTyped
  <2>2. [tab EXCEPT !.at = "starts"].at = "starts"
    BY <1>0 DEF TabTyped, PageTyped, Pages
  <2> QED
    BY <2>1, <2>2 DEF StartAsked, ServiceStarts, Started
<1> QED
  BY <1>1, <1>2, RevokeStutters DEF Names

\* The bot's transactions approve nothing.
LEMMA BotKeepsRevoke ==
  ASSUME LifeTyped, RevokeInv,
         Poll \/ ExitUnread \/ StopRevoked \/ CloseForOwner \/ ReadAgain \/ RequestDone \/ Act \/ Reopen \/ OpenDecided \/ BotCrash \/ Restart
  PROVE  RevokeInv'
<1>1. policy' = policy /\ tab' = tab /\ told'.revoked = told.revoked /\ told'.late = told.late
  BY DEF LifeTyped, ToldTyped, money, Poll, ExitUnread, StopRevoked, CloseForOwner, ReadAgain, RequestDone,
         Act, Reopen, OpenDecided, BotCrash, Restart
<1>2. \A t \in txs' \ txs : t.kind # "approve"
  BY DEF Tx, Poll, ExitUnread, StopRevoked, CloseForOwner, ReadAgain, RequestDone, Act, Reopen, OpenDecided, BotCrash, Restart
<1>3. NoApproval => NoApproval'
  BY <1>2 DEF NoApproval
<1>4. \A v \in Venues : Names(v)' <=> Names(v)
  BY <1>1 DEF Names
<1> QED
  BY <1>1, <1>3, <1>4 DEF RevokeInv, RevokeRuns, RevokeListed, Left

LEMMA ChainKeepsRevoke ==
  ASSUME LifeTyped, RevokeInv, (\E t \in txs : Land(t) \/ Die(t)) \/ RulesGrow
  PROVE  RevokeInv'
<1>0. TabTyped /\ MoneyTyped /\ told' = told
  BY DEF LifeTyped, Land, Die, RulesGrow
<1>1. ASSUME NEW t \in txs, Land(t) PROVE RevokeInv'
  <2>0. txs' = txs \ {t} /\ (NoApproval => NoApproval')
    BY <1>1 DEF Land, Decided, NoApproval
  <2>1. NoApproval => \A v \in Venues : Names(v)' => Names(v) /\ (t.kind = "revoke" => v # t.at)
    BY <1>0, <1>1 DEF MoneyTyped, NoApproval, Names, Land
  <2>2. told'.revoked => NoApproval' /\ \A v \in Venues : ~Names(v)'
    BY <1>0, <2>0, <2>1 DEF RevokeInv
  <2>3. ASSUME RevokeRuns' PROVE RevokeListed'
    <3>1. \/ tab' = tab
          \/ tab.at = "sends" /\ Head(tab.list) = t /\ tab' = [tab EXCEPT !.at = "landed"]
      BY <1>1 DEF Land, Decided
    <3>2. CASE tab' = tab
      <4>1. RevokeListed
        BY <1>0, <2>3, <3>2 DEF RevokeInv, RevokeRuns
      <4> QED
        BY <2>0, <2>1, <3>2, <4>1 DEF RevokeListed, Left
    <3>3. CASE tab.at = "sends" /\ Head(tab.list) = t /\ tab' = [tab EXCEPT !.at = "landed"]
      <4>0. "landed" \in PageAts
        BY DEF PageAts
      <4>1. tab'.at = "landed" /\ tab'.todo = tab.todo /\ tab'.list = tab.list
        BY <1>0, <3>3, <4>0, AtSet
      <4>2. RevokeListed
        BY <1>0, <2>3, <3>3, <4>1 DEF RevokeInv, RevokeRuns
      <4>3. tab.list[1] = t /\ t.kind = "revoke"
        BY <1>0, <3>3, <4>2, ListSplits DEF RevokeListed
      <4>4. ASSUME NEW v \in Venues, Names(v)' PROVE \E i \in 1..Len(tab.list) : i # 1 /\ tab.list[i].at = v
        BY <2>1, <4>2, <4>3, <4>4 DEF RevokeListed, Left
      <4> QED
        BY <2>0, <4>1, <4>2, <4>4 DEF RevokeListed, Left
    <3> QED
      BY <3>1, <3>2, <3>3
  <2> QED
    BY <2>2, <2>3 DEF RevokeInv
<1>2. ASSUME NEW t \in txs, Die(t) PROVE RevokeInv'
  <2>1. NoApproval => NoApproval'
    BY <1>2 DEF Die, Decided, NoApproval
  <2>2. \A v \in Venues : Names(v)' <=> Names(v)
    BY <1>2 DEF Die, money, Names
  <2>3. tab' = tab \/ tab'.at = "failed"
    BY <1>0, <1>2, StepFailedTyped DEF Die, Decided
  <2> QED
    BY <1>0, <2>1, <2>2, <2>3 DEF RevokeInv, RevokeRuns, RevokeListed, Left
<1>3. CASE RulesGrow
  <2>1. txs' = txs /\ tab' = tab /\ \A v \in Venues : Names(v)' => Names(v)
    BY <1>0, <1>3 DEF RulesGrow, Names, MoneyTyped
  <2> QED
    BY <1>0, <2>1, RevokeStutters
<1> QED
  BY <1>1, <1>2, <1>3

LEMMA NextRevoke == ASSUME Bounded, LifeTyped, RevokeInv, [Next]_lifeVars PROVE RevokeInv'
<1>1. CASE UNCHANGED lifeVars
  BY <1>1, RevokeStutters DEF lifeVars, money, Names
<1> QED
  BY <1>1, PageKeepsRevoke, ServerKeepsRevoke, BotKeepsRevoke, ChainKeepsRevoke DEF Next

-----------------------------------------------------------------------------
LifeInv == LifeTyped /\ ExitInv /\ RevokeInv

\* The invariant: a request the page goes by is pending or the bot has ended,
\* and a revoke's list holds every policy that still names the bot.
THEOREM LifeHolds == ASSUME Bounded PROVE Spec => []LifeInv
<1>1. Init => LifeInv
  BY InitTyped, InitExit, InitRevoke DEF LifeInv
<1>2. LifeInv /\ [Next]_lifeVars => LifeInv'
  BY NextTyped, NextExit, NextRevoke DEF LifeInv
<1> QED
  BY <1>1, <1>2, PTL DEF Spec

\* The vault's policies and money, the bot, the exit and the page keep their
\* types, whatever flow runs.
THEOREM LifeTypes == ASSUME Bounded PROVE Spec => []TypeOK
<1>1. LifeInv => TypeOK
  <2> SUFFICES ASSUME LifeInv PROVE TypeOK
    OBVIOUS
  <2>1. MoneyTyped /\ BotTyped /\ ExitTyped /\ StartTyped /\ ToldTyped /\ tab \in Pages
    BY DEF LifeInv, LifeTyped, TabTyped, PageTyped
  <2>2. \A t \in txs : t.at \in Venues
    BY <2>1 DEF MoneyTyped, PageTxs, BotTxs
  <2>3. told \in [DOMAIN told -> BOOLEAN]
    BY <2>1 DEF ToldTyped
  <2>4. tab.at \in PageAts /\ bot.at \in BotAts
    BY <2>1 DEF Pages, BotTyped
  <2> QED
    BY <2>1, <2>2, <2>3, <2>4 DEF TypeOK, MoneyTyped, BotAts, ExitTyped, StartTyped, PageAts
<1> QED
  BY <1>1, LifeHolds, PTL

\* "The bot can no longer act on your vault": said by the page, it stays true
\* until the owner approves again.
THEOREM RevokedHolds == ASSUME Bounded PROVE Spec => []RevokedStays
<1>1. LifeInv => RevokedStays
  BY DEF LifeInv, RevokeInv, RevokedStays
<1> QED
  BY <1>1, LifeHolds, PTL

\* "Closed into your vault; the bot stopped": said by the page, no open is sent
\* until the owner starts the bot again (or its read of the request failed).
THEOREM ClosedHolds == ASSUME Bounded PROVE Spec => StaysClosed
<1>1. LifeInv /\ [Next]_lifeVars => [\A t \in txs' \ txs : t.kind = "open" => ~told.closed]_lifeVars
  BY NoOpen DEF LifeInv
<1> QED
  BY <1>1, LifeHolds, PTL DEF Spec, StaysClosed
=============================================================================
