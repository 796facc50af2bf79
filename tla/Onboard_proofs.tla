------------------------ MODULE Onboard_proofs ------------------------
(***************************************************************************)
(* A request for a vault, for every set of pages, number of policies,      *)
(* seeds and tables, and whatever goes wrong.                              *)
(*                                                                         *)
(* First, the tables: the bot pays one, and another only where the server  *)
(* died with one in flight (TableInv).  Then what the chain, the pages and *)
(* the request's row say of one another (OnboardInv), from which: the bot  *)
(* acts last, a funding reaches a whole vault, and no page pays again.     *)
(* Last, that the page accepts the answers of the server (AnswerInv).      *)
(***************************************************************************)
EXTENDS Onboard, FiniteSetTheorems, SequenceTheorems, TLAPS

\* The tables that are on chain, or may still get there.
Live == tables \cup {n \in 1..row.table : TableTx(n) \in wire}

\* The row's table, sent by a finish that no longer runs.
Orphan == TableTx(row.table) \in wire /\ fin.at # "sending"

\* What the row, the finish and the chain say of tables.
TableShape ==
  /\ "table" \in DOMAIN row /\ "at" \in DOMAIN fin
  /\ row.table \in Nat /\ torn \in Nat
  /\ tables \subseteq 1..row.table
  /\ \A t \in wire : t.kind = "table" => t.n \in 1..row.table /\ t = TableTx(t.n)
  /\ fin.at = "send" => row.table # 0 /\ row.table \notin Live

\* Each table besides the row's, and the row's own once it is an orphan, had
\* the server die with it in flight.
TableInv ==
  /\ TableShape
  /\ Cardinality(Live \ {row.table}) + (IF Orphan THEN 1 ELSE 0) <= torn

LEMMA TableFields == ASSUME NEW n PROVE TableTx(n).kind = "table" /\ TableTx(n).n = n
<1>1. "n" \in DOMAIN [NoTx EXCEPT !.kind = "table"] /\ [NoTx EXCEPT !.kind = "table"].kind = "table"
  BY DEF NoTx
<1>2. TableTx(n) = [[NoTx EXCEPT !.kind = "table"] EXCEPT !.n = n]
  BY DEF TableTx
<1> QED
  BY <1>1, <1>2

LEMMA LiveFinite ==
  ASSUME TableShape
  PROVE  /\ IsFiniteSet(Live) /\ Live \subseteq 1..row.table
         /\ \A S \in SUBSET Live : IsFiniteSet(S) /\ Cardinality(S) \in Nat
<1>1. Live \subseteq 1..row.table
  BY DEF TableShape, Live
<1>2. IsFiniteSet(1..row.table)
  BY FS_Interval DEF TableShape
<1>3. IsFiniteSet(Live)
  BY <1>1, <1>2, FS_Subset
<1> QED
  BY <1>1, <1>3, FS_Subset, FS_CardinalityType

\* A step that makes no table and no orphan.
LEMMA FewerLive ==
  ASSUME TableInv, TableShape', Live' \subseteq Live, row'.table = row.table, torn' \in Nat,
         torn' >= torn + (IF Orphan' /\ ~Orphan THEN 1 ELSE 0)
  PROVE  TableInv'
<1> DEFINE A == Live \ {row.table}
           B == Live' \ {row'.table}
<1>1. IsFiniteSet(A) /\ Cardinality(A) \in Nat /\ torn \in Nat
  BY LiveFinite DEF TableInv, TableShape
<1>2. B \subseteq A
  OBVIOUS
<1>3. Cardinality(B) \in Nat /\ Cardinality(B) <= Cardinality(A)
  BY <1>1, <1>2, FS_Subset, FS_CardinalityType
<1>4. Cardinality(A) + (IF Orphan THEN 1 ELSE 0) <= torn
  BY DEF TableInv
<1> HIDE DEF A, B
<1>5. Cardinality(B) + (IF Orphan' THEN 1 ELSE 0) <= torn'
  BY <1>1, <1>3, <1>4
<1> QED
  BY <1>5 DEF TableInv, B

\* A step that leaves the tables, the transactions that make one, and the
\* finish's part in them alone.
LEMMA TableStutters ==
  ASSUME TableInv, UNCHANGED <<tables, torn>>, row'.table = row.table, "table" \in DOMAIN row', "at" \in DOMAIN fin',
         \A t \in wire' : t.kind = "table" => t \in wire,
         fin'.at = "send" => fin.at = "send",
         fin.at = "sending" => fin'.at = "sending" \/ TableTx(row.table) \notin wire
  PROVE  TableInv'
<1>1. \A n : TableTx(n).kind = "table"
  BY DEF TableTx, NoTx
<1>2. \A n : TableTx(n) \in wire' => TableTx(n) \in wire
  BY <1>1
<1>3. Live' \subseteq Live
  BY <1>2 DEF Live, TableTx, NoTx
<1>4. TableShape'
  BY <1>3 DEF TableInv, TableShape, TableTx, NoTx
<1>5. Orphan' => Orphan
  BY <1>2 DEF Orphan, TableTx, NoTx
<1> QED
  BY <1>3, <1>4, <1>5, FewerLive DEF TableInv, TableShape

\* The pages and the server's answers send no table.
LEMMA PagesKeepTables ==
  ASSUME TableInv, NEW p \in Keys,
         MakePlan(p) \/ StorePlan(p) \/ Open(p) \/ Look(p) \/ Landed(p) \/ Failed(p) \/ HeldExpired(p) \/ Leave(p) \/ Pay(p) \/ GiveUp(p)
  PROVE  TableInv'
<1>0. "table" \in DOMAIN row /\ "at" \in DOMAIN fin
  BY DEF TableInv, TableShape
<1>1. \A t : t.kind # "table" => \A u \in wire \cup {t} : u.kind = "table" => u \in wire
  OBVIOUS
<1>2. CASE MakePlan(p) \/ Open(p) \/ Failed(p) \/ HeldExpired(p) \/ Leave(p) \/ GiveUp(p)
  <2>1. UNCHANGED <<tables, torn, row, fin, wire>>
    BY <1>2 DEF MakePlan, Open, Failed, HeldExpired, Leave, GiveUp, chain, server, hist
  <2> QED
    BY <1>0, <2>1, TableStutters
<1>3. CASE StorePlan(p)
  <2>1. UNCHANGED <<tables, torn, fin, wire>> /\ row'.table = row.table /\ "table" \in DOMAIN row'
    BY <1>0, <1>3 DEF StorePlan, chain
  <2> QED
    BY <1>0, <2>1, TableStutters
<1>4. CASE Look(p)
  <2>1. \/ UNCHANGED wire
        \/ wire' = wire \cup {OwnerTx(p, page[p].it)}
        \/ wire' = wire \cup {KeyTx(p, page[p].it)}
        \/ \E seed : \E t \in FundTx(p, seed) : wire' = wire \cup {t}
    BY <1>4, Zenon DEF Look, Send
  <2>2. OwnerTx(p, page[p].it).kind = "owner" /\ KeyTx(p, page[p].it).kind \in {"release", "policy"}
    BY DEF OwnerTx, KeyTx, Tx, NoTx
  <2>3. \A seed : \A t \in FundTx(p, seed) : t.kind = "fund"
    BY DEF FundTx, Tx, NoTx
  <2>4. \A t \in wire' : t.kind = "table" => t \in wire
    BY <1>1, <2>1, <2>2, <2>3
  <2>5. UNCHANGED <<tables, torn, row, fin>>
    BY <1>4 DEF Look, chain, server, hist
  <2> QED
    BY <1>0, <2>4, <2>5, TableStutters, Zenon
<1>5. CASE Landed(p)
  <2>1. \/ UNCHANGED wire
        \/ page[p].tx.kind = "policy" /\ wire' = wire \cup {[page[p].tx EXCEPT !.n = @ + 1]}
    BY <1>5 DEF Landed, Send, Again
  <2>2. page[p].tx.kind = "policy" => [page[p].tx EXCEPT !.n = @ + 1].kind # "table"
    OBVIOUS
  <2>3. \A t \in wire' : t.kind = "table" => t \in wire
    BY <1>1, <2>1, <2>2
  <2>4. UNCHANGED <<tables, torn, row, fin>>
    BY <1>5 DEF Landed, chain, hist
  <2> QED
    BY <1>0, <2>3, <2>4, TableStutters
<1>6. CASE Pay(p)
  <2>1. UNCHANGED <<tables, torn, wire>> /\ fin.at = "idle" /\ row'.table = row.table /\ "table" \in DOMAIN row'
    BY <1>0, <1>6 DEF Pay, chain, hist
  <2>2. fin'.at # "send" /\ "at" \in DOMAIN fin'
    <3>1. \/ fin' = [at |-> "fund", page |-> p, seed |-> row.planned.seed, told |-> page[p].told]
          \/ fin' = [NoFin EXCEPT !.at = "check", !.page = p]
          \/ fin' = fin
      BY <1>6 DEF Pay
    <3>2. "at" \in DOMAIN [NoFin EXCEPT !.at = "check"] /\ [NoFin EXCEPT !.at = "check"].at = "check"
      BY DEF NoFin
    <3>3. [NoFin EXCEPT !.at = "check", !.page = p] = [[NoFin EXCEPT !.at = "check"] EXCEPT !.page = p]
      OBVIOUS
    <3>4. "at" \in DOMAIN [NoFin EXCEPT !.at = "check", !.page = p] /\ [NoFin EXCEPT !.at = "check", !.page = p].at = "check"
      BY <3>2, <3>3
    <3>5. CASE fin' = [at |-> "fund", page |-> p, seed |-> row.planned.seed, told |-> page[p].told]
      BY <3>5
    <3> QED
      BY <1>0, <2>1, <3>1, <3>4, <3>5
  <2> QED
    BY <2>1, <2>2, TableStutters
<1> QED
  BY <1>2, <1>3, <1>4, <1>5, <1>6

LEMMA FinishKeepsTables ==
  ASSUME TableInv, PayFunding \/ Connected \/ Register \/ FinishFails \/ TableDecided
  PROVE  TableInv'
<1>0. "table" \in DOMAIN row /\ "at" \in DOMAIN fin
  BY DEF TableInv, TableShape
<1>1. UNCHANGED <<tables, torn, wire>>
  BY DEF PayFunding, Connected, Register, FinishFails, TableDecided, chain, hist
<1>2. row'.table = row.table /\ "table" \in DOMAIN row'
  BY <1>0 DEF PayFunding, Connected, Register, FinishFails, TableDecided, Stuck
<1>3. "at" \in DOMAIN fin' /\ fin'.at # "send"
  BY <1>0 DEF PayFunding, Connected, Register, FinishFails, TableDecided, Stuck, NoFin
<1>4. fin.at = "sending" => TableTx(row.table) \notin wire
  BY DEF PayFunding, Connected, Register, FinishFails, TableDecided
<1> QED
  BY <1>1, <1>2, <1>3, <1>4, TableStutters

\* The finish plans another table only where the row's is not on chain: if it
\* may still land, its server died.
LEMMA PlanKeepsTables == ASSUME TableInv, Finish PROVE TableInv'
<1>0. "table" \in DOMAIN row /\ "at" \in DOMAIN fin /\ fin.at = "check" /\ TableShape
  BY DEF TableInv, TableShape, Finish
<1>1. UNCHANGED <<tables, torn, wire>>
  BY DEF Finish, chain, hist
<1>2. CASE row'.table = row.table /\ fin'.at # "send"
  <2>1. "table" \in DOMAIN row' /\ "at" \in DOMAIN fin'
    BY <1>0 DEF Finish, Stuck, NoFin
  <2> QED
    BY <1>0, <1>1, <1>2, <2>1, TableStutters
<1>3. CASE ~(row'.table = row.table /\ fin'.at # "send")
  <2>1. row' = [row EXCEPT !.table = row.table + 1] /\ fin' = [fin EXCEPT !.at = "send"] /\ row.table \notin tables
    BY <1>0, <1>3 DEF Finish, Stuck, NoFin, TableThere
  <2>2. /\ row'.table = row.table + 1 /\ fin'.at = "send" /\ row.table \in Nat
        /\ "table" \in DOMAIN row' /\ "at" \in DOMAIN fin'
    BY <1>0, <2>1 DEF TableShape
  <2>3. row.table + 1 \notin tables /\ TableTx(row.table + 1) \notin wire
    BY <1>0, <2>2, TableFields DEF TableShape
  <2>4. Live' = Live
    <3>1. Live' = tables \cup {n \in 1..(row.table + 1) : TableTx(n) \in wire}
      BY <1>1, <2>2 DEF Live, TableTx, NoTx
    <3> QED
      BY <2>2, <2>3, <3>1 DEF Live
  <2>5. row'.table \notin Live /\ ~Orphan'
    BY <1>1, <2>2, <2>3 DEF Live, Orphan, TableTx, NoTx
  <2>6. TableShape'
    <3>1. \A t \in wire : t.kind = "table" => t.n \in 1..row'.table
      BY <1>0, <2>2 DEF TableShape
    <3>2. tables \subseteq 1..row'.table
      BY <1>0, <2>2 DEF TableShape
    <3>3. \A t \in wire : t.kind = "table" => t = TableTx(t.n)
      BY <1>0 DEF TableShape
    <3>4. (\A t \in wire : t.kind = "table" => t.n \in 1..row.table /\ t = TableTx(t.n))'
      BY <1>1, <3>1, <3>3 DEF TableTx, NoTx
    <3>5. row'.table \in Nat /\ torn' \in Nat /\ tables' \subseteq 1..row'.table /\ row'.table # 0
      BY <1>0, <1>1, <2>2, <3>2 DEF TableShape
    <3> QED
      BY <2>2, <2>4, <2>5, <3>4, <3>5 DEF TableShape
  <2>7. Cardinality(Live) <= torn
    <3>1. Cardinality(Live \ {row.table}) + (IF Orphan THEN 1 ELSE 0) <= torn
      BY DEF TableInv
    <3>2. IsFiniteSet(Live) /\ Cardinality(Live) \in Nat /\ torn \in Nat
      BY <1>0, LiveFinite DEF TableShape
    <3>3. Cardinality(Live \ {row.table}) = IF row.table \in Live THEN Cardinality(Live) - 1 ELSE Cardinality(Live)
      BY <3>2, FS_RemoveElement
    <3>4. row.table \in Live => Orphan
      BY <1>0, <2>1 DEF Live, Orphan
    <3> QED
      BY <3>1, <3>2, <3>3, <3>4
  <2>8. Cardinality(Live' \ {row'.table}) <= torn'
    <3>1. Live' \ {row'.table} = Live
      BY <2>4, <2>5
    <3> QED
      BY <1>1, <2>7, <3>1
  <2>9. Cardinality(Live' \ {row'.table}) \in Nat
    BY <2>6, LiveFinite, <1>0, <2>4, <2>5
  <2> QED
    BY <2>5, <2>6, <2>8, <2>9 DEF TableInv
<1> QED
  BY <1>2, <1>3

LEMMA SendKeepsTables == ASSUME TableInv, SendTable PROVE TableInv'
<1>0. TableShape /\ fin.at = "send" /\ row.table \notin Live /\ row.table # 0 /\ UNCHANGED <<tables, torn, row>>
  BY DEF TableInv, TableShape, SendTable, chain, hist
<1>1. wire' = wire \cup {TableTx(row.table)} /\ fin' = [fin EXCEPT !.at = "sending"]
  BY DEF SendTable
<1>2. fin'.at = "sending" /\ "at" \in DOMAIN fin'
  BY <1>0, <1>1 DEF TableShape
<1>3. Live' \ {row'.table} = Live \ {row.table}
  <2>1. \A n : TableTx(n) = TableTx(row.table) => n = row.table
    BY DEF TableTx, NoTx
  <2> QED
    BY <1>0, <1>1, <2>1 DEF Live, TableTx, NoTx
<1>4. ~Orphan' /\ ~Orphan
  BY <1>0, <1>2, TableFields DEF Orphan, Live, TableShape
<1>5. TableShape'
  <2>1. row.table \in 1..row.table
    BY <1>0 DEF TableShape
  <2>2. \A t \in wire' : t.kind = "table" => t.n \in 1..row.table /\ t = TableTx(t.n)
    BY <1>0, <1>1, <2>1, TableFields DEF TableShape
  <2> QED
    BY <1>0, <1>1, <1>2, <2>2 DEF TableShape, TableTx, NoTx
<1> QED
  BY <1>0, <1>3, <1>4, <1>5 DEF TableInv

\* The server that dies with the table in flight makes an orphan of it.
LEMMA CrashKeepsTables == ASSUME TableInv, Crash PROVE TableInv'
<1>0. TableShape /\ UNCHANGED <<tables, wire, row>> /\ fin' = NoFin
  BY DEF TableInv, Crash, chain
<1>1. torn' = torn + (IF fin.at = "sending" /\ TableTx(row.table) \in wire THEN 1 ELSE 0)
  BY DEF Crash
<1>2. "at" \in DOMAIN fin' /\ fin'.at = "idle"
  BY <1>0 DEF NoFin
<1>3. Live' = Live
  BY <1>0 DEF Live, TableTx, NoTx
<1>4. Orphan' /\ ~Orphan => fin.at = "sending" /\ TableTx(row.table) \in wire
  BY <1>0 DEF Orphan, TableTx, NoTx
<1>5. torn' \in Nat /\ torn' >= torn + (IF Orphan' /\ ~Orphan THEN 1 ELSE 0)
  BY <1>0, <1>1, <1>4 DEF TableShape
<1>6. TableShape'
  BY <1>0, <1>2, <1>3, <1>5 DEF TableShape, TableTx, NoTx
<1> QED
  BY <1>0, <1>3, <1>5, <1>6, FewerLive

LEMMA ChainKeepsTables ==
  ASSUME TableInv, NEW t \in wire, Land(t) \/ Die(t)
  PROVE  TableInv'
<1>0. TableShape /\ UNCHANGED <<row, fin, torn>> /\ wire' = wire \ {t}
  BY DEF TableInv, Land, Die, Decided, server, hist
<1>1. tables' = tables \/ (t.kind = "table" /\ tables' = tables \cup {t.n})
  BY DEF Land, Die, chain
<1>2. t.kind = "table" => t.n \in Live
  BY <1>0 DEF TableShape, Live
<1>3. Live' \subseteq Live
  BY <1>0, <1>1, <1>2 DEF Live, TableTx, NoTx
<1>4. ~(Orphan' /\ ~Orphan)
  BY <1>0 DEF Orphan, TableTx, NoTx
<1>5. TableShape'
  <2>1. tables' \subseteq 1..row.table
    <3>1. Live \subseteq 1..row.table /\ tables \subseteq 1..row.table
      BY <1>0, LiveFinite DEF TableShape
    <3> QED
      BY <1>1, <1>2, <3>1
  <2> QED
    BY <1>0, <1>3, <2>1 DEF TableShape, TableTx, NoTx
<1> QED
  BY <1>0, <1>3, <1>4, <1>5, FewerLive DEF TableShape

LEMMA InitTables == Init => TableInv
<1> SUFFICES ASSUME Init PROVE TableInv
  OBVIOUS
<1>1. Live = {} /\ ~Orphan
  BY DEF Init, Live, Orphan
<1>2. TableShape
  BY <1>1 DEF Init, TableShape, NoFin
<1>3. Cardinality(Live \ {row.table}) = 0
  BY <1>1, FS_EmptySet
<1> QED
  BY <1>1, <1>2, <1>3 DEF TableInv, Init

LEMMA NextTables == ASSUME TableInv, [Next]_vars PROVE TableInv'
<1>0. "table" \in DOMAIN row /\ "at" \in DOMAIN fin
  BY DEF TableInv, TableShape
<1>1. CASE UNCHANGED vars
  BY <1>0, <1>1, TableStutters DEF vars, chain, server, hist
<1>2. CASE TakeSeed
  BY <1>0, <1>2, TableStutters DEF TakeSeed, server, hist
<1>3. CASE LoseName
  <2>1. row'.table = row.table /\ "table" \in DOMAIN row' /\ UNCHANGED <<tables, wire, fin, torn>>
    BY <1>0, <1>3 DEF LoseName, chain, hist
  <2> QED
    BY <1>0, <2>1, TableStutters
<1> QED
  BY <1>1, <1>2, <1>3, PagesKeepTables, FinishKeepsTables, PlanKeepsTables, SendKeepsTables, CrashKeepsTables, ChainKeepsTables
  DEF Next, ServerStep, PageStep, PayStep

\* Each table besides the row's had the server die with it in flight.
THEOREM TablesHold == Spec => []TableInv
BY InitTables, NextTables, PTL DEF Spec

\* "A resume finishes it, never a second one": the bot pays one lookup table,
\* and another only where the server died with one in flight.
THEOREM OneTableHolds == Spec => []OneTable
<1>1. TableInv => OneTable
  <2> SUFFICES ASSUME TableInv PROVE OneTable
    OBVIOUS
  <2>1. TableShape /\ torn \in Nat /\ Cardinality(Live \ {row.table}) <= torn
    <3>1. TableShape /\ Cardinality(Live \ {row.table}) + (IF Orphan THEN 1 ELSE 0) <= torn
      BY DEF TableInv
    <3>2. Cardinality(Live \ {row.table}) \in Nat /\ torn \in Nat
      BY <3>1, LiveFinite DEF TableShape
    <3> QED
      BY <3>1, <3>2
  <2>2. IsFiniteSet(Live) /\ Cardinality(Live) \in Nat /\ Cardinality(Live \ {row.table}) \in Nat
    BY <2>1, LiveFinite
  <2>3. Cardinality(Live) <= Cardinality(Live \ {row.table}) + 1
    BY <2>2, FS_RemoveElement
  <2>4. tables \in SUBSET Live
    BY DEF Live
  <2>5. Cardinality(tables) \in Nat /\ Cardinality(tables) <= Cardinality(Live)
    BY <2>1, <2>2, <2>4, FS_Subset, LiveFinite
  <2> QED
    BY <2>1, <2>2, <2>3, <2>5 DEF OneTable
<1> QED
  BY <1>1, TablesHold, PTL

-----------------------------------------------------------------------------
(* What a request's state may be: its parts, each for the steps that need it. *)

Txs == [kind : {"none", "owner", "policy", "release", "fund", "table"}, page : Keys, seed : 0..LastSeed, n : Nat,
        amount : Nat, create : BOOLEAN, off : SUBSET Keys, on : BOOLEAN]
Plans == [seed : 0..LastSeed, create : BOOLEAN, off : SUBSET Keys, on : BOOLEAN, feed : Nat, next : Nat,
          release : BOOLEAN, back : Nat, fund : BOOLEAN, seen : Nat]
Pages == [pc : {"away", "asks", "looks", "sends", "pays", "waits", "ready"}, it : Plans, held : 0..LastSeed,
          told : BOOLEAN, tx : Txs, fate : {"none", "wire", "landed", "dead"}]
Calls == [at : {"none", "plan", "store"}, new : BOOLEAN, read : 0..LastSeed, seed : 0..LastSeed, keys : SUBSET Keys]
Rows == [state : {"none", "signed", "connecting", "stuck", "registered", "failed"}, planned : Planned, table : 0..MaxTables,
         sent : BOOLEAN]
Finishes == [at : {"idle", "fund", "check", "send", "sending", "made", "register"}, page : Keys, seed : 0..LastSeed,
             told : BOOLEAN]

Typed ==
  /\ index \in 0..LastSeed /\ vault \in [Seeds -> Vault] /\ sol \in [Keys -> Nat] /\ paid \in [Seeds -> Nat]
  /\ wire \subseteq Txs /\ row \in Rows /\ page \in [Keys -> Pages] /\ call \in [Keys -> Calls] /\ fin \in Finishes
  /\ left \in [faults : Nat, visits : Nat] /\ lostPlan \in BOOLEAN

Unmade == [by |-> "nobody", signers |-> {}, made |-> 0]

\* Until every rule is on it, a vault has one set-up key.
VaultShape(v) ==
  /\ v.by # "owner" => v.made = 0 /\ v.signers = {}
  /\ v.by = "owner" /\ v.made < Policies => \E k \in Keys : v.signers = {k}

\* Seeds are used in order.
VaultsInOrder == \A s \in Seeds :
  /\ VaultShape(vault[s])
  /\ IF s > index THEN vault[s] = Unmade ELSE vault[s].by # "nobody"

\* An owner's transaction, planned or sent, that takes set-up keys off a vault
\* leaves one on it, or the vault has every rule.
OwnerSafe(v, create, off, on) ==
  /\ create => off = {} /\ ~on
  /\ on => off # {}
  /\ off # {} /\ ~on => v.made = Policies

TxSafe(v, t) ==
  /\ t.kind = "owner" => OwnerSafe(v, t.create, t.off, t.on)
  /\ t.kind = "policy" => t.n <= Policies
  /\ t.kind = "release" => v.made = Policies
TxsSafe == \A t \in wire :
  /\ t.kind # "none"
  /\ t.kind # "owner" => ~t.create
  /\ t.kind # "table" => t.seed \in Seeds /\ TxSafe(vault[t.seed], t)

\* An answer with nothing left for the owner's wallet and the set-up key was
\* read of a whole vault.
PlanSafe(v, it) ==
  /\ OwnerSafe(v, it.create, it.off, it.on)
  /\ it.release => v.made = Policies
  /\ ~HasOwnerPart(it) /\ ~HasKeyPart(it) => Whole(v) /\ (it.fund => it.seen = 0)

\* Page p is pg, its call in the server c.
PageSafe(p, pg, c) ==
  /\ pg.held # 0 => pg.pc \in {"asks", "looks", "sends"}
  /\ pg.pc = "asks" => c.at # "none"
  /\ pg.pc = "asks" /\ c.at = "store" => pg.it.seed = c.seed /\ PlanSafe(vault[c.seed], pg.it)
  /\ c.at = "store" => p \in c.keys /\ c.seed \in Seeds
  /\ c.new => c.read = 0
  /\ pg.pc = "looks" => pg.it.seed \in Seeds /\ PlanSafe(vault[pg.it.seed], pg.it)
  /\ pg.pc = "sends" =>
       /\ pg.tx.kind \notin {"none", "table"} /\ pg.tx.page = p /\ (pg.tx.kind # "owner" => ~pg.tx.create)
       /\ pg.tx.seed \in Seeds /\ TxSafe(vault[pg.tx.seed], pg.tx)
       /\ pg.fate = "landed" /\ pg.tx.kind # "fund" => vault[pg.tx.seed].by = "owner"
PagesSafe == \A p \in Keys : PageSafe(p, page[p], call[p])

SomePaid == \E s \in Seeds : paid[s] > 0
Paid == {"connecting", "stuck", "registered"}

\* A page that says it paid, did.
PagesPaid == \A p \in Keys :
  page[p].told \/ (page[p].pc = "sends" /\ page[p].fate = "landed" /\ page[p].tx.kind = "fund") => SomePaid

\* The bot spent, or is about to.
BotSpends ==
  \/ row.sent \/ tables # {} \/ \E t \in wire : t.kind = "table"
  \/ row.state = "registered" \/ fin.at \in {"send", "sending", "made", "register"}

\* The money, and a whole vault, before the bot.
BotPaid ==
  /\ row.state # "none" => row.planned.seed \in Seeds
  /\ row.state = "none" => row.planned = Unplanned
  /\ fin.at = "fund" => fin.seed \in Seeds /\ (fin.told => SomePaid)
  /\ row.state \in Paid => SomePaid
  /\ fin.at \in {"check", "send", "sending", "made", "register"} => row.state = "connecting"
  /\ BotSpends => row.state \in Paid /\ Whole(vault[row.planned.seed])

\* What holds while no stored plan undid another: the row knows every set-up
\* key, and the vault its owner has is the planned one.
KeysKnown ==
  /\ \A s \in Seeds : vault[s].signers \subseteq row.planned.keys
  /\ \A t \in wire : t.kind # "table" => t.page \in row.planned.keys

Current(s) == s = row.planned.seed \/ vault[s].by = "other"
SeedsCurrent ==
  /\ \A s \in Seeds : vault[s].by = "owner" => s = row.planned.seed
  /\ \A t \in wire : t.kind # "table" => Current(t.seed)

\* A page goes on with the planned vault, and a funding it holds signed is that
\* vault's; a call that moves the plan found the planned seed taken.
PageCurrent(p, pg, c) ==
  /\ pg.pc \in {"looks", "sends"} => p \in row.planned.keys
  /\ pg.pc = "looks" => Current(pg.it.seed)
  /\ pg.pc = "sends" => Current(pg.tx.seed)
  /\ c.at = "store" /\ c.read \notin {0, c.seed} => vault[c.read].by = "other"
  /\ pg.held # 0 =>
       /\ pg.pc = "asks" => vault[pg.held].by = "owner" /\ ~c.new
       /\ pg.pc = "asks" /\ c.at = "store" => c.seed = pg.held
       /\ pg.pc = "looks" => pg.it.seed = pg.held
       /\ pg.pc = "sends" => pg.tx.seed = pg.held
PagesCurrent == \A p \in Keys : PageCurrent(p, page[p], call[p])

FundsSafe == \A t \in wire : t.kind = "fund" => Whole(vault[t.seed])

Kept == KeysKnown /\ SeedsCurrent /\ PagesCurrent /\ FundsSafe

OnboardInv == Typed /\ VaultsInOrder /\ TxsSafe /\ PagesSafe /\ PagesPaid /\ BotPaid /\ (lostPlan \/ Kept)

-----------------------------------------------------------------------------
LEMMA Starts ==
  /\ NoTx \in Txs /\ NoPlan \in Plans /\ Away \in Pages /\ NoCall \in Calls /\ NoFin \in Finishes
  /\ Away.pc = "away" /\ Away.held = 0 /\ ~Away.told /\ NoCall.at = "none" /\ ~NoCall.new /\ NoCall.read = 0
  /\ NoFin.at = "idle"
<1>0. Keeps \in Keys /\ 0 \in 0..LastSeed
  BY OnboardAssumption, SetupAssumption
<1>1. NoTx \in Txs
  BY <1>0 DEF NoTx, Txs
<1>2. NoPlan \in Plans
  BY <1>0 DEF NoPlan, Plans
<1>3. Away \in Pages
  BY <1>0, <1>1, <1>2 DEF Away, Pages
<1>4. NoCall \in Calls
  BY <1>0 DEF NoCall, Calls
<1>5. NoFin \in Finishes
  BY <1>0 DEF NoFin, Finishes
<1> QED
  BY <1>1, <1>2, <1>3, <1>4, <1>5 DEF Away, NoCall, NoFin

(* What the transactions are, field by field. *)
LEMMA TxIs ==
  ASSUME NEW kind \in {"owner", "policy", "release", "fund"}, NEW p \in Keys, NEW seed \in 0..LastSeed
  PROVE  /\ Tx(kind, p, seed) \in Txs /\ Tx(kind, p, seed).kind = kind /\ Tx(kind, p, seed).page = p
         /\ Tx(kind, p, seed).seed = seed /\ ~Tx(kind, p, seed).create
<1>1. PICK t : t = [NoTx EXCEPT !.kind = kind, !.page = p, !.seed = seed]
  OBVIOUS
<1>2. NoTx \in Txs /\ ~NoTx.create
  BY Starts DEF NoTx
<1>3. t \in Txs /\ t.kind = kind /\ t.page = p /\ t.seed = seed /\ ~t.create
  BY <1>1, <1>2 DEF Txs
<1> QED
  BY <1>1, <1>3 DEF Tx

LEMMA OwnerTxIs ==
  ASSUME NEW p \in Keys, NEW it \in Plans, NEW t, t = OwnerTx(p, it)
  PROVE  /\ t \in Txs /\ t.kind = "owner" /\ t.page = p /\ t.seed = it.seed /\ t.amount = it.feed
         /\ t.create = it.create /\ t.off = it.off /\ t.on = it.on
<1>1. PICK u : u = Tx("owner", p, it.seed)
  OBVIOUS
<1>2. PICK feed, create, off, on : feed = it.feed /\ create = it.create /\ off = it.off /\ on = it.on
  OBVIOUS
<1>3. feed \in Nat /\ create \in BOOLEAN /\ off \in SUBSET Keys /\ on \in BOOLEAN /\ it.seed \in 0..LastSeed
  BY <1>2 DEF Plans
<1>4. u \in Txs /\ u.kind = "owner" /\ u.page = p /\ u.seed = it.seed
  BY <1>1, <1>3, TxIs
<1>5. t = [u EXCEPT !.amount = feed, !.create = create, !.off = off, !.on = on]
  BY <1>1, <1>2 DEF OwnerTx
<1>6. t \in Txs /\ t.kind = u.kind /\ t.page = u.page /\ t.seed = u.seed /\ t.amount = feed /\ t.create = create /\ t.off = off /\ t.on = on
  BY <1>3, <1>4, <1>5 DEF Txs
<1> QED
  BY <1>2, <1>4, <1>6

LEMMA KeyTxIs ==
  ASSUME NEW p \in Keys, NEW it \in Plans, NEW t, t = KeyTx(p, it)
  PROVE  /\ t \in Txs /\ t.kind = (IF it.release THEN "release" ELSE "policy") /\ t.page = p /\ t.seed = it.seed
         /\ ~t.create /\ (~it.release => t.n = it.next)
<1>1. PICK n, amount : n = it.next /\ amount = it.back
  OBVIOUS
<1>2. n \in Nat /\ amount \in Nat /\ it.seed \in 0..LastSeed
  BY <1>1 DEF Plans
<1>3. CASE it.release
  <2>1. PICK u : u = Tx("release", p, it.seed)
    OBVIOUS
  <2>2. u \in Txs /\ u.kind = "release" /\ u.page = p /\ u.seed = it.seed /\ ~u.create
    BY <1>2, <2>1, TxIs
  <2>3. t = [u EXCEPT !.amount = amount]
    BY <1>1, <1>3, <2>1 DEF KeyTx
  <2>4. t \in Txs /\ t.kind = u.kind /\ t.page = u.page /\ t.seed = u.seed /\ t.create = u.create
    BY <1>2, <2>2, <2>3 DEF Txs
  <2> QED
    BY <1>1, <1>3, <2>2, <2>4
<1>4. CASE ~it.release
  <2>1. PICK u : u = Tx("policy", p, it.seed)
    OBVIOUS
  <2>2. u \in Txs /\ u.kind = "policy" /\ u.page = p /\ u.seed = it.seed /\ ~u.create
    BY <1>2, <2>1, TxIs
  <2>3. t = [u EXCEPT !.n = n]
    BY <1>1, <1>4, <2>1 DEF KeyTx
  <2>4. t \in Txs /\ t.kind = u.kind /\ t.page = u.page /\ t.seed = u.seed /\ t.create = u.create /\ t.n = n
    BY <1>2, <2>2, <2>3 DEF Txs
  <2> QED
    BY <1>1, <1>4, <2>2, <2>4
<1> QED
  BY <1>3, <1>4

LEMMA FundTxIs ==
  ASSUME NEW p \in Keys, NEW seed \in 0..LastSeed, NEW t \in FundTx(p, seed)
  PROVE  t \in Txs /\ t.kind = "fund" /\ t.page = p /\ t.seed = seed /\ ~t.create
<1>1. PICK u : u = Tx("fund", p, seed)
  OBVIOUS
<1>2. u \in Txs /\ u.kind = "fund" /\ u.page = p /\ u.seed = seed /\ ~u.create
  BY <1>1, TxIs
<1>3. PICK i \in 1..2 : t = [u EXCEPT !.n = i]
  BY <1>1 DEF FundTx
<1>4. i \in Nat
  OBVIOUS
<1> QED
  BY <1>2, <1>3, <1>4 DEF Txs

LEMMA TableTxIs ==
  ASSUME NEW n \in Nat, NEW t, t = TableTx(n)
  PROVE  t \in Txs /\ t.kind = "table" /\ ~t.create
BY Starts DEF NoTx, TableTx, Txs

(* A page after a step. *)
LEMMA ClosedIs ==
  ASSUME NEW p \in Keys, page \in [Keys -> Pages], NEW pg, pg = Closed(p)
  PROVE  pg \in Pages /\ pg.pc = "away" /\ pg.held = 0 /\ pg.told = page[p].told
BY Starts DEF Closed, Pages

(* A call in the server after a step. *)
LEMMA CallsIs ==
  ASSUME NEW new \in BOOLEAN
  PROVE  /\ \A c : c = [NoCall EXCEPT !.at = "plan", !.new = new] => c \in Calls /\ c.at = "plan" /\ c.new = new /\ c.read = 0
         /\ \A c : c = [NoCall EXCEPT !.at = "plan"] => c \in Calls /\ c.at = "plan" /\ ~c.new /\ c.read = 0
BY Starts DEF Calls

-----------------------------------------------------------------------------
(* The chain only goes forward. *)
Grown(v, w) ==
  /\ v.by # "nobody" => w.by = v.by
  /\ v.made = Policies => w.made = Policies
  /\ Whole(v) => Whole(w)

LEMMA TxGrows == ASSUME NEW v, NEW w, NEW t, Grown(v, w), TxSafe(v, t) PROVE TxSafe(w, t)
BY DEF Grown, TxSafe, OwnerSafe

LEMMA PlanGrows == ASSUME NEW v, NEW w, NEW it, Grown(v, w), PlanSafe(v, it) PROVE PlanSafe(w, it)
BY DEF Grown, PlanSafe, OwnerSafe

\* What the server plans of a vault.
LEMMA PlanIs ==
  ASSUME NEW v \in Vault, VaultShape(v), NEW seed \in Seeds, NEW key \in Keys, NEW sol1 \in Nat, NEW funded \in Nat
  PROVE  /\ SetupTxs(v, seed, key, sol1, funded) \in Plans /\ SetupTxs(v, seed, key, sol1, funded).seed = seed
         /\ PlanSafe(v, SetupTxs(v, seed, key, sol1, funded))
<1>1. v.made \in 0..Policies /\ v.signers \in SUBSET Keys /\ Policies \in Nat \ {0} /\ seed \in 0..LastSeed
  BY SetupAssumption DEF Vault, Seeds
<1> DEFINE missing == v.made < Policies
           created == v.by = "owner"
           release == ~missing /\ key \in v.signers /\ sol1 >= 1
           stale == v.signers \ {key}
           off == IF missing \/ release THEN stale ELSE v.signers
           on == missing /\ created /\ key \notin v.signers
           need == Need(v)
           feed == IF missing /\ need > sol1 THEN need - sol1 ELSE 0
           back == IF release THEN sol1 ELSE 0
           fund == ~Funded(v, funded)
<1>2. PICK it : it = SetupTxs(v, seed, key, sol1, funded)
  OBVIOUS
<1>3. it = [seed |-> seed, create |-> missing /\ ~created, off |-> off, on |-> on, feed |-> feed, next |-> v.made + 1,
            release |-> release, back |-> back, fund |-> fund, seen |-> funded]
  BY <1>2 DEF SetupTxs
<1>4. /\ feed \in Nat /\ off \in SUBSET Keys /\ back \in Nat /\ v.made + 1 \in Nat
      /\ on \in BOOLEAN /\ (missing /\ ~created) \in BOOLEAN /\ release \in BOOLEAN /\ fund \in BOOLEAN
  BY <1>1 DEF Need
<1>5. ~missing => v.made = Policies
  BY <1>1
<1>6. missing /\ ~created => off = {} /\ ~on
  BY DEF VaultShape
<1>7. on => off # {}
  BY DEF VaultShape
<1>8. off # {} /\ ~on => v.made = Policies
  BY <1>1 DEF VaultShape
<1>9. off = {} /\ ~release /\ ~missing => Whole(v)
  BY <1>1, <1>5 DEF Whole, VaultShape
<1>10. fund => ~Whole(v) \/ funded = 0
  BY DEF Funded
<1> HIDE DEF missing, created, release, stale, off, on, need, feed, back, fund
<1>11. it \in Plans
  BY <1>1, <1>3, <1>4 DEF Plans
<1>12. /\ it.seed = seed /\ it.off = off /\ it.next = v.made + 1 /\ it.seen = funded
  BY <1>3
<1>13. (it.create <=> missing /\ ~created) /\ (it.on <=> on) /\ (it.release <=> release) /\ (it.fund <=> fund)
  BY <1>3
<1>14. OwnerSafe(v, it.create, it.off, it.on)
  BY <1>6, <1>7, <1>8, <1>12, <1>13 DEF OwnerSafe
<1>15. v.made + 1 > Policies => ~missing
  BY <1>1 DEF missing
<1>16. ~HasOwnerPart(it) /\ ~HasKeyPart(it) => Whole(v) /\ (it.fund => it.seen = 0)
  BY <1>1, <1>9, <1>10, <1>12, <1>13, <1>15 DEF HasOwnerPart, HasKeyPart
<1>17. release => v.made = Policies
  BY <1>5 DEF release
<1> QED
  BY <1>2, <1>11, <1>12, <1>13, <1>14, <1>16, <1>17 DEF PlanSafe

\* What a transaction that lands leaves of its vault.
LEMMA AfterIs ==
  ASSUME NEW t \in Txs, t.seed \in Seeds, vault \in [Seeds -> Vault], VaultShape(vault[t.seed]), TxSafe(vault[t.seed], t),
         t.kind # "owner" => ~t.create, Valid(t), index \in Nat,
         \A s \in Seeds : s > index => vault[s] = Unmade
  PROVE  /\ After(t) \in Vault /\ VaultShape(After(t)) /\ Grown(vault[t.seed], After(t))
         /\ After(t) = vault[t.seed] \/ (After(t).by = "owner" /\ (t.create \/ vault[t.seed].by = "owner"))
         /\ t.kind \in {"owner", "policy", "release"} => After(t).by = "owner"
         /\ After(t).signers \subseteq vault[t.seed].signers \cup {t.page}
<1>1. PICK v : v = vault[t.seed]
  OBVIOUS
<1>2. /\ v \in Vault /\ v.made \in 0..Policies /\ v.signers \in SUBSET Keys /\ t.page \in Keys /\ t.off \in SUBSET Keys
      /\ Policies \in Nat \ {0} /\ VaultShape(v) /\ TxSafe(v, t)
  BY <1>1, SetupAssumption DEF Vault, Txs
<1>3. CASE t.kind = "owner" /\ t.create
  <2>1. After(t) = [by |-> "owner", signers |-> {t.page}, made |-> 0]
    BY <1>3 DEF After
  <2>2. v.by = "nobody" /\ v.made = 0
    <3>1. t.seed = index + 1
      BY <1>3 DEF Valid
    <3> QED
      BY <1>1, <3>1 DEF Unmade
  <2> QED
    BY <1>1, <1>2, <1>3, <2>1, <2>2 DEF Vault, VaultShape, Grown, Whole
<1>4. CASE t.kind = "owner" /\ ~t.create
  <2>1. PICK signers : signers = (v.signers \ t.off) \cup (IF t.on THEN {t.page} ELSE {})
    OBVIOUS
  <2>2. After(t) = [v EXCEPT !.signers = signers]
    BY <1>1, <1>4, <2>1 DEF After
  <2>3. signers \in SUBSET Keys
    BY <1>2, <2>1
  <2>4. After(t) \in Vault /\ After(t).by = v.by /\ After(t).signers = signers /\ After(t).made = v.made
    BY <1>2, <2>2, <2>3 DEF Vault
  <2>5. v.by = "owner" /\ t.off \subseteq v.signers /\ (t.on => t.page \notin v.signers)
    BY <1>1, <1>4 DEF Valid
  <2>6. OwnerSafe(v, t.create, t.off, t.on)
    BY <1>2, <1>4 DEF TxSafe
  <2>7. v.made < Policies => \E k \in Keys : signers = {k}
    <3> SUFFICES ASSUME v.made < Policies PROVE \E k \in Keys : signers = {k}
      OBVIOUS
    <3>1. PICK k \in Keys : v.signers = {k}
      BY <1>2, <2>5 DEF VaultShape
    <3>2. CASE t.on
      BY <1>2, <2>1, <2>5, <2>6, <3>1, <3>2 DEF OwnerSafe
    <3>3. CASE ~t.on
      BY <1>2, <2>1, <2>6, <3>1, <3>3 DEF OwnerSafe
    <3> QED
      BY <3>2, <3>3
  <2>8. v.signers = {} => signers = {}
    BY <2>1, <2>5, <2>6 DEF OwnerSafe
  <2>9. signers \subseteq v.signers \cup {t.page}
    BY <2>1
  <2> QED
    BY <1>1, <1>4, <2>4, <2>5, <2>7, <2>8, <2>9 DEF VaultShape, Grown, Whole
<1>5. CASE t.kind = "policy"
  <2>1. After(t) = [v EXCEPT !.made = v.made + 1]
    BY <1>1, <1>5 DEF After
  <2>2. t.page \in v.signers /\ v.made = t.n - 1 /\ t.n <= Policies /\ t.n \in Nat
    BY <1>1, <1>2, <1>5 DEF Valid, TxSafe, Txs
  <2>3. v.made + 1 \in 0..Policies
    BY <1>2, <2>2
  <2>4. After(t) \in Vault /\ After(t).by = v.by /\ After(t).signers = v.signers /\ After(t).made = v.made + 1
    BY <1>2, <2>1, <2>3 DEF Vault
  <2>5. v.by = "owner" /\ v.made < Policies
    BY <1>2, <2>2 DEF VaultShape
  <2>6. \E k \in Keys : v.signers = {k}
    BY <1>2, <2>5 DEF VaultShape
  <2> QED
    BY <1>1, <1>2, <1>5, <2>2, <2>4, <2>5, <2>6 DEF VaultShape, Grown, Whole
<1>6. CASE t.kind = "release"
  <2>1. PICK signers : signers = v.signers \ {t.page}
    OBVIOUS
  <2>2. After(t) = [v EXCEPT !.signers = signers]
    BY <1>1, <1>6, <2>1 DEF After
  <2>3. signers \in SUBSET Keys
    BY <1>2, <2>1
  <2>4. After(t) \in Vault /\ After(t).by = v.by /\ After(t).signers = signers /\ After(t).made = v.made
    BY <1>2, <2>2, <2>3 DEF Vault
  <2>5. t.page \in v.signers /\ v.by = "owner" /\ v.made = Policies
    BY <1>1, <1>2, <1>6 DEF Valid, VaultShape, TxSafe
  <2> QED
    BY <1>1, <1>2, <1>6, <2>1, <2>4, <2>5 DEF VaultShape, Grown, Whole
<1>7. CASE t.kind \notin {"owner", "policy", "release"}
  <2>1. After(t) = v
    BY <1>1, <1>7 DEF After
  <2> QED
    BY <1>1, <1>2, <1>7, <2>1 DEF Grown
<1> QED
  BY <1>3, <1>4, <1>5, <1>6, <1>7

LEMMA StateSet ==
  ASSUME NEW u \in Rows, NEW state \in {"none", "signed", "connecting", "stuck", "registered", "failed"}, NEW r, r = [u EXCEPT !.state = state]
  PROVE  r \in Rows /\ r.state = state /\ r.planned = u.planned /\ r.table = u.table /\ r.sent = u.sent
BY DEF Rows

LEMMA TableSet ==
  ASSUME NEW u \in Rows, u.table < MaxTables, NEW r, r = [u EXCEPT !.table = @ + 1]
  PROVE  r \in Rows /\ r.state = u.state /\ r.planned = u.planned /\ r.sent = u.sent
<1>1. PICK n : n = u.table + 1
  OBVIOUS
<1>2. n \in 0..MaxTables
  BY <1>1, OnboardAssumption DEF Rows
<1>3. r = [u EXCEPT !.table = n]
  BY <1>1
<1> QED
  BY <1>2, <1>3 DEF Rows

LEMMA SentSet ==
  ASSUME NEW u \in Rows, NEW r, r = [u EXCEPT !.sent = TRUE]
  PROVE  r \in Rows /\ r.state = u.state /\ r.planned = u.planned /\ r.table = u.table
BY DEF Rows

LEMMA AtSet ==
  ASSUME NEW u \in Finishes, NEW at \in {"idle", "fund", "check", "send", "sending", "made", "register"}, NEW f, f = [u EXCEPT !.at = at]
  PROVE  f \in Finishes /\ f.at = at /\ f.page = u.page /\ f.seed = u.seed /\ (f.told <=> u.told)
BY DEF Finishes

LEMMA CheckIs ==
  ASSUME NEW p \in Keys, NEW f, f = [NoFin EXCEPT !.at = "check", !.page = p]
  PROVE  f \in Finishes /\ f.at = "check"
BY Starts DEF Finishes

LEMMA FaultIs ==
  ASSUME Typed, Fault
  PROVE  left' \in [faults : Nat, visits : Nat]
<1>1. PICK n : n = left.faults - 1
  OBVIOUS
<1>2. n \in Nat /\ left \in [faults : Nat, visits : Nat]
  BY <1>1 DEF Typed, Fault
<1>3. left' = [left EXCEPT !.faults = n]
  BY <1>1 DEF Fault
<1> QED
  BY <1>2, <1>3

-----------------------------------------------------------------------------
(* A step after which a page only waits for the payment, or is away. *)
Rests(pg) == pg.pc \in {"away", "pays", "waits", "ready"} /\ pg.held = 0 /\ (pg.told => SomePaid)
QuietStep(q) ==
  /\ page'[q] = page[q] \/ Rests(page'[q])
  /\ call'[q] = call[q] \/ (call'[q] = NoCall /\ page'[q].pc # "asks")

LEMMA QuietKeeps ==
  ASSUME TxsSafe, PagesSafe, PagesPaid, lostPlan \/ Kept,
         UNCHANGED <<vault, paid, lostPlan>>, row'.planned = row.planned,
         \A t \in wire' : t \in wire \/ (t.kind = "table" /\ ~t.create),
         \A q \in Keys : QuietStep(q)
  PROVE  TxsSafe' /\ PagesSafe' /\ PagesPaid' /\ (lostPlan \/ Kept)'
<1>1. TxsSafe'
  <2>1. \A t \in wire' : t.kind # "none" /\ (t.kind # "owner" => ~t.create)
    BY DEF TxsSafe
  <2>2. \A t \in wire' : t.kind # "table" => t.seed \in Seeds /\ TxSafe(vault'[t.seed], t)
    BY DEF TxsSafe
  <2> QED
    BY <2>1, <2>2 DEF TxsSafe, Seeds, TxSafe, OwnerSafe
<1>2. PagesSafe'
  <2> SUFFICES ASSUME NEW p \in Keys PROVE PageSafe(p, page[p], call[p])'
    BY DEF PagesSafe
  <2>1. QuietStep(p) /\ PageSafe(p, page[p], call[p]) /\ NoCall.at = "none" /\ ~NoCall.new
    BY Starts DEF PagesSafe
  <2>2. CASE page'[p] = page[p]
    BY <2>1, <2>2 DEF QuietStep, PageSafe, PlanSafe, TxSafe, OwnerSafe, Seeds, HasOwnerPart, HasKeyPart, Whole
  <2>3. CASE Rests(page'[p])
    BY <2>1, <2>3 DEF QuietStep, PageSafe, Rests, Seeds
  <2> QED
    BY <2>1, <2>2, <2>3 DEF QuietStep
<1>3. PagesPaid'
  <2>1. SomePaid' <=> SomePaid
    BY DEF SomePaid, Seeds
  <2>2. \A p \in Keys : page'[p] = page[p] \/ Rests(page'[p])
    BY DEF QuietStep
  <2> QED
    BY <2>1, <2>2 DEF PagesPaid, Rests
<1>4. Kept => Kept'
  <2> SUFFICES ASSUME Kept PROVE Kept'
    OBVIOUS
  <2>1. KeysKnown'
    BY DEF Kept, KeysKnown, Seeds
  <2>2. SeedsCurrent'
    BY DEF Kept, SeedsCurrent, Current, Seeds
  <2>3. PagesCurrent'
    <3> SUFFICES ASSUME NEW p \in Keys PROVE PageCurrent(p, page[p], call[p])'
      BY DEF PagesCurrent
    <3>1. QuietStep(p) /\ PageCurrent(p, page[p], call[p]) /\ NoCall.at = "none" /\ ~NoCall.new
      BY Starts DEF Kept, PagesCurrent
    <3>2. CASE page'[p] = page[p]
      BY <3>1, <3>2 DEF QuietStep, PageCurrent, Current
    <3>3. CASE Rests(page'[p])
      BY <3>1, <3>3 DEF QuietStep, PageCurrent, Rests
    <3> QED
      BY <3>1, <3>2, <3>3 DEF QuietStep
  <2>4. FundsSafe'
    BY DEF Kept, FundsSafe, Whole
  <2> QED
    BY <2>1, <2>2, <2>3, <2>4 DEF Kept
<1> QED
  BY <1>1, <1>2, <1>3, <1>4

LEMMA BotStutters ==
  ASSUME BotPaid, UNCHANGED <<row, fin>>, SomePaid => SomePaid', BotSpends' => BotSpends,
         \A s \in Seeds : Whole(vault[s]) => Whole(vault'[s])
  PROVE  BotPaid'
BY DEF BotPaid, Seeds, Paid, Whole, Unplanned

LEMMA Rest ==
  ASSUME Typed, PagesSafe, PagesPaid, NEW p \in Keys
  PROVE  /\ \A pg : pg = Closed(p) => pg \in Pages /\ Rests(pg) /\ pg.pc = "away"
         /\ \A pg : pg = [Closed(p) EXCEPT !.pc = "pays"] => pg \in Pages /\ Rests(pg)
         /\ \A pg : page[p].pc \in {"pays", "waits"} /\ pg \in {[page[p] EXCEPT !.pc = "waits"], [page[p] EXCEPT !.pc = "ready"]} =>
              pg \in Pages /\ Rests(pg)
<1>0. page \in [Keys -> Pages] /\ page[p] \in Pages
  BY DEF Typed
<1>1. \A pg : pg = Closed(p) => pg \in Pages /\ Rests(pg) /\ pg.pc = "away"
  BY <1>0, ClosedIs DEF Rests, PagesPaid
<1>2. \A pg : pg = [Closed(p) EXCEPT !.pc = "pays"] => pg \in Pages /\ Rests(pg)
  <2> SUFFICES ASSUME NEW u, u = Closed(p), NEW pg, pg = [u EXCEPT !.pc = "pays"] PROVE pg \in Pages /\ Rests(pg)
    OBVIOUS
  <2>1. u \in Pages /\ Rests(u)
    BY <1>1
  <2>2. pg \in Pages /\ pg.pc = "pays" /\ pg.held = u.held /\ pg.told = u.told
    BY <2>1 DEF Pages
  <2> QED
    BY <2>1, <2>2 DEF Rests
<1>3. \A pg : page[p].pc \in {"pays", "waits"} /\ pg \in {[page[p] EXCEPT !.pc = "waits"], [page[p] EXCEPT !.pc = "ready"]} =>
              pg \in Pages /\ Rests(pg)
  <2> SUFFICES ASSUME NEW pg, NEW u, u = page[p], page[p].pc \in {"pays", "waits"}, NEW pc \in {"waits", "ready"}, pg = [u EXCEPT !.pc = pc]
               PROVE  pg \in Pages /\ Rests(pg)
    OBVIOUS
  <2>1. pg \in Pages /\ pg.pc = pc /\ pg.held = u.held /\ pg.told = u.told
    BY <1>0 DEF Pages
  <2>2. u.held = 0 /\ (u.told => SomePaid)
    BY DEF PagesSafe, PageSafe, PagesPaid
  <2> QED
    BY <2>1, <2>2 DEF Rests
<1> QED
  BY <1>1, <1>2, <1>3

\* A step that moves one page to rest, and neither the row nor the finish.
LEMMA RestKeeps ==
  ASSUME OnboardInv, UNCHANGED <<chain, wire, row, fin, lostPlan>>, NEW p \in Keys,
         left' \in [faults : Nat, visits : Nat],
         UNCHANGED page \/ \E pg \in Pages : Rests(pg) /\ page' = [page EXCEPT ![p] = pg],
         UNCHANGED call \/ (page'[p].pc # "asks" /\ call' = [call EXCEPT ![p] = NoCall])
  PROVE  OnboardInv'
<1>0. Typed /\ page \in [Keys -> Pages] /\ call \in [Keys -> Calls] /\ NoCall \in Calls
  BY Starts DEF OnboardInv, Typed
<1>1. page' \in [Keys -> Pages] /\ \A q \in Keys : page'[q] = page[q] \/ Rests(page'[q])
  BY <1>0
<1>2. call' \in [Keys -> Calls] /\ \A q \in Keys : call'[q] = call[q] \/ (call'[q] = NoCall /\ page'[q].pc # "asks")
  BY <1>0
<1>3. \A q \in Keys : QuietStep(q)
  BY <1>1, <1>2 DEF QuietStep
<1>4. UNCHANGED <<index, vault, sol, paid, tables>>
  BY DEF chain
<1>5. TxsSafe' /\ PagesSafe' /\ PagesPaid' /\ (lostPlan \/ Kept)'
  BY <1>3, <1>4, QuietKeeps DEF OnboardInv
<1>6. Typed'
  BY <1>0, <1>1, <1>2, <1>4 DEF Typed, Seeds, Vault
<1>7. BotPaid'
  BY <1>4, BotStutters DEF OnboardInv, SomePaid, BotSpends
<1>8. VaultsInOrder'
  BY <1>4 DEF OnboardInv, VaultsInOrder, VaultShape, Seeds, Unmade
<1> QED
  BY <1>5, <1>6, <1>7, <1>8 DEF OnboardInv

\* A step of the finish, or of the row's state.
LEMMA RowKeeps ==
  ASSUME OnboardInv, UNCHANGED <<chain, lostPlan>>, row' \in Rows, row'.planned = row.planned, fin' \in Finishes,
         left' \in [faults : Nat, visits : Nat],
         \A t \in wire' : t \in wire \/ (t \in Txs /\ t.kind = "table" /\ ~t.create),
         page' \in [Keys -> Pages], call' \in [Keys -> Calls], \A q \in Keys : QuietStep(q),
         BotPaid'
  PROVE  OnboardInv'
<1>1. UNCHANGED <<index, vault, sol, paid, tables>>
  BY DEF chain
<1>2. TxsSafe' /\ PagesSafe' /\ PagesPaid' /\ (lostPlan \/ Kept)'
  BY <1>1, QuietKeeps DEF OnboardInv
<1>3. wire' \subseteq Txs
  BY DEF OnboardInv, Typed
<1>4. Typed'
  BY <1>1, <1>3 DEF OnboardInv, Typed, Seeds, Vault
<1>5. VaultsInOrder'
  BY <1>1 DEF OnboardInv, VaultsInOrder, VaultShape, Seeds, Unmade
<1> QED
  BY <1>2, <1>4, <1>5 DEF OnboardInv

LEMMA FailedKeeps == ASSUME OnboardInv, NEW p \in Keys, Failed(p) \/ GiveUp(p) PROVE OnboardInv'
<1>1. page' = [page EXCEPT ![p] = Closed(p)] /\ UNCHANGED <<chain, wire, row, call, fin, left, lostPlan>>
  BY DEF Failed, GiveUp, Set, server, hist
<1>2. Closed(p) \in Pages /\ Rests(Closed(p))
  BY Rest DEF OnboardInv
<1>3. left' \in [faults : Nat, visits : Nat]
  BY <1>1 DEF OnboardInv, Typed
<1> QED
  BY <1>1, <1>2, <1>3, RestKeeps

LEMMA LeaveKeeps == ASSUME OnboardInv, NEW p \in Keys, Leave(p) PROVE OnboardInv'
<1>1. page' = [page EXCEPT ![p] = Closed(p)] /\ UNCHANGED <<chain, wire, row, fin, lostPlan>>
  BY DEF Leave, Set, hist
<1>2. Closed(p) \in Pages /\ Rests(Closed(p)) /\ Closed(p).pc = "away"
  BY Rest DEF OnboardInv
<1>3. left' \in [faults : Nat, visits : Nat]
  BY FaultIs DEF OnboardInv, Leave
<1>4. page \in [Keys -> Pages] /\ call \in [Keys -> Calls]
  BY DEF OnboardInv, Typed
<1>5. page'[p].pc = "away"
  BY <1>1, <1>2, <1>4
<1>6. call' = [call EXCEPT ![p] = call[p]] \/ call' = [call EXCEPT ![p] = NoCall]
  BY DEF Leave
<1>7. UNCHANGED call \/ call' = [call EXCEPT ![p] = NoCall]
  BY <1>4, <1>6
<1> QED
  BY <1>1, <1>2, <1>3, <1>5, <1>7, RestKeeps

LEMMA CrashKeeps == ASSUME OnboardInv, Crash PROVE OnboardInv'
<1>1. /\ call' = [p \in Keys |-> NoCall] /\ fin' = NoFin /\ UNCHANGED <<chain, wire, row, lostPlan>>
      /\ page' = [p \in Keys |-> IF page[p].pc \in {"asks", "pays", "waits"} THEN Closed(p) ELSE page[p]]
  BY DEF Crash
<1>2. left' \in [faults : Nat, visits : Nat]
  BY FaultIs DEF OnboardInv, Crash
<1>3. \A p \in Keys : Closed(p) \in Pages /\ Rests(Closed(p)) /\ Closed(p).pc = "away"
  BY Rest DEF OnboardInv
<1>4. page \in [Keys -> Pages] /\ call \in [Keys -> Calls] /\ row \in Rows /\ NoCall \in Calls /\ NoFin \in Finishes
  BY Starts DEF OnboardInv, Typed
<1>5. \A q \in Keys : page'[q] = (IF page[q].pc \in {"asks", "pays", "waits"} THEN Closed(q) ELSE page[q]) /\ call'[q] = NoCall
  BY <1>1
<1>6. page' \in [Keys -> Pages] /\ call' \in [Keys -> Calls]
  BY <1>1, <1>3, <1>4
<1>7. \A q \in Keys : QuietStep(q)
  BY <1>3, <1>5 DEF QuietStep
<1>8. BotPaid'
  <2>1. BotSpends' => BotSpends
    BY <1>1, Starts DEF BotSpends, chain
  <2>2. fin'.at = "idle" /\ (SomePaid' <=> SomePaid) /\ UNCHANGED <<row, vault>>
    BY <1>1, Starts DEF SomePaid, Seeds, chain
  <2> QED
    BY <2>1, <2>2 DEF OnboardInv, BotPaid, Seeds, Paid, Whole, Unplanned
<1> QED
  BY <1>1, <1>2, <1>4, <1>6, <1>7, <1>8, RowKeeps

LEMMA LoseNameKeeps == ASSUME OnboardInv, LoseName PROVE OnboardInv'
<1>1. row.state = "signed" /\ row' = [row EXCEPT !.state = "failed"] /\ UNCHANGED <<chain, wire, call, fin, page, lostPlan>>
  BY DEF LoseName, hist
<1>2. page \in [Keys -> Pages] /\ call \in [Keys -> Calls] /\ row \in Rows /\ fin \in Finishes
  BY DEF OnboardInv, Typed
<1>3. row' \in Rows /\ row'.state = "failed" /\ row'.planned = row.planned /\ row'.sent = row.sent
  BY <1>1, <1>2, StateSet
<1>4. left' \in [faults : Nat, visits : Nat]
  BY FaultIs DEF OnboardInv, LoseName
<1>5. BotPaid'
  <2>1. ~BotSpends /\ fin.at \notin {"check", "send", "sending", "made", "register"}
    BY <1>1 DEF OnboardInv, BotPaid, Paid
  <2>2. ~BotSpends' /\ (SomePaid' <=> SomePaid) /\ UNCHANGED <<vault, fin>>
    BY <1>1, <1>3, <2>1 DEF BotSpends, SomePaid, Seeds, chain
  <2> QED
    BY <1>1, <1>3, <2>1, <2>2 DEF OnboardInv, BotPaid, Seeds, Paid
<1>6. \A q \in Keys : QuietStep(q)
  BY <1>1 DEF QuietStep
<1> QED
  BY <1>1, <1>2, <1>3, <1>4, <1>5, <1>6, RowKeeps

\* The page /api/pay answers.
LEMMA AnswerIs ==
  ASSUME OnboardInv, NEW p \in Keys, NEW pg \in Pages, Rests(pg), Answer(p, pg), UNCHANGED call
  PROVE  page' \in [Keys -> Pages] /\ \A q \in Keys : QuietStep(q)
<1>1. page \in [Keys -> Pages]
  BY DEF OnboardInv, Typed
<1>2. page' = page \/ page' = [page EXCEPT ![p] = pg]
  BY DEF Answer
<1> QED
  BY <1>1, <1>2 DEF QuietStep

\* What the finish says of the row, and the row of the money.
LEMMA FinishPaid ==
  ASSUME OnboardInv, fin.at \in {"check", "send", "sending", "made", "register"}
  PROVE  row.state = "connecting" /\ SomePaid /\ row.planned.seed \in Seeds /\ row \in Rows /\ fin \in Finishes
BY DEF OnboardInv, BotPaid, Paid, Typed

LEMMA PayKeeps == ASSUME OnboardInv, NEW p \in Keys, Pay(p) PROVE OnboardInv'
<1>0. /\ page[p].pc \in {"pays", "waits"} /\ fin.at = "idle" /\ UNCHANGED <<chain, wire, call, left, lostPlan>>
  BY DEF Pay, hist
<1>1. page \in [Keys -> Pages] /\ call \in [Keys -> Calls] /\ row \in Rows /\ fin \in Finishes /\ page[p].told \in BOOLEAN
      /\ left' \in [faults : Nat, visits : Nat] /\ row.planned.seed \in 0..LastSeed
  BY <1>0 DEF OnboardInv, Typed, Pages, Rows, Planned
<1>2. \/ /\ row.state = "signed" /\ UNCHANGED <<row, page>>
         /\ fin' = [at |-> "fund", page |-> p, seed |-> row.planned.seed, told |-> page[p].told]
      \/ /\ row.state \in Resumable /\ UNCHANGED page
         /\ fin' = [NoFin EXCEPT !.at = "check", !.page = p] /\ row' = [row EXCEPT !.state = "connecting"]
      \/ /\ UNCHANGED <<fin, row>>
         /\ \E pg \in {[page[p] EXCEPT !.pc = "ready"], [page[p] EXCEPT !.pc = "waits"], Closed(p)} : page' = [page EXCEPT ![p] = pg]
  BY DEF Pay, Set
<1>3. CASE /\ row.state = "signed" /\ UNCHANGED <<row, page>>
           /\ fin' = [at |-> "fund", page |-> p, seed |-> row.planned.seed, told |-> page[p].told]
  <2>1. fin' \in Finishes /\ fin'.at = "fund" /\ fin'.seed = row.planned.seed /\ (fin'.told <=> page[p].told)
    BY <1>1, <1>3 DEF Finishes
  <2>2. fin'.told => SomePaid
    BY <2>1 DEF OnboardInv, PagesPaid
  <2>3. BotPaid'
    <3>1. BotSpends' => BotSpends
      BY <1>0, <1>3, <2>1 DEF BotSpends, chain
    <3>2. (SomePaid' <=> SomePaid) /\ UNCHANGED <<row, vault>>
      BY <1>0, <1>3 DEF SomePaid, Seeds, chain
    <3> QED
      BY <1>3, <2>1, <2>2, <3>1, <3>2 DEF OnboardInv, BotPaid, Seeds, Paid, Whole, Unplanned
  <2>4. \A q \in Keys : QuietStep(q)
    BY <1>0, <1>3 DEF QuietStep
  <2> QED
    BY <1>0, <1>1, <1>3, <2>1, <2>3, <2>4, RowKeeps
<1>4. CASE /\ row.state \in Resumable /\ UNCHANGED page
           /\ fin' = [NoFin EXCEPT !.at = "check", !.page = p] /\ row' = [row EXCEPT !.state = "connecting"]
  <2>1. fin' \in Finishes /\ fin'.at = "check"
    BY <1>4, CheckIs
  <2>2. row' \in Rows /\ row'.state = "connecting" /\ row'.planned = row.planned /\ row'.sent = row.sent
    BY <1>1, <1>4, StateSet
  <2>3. BotPaid'
    <3>1. BotSpends' => BotSpends
      BY <1>0, <1>4, <2>1, <2>2 DEF BotSpends, chain
    <3>2. (SomePaid' <=> SomePaid) /\ UNCHANGED vault
      BY <1>0 DEF SomePaid, Seeds, chain
    <3> QED
      BY <1>4, <2>1, <2>2, <3>1, <3>2 DEF OnboardInv, BotPaid, Seeds, Paid, Whole, Resumable
  <2>4. \A q \in Keys : QuietStep(q)
    BY <1>0, <1>4 DEF QuietStep
  <2> QED
    BY <1>0, <1>1, <1>4, <2>1, <2>2, <2>3, <2>4, RowKeeps
<1>5. CASE /\ UNCHANGED <<fin, row>>
           /\ \E pg \in {[page[p] EXCEPT !.pc = "ready"], [page[p] EXCEPT !.pc = "waits"], Closed(p)} : page' = [page EXCEPT ![p] = pg]
  <2>1. \A pg \in {[page[p] EXCEPT !.pc = "ready"], [page[p] EXCEPT !.pc = "waits"], Closed(p)} : pg \in Pages /\ Rests(pg)
    BY <1>0, Rest DEF OnboardInv
  <2> QED
    BY <1>0, <1>1, <1>5, <2>1, RestKeeps
<1> QED
  BY <1>2, <1>3, <1>4, <1>5

LEMMA PayFundingKeeps == ASSUME OnboardInv, PayFunding PROVE OnboardInv'
<1>0. fin.at = "fund" /\ UNCHANGED <<chain, wire, call, left, lostPlan>>
  BY DEF PayFunding, hist
<1>1. page \in [Keys -> Pages] /\ call \in [Keys -> Calls] /\ row \in Rows /\ fin \in Finishes /\ fin.page \in Keys
      /\ left' \in [faults : Nat, visits : Nat]
  BY <1>0 DEF OnboardInv, Typed, Finishes
<1>2. CASE (fin.told \/ paid[fin.seed] > 0) /\ row.state = "signed"
  <2>1. row' = [row EXCEPT !.state = "connecting"] /\ fin' = [fin EXCEPT !.at = "check"] /\ UNCHANGED page
    BY <1>2 DEF PayFunding
  <2>2. row' \in Rows /\ row'.state = "connecting" /\ row'.planned = row.planned /\ row'.sent = row.sent
    BY <1>1, <2>1, StateSet
  <2>3. fin' \in Finishes /\ fin'.at = "check"
    BY <1>1, <2>1, AtSet
  <2>4. SomePaid
    BY <1>0, <1>2 DEF OnboardInv, BotPaid, SomePaid
  <2>5. BotPaid'
    <3>1. BotSpends' => BotSpends
      BY <1>0, <2>2, <2>3 DEF BotSpends, chain
    <3>2. (SomePaid' <=> SomePaid) /\ UNCHANGED vault
      BY <1>0 DEF SomePaid, Seeds, chain
    <3> QED
      BY <1>2, <2>2, <2>3, <2>4, <3>1, <3>2 DEF OnboardInv, BotPaid, Seeds, Paid, Whole
  <2>6. \A q \in Keys : QuietStep(q)
    BY <1>0, <2>1 DEF QuietStep
  <2> QED
    BY <1>0, <1>1, <2>1, <2>2, <2>3, <2>5, <2>6, RowKeeps
<1>3. CASE ~((fin.told \/ paid[fin.seed] > 0) /\ row.state = "signed")
  <2> DEFINE pg == IF row.state = "signed" THEN [page[fin.page] EXCEPT !.pc = "waits"] ELSE Closed(fin.page)
  <2>1. fin' = NoFin /\ Answer(fin.page, pg) /\ UNCHANGED row
    BY <1>3 DEF PayFunding
  <2>2. page' \in [Keys -> Pages] /\ \A q \in Keys : QuietStep(q)
    <3>1. CASE page[fin.page].pc \in {"pays", "waits"}
      <4>1. pg \in Pages /\ Rests(pg)
        BY <1>1, <3>1, Rest DEF OnboardInv
      <4> HIDE DEF pg
      <4>2. UNCHANGED call
        BY <1>0
      <4> QED
        BY <1>1, <2>1, <4>1, <4>2, AnswerIs
    <3>2. CASE page[fin.page].pc \notin {"pays", "waits"}
      BY <1>0, <1>1, <2>1, <3>2 DEF Answer, QuietStep
    <3> QED
      BY <3>1, <3>2
  <2>3. BotPaid'
    <3>1. BotSpends' => BotSpends
      BY <1>0, <2>1, Starts DEF BotSpends, chain
    <3>2. (SomePaid' <=> SomePaid) /\ UNCHANGED <<row, vault>> /\ fin'.at = "idle"
      BY <1>0, <2>1, Starts DEF SomePaid, Seeds, chain
    <3> QED
      BY <3>1, <3>2 DEF OnboardInv, BotPaid, Seeds, Paid, Whole, Unplanned
  <2>4. fin' \in Finishes
    BY <2>1, Starts
  <2> QED
    BY <1>0, <1>1, <2>1, <2>2, <2>3, <2>4, RowKeeps
<1> QED
  BY <1>2, <1>3

\* A failure leaves the request stuck, or as it is.
LEMMA StuckKeeps ==
  ASSUME OnboardInv, fin.at \in {"check", "sending", "made", "register"}, fin' = NoFin,
         row' = [row EXCEPT !.state = "stuck"] \/ row' = row, UNCHANGED <<chain, wire, call, page, lostPlan>>,
         left' \in [faults : Nat, visits : Nat]
  PROVE  OnboardInv'
<1>1. row.state = "connecting" /\ SomePaid /\ row.planned.seed \in Seeds /\ row \in Rows
  BY FinishPaid
<1>2. row' \in Rows /\ row'.state \in {"connecting", "stuck"} /\ row'.planned = row.planned /\ row'.sent = row.sent
  BY <1>1, StateSet
<1>3. page' \in [Keys -> Pages] /\ call' \in [Keys -> Calls] /\ fin' \in Finishes /\ fin'.at = "idle"
  BY Starts DEF OnboardInv, Typed
<1>4. BotPaid'
  <2>1. BotSpends' => BotSpends
    BY <1>2, <1>3 DEF BotSpends, chain
  <2>2. (SomePaid' <=> SomePaid) /\ UNCHANGED vault
    BY DEF SomePaid, Seeds, chain
  <2> QED
    BY <1>1, <1>2, <1>3, <2>1, <2>2 DEF OnboardInv, BotPaid, Seeds, Paid, Whole
<1>5. \A q \in Keys : QuietStep(q)
  BY DEF QuietStep
<1> QED
  BY <1>2, <1>3, <1>4, <1>5, RowKeeps

\* A step of the finish that goes on, the planned vault whole.
LEMMA GoesOnKeeps ==
  ASSUME OnboardInv, fin.at \in {"check", "send", "sending", "made"}, NEW at \in {"send", "sending", "made", "register"},
         fin' = [fin EXCEPT !.at = at],
         row' \in Rows, row'.state = row.state, row'.planned = row.planned, Whole(vault[row.planned.seed]),
         \A t \in wire' : t \in wire \/ (t \in Txs /\ t.kind = "table" /\ ~t.create),
         UNCHANGED <<chain, call, page, left, lostPlan>>
  PROVE  OnboardInv'
<1>1. row.state = "connecting" /\ SomePaid /\ row.planned.seed \in Seeds /\ fin \in Finishes
  BY FinishPaid
<1>2. fin' \in Finishes /\ fin'.at = at
  BY <1>1, AtSet
<1>3. page' \in [Keys -> Pages] /\ call' \in [Keys -> Calls] /\ left' \in [faults : Nat, visits : Nat]
  BY DEF OnboardInv, Typed
<1>4. BotPaid'
  <2>1. (SomePaid' <=> SomePaid) /\ UNCHANGED vault
    BY DEF SomePaid, Seeds, chain
  <2> QED
    BY <1>1, <1>2, <2>1 DEF BotPaid, Seeds, Paid, Whole
<1>5. \A q \in Keys : QuietStep(q)
  BY DEF QuietStep
<1> QED
  BY <1>2, <1>3, <1>4, <1>5, RowKeeps

LEMMA FinishStepKeeps ==
  ASSUME OnboardInv, Finish \/ SendTable \/ TableDecided \/ Connected \/ FinishFails
  PROVE  OnboardInv'
<1>0. row \in Rows /\ fin \in Finishes /\ left \in [faults : Nat, visits : Nat]
  BY DEF OnboardInv, Typed
<1>1. CASE Finish
  <2>1. fin.at = "check" /\ UNCHANGED <<chain, wire, call, page, left, lostPlan>>
    BY <1>1 DEF Finish, hist
  <2>2. row.state = "connecting"
    BY <2>1, FinishPaid
  <2>3. CASE row.sent
    <3>1. fin' = [fin EXCEPT !.at = "register"] /\ row' = row
      BY <1>1, <2>3 DEF Finish
    <3>2. Whole(vault[row.planned.seed])
      BY <2>3 DEF OnboardInv, BotPaid, BotSpends
    <3> QED
      BY <1>0, <2>1, <3>1, <3>2, GoesOnKeeps
  <2>4. CASE ~row.sent /\ ~FinishAllowed(vault[row.planned.seed], row.planned.keys)
    <3>1. fin' = NoFin /\ row' = [row EXCEPT !.state = "stuck"]
      BY <1>1, <2>4 DEF Finish, Stuck
    <3> QED
      BY <1>0, <2>1, <3>1, StuckKeeps
  <2>5. CASE ~row.sent /\ FinishAllowed(vault[row.planned.seed], row.planned.keys)
    <3>1. Whole(vault[row.planned.seed])
      BY <2>5 DEF FinishAllowed
    <3>2. CASE TableThere
      <4>1. fin' = [fin EXCEPT !.at = "made"] /\ row' = row
        BY <1>1, <2>5, <3>2 DEF Finish
      <4> QED
        BY <1>0, <2>1, <3>1, <4>1, GoesOnKeeps
    <3>3. CASE ~TableThere
      <4>1. fin' = [fin EXCEPT !.at = "send"] /\ row.table < MaxTables /\ row' = [row EXCEPT !.table = @ + 1]
        BY <1>1, <2>5, <3>3 DEF Finish
      <4>2. row' \in Rows /\ row'.state = row.state /\ row'.planned = row.planned
        BY <1>0, <4>1, TableSet
      <4> QED
        BY <2>1, <3>1, <4>1, <4>2, GoesOnKeeps
    <3> QED
      BY <3>2, <3>3
  <2> QED
    BY <2>3, <2>4, <2>5
<1>2. CASE SendTable
  <2>1. /\ fin.at = "send" /\ wire' = wire \cup {TableTx(row.table)} /\ fin' = [fin EXCEPT !.at = "sending"]
        /\ UNCHANGED <<chain, row, call, page, left, lostPlan>>
    BY <1>2 DEF SendTable, hist
  <2>2. row.table \in Nat
    BY <1>0, OnboardAssumption DEF Rows
  <2>3. \A t \in wire' : t \in wire \/ (t \in Txs /\ t.kind = "table" /\ ~t.create)
    BY <2>1, <2>2, TableTxIs
  <2>4. Whole(vault[row.planned.seed])
    BY <2>1 DEF OnboardInv, BotPaid, BotSpends
  <2> QED
    BY <1>0, <2>1, <2>3, <2>4, GoesOnKeeps
<1>3. CASE TableDecided
  <2>1. fin.at = "sending" /\ UNCHANGED <<chain, wire, call, page, left, lostPlan>>
    BY <1>3 DEF TableDecided, hist
  <2>2. Whole(vault[row.planned.seed])
    BY <2>1 DEF OnboardInv, BotPaid, BotSpends
  <2>3. (fin' = [fin EXCEPT !.at = "made"] /\ row' = row) \/ (fin' = NoFin /\ row' = [row EXCEPT !.state = "stuck"])
    BY <1>3 DEF TableDecided, Stuck
  <2> QED
    BY <1>0, <2>1, <2>2, <2>3, GoesOnKeeps, StuckKeeps
<1>4. CASE Connected
  <2>1. /\ fin.at = "made" /\ row' = [row EXCEPT !.sent = TRUE] /\ fin' = [fin EXCEPT !.at = "register"]
        /\ UNCHANGED <<chain, wire, call, page, left, lostPlan>>
    BY <1>4 DEF Connected, hist
  <2>2. Whole(vault[row.planned.seed])
    BY <2>1 DEF OnboardInv, BotPaid, BotSpends
  <2>3. row' \in Rows /\ row'.state = row.state /\ row'.planned = row.planned
    BY <1>0, <2>1, SentSet
  <2> QED
    BY <2>1, <2>2, <2>3, GoesOnKeeps
<1>5. CASE FinishFails
  <2>1. /\ fin.at \in {"check", "made", "register"} /\ fin' = NoFin /\ (row' = [row EXCEPT !.state = "stuck"] \/ row' = row)
        /\ UNCHANGED <<chain, wire, call, page, lostPlan>>
    BY <1>5 DEF FinishFails, hist
  <2>2. left' \in [faults : Nat, visits : Nat]
    BY <1>5, FaultIs DEF OnboardInv, FinishFails
  <2> QED
    BY <2>1, <2>2, StuckKeeps
<1> QED
  BY <1>1, <1>2, <1>3, <1>4, <1>5

LEMMA RegisterKeeps == ASSUME OnboardInv, Register PROVE OnboardInv'
<1>1. /\ fin.at = "register" /\ row' = [row EXCEPT !.state = "registered"] /\ fin' = NoFin
      /\ Answer(fin.page, [page[fin.page] EXCEPT !.pc = "ready"]) /\ UNCHANGED <<chain, wire, call, left, lostPlan>>
  BY DEF Register, hist
<1>2. /\ page \in [Keys -> Pages] /\ call \in [Keys -> Calls] /\ row \in Rows /\ fin \in Finishes /\ fin.page \in Keys
      /\ left' \in [faults : Nat, visits : Nat]
  BY <1>1 DEF OnboardInv, Typed, Finishes
<1>3. row' \in Rows /\ row'.state = "registered" /\ row'.planned = row.planned /\ row'.sent = row.sent
  BY <1>1, <1>2, StateSet
<1>4. page' \in [Keys -> Pages] /\ \A q \in Keys : QuietStep(q)
  <2>1. PICK pg : pg = [page[fin.page] EXCEPT !.pc = "ready"]
    OBVIOUS
  <2>2. CASE page[fin.page].pc \in {"pays", "waits"}
    <3>1. pg \in Pages /\ Rests(pg)
      BY <1>2, <2>1, <2>2, Rest DEF OnboardInv
    <3>2. Answer(fin.page, pg) /\ UNCHANGED call
      BY <1>1, <2>1
    <3> QED
      BY <1>2, <3>1, <3>2, AnswerIs
  <2>3. CASE page[fin.page].pc \notin {"pays", "waits"}
    BY <1>1, <1>2, <2>3 DEF Answer, QuietStep
  <2> QED
    BY <2>2, <2>3
<1>5. BotPaid'
  <2>1. row.state = "connecting" /\ SomePaid /\ row.planned.seed \in Seeds
    BY <1>1, FinishPaid
  <2>2. Whole(vault[row.planned.seed])
    BY <1>1 DEF OnboardInv, BotPaid, BotSpends
  <2>3. (SomePaid' <=> SomePaid) /\ UNCHANGED vault /\ fin'.at = "idle"
    BY <1>1, Starts DEF SomePaid, Seeds, chain
  <2> QED
    BY <1>3, <2>1, <2>2, <2>3 DEF BotPaid, Seeds, Paid, Whole
<1>6. fin' \in Finishes
  BY <1>1, Starts
<1> QED
  BY <1>1, <1>2, <1>3, <1>4, <1>5, <1>6, RowKeeps

-----------------------------------------------------------------------------
\* A step of one page and its call, which may send one transaction.
LEMMA PageMoves ==
  ASSUME OnboardInv, NEW p \in Keys, NEW pg \in Pages, NEW c \in Calls,
         page' = [page EXCEPT ![p] = pg], call' = [call EXCEPT ![p] = c],
         UNCHANGED <<chain, row, fin, lostPlan>>, left' \in [faults : Nat, visits : Nat],
         PageSafe(p, pg, c), lostPlan \/ PageCurrent(p, pg, c),
         pg.told \/ (pg.pc = "sends" /\ pg.fate = "landed" /\ pg.tx.kind = "fund") => SomePaid,
         \/ wire' = wire
         \/ /\ wire' = wire \cup {pg.tx} /\ pg.pc = "sends"
            /\ pg.tx.kind = "fund" => lostPlan \/ Whole(vault[pg.tx.seed])
  PROVE  OnboardInv'
<1>0. UNCHANGED <<index, vault, sol, paid, tables>>
  BY DEF chain
<1>1. page \in [Keys -> Pages] /\ call \in [Keys -> Calls]
  BY DEF OnboardInv, Typed
<1>2. /\ page' \in [Keys -> Pages] /\ page'[p] = pg /\ (\A q \in Keys : q # p => page'[q] = page[q])
      /\ call' \in [Keys -> Calls] /\ call'[p] = c /\ (\A q \in Keys : q # p => call'[q] = call[q])
  BY <1>1
<1>3. pg.tx \in Txs
  BY DEF Pages
<1>4. wire' \subseteq Txs
  BY <1>3 DEF OnboardInv, Typed
<1>5. Typed'
  BY <1>0, <1>2, <1>4 DEF OnboardInv, Typed, Seeds, Vault
<1>6. VaultsInOrder'
  BY <1>0 DEF OnboardInv, VaultsInOrder, VaultShape, Seeds, Unmade
<1>7. TxsSafe'
  <2>1. \A t \in wire' : t \in wire \/ (pg.pc = "sends" /\ t = pg.tx)
    OBVIOUS
  <2> QED
    BY <1>0, <2>1 DEF OnboardInv, TxsSafe, PageSafe, TxSafe, OwnerSafe, Seeds
<1>8. PagesSafe'
  <2> SUFFICES ASSUME NEW q \in Keys PROVE PageSafe(q, page[q], call[q])'
    BY DEF PagesSafe
  <2>1. PageSafe(q, page[q], call[q])
    BY DEF OnboardInv, PagesSafe
  <2>2. CASE q = p
    BY <1>0, <1>2, <2>2 DEF PageSafe, PlanSafe, TxSafe, OwnerSafe, Seeds, HasOwnerPart, HasKeyPart, Whole
  <2>3. CASE q # p
    BY <1>0, <1>2, <2>1, <2>3 DEF PageSafe, PlanSafe, TxSafe, OwnerSafe, Seeds, HasOwnerPart, HasKeyPart, Whole
  <2> QED
    BY <2>2, <2>3
<1>9. PagesPaid'
  <2>1. SomePaid' <=> SomePaid
    BY <1>0 DEF SomePaid, Seeds
  <2> QED
    BY <1>2, <2>1 DEF OnboardInv, PagesPaid
<1>10. BotPaid'
  <2>1. BotSpends' => BotSpends
    <3>1. \A t \in wire' : t.kind = "table" => t \in wire
      BY DEF PageSafe
    <3> QED
      BY <1>0, <3>1 DEF BotSpends
  <2> QED
    BY <1>0, <2>1, BotStutters DEF OnboardInv, SomePaid
<1>11. lostPlan \/ Kept => (lostPlan \/ Kept)'
  <2> SUFFICES ASSUME Kept, ~lostPlan PROVE Kept'
    OBVIOUS
  <2>0. PageCurrent(p, pg, c)
    OBVIOUS
  <2>1. \A t \in wire' : t \in wire \/ (pg.pc = "sends" /\ t = pg.tx)
    OBVIOUS
  <2>2. KeysKnown'
    BY <1>0, <2>0, <2>1 DEF Kept, KeysKnown, PageCurrent, PageSafe, Seeds
  <2>3. SeedsCurrent'
    BY <1>0, <2>0, <2>1 DEF Kept, SeedsCurrent, PageCurrent, Current, Seeds
  <2>4. PagesCurrent'
    <3> SUFFICES ASSUME NEW q \in Keys PROVE PageCurrent(q, page[q], call[q])'
      BY DEF PagesCurrent
    <3>1. PageCurrent(q, page[q], call[q])
      BY DEF Kept, PagesCurrent
    <3>2. CASE q = p
      BY <1>0, <1>2, <2>0, <3>2 DEF PageCurrent, Current
    <3>3. CASE q # p
      BY <1>0, <1>2, <3>1, <3>3 DEF PageCurrent, Current
    <3> QED
      BY <3>2, <3>3
  <2>5. FundsSafe'
    BY <1>0, <2>1 DEF Kept, FundsSafe, Whole
  <2> QED
    BY <2>2, <2>3, <2>4, <2>5 DEF Kept
<1> QED
  BY <1>5, <1>6, <1>7, <1>8, <1>9, <1>10, <1>11 DEF OnboardInv

LEMMA OpenKeeps == ASSUME OnboardInv, NEW p \in Keys, Open(p) PROVE OnboardInv'
<1>0. page[p] \in Pages /\ call \in [Keys -> Calls] /\ left \in [faults : Nat, visits : Nat] /\ PageSafe(p, page[p], call[p])
      /\ (page[p].told => SomePaid)
  BY DEF OnboardInv, Typed, PagesSafe, PagesPaid
<1>1. PICK pg, new, c : /\ pg = [page[p] EXCEPT !.pc = "asks"] /\ new = (row.state = "none")
                        /\ c = [NoCall EXCEPT !.at = "plan", !.new = new]
  OBVIOUS
<1>2. /\ page[p].pc = "away" /\ page' = [page EXCEPT ![p] = pg] /\ call' = [call EXCEPT ![p] = c]
      /\ UNCHANGED <<chain, wire, row, fin, lostPlan>>
  BY <1>1 DEF Open, Set, hist
<1>3. pg \in Pages /\ pg.pc = "asks" /\ pg.held = page[p].held /\ pg.told = page[p].told
  BY <1>0, <1>1 DEF Pages
<1>4. c \in Calls /\ c.at = "plan" /\ c.read = 0
  BY <1>1, CallsIs
<1>5. pg.held = 0
  BY <1>0, <1>2, <1>3 DEF PageSafe
<1>6. PageSafe(p, pg, c) /\ PageCurrent(p, pg, c)
  BY <1>3, <1>4, <1>5 DEF PageSafe, PageCurrent
<1>7. left' \in [faults : Nat, visits : Nat]
  <2>1. PICK n : n = left.visits - 1
    OBVIOUS
  <2>2. left' = left \/ (n \in Nat /\ left' = [left EXCEPT !.visits = n])
    BY <1>0, <2>1 DEF Open
  <2> QED
    BY <1>0, <2>2
<1> QED
  BY <1>0, <1>2, <1>3, <1>4, <1>6, <1>7, PageMoves

\* The page that asks again is ready to: what it holds is of a vault there is.
LEMMA AgainKeeps ==
  ASSUME OnboardInv, NEW p \in Keys, NEW held \in 0..LastSeed, Again(p, held),
         lostPlan \/ held = 0 \/ vault[held].by = "owner",
         UNCHANGED <<chain, wire, row, fin, lostPlan>>, left' \in [faults : Nat, visits : Nat]
  PROVE  OnboardInv'
<1>1. PICK pg, c : pg = [Closed(p) EXCEPT !.pc = "asks", !.held = held] /\ c = [NoCall EXCEPT !.at = "plan"]
  OBVIOUS
<1>2. page' = [page EXCEPT ![p] = pg] /\ call' = [call EXCEPT ![p] = c] /\ page \in [Keys -> Pages] /\ (page[p].told => SomePaid)
  BY <1>1 DEF Again, Set, OnboardInv, Typed, PagesPaid
<1>3. pg \in Pages /\ pg.pc = "asks" /\ pg.held = held /\ pg.told = page[p].told
  <2>1. PICK u : u = Closed(p)
    OBVIOUS
  <2>2. u \in Pages /\ u.told = page[p].told
    BY <1>2, <2>1, ClosedIs
  <2>3. pg = [u EXCEPT !.pc = "asks", !.held = held]
    BY <1>1, <2>1
  <2> QED
    BY <2>2, <2>3 DEF Pages
<1>4. c \in Calls /\ c.at = "plan" /\ ~c.new /\ c.read = 0
  BY <1>1, CallsIs
<1>5. PageSafe(p, pg, c) /\ (lostPlan \/ PageCurrent(p, pg, c))
  BY <1>3, <1>4 DEF PageSafe, PageCurrent
<1> QED
  BY <1>2, <1>3, <1>4, <1>5, PageMoves

LEMMA HeldExpiredKeeps == ASSUME OnboardInv, NEW p \in Keys, HeldExpired(p) PROVE OnboardInv'
<1>1. Again(p, 0) /\ UNCHANGED <<chain, wire, row, fin, lostPlan>> /\ 0 \in 0..LastSeed
  BY SetupAssumption DEF HeldExpired, hist
<1>2. left' \in [faults : Nat, visits : Nat]
  BY FaultIs DEF OnboardInv, HeldExpired
<1> QED
  BY <1>1, <1>2, AgainKeeps

\* The seed planned: the one there was, or a later one where another took it.
LEMMA SeedIs ==
  ASSUME OnboardInv, NEW old \in 0..LastSeed, NEW known \in SUBSET Keys, NEW seed, seed = PlannedSeed(vault, index, old, known),
         seed <= LastSeed
  PROVE  seed \in Seeds /\ (old \notin {0, seed} => vault[old].by = "other" \/ ~(vault[old].signers \subseteq known))
         /\ (old # 0 /\ Ours(vault[old], known) => seed = old)
<1>1. index \in 0..LastSeed /\ LastSeed \in Nat \ {0} /\ vault \in [Seeds -> Vault]
  BY SetupAssumption DEF OnboardInv, Typed
<1>2. CASE old = 0
  BY <1>1, <1>2 DEF PlannedSeed, Seeds
<1>3. CASE old # 0
  <2>1. old \in Seeds /\ vault[old].by \in {"nobody", "owner", "other"}
    BY <1>1, <1>3 DEF Seeds, Vault
  <2> QED
    BY <1>1, <1>3, <2>1 DEF PlannedSeed, Seeds, Ours
<1> QED
  BY <1>2, <1>3

LEMMA MakePlanKeeps == ASSUME OnboardInv, NEW p \in Keys, MakePlan(p) PROVE OnboardInv'
<1>0. /\ page \in [Keys -> Pages] /\ call \in [Keys -> Calls] /\ row \in Rows /\ left' \in [faults : Nat, visits : Nat]
      /\ vault \in [Seeds -> Vault] /\ sol[p] \in Nat /\ paid \in [Seeds -> Nat]
      /\ UNCHANGED <<chain, wire, row, fin, lostPlan>> /\ call[p].at = "plan"
      /\ PageSafe(p, page[p], call[p]) /\ (lostPlan \/ PageCurrent(p, page[p], call[p]))
  BY DEF OnboardInv, Typed, MakePlan, hist, PagesSafe, Kept, PagesCurrent
<1>1. CASE ~(call[p].new \/ row.state = "signed")
  <2>1. /\ call' = [call EXCEPT ![p] = NoCall]
        /\ \/ page[p].pc # "asks" /\ UNCHANGED page
           \/ \E pg \in {Closed(p), [Closed(p) EXCEPT !.pc = "pays"]} : page' = [page EXCEPT ![p] = pg]
    BY <1>1 DEF MakePlan
  <2>2. \A pg \in {Closed(p), [Closed(p) EXCEPT !.pc = "pays"]} : pg \in Pages /\ Rests(pg)
    BY Rest DEF OnboardInv
  <2>3. page'[p].pc # "asks"
    BY <1>0, <2>1, <2>2 DEF Rests
  <2> QED
    BY <1>0, <2>1, <2>2, <2>3, RestKeeps
<1>2. CASE call[p].new \/ row.state = "signed"
  <2>1. PICK old, known, seed, c :
          /\ old = (IF call[p].new THEN Unplanned ELSE row.planned) /\ known = old.keys \cup {p}
          /\ seed = PlannedSeed(vault, index, old.seed, known)
          /\ c = [call[p] EXCEPT !.at = "store", !.read = old.seed, !.seed = seed, !.keys = known]
    OBVIOUS
  <2>2. /\ seed <= LastSeed /\ call' = [call EXCEPT ![p] = c]
        /\ IF page[p].pc # "asks" THEN page' = page
           ELSE page' = [page EXCEPT ![p].it = SetupTxs(vault[seed], seed, p, sol[p], paid[seed])]
    BY <1>2, <2>1 DEF MakePlan
  <2>3. old.seed \in 0..LastSeed /\ known \in SUBSET Keys /\ (call[p].new => old.seed = 0)
        /\ (~call[p].new => old.seed = row.planned.seed /\ row.planned.keys \subseteq known)
    BY <1>0, <2>1, SetupAssumption DEF Rows, Planned, Unplanned
  <2>4. seed \in Seeds /\ seed \in 0..LastSeed
    BY <2>1, <2>2, <2>3, SeedIs DEF Seeds
  <2>5. c \in Calls /\ c.at = "store" /\ c.new = call[p].new /\ c.read = old.seed /\ c.seed = seed /\ c.keys = known
    <3>1. PICK u, read : u = call[p] /\ read = old.seed
      OBVIOUS
    <3>2. u \in Calls /\ read \in 0..LastSeed
      BY <1>0, <2>3, <3>1
    <3>3. c = [u EXCEPT !.at = "store", !.read = read, !.seed = seed, !.keys = known]
      BY <2>1, <3>1
    <3>4. c \in Calls /\ c.at = "store" /\ c.new = u.new /\ c.read = read /\ c.seed = seed /\ c.keys = known
      BY <2>3, <2>4, <3>2, <3>3 DEF Calls
    <3> QED
      BY <3>1, <3>4
  <2>6. PICK pg : /\ pg = IF page[p].pc # "asks" THEN page[p]
                          ELSE [page[p] EXCEPT !.it = SetupTxs(vault[seed], seed, p, sol[p], paid[seed])]
                  /\ page' = [page EXCEPT ![p] = pg]
    BY <1>0, <2>2
  <2>7. vault[seed] \in Vault /\ VaultShape(vault[seed]) /\ paid[seed] \in Nat
    BY <1>0, <2>4 DEF OnboardInv, VaultsInOrder
  <2>8. /\ pg \in Pages /\ pg.pc = page[p].pc /\ pg.held = page[p].held /\ pg.told = page[p].told /\ pg.tx = page[p].tx
        /\ pg.fate = page[p].fate /\ (pg.pc # "asks" => pg.it = page[p].it)
        /\ pg.pc = "asks" => pg.it.seed = seed /\ PlanSafe(vault[seed], pg.it)
    <3>1. PICK it : it = SetupTxs(vault[seed], seed, p, sol[p], paid[seed])
      OBVIOUS
    <3>2. it \in Plans /\ it.seed = seed /\ PlanSafe(vault[seed], it)
      BY <1>0, <2>4, <2>7, <3>1, PlanIs
    <3>3. CASE page[p].pc # "asks"
      BY <1>0, <2>6, <3>3
    <3>4. CASE page[p].pc = "asks"
      <4>1. PICK u : u = page[p]
        OBVIOUS
      <4>2. u \in Pages /\ pg = [u EXCEPT !.it = it]
        BY <1>0, <2>6, <3>1, <3>4, <4>1
      <4>3. /\ pg \in Pages /\ pg.pc = u.pc /\ pg.it = it /\ pg.held = u.held /\ pg.told = u.told /\ pg.tx = u.tx
            /\ pg.fate = u.fate
        BY <3>2, <4>2 DEF Pages
      <4> QED
        BY <3>2, <3>4, <4>1, <4>3
    <3> QED
      BY <3>3, <3>4
  <2>9. PageSafe(p, pg, c)
    <3>1. p \in known
      BY <2>1
    <3> QED
      BY <1>0, <2>3, <2>4, <2>5, <2>8, <3>1 DEF PageSafe
  <2>10. lostPlan \/ PageCurrent(p, pg, c)
    <3> SUFFICES ASSUME ~lostPlan PROVE PageCurrent(p, pg, c)
      OBVIOUS
    <3>1. Kept /\ PageCurrent(p, page[p], call[p])
      BY <1>0 DEF OnboardInv
    <3>2. old.seed # 0 => ~call[p].new /\ old.seed = row.planned.seed /\ old.seed \in Seeds /\ vault[old.seed].signers \subseteq known
      <4> SUFFICES ASSUME old.seed # 0 PROVE ~call[p].new /\ old.seed = row.planned.seed /\ old.seed \in Seeds /\ vault[old.seed].signers \subseteq known
        OBVIOUS
      <4>1. ~call[p].new /\ old.seed = row.planned.seed /\ old.seed \in Seeds /\ row.planned.keys \subseteq known
        BY <2>3, SetupAssumption DEF Seeds
      <4> QED
        BY <3>1, <4>1 DEF Kept, KeysKnown
    <3>3. old.seed \notin {0, seed} => vault[old.seed].by = "other"
      BY <2>1, <2>2, <2>3, <3>2, SeedIs
    <3>4. pg.held # 0 /\ pg.pc = "asks" => vault[pg.held].by = "owner" /\ ~c.new /\ seed = pg.held
      <4> SUFFICES ASSUME pg.held # 0, pg.pc = "asks" PROVE vault[pg.held].by = "owner" /\ ~c.new /\ seed = pg.held
        OBVIOUS
      <4>1. vault[pg.held].by = "owner" /\ ~call[p].new /\ pg.held \in Seeds
        BY <1>0, <2>8, <3>1, SetupAssumption DEF PageCurrent, Pages, Seeds
      <4>2. pg.held = row.planned.seed
        BY <3>1, <4>1 DEF Kept, SeedsCurrent
      <4>3. old.seed = pg.held /\ Ours(vault[old.seed], known)
        BY <2>3, <3>2, <4>1, <4>2, SetupAssumption DEF Ours, Seeds
      <4> QED
        BY <2>1, <2>2, <2>3, <2>5, <4>1, <4>3, SeedIs, SetupAssumption DEF Seeds
    <3> QED
      BY <2>5, <2>8, <3>1, <3>3, <3>4 DEF PageCurrent
  <2>11. pg.told \/ (pg.pc = "sends" /\ pg.fate = "landed" /\ pg.tx.kind = "fund") => SomePaid
    BY <2>8 DEF OnboardInv, PagesPaid
  <2> QED
    BY <1>0, <2>2, <2>5, <2>6, <2>8, <2>9, <2>10, <2>11, PageMoves
<1> QED
  BY <1>1, <1>2

LEMMA StorePlanKeeps == ASSUME OnboardInv, NEW p \in Keys, StorePlan(p) PROVE OnboardInv'
<1> DEFINE kept == row.state = (IF call[p].new THEN "none" ELSE "signed")
           undone == ~(row.planned.keys \subseteq call[p].keys) \/ row.planned.seed \notin {call[p].read, call[p].seed}
<1>0. /\ page \in [Keys -> Pages] /\ call \in [Keys -> Calls] /\ row \in Rows /\ left' \in [faults : Nat, visits : Nat]
      /\ UNCHANGED <<chain, wire, fin, left>> /\ call[p].at = "store" /\ call' = [call EXCEPT ![p] = NoCall]
      /\ NoCall \in Calls /\ NoCall.at = "none" /\ ~NoCall.new
  BY Starts DEF OnboardInv, Typed, StorePlan
<1>1. (lostPlan' <=> lostPlan \/ (kept /\ undone)) /\ lostPlan' \in BOOLEAN
  BY DEF StorePlan
<1>2. CASE ~kept
  <2>1. row' = row /\ ((page' = page /\ page[p].pc # "asks") \/ page' = [page EXCEPT ![p] = Closed(p)])
    BY <1>2 DEF StorePlan
  <2>2. Closed(p) \in Pages /\ Rests(Closed(p)) /\ Closed(p).pc = "away"
    BY Rest DEF OnboardInv
  <2>3. page'[p].pc # "asks"
    BY <1>0, <2>1, <2>2
  <2>4. lostPlan' = lostPlan
    BY <1>1, <1>2 DEF OnboardInv, Typed
  <2> QED
    BY <1>0, <2>1, <2>2, <2>3, <2>4, RestKeeps
<1>3. CASE kept
  <2>1. PICK u, c : u = page[p] /\ c = call[p]
    OBVIOUS
  <2>2. u \in Pages /\ c \in Calls /\ c.at = "store" /\ PageSafe(p, u, c) /\ c.seed \in Seeds /\ c.seed \in 0..LastSeed
        /\ c.keys \in SUBSET Keys /\ p \in c.keys
    BY <1>0, <2>1 DEF OnboardInv, PagesSafe, PageSafe, Calls
  <2>3. PICK pg : pg = (IF u.pc # "asks" THEN u ELSE [u EXCEPT !.pc = "looks"]) /\ page' = [page EXCEPT ![p] = pg]
    <3>1. page' = IF page[p].pc # "asks" THEN page ELSE [page EXCEPT ![p] = [page[p] EXCEPT !.pc = "looks"]]
      BY <1>3 DEF StorePlan
    <3>2. page = [page EXCEPT ![p] = u]
      BY <1>0, <2>1
    <3>3. CASE u.pc # "asks"
      BY <2>1, <3>1, <3>2, <3>3
    <3>4. CASE u.pc = "asks"
      BY <2>1, <3>1, <3>4
    <3> QED
      BY <3>3, <3>4
  <2>4. /\ pg \in Pages /\ pg.it = u.it /\ pg.held = u.held /\ pg.told = u.told /\ pg.tx = u.tx /\ pg.fate = u.fate
        /\ pg.pc = IF u.pc = "asks" THEN "looks" ELSE u.pc
    BY <2>2, <2>3 DEF Pages
  <2>5. /\ page' \in [Keys -> Pages] /\ page'[p] = pg /\ (\A q \in Keys : q # p => page'[q] = page[q])
        /\ call' \in [Keys -> Calls] /\ call'[p] = NoCall /\ (\A q \in Keys : q # p => call'[q] = call[q])
    BY <1>0, <2>3, <2>4
  <2>6. row' \in Rows /\ row'.state = "signed" /\ row'.planned.seed = c.seed /\ row'.planned.keys = c.keys /\ row'.sent = row.sent
    <3>1. PICK planned : planned = [seed |-> c.seed, keys |-> c.keys]
      OBVIOUS
    <3>2. planned \in Planned /\ planned.seed = c.seed /\ planned.keys = c.keys
      BY <2>2, <3>1 DEF Planned
    <3>3. row' = [row EXCEPT !.state = "signed", !.planned = planned]
      BY <1>3, <2>1, <3>1 DEF StorePlan
    <3>4. row' \in Rows /\ row'.state = "signed" /\ row'.planned = planned /\ row'.sent = row.sent
      BY <1>0, <3>2, <3>3 DEF Rows
    <3> QED
      BY <3>2, <3>4
  <2>7. UNCHANGED <<index, vault, sol, paid, tables, wire, fin>>
    BY <1>0 DEF chain
  <2>8. Typed'
    BY <1>0, <1>1, <2>5, <2>6, <2>7 DEF OnboardInv, Typed, Seeds, Vault
  <2>9. VaultsInOrder' /\ TxsSafe'
    BY <2>7 DEF OnboardInv, VaultsInOrder, VaultShape, Seeds, Unmade, TxsSafe, TxSafe, OwnerSafe
  <2>10. PagesSafe'
    <3> SUFFICES ASSUME NEW q \in Keys PROVE PageSafe(q, page[q], call[q])'
      BY DEF PagesSafe
    <3>1. PageSafe(q, page[q], call[q])
      BY DEF OnboardInv, PagesSafe
    <3>2. CASE q = p
      <4>1. PageSafe(p, pg, NoCall)
        BY <1>0, <2>2, <2>4 DEF PageSafe
      <4> QED
        BY <2>5, <2>7, <3>2, <4>1 DEF PageSafe, PlanSafe, TxSafe, OwnerSafe, Seeds, HasOwnerPart, HasKeyPart, Whole
    <3>3. CASE q # p
      BY <2>5, <2>7, <3>1, <3>3 DEF PageSafe, PlanSafe, TxSafe, OwnerSafe, Seeds, HasOwnerPart, HasKeyPart, Whole
    <3> QED
      BY <3>2, <3>3
  <2>11. PagesPaid'
    <3>1. SomePaid' <=> SomePaid
      BY <2>7 DEF SomePaid, Seeds
    <3> QED
      BY <2>1, <2>4, <2>5, <3>1 DEF OnboardInv, PagesPaid
  <2>12. BotPaid'
    <3>1. ~BotSpends /\ fin.at \notin {"check", "send", "sending", "made", "register"}
      BY <1>3 DEF OnboardInv, BotPaid, Paid
    <3>2. ~BotSpends' /\ (SomePaid' <=> SomePaid)
      BY <2>6, <2>7, <3>1 DEF BotSpends, SomePaid, Seeds
    <3> QED
      BY <2>2, <2>6, <2>7, <3>1, <3>2 DEF OnboardInv, BotPaid, Seeds, Paid
  <2>13. (lostPlan \/ Kept)'
    <3> SUFFICES ASSUME ~lostPlan' PROVE Kept'
      OBVIOUS
    <3>1. Kept /\ row.planned.keys \subseteq c.keys /\ row.planned.seed \in {c.read, c.seed}
      BY <1>1, <1>3, <2>1 DEF OnboardInv
    <3>2. PageCurrent(p, u, c)
      BY <2>1, <3>1 DEF Kept, PagesCurrent
    <3>3. \A s \in Seeds : s = row.planned.seed => s = c.seed \/ vault[s].by = "other"
      BY <2>2, <3>1, <3>2, SetupAssumption DEF PageCurrent, Seeds
    <3>4. \A s \in Seeds : Current(s) => s = row'.planned.seed \/ vault'[s].by = "other"
      BY <2>6, <2>7, <3>3 DEF Current
    <3>5. KeysKnown'
      BY <2>6, <2>7, <3>1 DEF Kept, KeysKnown, Seeds
    <3>6. SeedsCurrent'
      <4>1. \A s \in Seeds : vault[s].by = "owner" => s = c.seed
        BY <3>1, <3>3 DEF Kept, SeedsCurrent
      <4>2. \A t \in wire : t.kind # "table" => t.seed = row'.planned.seed \/ vault'[t.seed].by = "other"
        BY <3>1, <3>4 DEF Kept, SeedsCurrent, OnboardInv, TxsSafe
      <4> QED
        BY <2>6, <2>7, <4>1, <4>2 DEF SeedsCurrent, Current, Seeds
    <3>7. PagesCurrent'
      <4> SUFFICES ASSUME NEW q \in Keys PROVE PageCurrent(q, page[q], call[q])'
        BY DEF PagesCurrent
      <4>1. PageCurrent(q, page[q], call[q]) /\ PageSafe(q, page[q], call[q])
        BY <3>1 DEF Kept, PagesCurrent, OnboardInv, PagesSafe
      <4>2. CASE q = p
        BY <1>0, <2>2, <2>4, <2>5, <2>6, <2>7, <3>1, <3>2, <3>4, <4>2 DEF PageCurrent, PageSafe, Current
      <4>3. CASE q # p
        BY <2>5, <2>6, <2>7, <3>1, <3>4, <4>1, <4>3 DEF PageCurrent, PageSafe, Current
      <4> QED
        BY <4>2, <4>3
    <3>8. FundsSafe'
      BY <2>7, <3>1 DEF Kept, FundsSafe, Whole
    <3> QED
      BY <3>5, <3>6, <3>7, <3>8 DEF Kept
  <2> QED
    BY <2>8, <2>9, <2>10, <2>11, <2>12, <2>13 DEF OnboardInv
<1> QED
  BY <1>2, <1>3

LEMMA SendKeeps ==
  ASSUME OnboardInv, NEW p \in Keys, NEW t \in Txs, NEW pg \in Pages, Send(p, t, pg), pg.told = page[p].told,
         UNCHANGED <<chain, row, call, fin, left, lostPlan>>,
         t.kind \notin {"none", "table"}, t.page = p, t.kind # "owner" => ~t.create,
         t.seed \in Seeds, TxSafe(vault[t.seed], t),
         t.kind = "fund" => lostPlan \/ Whole(vault[t.seed]),
         lostPlan \/ (p \in row.planned.keys /\ Current(t.seed) /\ (pg.held # 0 => t.seed = pg.held))
  PROVE  OnboardInv'
<1>1. PICK sent, c : sent = [pg EXCEPT !.pc = "sends", !.it = NoPlan, !.tx = t, !.fate = "wire"] /\ c = call[p]
  OBVIOUS
<1>2. page' = [page EXCEPT ![p] = sent] /\ wire' = wire \cup {t}
  BY <1>1 DEF Send, Set
<1>3. NoPlan \in Plans
  BY Starts
<1>4. sent \in Pages /\ sent.pc = "sends" /\ sent.held = pg.held /\ sent.told = pg.told /\ sent.tx = t /\ sent.fate = "wire"
  BY <1>1, <1>3 DEF Pages
<1>5. /\ call \in [Keys -> Calls] /\ c \in Calls /\ PageSafe(p, page[p], c) /\ (lostPlan \/ PageCurrent(p, page[p], c))
      /\ left \in [faults : Nat, visits : Nat] /\ (page[p].told => SomePaid)
  BY <1>1 DEF OnboardInv, Typed, PagesSafe, PagesPaid, Kept, PagesCurrent
<1>6. call' = [call EXCEPT ![p] = c]
  BY <1>1, <1>5
<1>7. PageSafe(p, sent, c)
  BY <1>4, <1>5 DEF PageSafe
<1>8. lostPlan \/ PageCurrent(p, sent, c)
  BY <1>4, <1>5 DEF PageCurrent
<1> QED
  BY <1>2, <1>4, <1>5, <1>6, <1>7, <1>8, PageMoves

\* What a page that looks does: it rests, or sends the answer's first part; a
\* funding only of a whole vault, and one the answer was read without.
LEMMA LookIs ==
  ASSUME OnboardInv, NEW p \in Keys, Look(p)
  PROVE  /\ UNCHANGED <<chain, server, left, hist>>
         /\ \/ /\ UNCHANGED wire
               /\ \E pg \in {Closed(p), [Closed(p) EXCEPT !.pc = "pays"]} : page' = [page EXCEPT ![p] = pg]
            \/ \E pg \in Pages, t \in Txs :
                 /\ Send(p, t, pg) /\ pg.told = page[p].told /\ t.page = p
                 /\ t.kind \notin {"none", "table"} /\ (t.kind # "owner" => ~t.create)
                 /\ t.seed \in Seeds /\ TxSafe(vault[t.seed], t)
                 /\ lostPlan \/ (p \in row.planned.keys /\ Current(t.seed) /\ (pg.held # 0 => t.seed = pg.held))
                 /\ t.kind = "fund" => lostPlan \/ (Whole(vault[t.seed]) /\ page[p].it.seen = 0 /\ page[p].it.seed = t.seed)
<1>0. UNCHANGED <<chain, server, left, hist>> /\ page[p].pc = "looks"
  BY DEF Look
<1>1. PICK u, it : u = page[p] /\ it = page[p].it
  OBVIOUS
<1>2. PICK held : held = (IF u.held = 0 /\ p \in SignsSets /\ it.fund THEN it.seed ELSE u.held)
  OBVIOUS
<1>3. PICK pg : pg = [u EXCEPT !.held = held]
  OBVIOUS
<1>4. u \in Pages /\ it \in Plans /\ it.seed \in 0..LastSeed /\ it.seed \in Seeds /\ u.held \in 0..LastSeed /\ PlanSafe(vault[it.seed], it)
  BY <1>0, <1>1 DEF OnboardInv, Typed, PagesSafe, PageSafe, Pages, Plans
<1>5. held \in 0..LastSeed
  BY <1>2, <1>4
<1>6. pg \in Pages /\ pg.held = held /\ pg.told = u.told
  BY <1>3, <1>4, <1>5 DEF Pages
<1>7. lostPlan \/ (p \in row.planned.keys /\ Current(it.seed) /\ (held # 0 => held = it.seed))
  BY <1>0, <1>1, <1>2 DEF OnboardInv, Kept, PagesCurrent, PageCurrent
<1>8. \/ /\ UNCHANGED wire
         /\ \E x \in {Closed(p), [Closed(p) EXCEPT !.pc = "pays"]} : page' = [page EXCEPT ![p] = x]
      \/ ~AllDone(it) /\ HasOwnerPart(it) /\ Send(p, OwnerTx(p, it), pg)
      \/ ~AllDone(it) /\ ~HasOwnerPart(it) /\ HasKeyPart(it) /\ Send(p, KeyTx(p, it), pg)
      \/ ~AllDone(it) /\ ~HasOwnerPart(it) /\ ~HasKeyPart(it) /\ \E t \in FundTx(p, FundingOf(held, it)) : Send(p, t, pg)
  BY <1>1, <1>2, <1>3 DEF Look, Set
<1>9. CASE HasOwnerPart(it) /\ Send(p, OwnerTx(p, it), pg)
  <2>1. PICK t : t = OwnerTx(p, it)
    OBVIOUS
  <2>2. /\ t \in Txs /\ t.kind = "owner" /\ t.page = p /\ t.seed = it.seed
        /\ t.create = it.create /\ t.off = it.off /\ t.on = it.on
    BY <1>4, <2>1, OwnerTxIs
  <2>3. TxSafe(vault[t.seed], t)
    BY <1>4, <2>2 DEF TxSafe, PlanSafe
  <2>4. Send(p, t, pg)
    BY <1>9, <2>1
  <2>5. lostPlan \/ (p \in row.planned.keys /\ Current(t.seed) /\ (pg.held # 0 => t.seed = pg.held))
    BY <1>6, <1>7, <2>2
  <2> QED
    BY <1>0, <1>1, <1>4, <1>6, <2>2, <2>3, <2>4, <2>5
<1>10. CASE ~HasOwnerPart(it) /\ HasKeyPart(it) /\ Send(p, KeyTx(p, it), pg)
  <2>1. PICK t : t = KeyTx(p, it)
    OBVIOUS
  <2>2. /\ t \in Txs /\ t.kind = (IF it.release THEN "release" ELSE "policy") /\ t.page = p /\ t.seed = it.seed
        /\ ~t.create /\ (~it.release => t.n = it.next)
    BY <1>4, <2>1, KeyTxIs
  <2>3. TxSafe(vault[t.seed], t)
    BY <1>4, <1>10, <2>2 DEF TxSafe, PlanSafe, HasKeyPart
  <2>4. Send(p, t, pg)
    BY <1>10, <2>1
  <2>5. lostPlan \/ (p \in row.planned.keys /\ Current(t.seed) /\ (pg.held # 0 => t.seed = pg.held))
    BY <1>6, <1>7, <2>2
  <2>6. t.kind \notin {"none", "table", "fund", "owner"}
    BY <2>2
  <2> QED
    BY <1>0, <1>1, <1>4, <1>6, <2>2, <2>3, <2>4, <2>5, <2>6
<1>11. CASE ~AllDone(it) /\ ~HasOwnerPart(it) /\ ~HasKeyPart(it) /\ \E t \in FundTx(p, FundingOf(held, it)) : Send(p, t, pg)
  <2>1. PICK t \in FundTx(p, FundingOf(held, it)) : Send(p, t, pg)
    BY <1>11
  <2>2. PICK seed : seed = FundingOf(held, it)
    OBVIOUS
  <2>3. seed \in Seeds /\ seed \in 0..LastSeed /\ (held # 0 => seed = held) /\ (held = 0 => seed = it.seed)
    BY <1>4, <1>5, <2>2, SetupAssumption DEF FundingOf, Seeds
  <2>4. t \in Txs /\ t.kind = "fund" /\ t.page = p /\ t.seed = seed /\ ~t.create
    BY <2>1, <2>2, <2>3, FundTxIs
  <2>5. Whole(vault[it.seed]) /\ it.seen = 0
    BY <1>4, <1>11 DEF AllDone, PlanSafe
  <2>6. lostPlan \/ (seed = it.seed /\ p \in row.planned.keys /\ Current(seed))
    BY <1>7, <2>3
  <2>7. lostPlan \/ (p \in row.planned.keys /\ Current(t.seed) /\ (pg.held # 0 => t.seed = pg.held))
    BY <1>6, <2>3, <2>4, <2>6
  <2>8. lostPlan \/ (Whole(vault[t.seed]) /\ page[p].it.seen = 0 /\ page[p].it.seed = t.seed)
    BY <1>1, <2>4, <2>5, <2>6
  <2>9. TxSafe(vault[t.seed], t) /\ t.seed \in Seeds
    BY <2>3, <2>4 DEF TxSafe
  <2> QED
    BY <1>0, <1>1, <1>6, <2>1, <2>4, <2>7, <2>8, <2>9
<1> QED
  BY <1>0, <1>8, <1>9, <1>10, <1>11

LEMMA LookKeeps == ASSUME OnboardInv, NEW p \in Keys, Look(p) PROVE OnboardInv'
<1>0. UNCHANGED <<chain, row, call, fin, left, lostPlan>> /\ left \in [faults : Nat, visits : Nat]
  BY DEF Look, server, hist, OnboardInv, Typed
<1>1. CASE UNCHANGED wire /\ \E pg \in {Closed(p), [Closed(p) EXCEPT !.pc = "pays"]} : page' = [page EXCEPT ![p] = pg]
  <2>1. \A pg \in {Closed(p), [Closed(p) EXCEPT !.pc = "pays"]} : pg \in Pages /\ Rests(pg)
    BY Rest DEF OnboardInv
  <2> QED
    BY <1>0, <1>1, <2>1, RestKeeps
<1>2. CASE ~(UNCHANGED wire /\ \E pg \in {Closed(p), [Closed(p) EXCEPT !.pc = "pays"]} : page' = [page EXCEPT ![p] = pg])
  <2>1. PICK pg \in Pages, t \in Txs :
                 /\ Send(p, t, pg) /\ pg.told = page[p].told /\ t.page = p
                 /\ t.kind \notin {"none", "table"} /\ (t.kind # "owner" => ~t.create)
                 /\ t.seed \in Seeds /\ TxSafe(vault[t.seed], t)
                 /\ lostPlan \/ (p \in row.planned.keys /\ Current(t.seed) /\ (pg.held # 0 => t.seed = pg.held))
                 /\ t.kind = "fund" => lostPlan \/ (Whole(vault[t.seed]) /\ page[p].it.seen = 0 /\ page[p].it.seed = t.seed)
    BY <1>2, LookIs
  <2> QED
    BY <1>0, <2>1, SendKeeps
<1> QED
  BY <1>1, <1>2

\* landed: the next policy, another answer, or the payment.
LEMMA LandedKeeps == ASSUME OnboardInv, NEW p \in Keys, Landed(p) PROVE OnboardInv'
<1>0. /\ page[p].pc = "sends" /\ page[p].fate = "landed" /\ UNCHANGED <<chain, row, fin, left, lostPlan>>
      /\ left \in [faults : Nat, visits : Nat] /\ page[p] \in Pages /\ page[p].tx \in Txs /\ page[p].held \in 0..LastSeed
      /\ PageSafe(p, page[p], call[p]) /\ (lostPlan \/ PageCurrent(p, page[p], call[p]))
  BY DEF Landed, hist, OnboardInv, Typed, PagesSafe, Kept, PagesCurrent, Pages
<1>1. CASE page[p].tx.kind = "fund"
  <2>1. PICK pg : pg = [Away EXCEPT !.pc = "pays", !.told = TRUE]
    OBVIOUS
  <2>2. page' = [page EXCEPT ![p] = pg] /\ UNCHANGED <<wire, call>>
    BY <1>1, <2>1 DEF Landed, Set
  <2>3. pg \in Pages /\ pg.pc = "pays" /\ pg.held = 0
    BY <2>1, Starts DEF Pages
  <2>4. Rests(pg)
    BY <1>0, <1>1, <2>3 DEF Rests, OnboardInv, PagesPaid
  <2> QED
    BY <1>0, <2>2, <2>3, <2>4, RestKeeps
<1>2. CASE page[p].tx.kind = "policy" /\ page[p].tx.n < Policies
  <2>1. PICK u, t : u = page[p].tx /\ t = [u EXCEPT !.n = @ + 1]
    OBVIOUS
  <2>2. Send(p, t, page[p]) /\ UNCHANGED call
    BY <1>2, <2>1 DEF Landed
  <2>3. u \in Txs /\ u.n \in Nat /\ u.n < Policies /\ u.kind = "policy"
    BY <1>0, <1>2, <2>1 DEF Txs
  <2>4. t \in Txs /\ t.kind = u.kind /\ t.page = u.page /\ t.seed = u.seed /\ t.create = u.create /\ t.n = u.n + 1
    BY <2>1, <2>3 DEF Txs
  <2>5. t.kind = "policy" /\ t.page = p /\ ~t.create /\ t.seed \in Seeds /\ t.seed = page[p].tx.seed
    BY <1>0, <2>1, <2>3, <2>4 DEF PageSafe
  <2>6. TxSafe(vault[t.seed], t)
    BY <2>3, <2>4, <2>5, SetupAssumption DEF TxSafe
  <2>7. lostPlan \/ (p \in row.planned.keys /\ Current(t.seed) /\ (page[p].held # 0 => t.seed = page[p].held))
    BY <1>0, <2>5 DEF PageCurrent
  <2> QED
    BY <1>0, <2>2, <2>4, <2>5, <2>6, <2>7, SendKeeps
<1>3. CASE page[p].tx.kind # "fund" /\ ~(page[p].tx.kind = "policy" /\ page[p].tx.n < Policies)
  <2>1. Again(p, page[p].held) /\ UNCHANGED wire
    BY <1>3 DEF Landed
  <2>2. lostPlan \/ page[p].held = 0 \/ vault[page[p].held].by = "owner"
    BY <1>0, <1>3 DEF PageSafe, PageCurrent
  <2> QED
    BY <1>0, <2>1, <2>2, AgainKeeps
<1> QED
  BY <1>1, <1>2, <1>3

-----------------------------------------------------------------------------
\* Only the page that waits for a transaction reads what became of it.
SameBut(q, fate, t) ==
  /\ page'[q].pc = page[q].pc /\ page'[q].it = page[q].it /\ page'[q].held = page[q].held
  /\ page'[q].told = page[q].told /\ page'[q].tx = page[q].tx
  /\ page'[q].fate = page[q].fate \/ (page'[q].fate = fate /\ page[q].pc = "sends" /\ page[q].tx = t)

LEMMA DecidedIs ==
  ASSUME OnboardInv, NEW t \in wire, NEW fate \in {"landed", "dead"}, Decided(t, fate)
  PROVE  wire' = wire \ {t} /\ page' \in [Keys -> Pages] /\ \A q \in Keys : SameBut(q, fate, t)
<1>1. page \in [Keys -> Pages] /\ t.page \in Keys
  BY DEF OnboardInv, Typed, Txs
<1>2. PICK u, pg : u = page[t.page] /\ pg = [u EXCEPT !.fate = fate]
  OBVIOUS
<1>3. u \in Pages
  BY <1>1, <1>2
<1>4. /\ pg \in Pages /\ pg.pc = u.pc /\ pg.it = u.it /\ pg.held = u.held /\ pg.told = u.told /\ pg.tx = u.tx /\ pg.fate = fate
  BY <1>2, <1>3 DEF Pages
<1>5. \/ page' = page
      \/ page' = [page EXCEPT ![t.page] = pg] /\ u.pc = "sends" /\ u.tx = t
  BY <1>1, <1>2 DEF Decided
<1>6. wire' = wire \ {t}
  BY DEF Decided
<1>7. CASE page' = page
  BY <1>1, <1>6, <1>7 DEF SameBut
<1>8. CASE page' = [page EXCEPT ![t.page] = pg] /\ u.pc = "sends" /\ u.tx = t
  <2>1. page' \in [Keys -> Pages] /\ page'[t.page] = pg /\ \A q \in Keys : q # t.page => page'[q] = page[q]
    BY <1>1, <1>4, <1>8
  <2> QED
    BY <1>2, <1>4, <1>6, <1>8, <2>1 DEF SameBut
<1> QED
  BY <1>5, <1>7, <1>8

\* A step of the chain: vaults go forward, and a transaction may be decided.
LEMMA ChainMoves ==
  ASSUME OnboardInv, NEW fate \in {"landed", "dead"}, NEW t,
         wire' \subseteq wire, \A q \in Keys : SameBut(q, fate, t), UNCHANGED <<row, call, fin, lostPlan>>,
         Typed', VaultsInOrder', \A s \in Seeds : Grown(vault[s], vault'[s]),
         fate = "landed" /\ t.kind # "fund" => t.kind = "table" \/ vault'[t.seed].by = "owner",
         fate = "landed" /\ t.kind = "fund" => SomePaid',
         SomePaid => SomePaid', BotSpends' => BotSpends,
         lostPlan \/ \A s \in Seeds : vault'[s].signers \subseteq row.planned.keys /\ (vault'[s].by = "owner" => s = row.planned.seed)
  PROVE  OnboardInv'
<1>1. TxsSafe'
  <2>1. \A u \in wire' : u.kind # "table" => u.seed \in Seeds /\ TxSafe(vault'[u.seed], u)
    BY TxGrows DEF OnboardInv, TxsSafe
  <2> QED
    BY <2>1 DEF OnboardInv, TxsSafe, TxSafe, OwnerSafe, Seeds
<1>2. PagesSafe'
  <2> SUFFICES ASSUME NEW q \in Keys PROVE PageSafe(q, page[q], call[q])'
    BY DEF PagesSafe
  <2>1. PageSafe(q, page[q], call[q]) /\ SameBut(q, fate, t)
    BY DEF OnboardInv, PagesSafe
  <2>2. page'[q].pc = "asks" /\ call'[q].at = "store" =>
          page'[q].it.seed = call'[q].seed /\ PlanSafe(vault'[call'[q].seed], page'[q].it)
    BY <2>1, PlanGrows DEF PageSafe, SameBut
  <2>3. page'[q].pc = "looks" => page'[q].it.seed \in Seeds /\ PlanSafe(vault'[page'[q].it.seed], page'[q].it)
    BY <2>1, PlanGrows DEF PageSafe, SameBut
  <2>4. page'[q].pc = "sends" => page'[q].tx.seed \in Seeds /\ TxSafe(vault'[page'[q].tx.seed], page'[q].tx)
    BY <2>1, TxGrows DEF PageSafe, SameBut
  <2>5. page'[q].pc = "sends" /\ page'[q].fate = "landed" /\ page'[q].tx.kind # "fund" => vault'[page'[q].tx.seed].by = "owner"
    <3> SUFFICES ASSUME page'[q].pc = "sends", page'[q].fate = "landed", page'[q].tx.kind # "fund" PROVE vault'[page'[q].tx.seed].by = "owner"
      OBVIOUS
    <3>1. page[q].pc = "sends" /\ page'[q].tx = page[q].tx /\ page[q].tx.seed \in Seeds /\ page[q].tx.kind \notin {"table", "fund"}
      BY <2>1 DEF PageSafe, SameBut
    <3>2. CASE page[q].fate = "landed"
      <4>1. vault[page[q].tx.seed].by = "owner"
        BY <2>1, <3>1, <3>2 DEF PageSafe
      <4> QED
        BY <3>1, <4>1 DEF Grown
    <3>3. CASE page[q].fate # "landed"
      <4>1. page[q].tx = t /\ fate = "landed"
        BY <2>1, <3>3 DEF SameBut
      <4> QED
        BY <3>1, <4>1
    <3> QED
      BY <3>2, <3>3
  <2>6. /\ page'[q].held # 0 => page'[q].pc \in {"asks", "looks", "sends"}
        /\ page'[q].pc = "asks" => call'[q].at # "none"
        /\ call'[q].at = "store" => q \in call'[q].keys /\ call'[q].seed \in Seeds
        /\ call'[q].new => call'[q].read = 0
        /\ page'[q].pc = "sends" =>
             page'[q].tx.kind \notin {"none", "table"} /\ page'[q].tx.page = q /\ (page'[q].tx.kind # "owner" => ~page'[q].tx.create)
    BY <2>1 DEF PageSafe, SameBut
  <2> QED
    BY <2>2, <2>3, <2>4, <2>5, <2>6 DEF PageSafe, PlanSafe, TxSafe, OwnerSafe, Seeds, HasOwnerPart, HasKeyPart, Whole
<1>3. PagesPaid'
  <2> SUFFICES ASSUME NEW q \in Keys,
                      page'[q].told \/ (page'[q].pc = "sends" /\ page'[q].fate = "landed" /\ page'[q].tx.kind = "fund")
               PROVE  SomePaid'
    BY DEF PagesPaid
  <2>1. SameBut(q, fate, t)
    OBVIOUS
  <2> QED
    BY <2>1 DEF SameBut, OnboardInv, PagesPaid
<1>4. BotPaid'
  BY BotStutters DEF OnboardInv, Grown
<1>5. lostPlan \/ Kept => (lostPlan \/ Kept)'
  <2> SUFFICES ASSUME Kept, ~lostPlan PROVE Kept'
    OBVIOUS
  <2>1. \A s \in Seeds : vault[s].by = "other" => vault'[s].by = "other"
    BY DEF Grown
  <2>2. KeysKnown'
    BY DEF Kept, KeysKnown, Seeds
  <2>3. SeedsCurrent'
    <3>1. \A u \in wire' : u.kind # "table" => u.seed = row.planned.seed \/ vault'[u.seed].by = "other"
      BY <2>1 DEF Kept, SeedsCurrent, Current, OnboardInv, TxsSafe
    <3> QED
      BY <3>1 DEF SeedsCurrent, Current, Seeds
  <2>4. PagesCurrent'
    <3> SUFFICES ASSUME NEW q \in Keys PROVE PageCurrent(q, page[q], call[q])'
      BY DEF PagesCurrent
    <3>1. PageCurrent(q, page[q], call[q]) /\ PageSafe(q, page[q], call[q]) /\ SameBut(q, fate, t)
      BY DEF Kept, PagesCurrent, OnboardInv, PagesSafe
    <3>2. call[q] \in Calls /\ page[q] \in Pages
      BY DEF OnboardInv, Typed
    <3>3. page'[q].pc = "looks" => page'[q].it.seed = row.planned.seed \/ vault'[page'[q].it.seed].by = "other"
      BY <2>1, <3>1 DEF PageCurrent, PageSafe, SameBut, Current
    <3>4. page'[q].pc = "sends" => page'[q].tx.seed = row.planned.seed \/ vault'[page'[q].tx.seed].by = "other"
      BY <2>1, <3>1 DEF PageCurrent, PageSafe, SameBut, Current
    <3>5. call[q].at = "store" /\ call[q].read \notin {0, call[q].seed} => vault'[call[q].read].by = "other"
      <4>1. call[q].read # 0 => call[q].read \in Seeds
        BY <3>2, SetupAssumption DEF Calls, Seeds
      <4> QED
        BY <2>1, <3>1, <4>1 DEF PageCurrent
    <3>6. page[q].held # 0 /\ page[q].pc = "asks" => vault'[page[q].held].by = "owner"
      <4>1. page[q].held # 0 => page[q].held \in Seeds
        BY <3>2, SetupAssumption DEF Pages, Seeds
      <4> QED
        BY <3>1, <4>1 DEF PageCurrent, Grown
    <3> QED
      BY <3>1, <3>3, <3>4, <3>5, <3>6 DEF PageCurrent, SameBut, Current
  <2>5. FundsSafe'
    <3>1. \A u \in wire' : u.kind = "fund" => Whole(vault'[u.seed])
      BY DEF Kept, FundsSafe, Grown, OnboardInv, TxsSafe
    <3> QED
      BY <3>1 DEF FundsSafe, Whole
  <2> QED
    BY <2>2, <2>3, <2>4, <2>5 DEF Kept
<1> QED
  BY <1>1, <1>2, <1>3, <1>4, <1>5 DEF OnboardInv

LEMMA DieKeeps == ASSUME OnboardInv, NEW t \in wire, Die(t) PROVE OnboardInv'
<1>1. Decided(t, "dead") /\ UNCHANGED <<index, vault, sol, paid, tables, row, call, fin, lostPlan>>
  BY DEF Die, chain, server, hist
<1>2. wire' = wire \ {t} /\ page' \in [Keys -> Pages] /\ \A q \in Keys : SameBut(q, "dead", t)
  BY <1>1, DecidedIs
<1>3. left' \in [faults : Nat, visits : Nat]
  BY FaultIs DEF OnboardInv, Typed, Die
<1>4. Typed'
  BY <1>1, <1>2, <1>3 DEF OnboardInv, Typed, Seeds, Vault
<1>5. VaultsInOrder'
  BY <1>1 DEF OnboardInv, VaultsInOrder, VaultShape, Seeds, Unmade
<1>6. (SomePaid => SomePaid') /\ (BotSpends' => BotSpends)
  BY <1>1, <1>2 DEF SomePaid, BotSpends, Seeds
<1>7. lostPlan \/ \A s \in Seeds : vault'[s].signers \subseteq row.planned.keys /\ (vault'[s].by = "owner" => s = row.planned.seed)
  BY <1>1 DEF OnboardInv, Kept, KeysKnown, SeedsCurrent
<1>8. \A s \in Seeds : Grown(vault[s], vault'[s])
  BY <1>1 DEF Grown
<1> QED
  BY <1>1, <1>2, <1>4, <1>5, <1>6, <1>7, <1>8, ChainMoves

\* Another account takes the next seed, and no page's vault.
LEMMA TakeSeedKeeps == ASSUME OnboardInv, TakeSeed PROVE OnboardInv'
<1>0. /\ index < LastSeed - 1 /\ index' = index + 1 /\ vault' = [vault EXCEPT ![index + 1].by = "other"]
      /\ UNCHANGED <<sol, paid, tables, wire, row, call, fin, page, lostPlan>>
  BY DEF TakeSeed, server, hist
<1>1. /\ index \in 0..LastSeed /\ LastSeed \in Nat \ {0} /\ vault \in [Seeds -> Vault] /\ page \in [Keys -> Pages] /\ Policies \in Nat \ {0}
  BY SetupAssumption DEF OnboardInv, Typed
<1>2. PICK next : next = index + 1
  OBVIOUS
<1>3. next \in Seeds /\ index' \in 0..LastSeed
  BY <1>0, <1>1, <1>2 DEF Seeds
<1>4. vault[next] = Unmade
  BY <1>1, <1>2, <1>3 DEF OnboardInv, VaultsInOrder
<1>5. /\ vault' \in [Seeds -> Vault] /\ vault'[next].by = "other" /\ vault'[next].signers = {} /\ vault'[next].made = 0
      /\ \A s \in Seeds : s # next => vault'[s] = vault[s]
  BY <1>0, <1>1, <1>2, <1>3, <1>4 DEF Vault, Unmade
<1>6. \A s \in Seeds : Grown(vault[s], vault'[s])
  BY <1>1, <1>4, <1>5 DEF Grown, Whole, Unmade
<1>7. left' \in [faults : Nat, visits : Nat]
  BY FaultIs DEF OnboardInv, TakeSeed
<1>8. Typed'
  BY <1>0, <1>3, <1>5, <1>7 DEF OnboardInv, Typed, Seeds, Vault
<1>9. VaultsInOrder'
  <2>1. \A s \in Seeds : VaultShape(vault'[s])
    BY <1>5 DEF OnboardInv, VaultsInOrder, VaultShape
  <2>2. \A s \in Seeds : IF s > index' THEN vault'[s] = Unmade ELSE vault'[s].by # "nobody"
    BY <1>0, <1>1, <1>2, <1>5 DEF OnboardInv, VaultsInOrder, Seeds
  <2> QED
    BY <2>1, <2>2 DEF VaultsInOrder, VaultShape, Seeds, Unmade
<1>10. (SomePaid => SomePaid') /\ (BotSpends' => BotSpends)
  BY <1>0 DEF SomePaid, BotSpends, Seeds
<1>11. lostPlan \/ \A s \in Seeds : vault'[s].signers \subseteq row.planned.keys /\ (vault'[s].by = "owner" => s = row.planned.seed)
  BY <1>5 DEF OnboardInv, Kept, KeysKnown, SeedsCurrent
<1>12. \A q \in Keys : SameBut(q, "dead", NoTx)
  BY <1>0 DEF SameBut
<1> QED
  BY <1>0, <1>6, <1>8, <1>9, <1>10, <1>11, <1>12, ChainMoves

LEMMA LandKeeps == ASSUME OnboardInv, NEW t \in wire, Land(t) PROVE OnboardInv'
<1>0. Valid(t) /\ Decided(t, "landed") /\ UNCHANGED <<row, call, fin, left, lostPlan>>
  BY DEF Land, server, hist
<1>1. wire' = wire \ {t} /\ page' \in [Keys -> Pages] /\ \A q \in Keys : SameBut(q, "landed", t)
  BY <1>0, DecidedIs
<1>2. /\ t \in Txs /\ index \in 0..LastSeed /\ LastSeed \in Nat \ {0} /\ vault \in [Seeds -> Vault] /\ sol \in [Keys -> Nat]
      /\ paid \in [Seeds -> Nat] /\ left \in [faults : Nat, visits : Nat] /\ t.page \in Keys
      /\ t.kind # "none" /\ (t.kind # "owner" => ~t.create)
  BY SetupAssumption DEF OnboardInv, Typed, TxsSafe, Txs
<1>3. CASE t.kind = "table"
  <2>1. tables' = tables \cup {t.n} /\ UNCHANGED <<index, vault, sol, paid>>
    BY <1>3 DEF Land
  <2>2. Typed'
    BY <1>0, <1>1, <1>2, <2>1 DEF OnboardInv, Typed, Seeds, Vault
  <2>3. VaultsInOrder'
    BY <2>1 DEF OnboardInv, VaultsInOrder, VaultShape, Seeds, Unmade
  <2>4. (SomePaid => SomePaid') /\ (BotSpends' => BotSpends)
    BY <1>0, <1>1, <1>3, <2>1 DEF SomePaid, BotSpends, Seeds
  <2>5. lostPlan \/ \A s \in Seeds : vault'[s].signers \subseteq row.planned.keys /\ (vault'[s].by = "owner" => s = row.planned.seed)
    BY <2>1 DEF OnboardInv, Kept, KeysKnown, SeedsCurrent
  <2>6. \A s \in Seeds : Grown(vault[s], vault'[s])
    BY <2>1 DEF Grown
  <2> QED
    BY <1>0, <1>1, <1>3, <2>1, <2>2, <2>3, <2>4, <2>5, <2>6, ChainMoves
<1>4. CASE t.kind # "table"
  <2>1. /\ vault' = [vault EXCEPT ![t.seed] = After(t)] /\ sol' = [sol EXCEPT ![t.page] = @ - Spent(t)]
        /\ index' = (IF t.create THEN t.seed ELSE index)
        /\ paid' = (IF t.kind = "fund" THEN [paid EXCEPT ![t.seed] = @ + 1] ELSE paid) /\ UNCHANGED tables
    BY <1>4 DEF Land
  <2>2. t.seed \in Seeds /\ TxSafe(vault[t.seed], t) /\ VaultShape(vault[t.seed])
    BY <1>4 DEF OnboardInv, TxsSafe, VaultsInOrder
  <2>3. \A s \in Seeds : s > index => vault[s] = Unmade
    BY DEF OnboardInv, VaultsInOrder
  <2>4. PICK v, w : v = vault[t.seed] /\ w = After(t)
    OBVIOUS
  <2>5. /\ w \in Vault /\ VaultShape(w) /\ Grown(v, w)
        /\ w = v \/ (w.by = "owner" /\ (t.create \/ v.by = "owner"))
        /\ t.kind \in {"owner", "policy", "release"} => w.by = "owner"
        /\ w.signers \subseteq v.signers \cup {t.page}
    BY <1>0, <1>2, <2>2, <2>3, <2>4, AfterIs
  <2>6. vault' \in [Seeds -> Vault] /\ vault'[t.seed] = w /\ \A s \in Seeds : s # t.seed => vault'[s] = vault[s]
    BY <1>2, <2>1, <2>2, <2>4, <2>5
  <2>7. t.create => t.seed = index + 1 /\ v.by = "nobody" /\ t.kind = "owner"
    <3> SUFFICES ASSUME t.create PROVE t.seed = index + 1 /\ v.by = "nobody" /\ t.kind = "owner"
      OBVIOUS
    <3>1. t.kind = "owner" /\ t.seed = index + 1
      BY <1>0, <1>2 DEF Valid
    <3>2. vault[t.seed] = Unmade
      BY <1>2, <2>2, <2>3, <3>1 DEF Seeds
    <3> QED
      BY <2>4, <3>1, <3>2 DEF Unmade
  <2>8. sol' \in [Keys -> Nat]
    <3>1. PICK n : n = sol[t.page] - Spent(t)
      OBVIOUS
    <3>2. n \in Nat
      BY <1>0, <1>2, <1>4, <3>1 DEF Spent, Valid, Txs
    <3>3. sol' = [sol EXCEPT ![t.page] = n]
      BY <2>1, <3>1
    <3> QED
      BY <1>2, <3>2, <3>3
  <2>9. paid' \in [Seeds -> Nat] /\ (SomePaid => SomePaid') /\ (t.kind = "fund" => SomePaid')
    <3>1. PICK n : n = paid[t.seed] + 1
      OBVIOUS
    <3>2. n \in Nat /\ n > 0
      BY <1>2, <2>2, <3>1
    <3>3. CASE t.kind = "fund"
      <4>1. paid' = [paid EXCEPT ![t.seed] = n]
        BY <2>1, <3>1, <3>3
      <4>2. paid' \in [Seeds -> Nat] /\ paid'[t.seed] > 0
        BY <1>2, <2>2, <3>2, <4>1
      <4> QED
        BY <2>2, <4>2 DEF SomePaid, Seeds
    <3>4. CASE t.kind # "fund"
      BY <1>2, <2>1, <3>4 DEF SomePaid, Seeds
    <3> QED
      BY <3>3, <3>4
  <2>10. index' \in 0..LastSeed
    BY <1>2, <2>1, <2>2 DEF Seeds
  <2>11. Typed'
    BY <1>0, <1>1, <1>2, <2>6, <2>8, <2>9, <2>10 DEF OnboardInv, Typed, Seeds, Vault
  <2>12. VaultsInOrder'
    <3>1. \A s \in Seeds : VaultShape(vault'[s])
      BY <2>5, <2>6 DEF OnboardInv, VaultsInOrder
    <3>2. \A s \in Seeds : IF s > index' THEN vault'[s] = Unmade ELSE vault'[s].by # "nobody"
      <4> SUFFICES ASSUME NEW s \in Seeds PROVE IF s > index' THEN vault'[s] = Unmade ELSE vault'[s].by # "nobody"
        OBVIOUS
      <4>1. IF s > index THEN vault[s] = Unmade ELSE vault[s].by # "nobody"
        BY DEF OnboardInv, VaultsInOrder
      <4>2. CASE t.create
        BY <1>2, <2>1, <2>2, <2>5, <2>6, <2>7, <4>1, <4>2 DEF Seeds
      <4>3. CASE ~t.create
        <5>1. index' = index
          BY <2>1, <4>3
        <5>2. CASE s = t.seed
          BY <2>4, <2>5, <2>6, <4>1, <4>3, <5>1, <5>2 DEF Unmade
        <5>3. CASE s # t.seed
          BY <2>6, <4>1, <5>1, <5>3
        <5> QED
          BY <5>2, <5>3
      <4> QED
        BY <4>2, <4>3
    <3> QED
      BY <3>1, <3>2 DEF VaultsInOrder, VaultShape, Seeds, Unmade
  <2>13. BotSpends' => BotSpends
    BY <1>0, <1>1, <2>1 DEF BotSpends
  <2>14. \A s \in Seeds : Grown(vault[s], vault'[s])
    BY <2>4, <2>5, <2>6 DEF Grown
  <2>15. lostPlan \/ \A s \in Seeds : vault'[s].signers \subseteq row.planned.keys /\ (vault'[s].by = "owner" => s = row.planned.seed)
    <3> SUFFICES ASSUME ~lostPlan, NEW s \in Seeds
                 PROVE  vault'[s].signers \subseteq row.planned.keys /\ (vault'[s].by = "owner" => s = row.planned.seed)
      OBVIOUS
    <3>1. Kept
      BY DEF OnboardInv
    <3>2. vault[s].signers \subseteq row.planned.keys /\ (vault[s].by = "owner" => s = row.planned.seed)
      BY <3>1 DEF Kept, KeysKnown, SeedsCurrent
    <3>3. CASE s # t.seed
      BY <2>6, <3>2, <3>3
    <3>4. CASE s = t.seed
      <4>1. t.page \in row.planned.keys /\ Current(t.seed)
        BY <1>4, <3>1 DEF Kept, KeysKnown, SeedsCurrent
      <4>2. w.signers \subseteq row.planned.keys
        BY <2>4, <2>5, <3>2, <3>4, <4>1
      <4>3. w.by = "owner" => s = row.planned.seed
        BY <2>4, <2>5, <2>7, <3>2, <3>4, <4>1 DEF Current
      <4> QED
        BY <2>6, <3>4, <4>2, <4>3
    <3> QED
      BY <3>3, <3>4
  <2>16. t.kind # "fund" => vault'[t.seed].by = "owner"
    BY <1>2, <1>4, <2>5, <2>6 DEF Txs
  <2> QED
    BY <1>0, <1>1, <2>9, <2>11, <2>12, <2>13, <2>14, <2>15, <2>16, ChainMoves
<1> QED
  BY <1>3, <1>4

LEMMA InitOnboard == Init => OnboardInv
<1> SUFFICES ASSUME Init PROVE OnboardInv
  OBVIOUS
<1>11. /\ index = 0 /\ vault = [s \in Seeds |-> Unmade] /\ sol = [k \in Keys |-> 0] /\ paid = [s \in Seeds |-> 0]
       /\ tables = {} /\ wire = {}
  BY DEF Init, Unmade
<1>12. /\ page = [p \in Keys |-> Away] /\ call = [p \in Keys |-> NoCall] /\ fin = NoFin
       /\ row = [state |-> "none", planned |-> Unplanned, table |-> 0, sent |-> FALSE]
  BY DEF Init
<1>13. left \in [faults : Nat, visits : Nat]
  BY OnboardAssumption DEF Init
<1>14. ~lostPlan
  BY DEF Init
<1>15. row.state = "none" /\ row.planned = Unplanned /\ ~row.sent /\ row.table = 0
  BY <1>12
<1>1. /\ index = 0 /\ vault = [s \in Seeds |-> Unmade] /\ sol = [k \in Keys |-> 0] /\ paid = [s \in Seeds |-> 0]
      /\ tables = {} /\ wire = {} /\ page = [p \in Keys |-> Away] /\ call = [p \in Keys |-> NoCall] /\ fin = NoFin
      /\ left \in [faults : Nat, visits : Nat] /\ ~lostPlan
      /\ row.state = "none" /\ row.planned = Unplanned /\ ~row.sent /\ row.table = 0
  BY <1>11, <1>12, <1>13, <1>14, <1>15
<1>2. Policies \in Nat \ {0} /\ LastSeed \in Nat \ {0} /\ MaxTables \in Nat
  BY SetupAssumption, OnboardAssumption
<1>3. row \in Rows
  BY <1>2 DEF Init, Rows, Planned, Unplanned
<1>4. Unmade \in Vault /\ VaultShape(Unmade)
  BY <1>2 DEF Unmade, Vault, VaultShape
<1>5. Typed
  <2>1. index \in 0..LastSeed /\ vault \in [Seeds -> Vault] /\ sol \in [Keys -> Nat] /\ paid \in [Seeds -> Nat]
    BY <1>1, <1>2, <1>4
  <2>2. wire \subseteq Txs /\ page \in [Keys -> Pages] /\ call \in [Keys -> Calls] /\ fin \in Finishes
    BY <1>1, Starts
  <2>3. lostPlan \in BOOLEAN
    BY DEF Init
  <2> QED
    BY <1>1, <1>3, <2>1, <2>2, <2>3 DEF Typed
<1>6. VaultsInOrder
  BY <1>1, <1>2, <1>4 DEF VaultsInOrder, Seeds
<1>7. TxsSafe
  BY <1>1 DEF TxsSafe
<1>8. PagesSafe /\ PagesPaid
  BY <1>1, Starts DEF PagesSafe, PageSafe, PagesPaid
<1>9. BotPaid
  BY <1>1, Starts DEF BotPaid, BotSpends, Paid
<1>10. Kept
  <2>1. KeysKnown /\ SeedsCurrent /\ FundsSafe
    BY <1>1 DEF KeysKnown, SeedsCurrent, FundsSafe, Unmade
  <2>2. PagesCurrent
    BY <1>1, Starts DEF PagesCurrent, PageCurrent
  <2> QED
    BY <2>1, <2>2 DEF Kept
<1> QED
  BY <1>5, <1>6, <1>7, <1>8, <1>9, <1>10 DEF OnboardInv

LEMMA NextOnboard == ASSUME OnboardInv, [Next]_vars PROVE OnboardInv'
<1>1. CASE UNCHANGED vars
  <2>1. UNCHANGED <<index, vault, sol, paid, tables, wire, row, page, call, fin, left, lostPlan>>
    BY <1>1 DEF vars, chain, server, hist
  <2>2. \A q \in Keys : SameBut(q, "dead", NoTx)
    BY <2>1 DEF SameBut
  <2>3. Typed'
    BY <2>1 DEF OnboardInv, Typed, Seeds, Vault
  <2>4. VaultsInOrder'
    BY <2>1 DEF OnboardInv, VaultsInOrder, VaultShape, Seeds, Unmade
  <2>5. (SomePaid => SomePaid') /\ (BotSpends' => BotSpends)
    BY <2>1 DEF SomePaid, BotSpends, Seeds
  <2>6. lostPlan \/ \A s \in Seeds : vault'[s].signers \subseteq row.planned.keys /\ (vault'[s].by = "owner" => s = row.planned.seed)
    BY <2>1 DEF OnboardInv, Kept, KeysKnown, SeedsCurrent
  <2>7. \A s \in Seeds : Grown(vault[s], vault'[s])
    BY <2>1 DEF Grown
  <2> QED
    BY <2>1, <2>2, <2>3, <2>4, <2>5, <2>6, <2>7, ChainMoves
<1>2. CASE \E p \in Keys : ServerStep(p) \/ PageStep(p) \/ Open(p) \/ HeldExpired(p) \/ Leave(p) \/ Pay(p) \/ GiveUp(p)
  BY <1>2, MakePlanKeeps, StorePlanKeeps, LookKeeps, LandedKeeps, FailedKeeps, OpenKeeps, HeldExpiredKeeps, LeaveKeeps, PayKeeps
  DEF ServerStep, PageStep
<1>3. CASE PayStep \/ FinishFails \/ Crash \/ TakeSeed \/ LoseName
  BY <1>3, PayFundingKeeps, FinishStepKeeps, RegisterKeeps, CrashKeeps, TakeSeedKeeps, LoseNameKeeps DEF PayStep
<1>4. CASE \E t \in wire : Land(t) \/ Die(t)
  BY <1>4, LandKeeps, DieKeeps
<1> QED
  BY <1>1, <1>2, <1>3, <1>4 DEF Next

\* Every state of a request's set-up is as OnboardInv says.
THEOREM OnboardHolds == Spec => []OnboardInv
<1>1. OnboardInv /\ [Next]_vars => OnboardInv'
  BY NextOnboard
<1> QED
  BY <1>1, InitOnboard, PTL DEF Spec

\* The chain, what is sent, the row, the pages and the finish keep their types.
THEOREM OnboardTypes == Spec => []TypeOK
<1>1. OnboardInv /\ TableInv => TypeOK
  <2> SUFFICES ASSUME OnboardInv, TableInv PROVE TypeOK
    OBVIOUS
  <2>1. Typed /\ TxsSafe /\ TableShape
    BY DEF OnboardInv, TableInv
  <2>2. row \in Rows /\ fin \in Finishes /\ row.table \in 0..MaxTables
    BY <2>1 DEF Typed, Rows
  <2>3. tables \subseteq 1..MaxTables
    <3>1. tables \subseteq 1..row.table /\ MaxTables \in Nat
      BY <2>1, OnboardAssumption DEF TableShape
    <3> QED
      BY <2>2, <3>1
  <2>4. \A t \in wire : t.seed \in 0..LastSeed /\ t.off \subseteq Keys /\ t.page \in Keys /\ (t.kind # "table" => t.seed # 0)
    <3> SUFFICES ASSUME NEW t \in wire
                 PROVE  t.seed \in 0..LastSeed /\ t.off \subseteq Keys /\ t.page \in Keys /\ (t.kind # "table" => t.seed # 0)
      OBVIOUS
    <3>1. t \in Txs
      BY <2>1 DEF Typed
    <3>2. t.kind # "table" => t.seed \in Seeds
      BY <2>1 DEF TxsSafe
    <3>3. t.kind # "table" => t.seed # 0
      BY <3>2, SetupAssumption DEF Seeds
    <3> QED
      BY <3>1, <3>3 DEF Txs
  <2>5. \A p \in Keys : page[p].pc \in {"away", "asks", "looks", "sends", "pays", "waits", "ready"}
    BY <2>1 DEF Typed, Pages
  <2>6. index \in 0..LastSeed /\ vault \in [Seeds -> Vault] /\ sol \in [Keys -> Nat] /\ paid \in [Seeds -> Nat]
    BY <2>1 DEF Typed
  <2>7. /\ row.state \in {"none", "signed", "connecting", "stuck", "registered", "failed"}
        /\ row.planned \in Planned /\ row.sent \in BOOLEAN
        /\ fin.at \in {"idle", "fund", "check", "send", "sending", "made", "register"}
    BY <2>2 DEF Rows, Finishes
  <2> QED
    BY <2>2, <2>3, <2>4, <2>5, <2>6, <2>7 DEF TypeOK
<1> QED
  BY <1>1, OnboardHolds, TablesHold, PTL

\* "The bot spends nothing before": its table goes out, and the request is
\* registered, only for a vault with every rule that its owner alone signs,
\* and with the gas paid.
THEOREM BotLastHolds == Spec => []BotActsLast
<1>1. OnboardInv => BotActsLast
  <2> SUFFICES ASSUME OnboardInv, fin.at \in {"send", "sending", "made", "register"} \/ tables # {} \/ row.state = "registered"
               PROVE  OwnersAlone(vault[row.planned.seed]) /\ \E s \in Seeds : paid[s] > 0
    BY DEF BotActsLast
  <2>1. row.state \in Paid /\ Whole(vault[row.planned.seed])
    BY DEF OnboardInv, BotPaid, BotSpends
  <2>2. SomePaid /\ row.planned.seed \in Seeds
    BY <2>1 DEF OnboardInv, BotPaid, Paid
  <2>3. vault[row.planned.seed] \in Vault
    BY <2>2 DEF OnboardInv, Typed
  <2> QED
    BY <2>1, <2>2, <2>3 DEF Whole, OwnersAlone, Vault, SomePaid
<1> QED
  BY <1>1, OnboardHolds, PTL

\* "A deposit only ever reaches a vault whose policies exist", and that its
\* owner alone signs, unless two answers at once undid one's plan.
THEOREM FundsHold == Spec => FundsWhole
<1>1. OnboardInv /\ [Next]_vars => [\A s \in Seeds : paid'[s] > paid[s] => OwnersAlone(vault[s]) \/ lostPlan]_vars
  <2> SUFFICES ASSUME OnboardInv, Next, NEW s \in Seeds, paid'[s] > paid[s] PROVE OwnersAlone(vault[s]) \/ lostPlan
    OBVIOUS
  <2>0. paid \in [Seeds -> Nat] /\ vault[s] \in Vault
    BY DEF OnboardInv, Typed
  <2>1. ~(UNCHANGED paid)
    BY <2>0
  <2>2. \E t \in wire : Land(t)
    <3>1. \A p \in Keys : ServerStep(p) \/ PageStep(p) \/ Open(p) \/ HeldExpired(p) \/ Leave(p) \/ Pay(p) \/ GiveUp(p) => UNCHANGED paid
      BY DEF ServerStep, PageStep, MakePlan, StorePlan, Look, Landed, Failed, Open, HeldExpired, Leave, Pay, GiveUp, chain
    <3>2. PayStep \/ FinishFails \/ Crash \/ TakeSeed \/ LoseName => UNCHANGED paid
      BY DEF PayStep, PayFunding, Finish, SendTable, TableDecided, Connected, Register, FinishFails, Crash, TakeSeed, LoseName, chain
    <3>3. \A t \in wire : Die(t) => UNCHANGED paid
      BY DEF Die, chain
    <3> QED
      BY <2>1, <3>1, <3>2, <3>3 DEF Next
  <2>3. PICK t \in wire : Land(t)
    BY <2>2
  <2>4. t.kind = "fund" /\ t.seed = s
    <3>1. t.kind = "fund" /\ paid' = [paid EXCEPT ![t.seed] = @ + 1]
      BY <2>1, <2>3 DEF Land
    <3> QED
      BY <2>0, <3>1
  <2>5. lostPlan \/ Whole(vault[s])
    BY <2>4 DEF OnboardInv, Kept, FundsSafe
  <2> QED
    BY <2>0, <2>5 DEF Whole, OwnersAlone, Vault
<1> QED
  BY <1>1, OnboardHolds, PTL DEF Spec, FundsWhole

\* "Nothing is paid twice": no funding is sent on an answer that was read with
\* the vault's funding on chain, nor for another vault than the answer's.
THEOREM PaidOnceHolds == Spec => NeverPaidAgain
<1>1. OnboardInv /\ [Next]_vars =>
        [\A t \in wire' \ wire : t.kind = "fund" => (page[t.page].it.seen = 0 /\ page[t.page].it.seed = t.seed) \/ lostPlan]_vars
  <2> SUFFICES ASSUME OnboardInv, Next, NEW t \in wire' \ wire, t.kind = "fund"
               PROVE  (page[t.page].it.seen = 0 /\ page[t.page].it.seed = t.seed) \/ lostPlan
    OBVIOUS
  <2>1. CASE \E p \in Keys : Look(p)
    <3>1. PICK p \in Keys : Look(p)
      BY <2>1
    <3>2. PICK u \in Txs :
            /\ wire' = wire \cup {u} /\ u.page = p
            /\ u.kind = "fund" => lostPlan \/ (page[p].it.seen = 0 /\ page[p].it.seed = u.seed)
      <4>1. PICK pg \in Pages, u \in Txs :
              /\ Send(p, u, pg) /\ u.page = p
              /\ u.kind = "fund" => lostPlan \/ (Whole(vault[u.seed]) /\ page[p].it.seen = 0 /\ page[p].it.seed = u.seed)
        BY <3>1, LookIs
      <4>2. wire' = wire \cup {u}
        BY <4>1 DEF Send
      <4> QED
        BY <4>1, <4>2
    <3>3. t = u
      BY <3>2
    <3> QED
      BY <3>2, <3>3
  <2>2. CASE \E p \in Keys : Landed(p)
    <3>1. PICK p \in Keys : Landed(p)
      BY <2>2
    <3>2. page[p].tx.kind = "policy" /\ wire' = wire \cup {[page[p].tx EXCEPT !.n = @ + 1]}
      BY <3>1 DEF Landed, Send, Again
    <3>3. PICK u : u = page[p].tx
      OBVIOUS
    <3>4. u \in Txs
      BY <3>3 DEF OnboardInv, Typed, Pages
    <3>5. [u EXCEPT !.n = @ + 1].kind = u.kind
      BY <3>4 DEF Txs
    <3> QED
      BY <3>2, <3>3, <3>5
  <2>3. CASE SendTable
    <3>1. t = TableTx(row.table) /\ row.table \in Nat
      BY <2>3, OnboardAssumption DEF SendTable, OnboardInv, Typed, Rows
    <3>2. TableTx(row.table).kind = "table"
      BY <3>1, TableTxIs
    <3> QED
      BY <3>1, <3>2
  <2>4. wire' \subseteq wire \/ SendTable \/ \E p \in Keys : Look(p) \/ Landed(p)
    <3>1. \A p \in Keys : ServerStep(p) \/ Failed(p) \/ Open(p) \/ HeldExpired(p) \/ Leave(p) \/ Pay(p) \/ GiveUp(p)
             => UNCHANGED wire
      BY DEF ServerStep, MakePlan, StorePlan, Failed, Open, HeldExpired, Leave, Pay, GiveUp
    <3>2. PayFunding \/ Finish \/ TableDecided \/ Connected \/ Register \/ FinishFails \/ Crash \/ TakeSeed \/ LoseName
             => UNCHANGED wire
      BY DEF PayFunding, Finish, TableDecided, Connected, Register, FinishFails, Crash, TakeSeed, LoseName
    <3>3. \A u \in wire : Land(u) \/ Die(u) => wire' \subseteq wire
      BY DEF Land, Die, Decided
    <3> QED
      BY <3>1, <3>2, <3>3 DEF Next, PageStep, PayStep
  <2> QED
    BY <2>1, <2>2, <2>3, <2>4
<1> QED
  BY <1>1, OnboardHolds, PTL DEF Spec, NeverPaidAgain

-----------------------------------------------------------------------------
(***************************************************************************)
(* The page accepts what the server plans (AnswerPassesPage).  What every  *)
(* answer is (PlanShape) fixes its steps, one part after the other         *)
(* (StepIs), and from them each check of the page follows.                 *)
(***************************************************************************)
\* The policies an answer makes are the last ones, all of them on a vault it
\* creates, and the money it asks is what making them takes at most.
PlanShape(it) ==
  /\ IsFiniteSet(it.off) /\ it.next \in 1..Policies + 1
  /\ it.create => it.next = 1
  /\ it.feed > 0 => it.next <= Policies /\ it.feed <= Policies + 2 - it.next

Kinds == {"create", "remove", "add", "feed", "policy", "back", "deposit", "gas"}
StepsOf == [does : Kinds, by : Keys \cup {Owner}, key : Keys, n : Nat]

\* Where the parts of the steps end.
Count(cond, n) == IF cond THEN n ELSE 0
Created(it)  == Count(it.create, 1)
Removed(it)  == Created(it) + Cardinality(it.off)
Added(it)    == Removed(it) + Count(it.on, 1)
Given(it)    == Added(it) + Count(it.feed > 0, 1)
Ruled(it)    == Given(it) + (Policies + 1 - it.next)
Released(it) == Ruled(it) + Count(it.release, 2)
Planful(it)  == Released(it) + Count(it.fund, 2)

\* s is step i of the answer to page p.
StepIs(s, i, it, p) ==
  \/ i = 1 /\ Created(it) = 1 /\ s = Step("create", Owner, p, it.seed)
  \/ Created(it) < i /\ i <= Removed(it) /\ \E k \in Keys : s = Step("remove", Owner, k, 0)
  \/ i = Added(it) /\ Removed(it) < i /\ s = Step("add", Owner, p, 0)
  \/ i = Given(it) /\ Added(it) < i /\ s = Step("feed", Owner, p, it.feed)
  \/ Given(it) < i /\ i <= Ruled(it) /\ s = Step("policy", p, p, it.next + (i - Given(it)) - 1)
  \/ i = Ruled(it) + 1 /\ Ruled(it) < Released(it) /\ s = Step("remove", p, p, 0)
  \/ i = Ruled(it) + 2 /\ Ruled(it) < Released(it) /\ s = Step("back", p, p, it.back)
  \/ i = Released(it) + 1 /\ Released(it) < Planful(it) /\ s = Step("deposit", Owner, p, 0)
  \/ i = Released(it) + 2 /\ Released(it) < Planful(it) /\ s = Step("gas", Owner, p, 0)

LEMMA PartsEnd ==
  ASSUME NEW it \in Plans, PlanShape(it)
  PROVE  /\ Created(it) \in 0..1 /\ Removed(it) \in Nat /\ Added(it) \in Nat /\ Given(it) \in Nat /\ Ruled(it) \in Nat
         /\ Released(it) \in Nat /\ Planful(it) \in Nat
         /\ Created(it) <= Removed(it) /\ Removed(it) <= Added(it) /\ Added(it) <= Removed(it) + 1
         /\ Added(it) <= Given(it) /\ Given(it) <= Added(it) + 1 /\ (Added(it) < Given(it) <=> it.feed > 0)
         /\ Ruled(it) = Given(it) + (Policies + 1 - it.next) /\ Given(it) <= Ruled(it)
         /\ Released(it) \in {Ruled(it), Ruled(it) + 2} /\ Planful(it) \in {Released(it), Released(it) + 2}
         /\ it.next \in 1..Policies + 1 /\ it.feed \in Nat /\ it.back \in Nat /\ it.seed \in Nat /\ Policies \in Nat \ {0}
<1>1. Cardinality(it.off) \in Nat
  BY FS_CardinalityType DEF PlanShape
<1>2. /\ it.next \in 1..Policies + 1 /\ it.feed \in Nat /\ it.back \in Nat /\ it.seed \in Nat /\ Policies \in Nat \ {0}
  BY SetupAssumption DEF PlanShape, Plans
<1>3. Policies + 1 - it.next \in Nat
  BY <1>2
<1>4. Created(it) \in 0..1 /\ Removed(it) \in Nat /\ Created(it) <= Removed(it)
  BY <1>1 DEF Created, Removed, Count
<1>5. /\ Added(it) \in Nat /\ Given(it) \in Nat /\ Removed(it) <= Added(it) /\ Added(it) <= Removed(it) + 1
      /\ Added(it) <= Given(it) /\ Given(it) <= Added(it) + 1 /\ (Added(it) < Given(it) <=> it.feed > 0)
  BY <1>4 DEF Added, Given, Count
<1>6. Ruled(it) = Given(it) + (Policies + 1 - it.next) /\ Ruled(it) \in Nat /\ Given(it) <= Ruled(it)
  BY <1>3, <1>5 DEF Ruled
<1>7. Released(it) \in {Ruled(it), Ruled(it) + 2} /\ Released(it) \in Nat
  BY <1>6 DEF Released, Count
<1>8. Planful(it) \in {Released(it), Released(it) + 2} /\ Planful(it) \in Nat
  BY <1>7 DEF Planful, Count
<1> QED
  BY <1>2, <1>4, <1>5, <1>6, <1>7, <1>8

\* The next part of an answer's steps.
LEMMA PartJoins ==
  ASSUME NEW it, NEW p, NEW s \in Seq(StepsOf), NEW t \in Seq(StepsOf),
         \A i \in 1..Len(s) : StepIs(s[i], i, it, p), \A i \in 1..Len(t) : StepIs(t[i], Len(s) + i, it, p)
  PROVE  /\ s \o t \in Seq(StepsOf) /\ Len(s \o t) = Len(s) + Len(t)
         /\ \A i \in 1..Len(s \o t) : StepIs((s \o t)[i], i, it, p)
<1>0. Len(s) \in Nat /\ Len(t) \in Nat
  BY LenProperties
<1>1. /\ s \o t \in Seq(StepsOf) /\ Len(s \o t) = Len(s) + Len(t)
      /\ \A i \in 1..(Len(s) + Len(t)) : (s \o t)[i] = IF i <= Len(s) THEN s[i] ELSE t[i - Len(s)]
  BY ConcatProperties
<1>2. ASSUME NEW i \in 1..(Len(s) + Len(t)) PROVE StepIs((s \o t)[i], i, it, p)
  <2>1. CASE i <= Len(s)
    BY <1>0, <1>1, <2>1
  <2>2. CASE ~(i <= Len(s))
    <3>1. i - Len(s) \in 1..Len(t) /\ Len(s) + (i - Len(s)) = i
      BY <1>0, <2>2
    <3> QED
      BY <1>1, <2>2, <3>1
  <2> QED
    BY <2>1, <2>2
<1> QED
  BY <1>1, <1>2

\* A part of one step, or of two, or none.
LEMMA OneIs ==
  ASSUME NEW x \in StepsOf, NEW s, NEW n, (s = <<x>> /\ n = 1) \/ (s = <<>> /\ n = 0)
  PROVE  n \in Nat /\ s \in Seq(StepsOf) /\ Len(s) = n /\ \A i \in 1..n : n = 1 /\ i = 1 /\ s[i] = x
<1>1. CASE s = <<x>> /\ n = 1
  BY <1>1
<1>2. CASE s = <<>> /\ n = 0
  BY <1>2
<1> QED
  BY <1>1, <1>2

LEMMA TwoIs ==
  ASSUME NEW x \in StepsOf, NEW y \in StepsOf, NEW s, NEW n, (s = <<x, y>> /\ n = 2) \/ (s = <<>> /\ n = 0)
  PROVE  /\ n \in Nat /\ s \in Seq(StepsOf) /\ Len(s) = n
         /\ \A i \in 1..n : n = 2 /\ i \in 1..2 /\ s[i] = IF i = 1 THEN x ELSE y
<1>1. CASE s = <<x, y>> /\ n = 2
  BY <1>1
<1>2. CASE s = <<>> /\ n = 0
  BY <1>2
<1> QED
  BY <1>1, <1>2

\* The steps of an answer, part by part.
LEMMA StepsAre ==
  ASSUME NEW it \in Plans, PlanShape(it), NEW p \in Keys
  PROVE  /\ Steps(it, Owner, p) \in Seq(StepsOf) /\ Len(Steps(it, Owner, p)) = Planful(it)
         /\ \A i \in 1..Planful(it) : StepIs(Steps(it, Owner, p)[i], i, it, p)
<1> DEFINE x1 == Step("create", Owner, p, it.seed)
           x3 == Step("add", Owner, p, 0)
           x4 == Step("feed", Owner, p, it.feed)
           x6 == Step("remove", p, p, 0)
           y6 == Step("back", p, p, it.back)
           x7 == Step("deposit", Owner, p, 0)
           y7 == Step("gas", Owner, p, 0)
           s1 == If(it.create, <<x1>>)
           s2 == [i \in 1..Cardinality(it.off) |-> Step("remove", Owner, SetToSeq(it.off)[i], 0)]
           s3 == If(it.on, <<x3>>)
           s4 == If(it.feed > 0, <<x4>>)
           s5 == [i \in 1..(Policies + 1 - it.next) |-> Step("policy", p, p, it.next + i - 1)]
           s6 == If(it.release, <<x6, y6>>)
           s7 == If(it.fund, <<x7, y7>>)
<1>1. Steps(it, Owner, p) = s1 \o s2 \o s3 \o s4 \o s5 \o s6 \o s7
  BY DEF Steps
<1>2. /\ it.create \in BOOLEAN /\ it.off \in SUBSET Keys /\ it.on \in BOOLEAN /\ it.feed \in Nat
      /\ it.release \in BOOLEAN /\ it.back \in Nat /\ it.fund \in BOOLEAN /\ it.seed \in Nat
      /\ it.next \in 1..Policies + 1 /\ Policies \in Nat
  BY SetupAssumption DEF Plans, PlanShape
<1>3. /\ Cardinality(it.off) \in Nat
      /\ \A i \in 1..Cardinality(it.off) : SetToSeq(it.off)[i] \in Keys
  <2>1. Cardinality(it.off) \in Nat /\ ExistsBijection(1..Cardinality(it.off), it.off)
    BY FS_CardinalityType DEF PlanShape
  <2>2. \E f \in [1..Cardinality(it.off) -> it.off] : IsInjective(f)
    BY <2>1 DEF ExistsBijection, Bijection, Injection
  <2>3. SetToSeq(it.off) \in [1..Cardinality(it.off) -> it.off]
    BY <2>2 DEF SetToSeq
  <2> QED
    BY <1>2, <2>1, <2>3
<1>4. x1 \in StepsOf /\ x3 \in StepsOf /\ x4 \in StepsOf /\ x6 \in StepsOf /\ y6 \in StepsOf /\ x7 \in StepsOf /\ y7 \in StepsOf
  <2>1. Owner \in Keys \cup {Owner} /\ p \in Keys \cup {Owner} /\ 0 \in Nat
    OBVIOUS
  <2>2. x1 \in StepsOf /\ x3 \in StepsOf
    BY <1>2, <2>1 DEF Step, StepsOf, Kinds
  <2>3. x4 \in StepsOf /\ x6 \in StepsOf
    BY <1>2, <2>1 DEF Step, StepsOf, Kinds
  <2>4. y6 \in StepsOf
    BY <1>2, <2>1 DEF Step, StepsOf, Kinds
  <2>5. x7 \in StepsOf /\ y7 \in StepsOf
    BY <1>2, <2>1 DEF Step, StepsOf, Kinds
  <2> QED
    BY <2>2, <2>3, <2>4, <2>5
<1>5. s2 \in Seq(StepsOf) /\ Len(s2) = Cardinality(it.off) /\ \A i \in 1..Len(s2) : \E k \in Keys : s2[i] = Step("remove", Owner, k, 0)
  <2>1. \A i \in 1..Cardinality(it.off) : Step("remove", Owner, SetToSeq(it.off)[i], 0) \in StepsOf
    BY <1>3 DEF Step, StepsOf, Kinds
  <2>2. s2 \in [1..Cardinality(it.off) -> StepsOf]
    BY <2>1
  <2>3. s2 \in Seq(StepsOf) /\ Len(s2) = Cardinality(it.off)
    BY <1>3, <2>2, SeqDef, LenProperties
  <2>4. \A i \in 1..Cardinality(it.off) : s2[i] = Step("remove", Owner, SetToSeq(it.off)[i], 0)
    OBVIOUS
  <2> HIDE DEF s2
  <2> QED
    BY <1>3, <2>3, <2>4
<1>6. s5 \in Seq(StepsOf) /\ Len(s5) = Policies + 1 - it.next /\ \A i \in 1..Len(s5) : s5[i] = Step("policy", p, p, it.next + i - 1)
  <2>1. \A i \in 1..(Policies + 1 - it.next) : it.next + i - 1 \in Nat
    BY <1>2
  <2>2. \A i \in 1..(Policies + 1 - it.next) : Step("policy", p, p, it.next + i - 1) \in StepsOf
    BY <2>1 DEF Step, StepsOf, Kinds
  <2>3. s5 \in [1..(Policies + 1 - it.next) -> StepsOf]
    BY <2>2
  <2>4. Policies + 1 - it.next \in Nat
    BY <1>2
  <2>5. \A i \in 1..(Policies + 1 - it.next) : s5[i] = Step("policy", p, p, it.next + i - 1)
    OBVIOUS
  <2> HIDE DEF s5
  <2>6. s5 \in Seq(StepsOf) /\ Len(s5) = Policies + 1 - it.next
    BY <2>3, <2>4, SeqDef, LenProperties
  <2> QED
    BY <2>5, <2>6
<1>7. /\ Created(it) \in 0..1 /\ Removed(it) \in Nat /\ Added(it) \in Nat /\ Given(it) \in Nat /\ Ruled(it) \in Nat
      /\ Released(it) \in Nat /\ Planful(it) \in Nat
  BY PartsEnd
<1> HIDE DEF s2, s5, x1, x3, x4, x6, y6, x7, y7
<1>11. s1 \in Seq(StepsOf) /\ Len(s1) = Created(it) /\ \A i \in 1..Created(it) : StepIs(s1[i], i, it, p)
  <2>1. PICK n : n = Count(it.create, 1)
    OBVIOUS
  <2>2. (s1 = <<x1>> /\ n = 1) \/ (s1 = <<>> /\ n = 0)
    BY <2>1 DEF If, Count
  <2>3. n \in Nat /\ Created(it) = n
    BY <2>1, <2>2 DEF Created
  <2>4. /\ n \in Nat /\ s1 \in Seq(StepsOf) /\ Len(s1) = n
        /\ \A i \in 1..n : n = 1 /\ i = 1 /\ s1[i] = x1
    BY <1>4, <2>2, OneIs
  <2> HIDE DEF s1
  <2>5. \A i \in 1..n : StepIs(s1[i], i, it, p)
    BY <1>7, <2>3, <2>4 DEF StepIs, x1
  <2> QED
    BY <1>7, <2>3, <2>4, <2>5
<1> DEFINE j2 == s1 \o s2
<1>12. j2 \in Seq(StepsOf) /\ Len(j2) = Removed(it) /\ \A i \in 1..Removed(it) : StepIs(j2[i], i, it, p)
  <2>1. PICK n : n = Cardinality(it.off)
    OBVIOUS
  <2>2. n \in Nat /\ Removed(it) = Created(it) + n /\ Created(it) \in Nat
    BY <1>3, <1>7, <2>1 DEF Removed
  <2>3. \A i \in 1..n : StepIs(s2[i], Created(it) + i, it, p)
    BY <1>5, <2>1, <2>2 DEF StepIs
  <2>4. s2 \in Seq(StepsOf) /\ Len(s2) = n
    BY <1>5, <2>1
  <2> HIDE DEF s1
  <2>5. \A i \in 1..Len(s1) : StepIs(s1[i], i, it, p)
    BY <1>11
  <2>6. \A i \in 1..Len(s2) : StepIs(s2[i], Len(s1) + i, it, p)
    BY <1>11, <2>3, <2>4
  <2>7. /\ s1 \o s2 \in Seq(StepsOf) /\ Len(s1 \o s2) = Len(s1) + Len(s2)
        /\ \A i \in 1..Len(s1 \o s2) : StepIs((s1 \o s2)[i], i, it, p)
    BY <1>11, <2>4, <2>5, <2>6, PartJoins
  <2> QED
    BY <1>11, <2>2, <2>4, <2>7
<1> DEFINE j3 == j2 \o s3
<1>13. j3 \in Seq(StepsOf) /\ Len(j3) = Added(it) /\ \A i \in 1..Added(it) : StepIs(j3[i], i, it, p)
  <2> HIDE DEF j2
  <2>1. PICK n : n = Count(it.on, 1)
    OBVIOUS
  <2>2. (s3 = <<x3>> /\ n = 1) \/ (s3 = <<>> /\ n = 0)
    BY <2>1 DEF If, Count
  <2>3. n \in Nat /\ Added(it) = Removed(it) + n
    BY <2>1, <2>2 DEF Added
  <2>4. /\ n \in Nat /\ s3 \in Seq(StepsOf) /\ Len(s3) = n
        /\ \A i \in 1..n : n = 1 /\ i = 1 /\ s3[i] = x3
    BY <1>4, <2>2, OneIs
  <2> HIDE DEF s3
  <2>5. \A i \in 1..n : StepIs(s3[i], Removed(it) + i, it, p)
    BY <1>7, <2>3, <2>4 DEF StepIs, x3
  <2>6. \A i \in 1..Len(j2) : StepIs(j2[i], i, it, p)
    BY <1>12
  <2>7. \A i \in 1..Len(s3) : StepIs(s3[i], Len(j2) + i, it, p)
    BY <1>12, <2>4, <2>5
  <2>8. /\ j2 \o s3 \in Seq(StepsOf) /\ Len(j2 \o s3) = Len(j2) + Len(s3)
        /\ \A i \in 1..Len(j2 \o s3) : StepIs((j2 \o s3)[i], i, it, p)
    BY <1>12, <2>4, <2>6, <2>7, PartJoins
  <2> QED
    BY <1>12, <2>3, <2>4, <2>8
<1> DEFINE j4 == j3 \o s4
<1>14. j4 \in Seq(StepsOf) /\ Len(j4) = Given(it) /\ \A i \in 1..Given(it) : StepIs(j4[i], i, it, p)
  <2> HIDE DEF j3
  <2>1. PICK n : n = Count(it.feed > 0, 1)
    OBVIOUS
  <2>2. (s4 = <<x4>> /\ n = 1) \/ (s4 = <<>> /\ n = 0)
    BY <2>1 DEF If, Count
  <2>3. n \in Nat /\ Given(it) = Added(it) + n
    BY <2>1, <2>2 DEF Given
  <2>4. /\ n \in Nat /\ s4 \in Seq(StepsOf) /\ Len(s4) = n
        /\ \A i \in 1..n : n = 1 /\ i = 1 /\ s4[i] = x4
    BY <1>4, <2>2, OneIs
  <2> HIDE DEF s4
  <2>5. \A i \in 1..n : StepIs(s4[i], Added(it) + i, it, p)
    BY <1>7, <2>3, <2>4 DEF StepIs, x4
  <2>6. \A i \in 1..Len(j3) : StepIs(j3[i], i, it, p)
    BY <1>13
  <2>7. \A i \in 1..Len(s4) : StepIs(s4[i], Len(j3) + i, it, p)
    BY <1>13, <2>4, <2>5
  <2>8. /\ j3 \o s4 \in Seq(StepsOf) /\ Len(j3 \o s4) = Len(j3) + Len(s4)
        /\ \A i \in 1..Len(j3 \o s4) : StepIs((j3 \o s4)[i], i, it, p)
    BY <1>13, <2>4, <2>6, <2>7, PartJoins
  <2> QED
    BY <1>13, <2>3, <2>4, <2>8
<1> DEFINE j5 == j4 \o s5
<1>15. j5 \in Seq(StepsOf) /\ Len(j5) = Ruled(it) /\ \A i \in 1..Ruled(it) : StepIs(j5[i], i, it, p)
  <2> HIDE DEF j4
  <2>1. PICK n : n = Policies + 1 - it.next
    OBVIOUS
  <2>2. n \in Nat /\ Ruled(it) = Given(it) + n
    BY <1>2, <1>7, <2>1 DEF Ruled
  <2>3. \A i \in 1..n : StepIs(s5[i], Given(it) + i, it, p)
    <3> SUFFICES ASSUME NEW i \in 1..n PROVE StepIs(s5[i], Given(it) + i, it, p)
      OBVIOUS
    <3>1. PICK m : m = Given(it) + i
      OBVIOUS
    <3>2. m - Given(it) = i /\ Given(it) < m /\ m <= Ruled(it)
      BY <1>7, <2>2, <3>1
    <3>3. s5[i] = Step("policy", p, p, it.next + (m - Given(it)) - 1)
      BY <1>6, <2>1, <3>2
    <3>4. StepIs(s5[i], m, it, p)
      BY <3>2, <3>3 DEF StepIs
    <3> QED
      BY <3>1, <3>4
  <2>4. s5 \in Seq(StepsOf) /\ Len(s5) = n
    BY <1>6, <2>1
  <2>5. \A i \in 1..Len(j4) : StepIs(j4[i], i, it, p)
    BY <1>14
  <2>6. \A i \in 1..Len(s5) : StepIs(s5[i], Len(j4) + i, it, p)
    BY <1>14, <2>3, <2>4
  <2>7. /\ j4 \o s5 \in Seq(StepsOf) /\ Len(j4 \o s5) = Len(j4) + Len(s5)
        /\ \A i \in 1..Len(j4 \o s5) : StepIs((j4 \o s5)[i], i, it, p)
    BY <1>14, <2>4, <2>5, <2>6, PartJoins
  <2> QED
    BY <1>14, <2>2, <2>4, <2>7
<1> DEFINE j6 == j5 \o s6
<1>16. j6 \in Seq(StepsOf) /\ Len(j6) = Released(it) /\ \A i \in 1..Released(it) : StepIs(j6[i], i, it, p)
  <2> HIDE DEF j5
  <2>1. PICK n : n = Count(it.release, 2)
    OBVIOUS
  <2>2. (s6 = <<x6, y6>> /\ n = 2) \/ (s6 = <<>> /\ n = 0)
    BY <2>1 DEF If, Count
  <2>3. n \in Nat /\ Released(it) = Ruled(it) + n
    BY <2>1, <2>2 DEF Released
  <2>4. /\ n \in Nat /\ s6 \in Seq(StepsOf) /\ Len(s6) = n
        /\ \A i \in 1..n : n = 2 /\ i \in 1..2 /\ s6[i] = IF i = 1 THEN x6 ELSE y6
    BY <1>4, <2>2, TwoIs
  <2> HIDE DEF s6
  <2>5. \A i \in 1..n : StepIs(s6[i], Ruled(it) + i, it, p)
    BY <1>7, <2>3, <2>4 DEF StepIs, x6, y6
  <2>6. \A i \in 1..Len(j5) : StepIs(j5[i], i, it, p)
    BY <1>15
  <2>7. \A i \in 1..Len(s6) : StepIs(s6[i], Len(j5) + i, it, p)
    BY <1>15, <2>4, <2>5
  <2>8. /\ j5 \o s6 \in Seq(StepsOf) /\ Len(j5 \o s6) = Len(j5) + Len(s6)
        /\ \A i \in 1..Len(j5 \o s6) : StepIs((j5 \o s6)[i], i, it, p)
    BY <1>15, <2>4, <2>6, <2>7, PartJoins
  <2> QED
    BY <1>15, <2>3, <2>4, <2>8
<1> DEFINE j7 == j6 \o s7
<1>17. j7 \in Seq(StepsOf) /\ Len(j7) = Planful(it) /\ \A i \in 1..Planful(it) : StepIs(j7[i], i, it, p)
  <2> HIDE DEF j6
  <2>1. PICK n : n = Count(it.fund, 2)
    OBVIOUS
  <2>2. (s7 = <<x7, y7>> /\ n = 2) \/ (s7 = <<>> /\ n = 0)
    BY <2>1 DEF If, Count
  <2>3. n \in Nat /\ Planful(it) = Released(it) + n
    BY <2>1, <2>2 DEF Planful
  <2>4. /\ n \in Nat /\ s7 \in Seq(StepsOf) /\ Len(s7) = n
        /\ \A i \in 1..n : n = 2 /\ i \in 1..2 /\ s7[i] = IF i = 1 THEN x7 ELSE y7
    BY <1>4, <2>2, TwoIs
  <2> HIDE DEF s7
  <2>5. \A i \in 1..n : StepIs(s7[i], Released(it) + i, it, p)
    BY <1>7, <2>3, <2>4 DEF StepIs, x7, y7
  <2>6. \A i \in 1..Len(j6) : StepIs(j6[i], i, it, p)
    BY <1>16
  <2>7. \A i \in 1..Len(s7) : StepIs(s7[i], Len(j6) + i, it, p)
    BY <1>16, <2>4, <2>5
  <2>8. /\ j6 \o s7 \in Seq(StepsOf) /\ Len(j6 \o s7) = Len(j6) + Len(s7)
        /\ \A i \in 1..Len(j6 \o s7) : StepIs((j6 \o s7)[i], i, it, p)
    BY <1>16, <2>4, <2>6, <2>7, PartJoins
  <2> QED
    BY <1>16, <2>3, <2>4, <2>8
<1>18. Steps(it, Owner, p) = j7
  BY <1>1
<1> HIDE DEF j7
<1> QED
  BY <1>17, <1>18

-----------------------------------------------------------------------------
(* What the page adds up: the money of the one step that has any.          *)

\* Of any subsets of a finite set, one contains none of the others.
LEMMA SmallestSet ==
  ASSUME NEW S, IsFiniteSet(S), NEW T \in SUBSET (SUBSET S), T # {}
  PROVE  \E s \in T : \A t \in T : t \subseteq s => t = s
<1>1. T \subseteq FiniteSubsetsOf(S)
  BY FS_FiniteSubsetsOfFinite
<1>2. PICK s \in T : \A t \in T : ~(<<t, s>> \in StrictSubsetOrdering(S))
  BY <1>1, FS_StrictSubsetOrderingWellFounded, WFMin
<1> QED
  BY <1>2 DEF StrictSubsetOrdering

\* Max is the greatest of some positions.
LEMMA MaxIs ==
  ASSUME NEW n \in Nat, NEW S \in SUBSET (1..n), S # {}
  PROVE  Max(S) \in S
<1> DEFINE Bad == {s \in SUBSET (1..n) : s # {} /\ ~\E x \in s : \A y \in s : x >= y}
<1>1. ASSUME Bad # {} PROVE FALSE
  <2>1. IsFiniteSet(1..n)
    BY FS_Interval
  <2>2. PICK s \in Bad : \A t \in Bad : t \subseteq s => t = s
    <3>1. PICK D : D = 1..n
      OBVIOUS
    <3>2. Bad \in SUBSET (SUBSET D) /\ IsFiniteSet(D)
      BY <2>1, <3>1
    <3> HIDE DEF Bad
    <3> QED
      BY <1>1, <3>2, SmallestSet
  <2>3. PICK x \in s : TRUE
    OBVIOUS
  <2>4. s \ {x} \notin Bad
    BY <2>2, <2>3
  <2>5. s \ {x} # {} => \E y \in s \ {x} : \A z \in s \ {x} : y >= z
    BY <2>4
  <2>6. x \in Nat /\ \A y \in s : y \in Nat
    OBVIOUS
  <2>7. CASE s \ {x} = {}
    BY <2>3, <2>6, <2>7
  <2>8. CASE s \ {x} # {}
    <3>1. PICK y \in s \ {x} : \A z \in s \ {x} : y >= z
      BY <2>5, <2>8
    <3>2. CASE y >= x
      BY <3>1, <3>2
    <3>3. CASE ~(y >= x)
      BY <2>3, <2>6, <3>1, <3>3
    <3> QED
      BY <3>2, <3>3
  <2> QED
    BY <2>7, <2>8
<1> QED
  BY <1>1 DEF Max

\* g is the recursion behind the sum of f, from its last element to its first.
IsFold(g, f) == g = [s \in SUBSET DOMAIN f |-> IF s = {} THEN 0 ELSE g[s \ {Max(s)}] + f[Max(s)]]

\* What the page adds up.
Total(f) == FoldLeft(+, 0, f)

\* m at place k, and nothing elsewhere.
OneAt(f, n, k, m) == DOMAIN f = 1..n /\ \A i \in 1..n : f[i] = IF i = k THEN m ELSE 0

LEMMA OneFed ==
  ASSUME NEW n \in Nat, NEW k, NEW m \in Nat, NEW f, OneAt(f, n, k, m)
  PROVE  Total(f) \in {0, m}
<1> DEFINE h == [s \in SUBSET DOMAIN f |-> IF k \in s THEN m ELSE 0]
<1>1. DOMAIN f = 1..n /\ \A i \in 1..n : f[i] = IF i = k THEN m ELSE 0
  BY DEF OneAt
<1>2. \A s \in SUBSET DOMAIN f : s # {} => Max(s) \in s
  BY <1>1, MaxIs
<1>3. ASSUME NEW s \in SUBSET DOMAIN f, s # {} PROVE h[s] = h[s \ {Max(s)}] + f[Max(s)]
  <2>1. PICK x : x = Max(s)
    OBVIOUS
  <2>2. x \in s /\ x \in 1..n /\ s \ {x} \in SUBSET DOMAIN f
    BY <1>1, <1>2, <1>3, <2>1
  <2>3. f[x] = IF x = k THEN m ELSE 0
    BY <1>1, <2>2
  <2>4. h[s] = (IF k \in s THEN m ELSE 0) /\ h[s \ {x}] = (IF k \in s \ {x} THEN m ELSE 0)
    BY <2>2
  <2> QED
    BY <2>1, <2>2, <2>3, <2>4
<1>4. IsFold(h, f)
  <2>1. h[{}] = 0
    OBVIOUS
  <2>2. h = [s \in SUBSET DOMAIN f |-> h[s]]
    OBVIOUS
  <2> HIDE DEF h
  <2> QED
    BY <1>3, <2>1, <2>2 DEF IsFold
<1> DEFINE g == CHOOSE g : IsFold(g, f)
<1>5. IsFold(g, f)
  BY <1>4
<1>6. Total(f) = g[DOMAIN f]
  BY DEF Total, FoldLeft, MapThenFoldSet, IsFold
<1> HIDE DEF g, h
<1> DEFINE Bad == {s \in SUBSET DOMAIN f : g[s] # h[s]}
<1>7. ASSUME Bad # {} PROVE FALSE
  <2>1. IsFiniteSet(DOMAIN f)
    BY <1>1, FS_Interval
  <2>2. PICK s \in Bad : \A t \in Bad : t \subseteq s => t = s
    <3>1. PICK D : D = DOMAIN f
      OBVIOUS
    <3>2. Bad \in SUBSET (SUBSET D) /\ IsFiniteSet(D)
      BY <2>1, <3>1
    <3> HIDE DEF Bad
    <3> QED
      BY <1>7, <3>2, SmallestSet
  <2>3. s # {}
    BY <1>4, <1>5 DEF IsFold
  <2>4. Max(s) \in s /\ s \ {Max(s)} \subseteq s /\ s \ {Max(s)} # s
    BY <1>2, <2>3
  <2>5. g[s] = g[s \ {Max(s)}] + f[Max(s)]
    BY <1>5, <2>3 DEF IsFold
  <2>6. s \ {Max(s)} \notin Bad
    BY <2>2, <2>4
  <2> QED
    BY <1>3, <2>2, <2>3, <2>4, <2>5, <2>6
<1>8. g[DOMAIN f] = h[DOMAIN f]
  BY <1>7
<1> QED
  BY <1>6, <1>8 DEF h

-----------------------------------------------------------------------------
(* Each check of the page.                                                 *)

\* What a step is, by its place, and its place, by what it is.
KindIs(s, i, it, p) ==
  /\ s.does = "create" => i = 1 /\ it.create /\ s.by = Owner /\ s.key = p /\ s.n = it.seed
  /\ s.does = "remove" => (s.by = Owner /\ s.key \in Keys /\ i <= Removed(it))
                          \/ (s.by = p /\ s.key = p /\ i = Ruled(it) + 1 /\ i <= Released(it))
  /\ s.does = "add" => s.by = Owner /\ s.key = p /\ i <= Added(it)
  /\ s.does = "feed" <=> i = Given(it) /\ it.feed > 0
  /\ s.does = "feed" => s.n = it.feed
  /\ s.does = "policy" <=> Given(it) < i /\ i <= Ruled(it)
  /\ s.does = "policy" => s.by = p /\ s.n = it.next + (i - Given(it)) - 1
  /\ s.does = "back" => s.by = p /\ i = Ruled(it) + 2
  /\ i = Ruled(it) + 1 /\ Ruled(it) < Released(it) => s.does = "remove"
  /\ s.does = "back" => Ruled(it) < Released(it)
  /\ s.does = "deposit" <=> i = Released(it) + 1
  /\ s.does = "gas" <=> i = Released(it) + 2
  /\ Phase(s, p) = IF i <= Given(it) THEN 0 ELSE IF i <= Released(it) THEN 1 ELSE 2

LEMMA StepKinds ==
  ASSUME NEW it \in Plans, PlanShape(it), NEW p \in Keys, NEW i \in 1..Planful(it), NEW s, StepIs(s, i, it, p)
  PROVE  KindIs(s, i, it, p)
<1>1. p # Owner
  BY OnboardAssumption
<1>2. /\ Created(it) \in 0..1 /\ Removed(it) \in Nat /\ Added(it) \in Nat /\ Given(it) \in Nat /\ Ruled(it) \in Nat
      /\ Released(it) \in Nat /\ Planful(it) \in Nat
      /\ Created(it) <= Removed(it) /\ Removed(it) <= Added(it) /\ Added(it) <= Removed(it) + 1
      /\ Added(it) <= Given(it) /\ Given(it) <= Added(it) + 1 /\ (Added(it) < Given(it) <=> it.feed > 0)
      /\ Given(it) <= Ruled(it)
      /\ Released(it) \in {Ruled(it), Ruled(it) + 2} /\ Planful(it) \in {Released(it), Released(it) + 2}
  BY PartsEnd
<1>3. \A d, b, k, n : /\ Step(d, b, k, n).does = d /\ Step(d, b, k, n).by = b /\ Step(d, b, k, n).key = k
                      /\ Step(d, b, k, n).n = n
  BY DEF Step
<1>4. i = 1 /\ Created(it) = 1 /\ s = Step("create", Owner, p, it.seed) => it.create
  BY DEF Created, Count
<1>5. CASE i = 1 /\ Created(it) = 1 /\ s = Step("create", Owner, p, it.seed)
  BY <1>1, <1>2, <1>3, <1>4, <1>5 DEF KindIs, Phase, Funding
<1>6. CASE Created(it) < i /\ i <= Removed(it) /\ \E k \in Keys : s = Step("remove", Owner, k, 0)
  <2>1. s.does = "remove" /\ s.by = Owner /\ s.key \in Keys
    BY <1>3, <1>6
  <2> QED
    BY <1>1, <1>2, <1>6, <2>1 DEF KindIs, Phase, Funding
<1>7. CASE i = Added(it) /\ Removed(it) < i /\ s = Step("add", Owner, p, 0)
  BY <1>1, <1>2, <1>3, <1>7 DEF KindIs, Phase, Funding
<1>8. CASE i = Given(it) /\ Added(it) < i /\ s = Step("feed", Owner, p, it.feed)
  BY <1>1, <1>2, <1>3, <1>8 DEF KindIs, Phase, Funding
<1>9. CASE Given(it) < i /\ i <= Ruled(it) /\ s = Step("policy", p, p, it.next + (i - Given(it)) - 1)
  BY <1>1, <1>2, <1>3, <1>9 DEF KindIs, Phase, Funding
<1>10. CASE i = Ruled(it) + 1 /\ Ruled(it) < Released(it) /\ s = Step("remove", p, p, 0)
  BY <1>1, <1>2, <1>3, <1>10 DEF KindIs, Phase, Funding
<1>11. CASE i = Ruled(it) + 2 /\ Ruled(it) < Released(it) /\ s = Step("back", p, p, it.back)
  BY <1>1, <1>2, <1>3, <1>11 DEF KindIs, Phase, Funding
<1>12. CASE i = Released(it) + 1 /\ Released(it) < Planful(it) /\ s = Step("deposit", Owner, p, 0)
  BY <1>1, <1>2, <1>3, <1>12 DEF KindIs, Phase, Funding
<1>13. CASE i = Released(it) + 2 /\ Released(it) < Planful(it) /\ s = Step("gas", Owner, p, 0)
  BY <1>1, <1>2, <1>3, <1>13 DEF KindIs, Phase, Funding
<1> QED
  BY <1>5, <1>6, <1>7, <1>8, <1>9, <1>10, <1>11, <1>12, <1>13 DEF StepIs

\* The page accepts every answer so shaped.
LEMMA PlanAccepted ==
  ASSUME NEW it \in Plans, PlanShape(it), NEW p \in Keys
  PROVE  PageAccepts(Steps(it, Owner, p), Owner, p, it.seed)
<1> DEFINE a == Removed(it)
           b == Added(it)
           d == Given(it)
           e == Ruled(it)
           f == Released(it)
           z == Planful(it)
<1>1. PICK steps : steps = Steps(it, Owner, p)
  OBVIOUS
<1>2. /\ a \in Nat /\ b \in Nat /\ d \in Nat /\ e \in Nat /\ f \in Nat /\ z \in Nat
      /\ a <= b /\ b <= d /\ e = d + (Policies + 1 - it.next) /\ d <= e /\ f \in {e, e + 2} /\ z \in {f, f + 2}
      /\ it.next \in 1..Policies + 1 /\ it.feed \in Nat /\ Policies \in Nat \ {0}
  BY PartsEnd
<1>3. DOMAIN steps = 1..z /\ \A i \in 1..z : StepIs(steps[i], i, it, p)
  <2>1. steps \in Seq(StepsOf) /\ Len(steps) = z /\ \A i \in 1..z : StepIs(steps[i], i, it, p)
    BY <1>1, StepsAre
  <2> QED
    BY <2>1, LenProperties
<1>4. \A i \in 1..z : KindIs(steps[i], i, it, p)
  <2> SUFFICES ASSUME NEW i \in 1..z PROVE KindIs(steps[i], i, it, p)
    OBVIOUS
  <2>1. PICK s : s = steps[i]
    OBVIOUS
  <2>2. StepIs(s, i, it, p)
    BY <1>3, <2>1
  <2> QED
    BY <2>1, <2>2, StepKinds
<1>5. p # Owner /\ \A k \in Keys : k # Owner
  BY OnboardAssumption
<1>6. At(steps, "policy") = d + 1..e
  <2>1. \A i \in 1..z : steps[i].does = "policy" <=> d < i /\ i <= e
    BY <1>4 DEF KindIs
  <2>2. d \in Nat /\ e \in Nat /\ z \in Nat /\ e <= z
    BY <1>2
  <2> QED
    BY <1>3, <2>1, <2>2 DEF At
<1>7. PartsAccepted(steps, Owner, p, it.seed)
  <2>1. InPhase(steps, p)
    <3> SUFFICES ASSUME NEW i \in 1..z, NEW j \in 1..z, i < j PROVE Phase(steps[i], p) <= Phase(steps[j], p)
      BY <1>3 DEF InPhase
    <3>1. /\ Phase(steps[i], p) = IF i <= d THEN 0 ELSE IF i <= f THEN 1 ELSE 2
          /\ Phase(steps[j], p) = IF j <= d THEN 0 ELSE IF j <= f THEN 1 ELSE 2
      BY <1>4 DEF KindIs
    <3> QED
      BY <1>2, <3>1
  <2>2. \A i \in At(steps, "create") :
          /\ CreatesPlanned(steps[i], Owner, p, it.seed)
          /\ ~Before(steps, i, {"create", "policy", "feed"} \cup Funding)
    BY <1>3, <1>4 DEF At, CreatesPlanned, Before, KindIs
  <2>3. \A i \in DOMAIN steps : steps[i].does \in Changes => ~Before(steps, i, Funding)
    <3> SUFFICES ASSUME NEW i \in 1..z, steps[i].does \in Changes, NEW j \in 1..(i - 1), steps[j].does \in Funding
                 PROVE  FALSE
      BY <1>3 DEF Before
    <3>1. j \in 1..z /\ j > f
      BY <1>2, <1>4 DEF Funding, KindIs
    <3>2. i <= f
      BY <1>2, <1>4 DEF Changes, KindIs
    <3> QED
      BY <1>2, <3>1, <3>2
  <2>4. \A i \in At(steps, "add") : steps[i].by = Owner /\ steps[i].key = p
    BY <1>3, <1>4 DEF At, KindIs
  <2>5. \A i \in At(steps, "remove") : steps[i].key # Owner /\ (steps[i].by = p => steps[i].key = p)
    BY <1>3, <1>4, <1>5 DEF At, KindIs
  <2>6. \A i \in At(steps, "policy") :
          /\ steps[i].by = p /\ steps[i].n \in PolicySeeds
          /\ ~\E j \in 1..(i - 1) : steps[j].does = "remove" /\ steps[j].by = p
    <3> SUFFICES ASSUME NEW i \in d + 1..e
                 PROVE  /\ steps[i].by = p /\ steps[i].n \in PolicySeeds
                        /\ ~\E j \in 1..(i - 1) : steps[j].does = "remove" /\ steps[j].by = p
      BY <1>6
    <3>1. i \in 1..z /\ steps[i].does = "policy"
      BY <1>2, <1>4 DEF KindIs
    <3>2. steps[i].by = p /\ steps[i].n = it.next + (i - d) - 1
      BY <1>4, <3>1 DEF KindIs
    <3>3. steps[i].n \in PolicySeeds
      BY <1>2, <3>2 DEF PolicySeeds
    <3>4. ASSUME NEW j \in 1..(i - 1), steps[j].does = "remove", steps[j].by = p PROVE FALSE
      <4>1. j \in 1..z /\ j < i /\ i <= e
        BY <1>2, <3>1
      <4>2. j = e + 1
        BY <1>4, <1>5, <3>4, <4>1 DEF KindIs
      <4> QED
        BY <1>2, <4>1, <4>2
    <3> QED
      BY <3>2, <3>3, <3>4
  <2>7. \A i, j \in At(steps, "policy") :
          i < j /\ ~(\E k \in At(steps, "policy") : i < k /\ k < j) => steps[j].n = steps[i].n + 1
    <3> SUFFICES ASSUME NEW i \in d + 1..e, NEW j \in d + 1..e, i < j, ~\E k \in d + 1..e : i < k /\ k < j
                 PROVE  steps[j].n = steps[i].n + 1
      BY <1>6
    <3>1. j = i + 1
      <4>1. i + 1 \in d + 1..e
        BY <1>2
      <4> QED
        BY <1>2, <4>1
    <3>2. i \in 1..z /\ steps[i].does = "policy" /\ j \in 1..z /\ steps[j].does = "policy"
      BY <1>2, <1>4 DEF KindIs
    <3>3. steps[i].n = it.next + (i - d) - 1 /\ steps[j].n = it.next + (j - d) - 1
      BY <1>4, <3>2 DEF KindIs
    <3> QED
      BY <1>2, <3>1, <3>3
  <2>8. \A i \in At(steps, "back") : steps[i].by = p /\ Before(steps, i, {"remove"})
    <3> SUFFICES ASSUME NEW i \in 1..z, steps[i].does = "back" PROVE steps[i].by = p /\ Before(steps, i, {"remove"})
      BY <1>3 DEF At
    <3>1. steps[i].by = p /\ i = e + 2 /\ e < f
      BY <1>4 DEF KindIs
    <3>2. e + 1 \in 1..z /\ e + 1 \in 1..(i - 1)
      BY <1>2, <3>1
    <3>3. steps[e + 1].does = "remove"
      BY <1>4, <3>1, <3>2 DEF KindIs
    <3> QED
      BY <3>1, <3>2, <3>3 DEF Before
  <2> QED
    BY <2>1, <2>2, <2>3, <2>4, <2>5, <2>6, <2>7, <2>8 DEF PartsAccepted
<1>8. WholeAccepted(steps)
  <2>1. At(steps, "create") # {} => \E i \in At(steps, "policy") : steps[i].n = 1 /\ ~Before(steps, i, {"policy"})
    <3> SUFFICES ASSUME At(steps, "create") # {}
                 PROVE  \E i \in At(steps, "policy") : steps[i].n = 1 /\ ~Before(steps, i, {"policy"})
      OBVIOUS
    <3>1. it.create
      BY <1>3, <1>4 DEF At, KindIs
    <3>2. it.next = 1
      BY <3>1 DEF PlanShape
    <3>3. d + 1 \in d + 1..e /\ d + 1 \in 1..z
      BY <1>2, <3>2
    <3>4. steps[d + 1].n = 1
      BY <1>2, <1>4, <3>2, <3>3 DEF KindIs
    <3>5. ~Before(steps, d + 1, {"policy"})
      <4> SUFFICES ASSUME NEW j \in 1..d, steps[j].does = "policy" PROVE FALSE
        BY <1>2 DEF Before
      <4>1. j \in 1..z
        BY <1>2
      <4> QED
        BY <1>2, <1>4, <4>1 DEF KindIs
    <3> QED
      BY <1>6, <3>3, <3>4, <3>5
  <2>2. At(steps, "policy") # {} =>
          \E i \in At(steps, "policy") : steps[i].n = Policies /\ ~\E j \in At(steps, "policy") : j > i
    <3> SUFFICES ASSUME d + 1..e # {} PROVE \E i \in d + 1..e : steps[i].n = Policies /\ ~\E j \in d + 1..e : j > i
      BY <1>6
    <3>1. e \in d + 1..e /\ e \in 1..z
      BY <1>2
    <3>2. steps[e].n = Policies
      BY <1>2, <1>4, <3>1 DEF KindIs
    <3> QED
      BY <1>2, <3>1, <3>2
  <2>3. FoldLeft(+, 0, [i \in DOMAIN steps |-> IF steps[i].does = "feed" THEN steps[i].n ELSE 0])
          <= KeyBound(Cardinality(At(steps, "policy")))
    <3>1. PICK g, k : /\ g = [i \in DOMAIN steps |-> IF steps[i].does = "feed" THEN steps[i].n ELSE 0]
                      /\ k = IF it.feed > 0 THEN d ELSE 0
      OBVIOUS
    <3>2. ASSUME NEW i \in 1..z PROVE (IF steps[i].does = "feed" THEN steps[i].n ELSE 0) = IF i = k THEN it.feed ELSE 0
      <4>1. /\ steps[i].does = "feed" <=> i = d /\ it.feed > 0
            /\ steps[i].does = "feed" => steps[i].n = it.feed
        BY <1>4 DEF KindIs
      <4>2. i = k <=> i = d /\ it.feed > 0
        BY <1>2, <3>1
      <4> QED
        BY <4>1, <4>2
    <3>3. g = [i \in 1..z |-> IF i = k THEN it.feed ELSE 0]
      <4>1. g = [i \in 1..z |-> IF steps[i].does = "feed" THEN steps[i].n ELSE 0]
        BY <1>3, <3>1
      <4> QED
        BY <3>2, <4>1
    <3>4. Total(g) \in {0, it.feed}
      <4>1. OneAt(g, z, k, it.feed)
        BY <3>3 DEF OneAt
      <4>2. z \in Nat /\ it.feed \in Nat
        BY <1>2
      <4> QED
        BY <4>1, <4>2, OneFed
    <3>5. Cardinality(At(steps, "policy")) = Policies + 1 - it.next
      <4>1. PICK l : l = d + 1
        OBVIOUS
      <4>2. l \in Int /\ e \in Int
        BY <1>2, <4>1
      <4>3. Cardinality(l..e) = IF l > e THEN 0 ELSE e - l + 1
        BY <4>2, FS_Interval
      <4>4. (IF l > e THEN 0 ELSE e - l + 1) = Policies + 1 - it.next
        BY <1>2, <4>1
      <4> QED
        BY <1>6, <4>1, <4>3, <4>4
    <3>6. it.feed > 0 => it.next <= Policies /\ it.feed <= Policies + 2 - it.next
      BY DEF PlanShape
    <3>7. it.feed <= KeyBound(Policies + 1 - it.next) /\ 0 <= KeyBound(Policies + 1 - it.next)
      BY <1>2, <3>6 DEF KeyBound
    <3>8. Total(g) <= KeyBound(Cardinality(At(steps, "policy")))
      BY <3>4, <3>5, <3>7
    <3> QED
      BY <3>1, <3>8 DEF Total
  <2>4. (\E i \in DOMAIN steps : steps[i].does \in Funding) => FundedOnce(steps)
    <3> SUFFICES ASSUME NEW i \in 1..z, steps[i].does \in Funding PROVE FundedOnce(steps)
      BY <1>3
    <3>1. z = f + 2
      BY <1>2, <1>4 DEF Funding, KindIs
    <3>2. f + 1 \in 1..z /\ f + 2 \in 1..z
      BY <1>2, <3>1
    <3>3. \A j \in 1..z : (steps[j].does = "gas" <=> j = f + 2) /\ (steps[j].does = "deposit" <=> j = f + 1)
      BY <1>4 DEF KindIs
    <3>4. At(steps, "gas") = {f + 2}
      BY <1>3, <3>2, <3>3 DEF At
    <3>5. At(steps, "deposit") = {f + 1}
      BY <1>3, <3>2, <3>3 DEF At
    <3> QED
      BY <3>4, <3>5, FS_Singleton DEF FundedOnce
  <2> QED
    BY <2>1, <2>2, <2>3, <2>4 DEF WholeAccepted
<1> QED
  BY <1>1, <1>7, <1>8 DEF PageAccepts

-----------------------------------------------------------------------------
(* Every answer a page has, or will be given, is so shaped. *)
AnswerOf(pg, c) == pg.pc = "looks" \/ (pg.pc = "asks" /\ c.at = "store") => PlanShape(pg.it)
AnswersShaped == \A p \in Keys : AnswerOf(page[p], call[p])
FewSigners == \A s \in Seeds : IsFiniteSet(vault[s].signers)
AnswerInv == FewSigners /\ AnswersShaped

LEMMA PlanShaped ==
  ASSUME NEW v \in Vault, VaultShape(v), IsFiniteSet(v.signers), NEW seed, NEW key, NEW sol1 \in Nat, NEW funded
  PROVE  PlanShape(SetupTxs(v, seed, key, sol1, funded))
<1>1. v.made \in 0..Policies /\ Policies \in Nat \ {0}
  BY SetupAssumption DEF Vault
<1>2. PICK it : it = SetupTxs(v, seed, key, sol1, funded)
  OBVIOUS
<1>3. /\ it.next = v.made + 1 /\ (it.create <=> v.made < Policies /\ ~(v.by = "owner"))
      /\ it.off \subseteq v.signers
      /\ it.feed = IF v.made < Policies /\ Need(v) > sol1 THEN Need(v) - sol1 ELSE 0
  BY <1>2 DEF SetupTxs
<1>4. IsFiniteSet(it.off)
  BY <1>3, FS_Subset
<1>5. it.create => it.next = 1
  BY <1>3 DEF VaultShape
<1>6. it.feed > 0 => it.next <= Policies /\ it.feed <= Policies + 2 - it.next
  BY <1>1, <1>3 DEF Need
<1> QED
  BY <1>1, <1>2, <1>3, <1>4, <1>5, <1>6 DEF PlanShape

\* What the server plans for any vault the chain can leave (VaultShape), funded
\* or not, with whatever its pages' keys hold, the page of the request accepts:
\* setupTxs and decodeSolSet read the set-up alike.
THEOREM PlanPasses ==
  ASSUME NEW v \in Vault, VaultShape(v), IsFiniteSet(v.signers), NEW seed \in Seeds, NEW key \in Keys,
         NEW sol1 \in Nat, NEW funded \in Nat
  PROVE  PageAccepts(Steps(SetupTxs(v, seed, key, sol1, funded), Owner, key), Owner, key, seed)
<1>1. PICK it : it = SetupTxs(v, seed, key, sol1, funded)
  OBVIOUS
<1>2. it \in Plans
  <2>1. v.made \in 0..Policies /\ v.signers \subseteq Keys /\ Policies \in Nat \ {0} /\ seed \in 0..LastSeed
    BY SetupAssumption DEF Vault, Seeds
  <2>2. v.made + 1 \in 1..Policies + 1 /\ Need(v) \in Nat
    BY <2>1 DEF Need
  <2> QED
    BY <1>1, <2>1, <2>2 DEF SetupTxs, Plans, Funded, Whole
<1>3. PlanShape(it) /\ it.seed = seed
  BY <1>1, PlanShaped DEF SetupTxs
<1> QED
  BY <1>1, <1>2, <1>3, PlanAccepted

\* The answer page q looks at, or waits for, is the one there was.
AsBefore(q) ==
  \/ page'[q].pc \notin {"asks", "looks"}
  \/ page'[q].pc = "asks" /\ call'[q].at # "store"
  \/ page'[q].pc = page[q].pc /\ page'[q].it = page[q].it /\ (page[q].pc = "asks" => call'[q] = call[q])

LEMMA AnswersKept == ASSUME AnswersShaped, \A q \in Keys : AsBefore(q) PROVE AnswersShaped'
BY DEF AnswersShaped, AnswerOf, AsBefore

LEMMA MakePlanShapes == ASSUME OnboardInv, AnswerInv, NEW p \in Keys, MakePlan(p) PROVE AnswerInv'
<1>0. /\ page \in [Keys -> Pages] /\ call \in [Keys -> Calls] /\ row \in Rows /\ vault \in [Seeds -> Vault] /\ sol[p] \in Nat
      /\ UNCHANGED vault
  BY DEF OnboardInv, Typed, MakePlan, chain
<1>1. FewSigners'
  BY <1>0 DEF AnswerInv, FewSigners
<1>2. CASE ~(call[p].new \/ row.state = "signed")
  <2>1. /\ call' = [call EXCEPT ![p] = NoCall]
        /\ \/ page[p].pc # "asks" /\ UNCHANGED page
           \/ \E pg \in {Closed(p), [Closed(p) EXCEPT !.pc = "pays"]} : page' = [page EXCEPT ![p] = pg]
    BY <1>2 DEF MakePlan
  <2>2. \A pg \in {Closed(p), [Closed(p) EXCEPT !.pc = "pays"]} : Rests(pg)
    BY Rest DEF OnboardInv
  <2>3. \A q \in Keys : AsBefore(q)
    BY <1>0, <2>1, <2>2 DEF AsBefore, Rests
  <2> QED
    BY <1>1, <2>3, AnswersKept DEF AnswerInv
<1>3. CASE call[p].new \/ row.state = "signed"
  <2>1. PICK old, known, seed, c :
          /\ old = (IF call[p].new THEN Unplanned ELSE row.planned) /\ known = old.keys \cup {p}
          /\ seed = PlannedSeed(vault, index, old.seed, known)
          /\ c = [call[p] EXCEPT !.at = "store", !.read = old.seed, !.seed = seed, !.keys = known]
    OBVIOUS
  <2>2. /\ seed <= LastSeed /\ call' = [call EXCEPT ![p] = c]
        /\ IF page[p].pc # "asks" THEN page' = page
           ELSE page' = [page EXCEPT ![p].it = SetupTxs(vault[seed], seed, p, sol[p], paid[seed])]
    BY <1>3, <2>1 DEF MakePlan
  <2>3. old.seed \in 0..LastSeed /\ known \in SUBSET Keys
    BY <1>0, <2>1, SetupAssumption DEF Rows, Planned, Unplanned
  <2>4. seed \in Seeds
    BY <2>1, <2>2, <2>3, SeedIs
  <2>5. PlanShape(SetupTxs(vault[seed], seed, p, sol[p], paid[seed]))
    BY <1>0, <2>4, PlanShaped DEF OnboardInv, VaultsInOrder, AnswerInv, FewSigners
  <2>6. \A q \in Keys \ {p} : page'[q] = page[q] /\ call'[q] = call[q]
    BY <1>0, <2>2
  <2>7. AnswerOf(page'[p], call'[p])
    <3>1. CASE page[p].pc # "asks"
      BY <2>2, <3>1 DEF AnswerInv, AnswersShaped, AnswerOf
    <3>2. CASE page[p].pc = "asks"
      <4>1. page'[p].it = SetupTxs(vault[seed], seed, p, sol[p], paid[seed])
        BY <1>0, <2>2, <3>2 DEF Pages
      <4> QED
        BY <2>5, <4>1 DEF AnswerOf
    <3> QED
      BY <3>1, <3>2
  <2>8. AnswersShaped'
    BY <2>6, <2>7 DEF AnswerInv, AnswersShaped, AnswerOf
  <2> QED
    BY <1>1, <2>8 DEF AnswerInv
<1> QED
  BY <1>2, <1>3

LEMMA StorePlanShapes == ASSUME OnboardInv, AnswerInv, NEW p \in Keys, StorePlan(p) PROVE AnswerInv'
<1>0. page \in [Keys -> Pages] /\ call \in [Keys -> Calls] /\ UNCHANGED vault
  BY DEF OnboardInv, Typed, StorePlan, chain
<1>1. FewSigners'
  BY <1>0 DEF AnswerInv, FewSigners
<1>2. PICK u : u = page[p]
  OBVIOUS
<1>3. /\ call' = [call EXCEPT ![p] = NoCall]
      /\ \/ u.pc # "asks" /\ UNCHANGED page
         \/ u.pc = "asks" /\ call[p].at = "store" /\ page' = [page EXCEPT ![p] = [u EXCEPT !.pc = "looks"]]
         \/ page' = [page EXCEPT ![p] = Closed(p)]
  BY <1>2 DEF StorePlan
<1>4. Closed(p).pc = "away" /\ u \in Pages
  BY <1>0, <1>2, Rest DEF OnboardInv
<1>5. \A q \in Keys \ {p} : page'[q] = page[q] /\ call'[q] = call[q]
  BY <1>0, <1>3
<1>6. AnswerOf(page'[p], call'[p])
  <2>1. CASE u.pc # "asks" /\ UNCHANGED page
    BY <1>2, <2>1 DEF AnswerInv, AnswersShaped, AnswerOf
  <2>2. CASE u.pc = "asks" /\ call[p].at = "store" /\ page' = [page EXCEPT ![p] = [u EXCEPT !.pc = "looks"]]
    <3>1. page'[p].it = u.it
      BY <1>0, <1>4, <2>2 DEF Pages
    <3>2. PlanShape(u.it)
      BY <1>2, <2>2 DEF AnswerInv, AnswersShaped, AnswerOf
    <3> QED
      BY <3>1, <3>2 DEF AnswerOf
  <2>3. CASE page' = [page EXCEPT ![p] = Closed(p)]
    BY <1>0, <1>4, <2>3 DEF AnswerOf
  <2> QED
    BY <1>3, <2>1, <2>2, <2>3
<1>7. AnswersShaped'
  BY <1>5, <1>6 DEF AnswerInv, AnswersShaped, AnswerOf
<1> QED
  BY <1>1, <1>7 DEF AnswerInv

\* A page that sends has no answer, one that asks again none yet.
LEMMA SendsAsBefore ==
  ASSUME OnboardInv, NEW p \in Keys, UNCHANGED call, NEW t, NEW pg \in Pages, Send(p, t, pg)
  PROVE  \A q \in Keys : AsBefore(q)
<1>1. PICK x : x = [pg EXCEPT !.pc = "sends", !.it = NoPlan, !.tx = t, !.fate = "wire"]
  OBVIOUS
<1>2. x.pc = "sends" /\ page' = [page EXCEPT ![p] = x] /\ page \in [Keys -> Pages]
  BY <1>1 DEF Send, Set, Pages, OnboardInv, Typed
<1> QED
  BY <1>2 DEF AsBefore

LEMMA AgainAsBefore ==
  ASSUME OnboardInv, NEW p \in Keys, NEW held, Again(p, held)
  PROVE  \A q \in Keys : AsBefore(q)
<1>1. PICK pg, c : pg = [Closed(p) EXCEPT !.pc = "asks", !.held = held] /\ c = [NoCall EXCEPT !.at = "plan"]
  OBVIOUS
<1>2. page' = [page EXCEPT ![p] = pg] /\ call' = [call EXCEPT ![p] = c] /\ page \in [Keys -> Pages] /\ call \in [Keys -> Calls]
  BY <1>1 DEF Again, Set, OnboardInv, Typed
<1>3. pg.pc = "asks" /\ c.at = "plan"
  <2>1. Closed(p) \in Pages
    BY <1>2, ClosedIs
  <2> QED
    BY <1>1, <2>1, CallsIs DEF Pages
<1> QED
  BY <1>2, <1>3 DEF AsBefore

\* A page that comes to rest.
LEMMA RestAsBefore ==
  ASSUME OnboardInv, NEW p \in Keys, NEW pg, Rests(pg), page' \in {page, [page EXCEPT ![p] = pg]},
         \A q \in Keys : page'[q].pc = "asks" => call'[q] = call[q]
  PROVE  \A q \in Keys : AsBefore(q)
BY DEF OnboardInv, Typed, AsBefore, Rests

LEMMA PagesAsBefore ==
  ASSUME OnboardInv, NEW p \in Keys, PageStep(p) \/ Open(p) \/ HeldExpired(p) \/ Leave(p) \/ Pay(p) \/ GiveUp(p)
  PROVE  UNCHANGED vault /\ \A q \in Keys : AsBefore(q)
<1>0. page \in [Keys -> Pages] /\ call \in [Keys -> Calls] /\ page[p] \in Pages
  BY DEF OnboardInv, Typed
<1>1. UNCHANGED vault
  BY DEF PageStep, Look, Landed, Failed, Open, HeldExpired, Leave, Pay, GiveUp, chain
<1>2. \A pg \in {Closed(p), [Closed(p) EXCEPT !.pc = "pays"]} : Rests(pg)
  BY Rest DEF OnboardInv
<1>3. CASE Look(p)
  <2>1. UNCHANGED call
    BY <1>3 DEF Look, server
  <2>2. CASE \E pg \in {Closed(p), [Closed(p) EXCEPT !.pc = "pays"]} : page' = [page EXCEPT ![p] = pg]
    BY <1>1, <1>2, <2>1, <2>2, RestAsBefore
  <2>3. CASE \E pg \in Pages, t \in Txs : Send(p, t, pg)
    BY <1>1, <2>1, <2>3, SendsAsBefore
  <2> QED
    BY <1>3, <2>2, <2>3, LookIs
<1>4. CASE Landed(p)
  <2>1. CASE page[p].tx.kind = "fund"
    <3>1. PICK pg : pg = [Away EXCEPT !.pc = "pays", !.told = TRUE]
      OBVIOUS
    <3>2. pg.pc = "pays" /\ page' = [page EXCEPT ![p] = pg]
      BY <1>4, <2>1, <3>1, Starts DEF Landed, Set, Pages
    <3> QED
      BY <1>0, <1>1, <3>2, <1>4, <2>1 DEF AsBefore, Landed
  <2>2. CASE page[p].tx.kind = "policy" /\ page[p].tx.n < Policies
    BY <1>0, <1>1, <1>4, <2>2, SendsAsBefore DEF Landed
  <2>3. CASE page[p].tx.kind # "fund" /\ ~(page[p].tx.kind = "policy" /\ page[p].tx.n < Policies)
    BY <1>1, <1>4, <2>3, AgainAsBefore DEF Landed
  <2> QED
    BY <2>1, <2>2, <2>3
<1>5. CASE HeldExpired(p)
  BY <1>1, <1>5, AgainAsBefore DEF HeldExpired
<1>6. CASE Open(p)
  <2>1. PICK u, c : u = page[p] /\ c = [NoCall EXCEPT !.at = "plan", !.new = (row.state = "none")]
    OBVIOUS
  <2>2. page' = [page EXCEPT ![p] = [u EXCEPT !.pc = "asks"]] /\ call' = [call EXCEPT ![p] = c]
    BY <1>6, <2>1 DEF Open, Set
  <2>3. c.at = "plan"
    BY <2>1 DEF NoCall
  <2>4. call'[p].at # "store" /\ page'[p].pc = "asks"
    BY <1>0, <2>1, <2>2, <2>3 DEF Pages
  <2>5. \A q \in Keys \ {p} : page'[q] = page[q] /\ call'[q] = call[q]
    BY <1>0, <2>2
  <2> QED
    BY <1>1, <2>4, <2>5 DEF AsBefore
<1>7. CASE Failed(p) \/ GiveUp(p)
  <2>1. page' = [page EXCEPT ![p] = Closed(p)] /\ UNCHANGED call
    BY <1>7 DEF Failed, GiveUp, Set, server
  <2> QED
    BY <1>1, <1>2, <2>1, RestAsBefore
<1>8. CASE Leave(p)
  <2>1. page' = [page EXCEPT ![p] = Closed(p)] /\ \A q \in Keys \ {p} : call'[q] = call[q]
    BY <1>0, <1>8 DEF Leave, Set
  <2>2. page'[p].pc # "asks" /\ \A q \in Keys \ {p} : page'[q] = page[q]
    BY <1>0, <1>2, <2>1 DEF Rests
  <2> QED
    BY <1>1, <1>2, <2>1, <2>2, RestAsBefore
<1>9. CASE Pay(p)
  <2>1. PICK ready, waits : ready = [page[p] EXCEPT !.pc = "ready"] /\ waits = [page[p] EXCEPT !.pc = "waits"]
    OBVIOUS
  <2>2. Rests(ready) /\ Rests(waits)
    BY <1>9, <2>1, Rest DEF OnboardInv, Pay
  <2>3. UNCHANGED call /\ \E pg \in {ready, waits, Closed(p)} : page' \in {page, [page EXCEPT ![p] = pg]}
    BY <1>9, <2>1 DEF Pay, Set
  <2> QED
    BY <1>1, <1>2, <2>2, <2>3, RestAsBefore
<1> QED
  BY <1>3, <1>4, <1>5, <1>6, <1>7, <1>8, <1>9 DEF PageStep

LEMMA FinishAsBefore ==
  ASSUME OnboardInv, PayStep \/ FinishFails \/ Crash \/ LoseName
  PROVE  UNCHANGED vault /\ \A q \in Keys : AsBefore(q)
<1>0. page \in [Keys -> Pages] /\ call \in [Keys -> Calls] /\ fin.page \in Keys
  BY DEF OnboardInv, Typed, Finishes
<1>1. UNCHANGED vault
  BY DEF PayStep, PayFunding, Finish, SendTable, TableDecided, Connected, Register, FinishFails, Crash, LoseName, chain
<1>2. CASE Finish \/ SendTable \/ TableDecided \/ Connected \/ FinishFails \/ LoseName
  <2>1. UNCHANGED <<page, call>>
    BY <1>2 DEF Finish, SendTable, TableDecided, Connected, FinishFails, LoseName
  <2> QED
    BY <1>1, <2>1 DEF AsBefore
<1>3. CASE PayFunding \/ Register
  <2>1. PICK p : p = fin.page
    OBVIOUS
  <2>2. PICK ready, waits : ready = [page[p] EXCEPT !.pc = "ready"] /\ waits = [page[p] EXCEPT !.pc = "waits"]
    OBVIOUS
  <2>3. UNCHANGED call /\ (UNCHANGED page \/ \E pg \in {ready, waits, Closed(p)} : Answer(p, pg))
    BY <1>3, <2>1, <2>2 DEF PayFunding, Register
  <2>4. CASE UNCHANGED page
    BY <1>1, <2>3, <2>4 DEF AsBefore
  <2>5. CASE ~(UNCHANGED page)
    <3>1. page[p].pc \in {"pays", "waits"} /\ \E pg \in {ready, waits, Closed(p)} : page' = [page EXCEPT ![p] = pg]
      BY <2>3, <2>5 DEF Answer
    <3>2. \A pg \in {ready, waits, Closed(p)} : Rests(pg)
      BY <1>0, <2>1, <2>2, <3>1, Rest DEF OnboardInv
    <3> QED
      BY <1>0, <1>1, <2>1, <2>3, <3>1, <3>2, RestAsBefore
  <2> QED
    BY <2>4, <2>5
<1>4. CASE Crash
  <2> SUFFICES ASSUME NEW q \in Keys PROVE AsBefore(q)
    BY <1>1
  <2>1. page'[q] = (IF page[q].pc \in {"asks", "pays", "waits"} THEN Closed(q) ELSE page[q])
    BY <1>4 DEF Crash
  <2>2. Closed(q).pc = "away"
    BY Rest DEF OnboardInv
  <2> QED
    BY <2>1, <2>2 DEF AsBefore
<1> QED
  BY <1>2, <1>3, <1>4 DEF PayStep

LEMMA ChainAsBefore ==
  ASSUME OnboardInv, FewSigners, (\E t \in wire : Land(t) \/ Die(t)) \/ TakeSeed
  PROVE  FewSigners' /\ \A q \in Keys : AsBefore(q)
<1>0. vault \in [Seeds -> Vault] /\ index \in 0..LastSeed /\ wire \subseteq Txs /\ LastSeed \in Nat
  BY SetupAssumption DEF OnboardInv, Typed
<1>1. CASE TakeSeed
  <2>1. index + 1 \in Seeds /\ vault' = [vault EXCEPT ![index + 1].by = "other"] /\ UNCHANGED <<page, call>>
    BY <1>0, <1>1 DEF TakeSeed, server, Seeds
  <2>2. \A s \in Seeds : vault'[s].signers = vault[s].signers
    BY <1>0, <2>1 DEF Vault
  <2> QED
    BY <2>1, <2>2 DEF FewSigners, AsBefore
<1>2. ASSUME NEW t \in wire, Land(t) \/ Die(t) PROVE FewSigners' /\ \A q \in Keys : AsBefore(q)
  <2>1. UNCHANGED call /\ \E fate \in {"landed", "dead"} : Decided(t, fate)
    BY <1>2 DEF Land, Die, server
  <2>2. \A q \in Keys : AsBefore(q)
    BY <2>1, DecidedIs DEF AsBefore, SameBut
  <2>3. UNCHANGED vault \/ (t.kind # "table" /\ vault' = [vault EXCEPT ![t.seed] = After(t)])
    BY <1>2 DEF Land, Die, chain
  <2>4. CASE UNCHANGED vault
    BY <2>2, <2>4 DEF FewSigners
  <2>5. CASE t.kind # "table" /\ vault' = [vault EXCEPT ![t.seed] = After(t)]
    <3>1. t.seed \in Seeds
      BY <2>5 DEF OnboardInv, TxsSafe
    <3>2. PICK v : v = vault[t.seed]
      OBVIOUS
    <3>3. v \in Vault /\ IsFiniteSet(v.signers)
      BY <1>0, <3>1, <3>2 DEF FewSigners
    <3>4. After(t).signers \subseteq v.signers \cup {t.page}
      <4>1. CASE t.kind = "owner" /\ t.create
        BY <4>1 DEF After
      <4>2. CASE t.kind = "owner" /\ ~t.create
        BY <3>2, <3>3, <4>2 DEF After, Vault
      <4>3. CASE t.kind \in {"policy", "release"}
        BY <3>2, <3>3, <4>3 DEF After, Vault
      <4>4. CASE t.kind \notin {"owner", "policy", "release"}
        BY <3>2, <4>4 DEF After
      <4> QED
        BY <4>1, <4>2, <4>3, <4>4
    <3>5. IsFiniteSet(After(t).signers)
      <4>1. IsFiniteSet(v.signers \cup {t.page})
        BY <3>3, FS_AddElement
      <4> QED
        BY <3>4, <4>1, FS_Subset
    <3> QED
      BY <1>0, <2>2, <2>5, <3>1, <3>5 DEF FewSigners
  <2> QED
    BY <2>3, <2>4, <2>5
<1> QED
  BY <1>1, <1>2

LEMMA NextAnswers == ASSUME OnboardInv, AnswerInv, [Next]_vars PROVE AnswerInv'
<1>1. CASE UNCHANGED vars
  <2>1. UNCHANGED <<vault, page, call>>
    BY <1>1 DEF vars, chain, server
  <2> QED
    BY <2>1 DEF AnswerInv, FewSigners, AnswersShaped, AnswerOf
<1>2. CASE \E p \in Keys : ServerStep(p)
  BY <1>2, MakePlanShapes, StorePlanShapes DEF ServerStep
<1>3. ASSUME UNCHANGED vault, \A q \in Keys : AsBefore(q) PROVE AnswerInv'
  BY <1>3, AnswersKept DEF AnswerInv, FewSigners
<1>4. CASE \E p \in Keys : PageStep(p) \/ Open(p) \/ HeldExpired(p) \/ Leave(p) \/ Pay(p) \/ GiveUp(p)
  BY <1>3, <1>4, PagesAsBefore
<1>5. CASE PayStep \/ FinishFails \/ Crash \/ LoseName
  BY <1>3, <1>5, FinishAsBefore
<1>6. CASE (\E t \in wire : Land(t) \/ Die(t)) \/ TakeSeed
  BY <1>6, ChainAsBefore, AnswersKept DEF AnswerInv
<1> QED
  BY <1>1, <1>2, <1>4, <1>5, <1>6 DEF Next

\* What an honest server plans, the page accepts: the two read the set-up alike
\* from every state the chain and the pages can leave it in, for every number
\* of policies and of set-up keys left on the vault.
THEOREM AnswersPass == Spec => []AnswerPassesPage
<1>1. Init => AnswerInv
  <2> SUFFICES ASSUME Init PROVE AnswerInv
    OBVIOUS
  <2>1. \A s \in Seeds : vault[s].signers = {}
    BY DEF Init
  <2>2. \A p \in Keys : page[p].pc = "away"
    BY Starts DEF Init
  <2> QED
    BY <2>1, <2>2, FS_EmptySet DEF AnswerInv, FewSigners, AnswersShaped, AnswerOf
<1>2. OnboardInv /\ AnswerInv /\ [Next]_vars => AnswerInv'
  BY NextAnswers
<1>3. OnboardInv /\ AnswerInv => AnswerPassesPage
  <2> SUFFICES ASSUME OnboardInv, AnswerInv, NEW p \in Keys, page[p].pc = "looks"
               PROVE  PageAccepts(Steps(page[p].it, Owner, p), Owner, p, page[p].it.seed)
    BY DEF AnswerPassesPage
  <2>1. page[p].it \in Plans
    BY DEF OnboardInv, Typed, Pages
  <2>2. PlanShape(page[p].it)
    BY DEF AnswerInv, AnswersShaped, AnswerOf
  <2> QED
    BY <2>1, <2>2, PlanAccepted
<1> QED
  BY <1>1, <1>2, <1>3, OnboardHolds, PTL DEF Spec
=============================================================================
