------------------------------ MODULE Onboard ------------------------------
(***************************************************************************)
(* One request for a vault, from the form to the registered vault.  The    *)
(* owner approves its set-up on one page or several; the server plans what *)
(* the chain lacks, keeps the request's row and, once all of it is on      *)
(* chain and the bot's gas is paid, makes the vault's lookup table and     *)
(* registers it.  Transactions land, fail, or die with their blockhash; a  *)
(* page is closed, its calls lost; the server dies and comes back; another *)
(* account takes the seed, another owner the name.                         *)
(*                                                                         *)
(* A page is named by its set-up key.                                      *)
(***************************************************************************)
EXTENDS SetupPlan

CONSTANTS
  Owner,        \* the owner's wallet
  SignsSets,    \* the pages whose wallet signs a set in one approval
  Keeps,        \* the page the owner comes back to until the vault is there
  MaxTables,    \* bound: lookup tables the bot plans
  Budgets       \* bounds: how much goes wrong, and how often another page is opened

ASSUME OnboardAssumption ==
  /\ Owner \notin Keys /\ SignsSets \subseteq Keys /\ Keeps \in Keys
  /\ MaxTables \in Nat /\ Budgets \subseteq [faults : Nat, visits : Nat]

VARIABLES
  index, vault, sol,  \* the chain: the last seed used, the acleft, what each set-up key holds
  paid, tables,       \* the chain: fundings landed per vault, the bot's lookup tables
  wire,               \* transactions sent and not decided
  row,                \* the request's row in the database
  page,               \* what each page does
  call,               \* each page's /api/intent or /api/setup in the server
  fin,                \* the one /api/pay that runs
  left,               \* of the budget
  lostPlan,           \* history: a stored plan undid one stored since it was read: a set-up key forgotten, or the seed
  torn                \* history: times the server died with the table's transaction in flight

chain  == <<index, vault, sol, paid, tables>>
server == <<row, call, fin>>
hist   == <<lostPlan, torn>>
vars   == <<chain, wire, server, page, left, hist>>

Planned == [seed : 0..LastSeed, keys : SUBSET Keys]
Unplanned == [seed |-> 0, keys |-> {}]
NoTx    == [kind |-> "none", page |-> Keeps, seed |-> 0, n |-> 0, amount |-> 0, create |-> FALSE, off |-> {}, on |-> FALSE]
Away    == [pc |-> "away", it |-> NoPlan, held |-> 0, told |-> FALSE, tx |-> NoTx, fate |-> "none"]
NoCall  == [at |-> "none", new |-> FALSE, read |-> 0, seed |-> 0, keys |-> {}]
NoFin   == [at |-> "idle", page |-> Keeps, seed |-> 0, told |-> FALSE]

Init ==
  /\ index = 0 /\ vault = [s \in Seeds |-> [by |-> "nobody", signers |-> {}, made |-> 0]]
  /\ sol = [k \in Keys |-> 0] /\ paid = [s \in Seeds |-> 0] /\ tables = {} /\ wire = {}
  /\ row = [state |-> "none", planned |-> Unplanned, table |-> 0, sent |-> FALSE]
  /\ page = [p \in Keys |-> Away] /\ call = [p \in Keys |-> NoCall] /\ fin = NoFin
  /\ left \in Budgets /\ lostPlan = FALSE /\ torn = 0

Fault == left.faults > 0 /\ left' = [left EXCEPT !.faults = @ - 1]

\* The page after a step failed or it was closed: it remembers its payment only.
Closed(p) == [Away EXCEPT !.told = page[p].told]
Set(p, pg) == page' = [page EXCEPT ![p] = pg]

----------------------------------------------------------------------------
(***************************************************************************)
(* The server: /api/intent and /api/setup                                  *)
(***************************************************************************)
\* The row and the chain read, and the set-up planned (requestOf, setupOf).  A
\* request no longer waiting for its set-up answers done.
MakePlan(p) ==
  LET c == call[p]
      old == IF c.new THEN Unplanned ELSE row.planned
      known == old.keys \cup {p}
      seed == PlannedSeed(vault, index, old.seed, known)
  IN
  /\ c.at = "plan"
  /\ IF c.new \/ row.state = "signed"
     THEN /\ seed <= LastSeed
          /\ call' = [call EXCEPT ![p] = [c EXCEPT !.at = "store", !.read = old.seed, !.seed = seed, !.keys = known]]
          /\ page' = IF page[p].pc # "asks" THEN page
                     ELSE [page EXCEPT ![p].it = SetupTxs(vault[seed], seed, p, sol[p], paid[seed])]
     ELSE /\ call' = [call EXCEPT ![p] = NoCall]
          /\ page' = IF page[p].pc # "asks" THEN page
                     ELSE [page EXCEPT ![p] = IF row.state = "failed" THEN Closed(p) ELSE [Closed(p) EXCEPT !.pc = "pays"]]
  /\ UNCHANGED <<chain, wire, row, fin, left, hist>>

\* store.py sign or planned, then the answer.
StorePlan(p) ==
  LET c == call[p]
      kept == row.state = (IF c.new THEN "none" ELSE "signed")
      undone == \/ ~(row.planned.keys \subseteq c.keys)
                \/ row.planned.seed \notin {c.read, c.seed}
  IN
  /\ c.at = "store"
  /\ call' = [call EXCEPT ![p] = NoCall]
  /\ row' = IF kept THEN [row EXCEPT !.state = "signed", !.planned = [seed |-> c.seed, keys |-> c.keys]] ELSE row
  /\ lostPlan' = (lostPlan \/ (kept /\ undone))
  /\ page' = IF page[p].pc # "asks" THEN page
             ELSE [page EXCEPT ![p] = IF kept THEN [@ EXCEPT !.pc = "looks"] ELSE Closed(p)]
  /\ UNCHANGED <<chain, wire, fin, left, torn>>

----------------------------------------------------------------------------
(***************************************************************************)
(* The page: createFlow and solanaSetup                                    *)
(***************************************************************************)
\* The first step run, or run again: a new request, or the one there is.
Open(p) ==
  /\ page[p].pc = "away" /\ call[p].at = "none" /\ row.state # "failed"
  /\ IF p = Keeps THEN UNCHANGED left ELSE left.visits > 0 /\ left' = [left EXCEPT !.visits = @ - 1]
  /\ Set(p, [page[p] EXCEPT !.pc = "asks"])
  /\ call' = [call EXCEPT ![p] = [NoCall EXCEPT !.at = "plan", !.new = (row.state = "none")]]
  /\ UNCHANGED <<chain, wire, row, fin, hist>>

\* The page asks what the chain still lacks, with what it holds signed.
Again(p, held) ==
  /\ Set(p, [Closed(p) EXCEPT !.pc = "asks", !.held = held])
  /\ call' = [call EXCEPT ![p] = [NoCall EXCEPT !.at = "plan"]]

Tx(kind, p, seed) == [NoTx EXCEPT !.kind = kind, !.page = p, !.seed = seed]
OwnerTx(p, it) == [Tx("owner", p, it.seed) EXCEPT !.amount = it.feed, !.create = it.create, !.off = it.off, !.on = it.on]
KeyTx(p, it) == IF it.release THEN [Tx("release", p, it.seed) EXCEPT !.amount = it.back]
                ELSE [Tx("policy", p, it.seed) EXCEPT !.n = it.next]

\* Another funding than the page's in flight: at most two wait at once (a bound).
FundTx(p, seed) == {t \in {[Tx("fund", p, seed) EXCEPT !.n = i] : i \in 1..2} : t \notin wire}

Send(p, t, pg) ==
  /\ wire' = wire \cup {t}
  /\ Set(p, [pg EXCEPT !.pc = "sends", !.it = NoPlan, !.tx = t, !.fate = "wire"])

FundingHeld(held, it) == held   \* mutant: a page that holds none takes what it has
\* The funding a page sends: the one its wallet signed with the rest, or the answer's.
FundingOf(held, it) == IF held # 0 THEN held ELSE it.seed

\* The answer decoded; then its first part signed and sent: the wallet's
\* (with the funding, signed and held), the set-up key's, and last the funding.
Look(p) ==
  LET it == page[p].it
      held == IF page[p].held = 0 /\ p \in SignsSets /\ it.fund THEN it.seed ELSE page[p].held
      pg == [page[p] EXCEPT !.held = held]
  IN
  /\ page[p].pc = "looks"
  /\ CASE AllDone(it) -> Set(p, [Closed(p) EXCEPT !.pc = "pays"]) /\ UNCHANGED wire
       [] ~AllDone(it) /\ ~PageAccepts(Steps(it, Owner, p), Owner, p, it.seed) -> Set(p, Closed(p)) /\ UNCHANGED wire
       [] OTHER -> IF HasOwnerPart(it) THEN Send(p, OwnerTx(p, it), pg)
                   ELSE IF HasKeyPart(it) THEN Send(p, KeyTx(p, it), pg)
                   ELSE \E t \in FundTx(p, FundingOf(held, it)) : Send(p, t, pg)
  /\ UNCHANGED <<chain, server, left, hist>>

\* landed: the next policy sent, the server asked again, or the set-up paid for.
Landed(p) ==
  LET pg == page[p] IN
  /\ pg.pc = "sends" /\ pg.fate = "landed"
  /\ CASE pg.tx.kind = "fund" -> Set(p, [Away EXCEPT !.pc = "pays", !.told = TRUE]) /\ UNCHANGED <<wire, call>>
       [] pg.tx.kind = "policy" /\ pg.tx.n < Policies ->
            Send(p, [pg.tx EXCEPT !.n = @ + 1], pg) /\ UNCHANGED call
       [] OTHER -> Again(p, pg.held) /\ UNCHANGED wire
  /\ UNCHANGED <<chain, row, fin, left, hist>>

\* A transaction that failed or expired stops the step; the owner tries again.
Failed(p) ==
  /\ page[p].pc = "sends" /\ page[p].fate = "dead"
  /\ Set(p, Closed(p))
  /\ UNCHANGED <<chain, wire, server, left, hist>>

\* The held funding was signed too long ago: built again.
HeldExpired(p) ==
  /\ page[p].pc = "looks" /\ page[p].held # 0
  /\ page[p].it.fund /\ ~HasOwnerPart(page[p].it) /\ ~HasKeyPart(page[p].it)
  /\ Fault
  /\ Again(p, 0)
  /\ UNCHANGED <<chain, wire, row, fin, hist>>

\* The wallet refuses, an answer is lost, the page is closed, reloaded or out
\* of patience: its transaction may still land, its call may still be answered.
Leave(p) ==
  /\ page[p].pc # "away" /\ page[p].pc # "ready"
  /\ Fault
  /\ Set(p, Closed(p))
  /\ \E c \in {call[p], NoCall} : call' = [call EXCEPT ![p] = c]
  /\ UNCHANGED <<chain, wire, row, fin, hist>>

----------------------------------------------------------------------------
(***************************************************************************)
(* /api/pay: payOrResume, setup, finishVault                               *)
(***************************************************************************)
\* The answer to the page that asked, if it still waits.
Answer(p, pg) == page' = IF page[p].pc \in {"pays", "waits"} THEN [page EXCEPT ![p] = pg] ELSE page

FirstTries == {"connecting"}   \* mutant: what stopped stays stopped
\* A paid request whose finish may go on.
Resumable == {"connecting", "stuck"}

\* One finish of the request at a time.  Nothing is spent before all of the
\* set-up is on chain (setupState); a finish that stopped goes on.
Pay(p) ==
  /\ page[p].pc \in {"pays", "waits"} /\ fin.at = "idle"
  /\ LET st == SetupState(vault[row.planned.seed], row.planned.keys) IN
     IF row.state = "signed" /\ st = "done"
     THEN /\ fin' = [at |-> "fund", page |-> p, seed |-> row.planned.seed, told |-> page[p].told]
          /\ UNCHANGED <<row, page>>
     ELSE IF row.state \in Resumable
     THEN /\ fin' = [NoFin EXCEPT !.at = "check", !.page = p]
          /\ row' = [row EXCEPT !.state = "connecting"]
          /\ UNCHANGED page
     ELSE /\ Set(p, IF row.state = "registered" THEN [page[p] EXCEPT !.pc = "ready"]
                    ELSE IF row.state = "signed" /\ st = "pending" THEN [page[p] EXCEPT !.pc = "waits"]
                    ELSE Closed(p))
          /\ UNCHANGED <<fin, row>>
  /\ UNCHANGED <<chain, wire, call, left, hist>>

\* funding, then store.py paid: the payment the page names, or one found among
\* the vault's, of a request that still waits for it.
PayFunding ==
  /\ fin.at = "fund"
  /\ IF (fin.told \/ paid[fin.seed] > 0) /\ row.state = "signed"
     THEN row' = [row EXCEPT !.state = "connecting"] /\ fin' = [fin EXCEPT !.at = "check"] /\ UNCHANGED page
     ELSE /\ fin' = NoFin
          /\ Answer(fin.page, IF row.state = "signed" THEN [page[fin.page] EXCEPT !.pc = "waits"] ELSE Closed(fin.page))
          /\ UNCHANGED row
  /\ UNCHANGED <<chain, wire, call, left, hist>>

\* A failure leaves the request stuck; the page may press Retry.
Stuck == row' = [row EXCEPT !.state = "stuck"] /\ fin' = NoFin

TableForgotten == FALSE   \* mutant: the saved table is not looked for
\* The table the request saved is on chain.
TableThere == row.table \in tables

\* finishVault: the planned vault is read again before the bot spends, then the
\* table planned: the one an earlier try saved if it is on chain, or a new one,
\* saved before it is sent (onLookup).
Finish ==
  /\ fin.at = "check"
  /\ IF row.sent THEN fin' = [fin EXCEPT !.at = "register"] /\ UNCHANGED row
     ELSE IF ~FinishAllowed(vault[row.planned.seed], row.planned.keys) THEN Stuck
     ELSE IF TableThere THEN fin' = [fin EXCEPT !.at = "made"] /\ UNCHANGED row
     ELSE /\ row.table < MaxTables
          /\ row' = [row EXCEPT !.table = @ + 1] /\ fin' = [fin EXCEPT !.at = "send"]
  /\ UNCHANGED <<chain, wire, call, page, left, hist>>

TableTx(n) == [NoTx EXCEPT !.kind = "table", !.n = n]

SendTable ==
  /\ fin.at = "send"
  /\ wire' = wire \cup {TableTx(row.table)}
  /\ fin' = [fin EXCEPT !.at = "sending"]
  /\ UNCHANGED <<chain, row, call, page, left, hist>>

\* sendUntilLanded: the chain is read at expiry.
TableDecided ==
  /\ fin.at = "sending" /\ TableTx(row.table) \notin wire
  /\ IF TableThere THEN fin' = [fin EXCEPT !.at = "made"] /\ UNCHANGED row ELSE Stuck
  /\ UNCHANGED <<chain, wire, call, page, left, hist>>

Connected ==
  /\ fin.at = "made"
  /\ row' = [row EXCEPT !.sent = TRUE] /\ fin' = [fin EXCEPT !.at = "register"]
  /\ UNCHANGED <<chain, wire, call, page, left, hist>>

\* store.py register: the vault's rows and the profile, in one transaction.
Register ==
  /\ fin.at = "register"
  /\ row' = [row EXCEPT !.state = "registered"] /\ fin' = NoFin
  /\ Answer(fin.page, [page[fin.page] EXCEPT !.pc = "ready"])
  /\ UNCHANGED <<chain, wire, call, left, hist>>

\* A store or a node fails: stuck, unless that cannot be written either.
FinishFails ==
  /\ fin.at \in {"check", "made", "register"}
  /\ Fault
  /\ fin' = NoFin /\ row' \in {row, [row EXCEPT !.state = "stuck"]}
  /\ UNCHANGED <<chain, wire, call, page, hist>>

\* Minutes of "not yet": the page stops, and the owner goes on from the start.
GiveUp(p) ==
  /\ page[p].pc = "waits"
  /\ Set(p, Closed(p))
  /\ UNCHANGED <<chain, wire, server, left, hist>>

Crash ==
  /\ Fault
  /\ call' = [p \in Keys |-> NoCall] /\ fin' = NoFin
  /\ page' = [p \in Keys |-> IF page[p].pc \in {"asks", "pays", "waits"} THEN Closed(p) ELSE page[p]]
  /\ torn' = torn + (IF fin.at = "sending" /\ TableTx(row.table) \in wire THEN 1 ELSE 0)
  /\ UNCHANGED <<chain, wire, row, lostPlan>>

----------------------------------------------------------------------------
(***************************************************************************)
(* The chain                                                               *)
(***************************************************************************)
Valid(t) ==
  LET v == vault[t.seed] IN
  CASE t.kind = "owner" ->
         IF t.create THEN t.seed = index + 1
         ELSE v.by = "owner" /\ t.off \subseteq v.signers /\ (t.on => t.page \notin v.signers)
    [] t.kind = "policy" -> t.page \in v.signers /\ v.made = t.n - 1 /\ sol[t.page] >= 2
    [] t.kind = "release" -> t.page \in v.signers /\ sol[t.page] >= t.amount
    [] OTHER -> TRUE

\* The vault and the set-up key after the transaction.
After(t) ==
  LET v == vault[t.seed] IN
  CASE t.kind = "owner" /\ t.create -> [by |-> "owner", signers |-> {t.page}, made |-> 0]
    [] t.kind = "owner" /\ ~t.create -> [v EXCEPT !.signers = (@ \ t.off) \cup (IF t.on THEN {t.page} ELSE {})]
    [] t.kind = "policy" -> [v EXCEPT !.made = @ + 1]
    [] t.kind = "release" -> [v EXCEPT !.signers = @ \ {t.page}]
    [] OTHER -> v

Spent(t) ==
  CASE t.kind = "owner" -> -t.amount
    [] t.kind = "policy" -> 1
    [] t.kind = "release" -> t.amount
    [] OTHER -> 0

\* What the page that waits for it will read of it.
Decided(t, fate) ==
  /\ wire' = wire \ {t}
  /\ page' = IF t.kind # "table" /\ page[t.page].pc = "sends" /\ page[t.page].tx = t
             THEN [page EXCEPT ![t.page].fate = fate] ELSE page

Land(t) ==
  /\ Valid(t)
  /\ Decided(t, "landed")
  /\ IF t.kind = "table"
     THEN tables' = tables \cup {t.n} /\ UNCHANGED <<index, vault, sol, paid>>
     ELSE /\ vault' = [vault EXCEPT ![t.seed] = After(t)]
          /\ sol' = [sol EXCEPT ![t.page] = @ - Spent(t)]
          /\ index' = IF t.create THEN t.seed ELSE index
          /\ paid' = IF t.kind = "fund" THEN [paid EXCEPT ![t.seed] = @ + 1] ELSE paid
          /\ UNCHANGED tables
  /\ UNCHANGED <<server, left, hist>>

\* Refused by the program, or its blockhash expired.
Die(t) ==
  /\ Valid(t) => Fault
  /\ ~Valid(t) => UNCHANGED left
  /\ Decided(t, "dead")
  /\ UNCHANGED <<chain, server, hist>>

\* Another account creates the next smart account.
TakeSeed ==
  /\ Fault /\ index < LastSeed - 1
  /\ index' = index + 1 /\ vault' = [vault EXCEPT ![index + 1].by = "other"]
  /\ UNCHANGED <<sol, paid, tables, wire, server, page, hist>>

\* The request expired and another owner signed for its name.
LoseName ==
  /\ Fault /\ row.state = "signed"
  /\ row' = [row EXCEPT !.state = "failed"]
  /\ UNCHANGED <<chain, wire, call, fin, page, hist>>

ServerStep(p) == MakePlan(p) \/ StorePlan(p)
PageStep(p) == Look(p) \/ Landed(p) \/ Failed(p)
PayStep == PayFunding \/ Finish \/ SendTable \/ TableDecided \/ Connected \/ Register
Decide(p) == \E t \in wire : t.page = p /\ (Land(t) \/ (~Valid(t) /\ Die(t)))

Next ==
  \/ \E p \in Keys : ServerStep(p) \/ PageStep(p) \/ Open(p) \/ HeldExpired(p) \/ Leave(p) \/ Pay(p) \/ GiveUp(p)
  \/ PayStep \/ FinishFails \/ Crash
  \/ \E t \in wire : Land(t) \/ Die(t)
  \/ TakeSeed \/ LoseName

Spec == Init /\ [][Next]_vars

\* The server answers, transactions are decided, and the owner comes back to
\* one page; what other pages do is theirs.
Fairness ==
  /\ \A p \in Keys : WF_vars(ServerStep(p)) /\ WF_vars(Decide(p))
  /\ WF_vars(PayStep)
  /\ WF_vars(Open(Keeps) \/ PageStep(Keeps) \/ Pay(Keeps)) /\ WF_vars(GiveUp(Keeps))

FairSpec == Spec /\ Fairness

(***************************************************************************)
(* Properties                                                              *)
(***************************************************************************)
\* Every rule on it, and its owner alone signs it.
OwnersAlone(v) == v = [by |-> "owner", signers |-> {}, made |-> Policies]

TypeOK ==
  /\ index \in 0..LastSeed /\ vault \in [Seeds -> Vault]
  /\ sol \in [Keys -> Nat] /\ paid \in [Seeds -> Nat] /\ tables \subseteq 1..MaxTables
  /\ \A t \in wire : t.seed \in 0..LastSeed /\ t.off \subseteq Keys /\ t.page \in Keys /\ (t.kind # "table" => t.seed # 0)
  /\ row.state \in {"none", "signed", "connecting", "stuck", "registered", "failed"}
  /\ row.planned \in Planned /\ row.table \in 0..MaxTables /\ row.sent \in BOOLEAN
  /\ \A p \in Keys : page[p].pc \in {"away", "asks", "looks", "sends", "pays", "waits", "ready"}
  /\ fin.at \in {"idle", "fund", "check", "send", "sending", "made", "register"}

\* What an honest server plans, the page accepts: the two read the set-up
\* alike from every state the chain and the pages can leave it in.
AnswerPassesPage ==
  \A p \in Keys : page[p].pc = "looks" => PageAccepts(Steps(page[p].it, Owner, p), Owner, p, page[p].it.seed)

\* "The bot spends nothing before": its table goes out, and the request is
\* registered, only for a vault with every rule that its owner alone signs,
\* and with the gas paid.  It stays so whatever the pages still send.
BotActsLast ==
  fin.at \in {"send", "sending", "made", "register"} \/ tables # {} \/ row.state = "registered" =>
    OwnersAlone(vault[row.planned.seed]) /\ \E s \in Seeds : paid[s] > 0

\* "A resume finishes it, never a second one": the bot pays one lookup table,
\* and another only where the server died with one in flight.
OneTable == Cardinality(tables) <= 1 + torn

\* "A deposit only ever reaches a vault whose policies exist", and that its
\* owner alone signs; where two answers at once undid one's plan (its set-up
\* key, or the seed it moved to), the vault may be given up with a funding for
\* it already signed.
FundsWhole == [][\A s \in Seeds : paid'[s] > paid[s] => OwnersAlone(vault[s]) \/ lostPlan]_vars

\* "Nothing is paid twice": no funding is sent on an answer that was read with
\* the vault's funding on chain.  (Two that are read before the first lands
\* may both land.)
NeverPaidAgain ==
  [][\A t \in wire' \ wire : t.kind = "fund" => (page[t.page].it.seen = 0 /\ page[t.page].it.seed = t.seed) \/ lostPlan]_vars

\* Once the other pages are left alone, the owner that comes back gets its
\* vault, or has lost the name.
Registers ==
  (<>[](\A p \in Keys \ {Keeps} : page[p].pc = "away")) =>
    <>(row.state \in {"registered", "failed"} \/ lostPlan)
=============================================================================
