---------------------------- MODULE WalletClaims ----------------------------
(***************************************************************************)
(* Several profiles, one process each, sign with one wallet (wallets.py,   *)
(* lp/signers.py, lp/capital.py).  For one mint they share, the profiles   *)
(* other than its holder own what their claim in the database says and the *)
(* holder owns the rest of the wallet.  A claim moves only by what the     *)
(* claimant's own transactions moved: every write runs under the wallet's  *)
(* advisory lock, is recorded as pending before it is sent, and is booked  *)
(* from two balance reads held to the slots they must not precede.         *)
(*                                                                         *)
(* The chain answers from endpoints that lag: a read returns the balance   *)
(* of any slot from `floor' to `head'.  A process may crash at any step;   *)
(* its session's end releases the lock, and the next process finds the     *)
(* pending write in the database.                                          *)
(***************************************************************************)
EXTENDS Sleeves, FiniteSets

CONSTANTS Profiles,     \* the profiles of the wallet
          Residual,     \* the one that holds the residual of the mint
          Amounts,      \* what one write may move, out (< 0) or in (> 0)
          Donations,    \* what an outside transfer may bring
          InitFunds,    \* what each profile owns at slot 0
          MaxWrites,    \* bound: transactions sent
          MaxSlot,      \* bound: slots (one per balance change)
          MayLose,      \* whether a signer may be cut off after its send, unanswered
          NoOne         \* the lock's holder when it is free

Claimers == Profiles \ {Residual}
Slots == 0 .. MaxSlot
Txs == 1 .. MaxWrites
NoTx == 0                               \* a pending write without signatures
NoWrite == [by |-> NoOne, before |-> 0, slot |-> 0, tx |-> NoTx]
Unsettled == -1                         \* the mark of a wallet with a pending write

ASSUME ProfilesAssumption == /\ IsFiniteSet(Profiles)
                             /\ Residual \in Profiles
                             /\ NoOne \notin Profiles
ASSUME AmountsAssumption == /\ Amounts \subseteq Int
                            /\ Donations \subseteq Nat
                            /\ InitFunds \in [Profiles -> Nat]
ASSUME BoundsAssumption == /\ MaxWrites \in Nat
                           /\ MaxSlot \in Nat
                           /\ MayLose \in BOOLEAN

VARIABLES
  \* the chain
  head,         \* its newest slot
  floor,        \* the oldest slot an endpoint still answers from
  bal,          \* bal[s]: the wallet's balance of the mint at slot s
  txs,          \* the transactions sent: who, how much, what became of them
  sent,         \* how many of them there are
  \* the database
  lock,         \* pg_advisory_lock of the wallet
  settled,      \* wallet_settle.slot
  pending,      \* wallet_settle.pending, NoWrite when null
  claims,       \* wallet_claims.amount
  overdrawn,    \* the overdraws reported (claim_overdraw events), summed
  aged,         \* PENDING_EXPIRE_S passed since the pending write's sent_at
  \* the processes
  pc,           \* where each one is
  view,         \* its last wallet() read
  job,          \* the write it sized on that read
  \* history, read by the properties alone
  own,          \* what each profile's own transactions left it
  outside,      \* outside[s]: the outside transfers up to slot s
  strays        \* what happened that the accounting does not cover

chain == <<head, floor, bal, txs, sent>>
database == <<settled, pending, claims, overdrawn, aged>>
history == <<own, outside, strays>>
vars == <<chain, lock, database, pc, view, job, history>>

Larger(a, b) == IF a >= b THEN a ELSE b

-----------------------------------------------------------------------------
(* Reading the wallet: lp/capital.py wallet().                             *)

NoView == [mark |-> Unsettled, slot |-> 0, amount |-> 0, known |-> FALSE, fresh |-> FALSE]
NoJob == [delta |-> 0, tx |-> NoTx]

GoTo(p, from, to) == /\ pc[p] = from
                     /\ pc' = [pc EXCEPT ![p] = to]

\* Back to the poll: what the process held in memory is gone.
Forget(p) == /\ pc' = [pc EXCEPT ![p] = "idle"]
             /\ view' = [view EXCEPT ![p] = NoView]
             /\ job' = [job EXCEPT ![p] = NoJob]

\* The operators named after a slip (MarkIgnoresPending) are that slip, put in
\* place of the definition below them to see that a property notices.
\* settle_mark: the settled slot, or a mark no settled wallet has.
MarkIgnoresPending == settled
Mark == IF pending = NoWrite THEN settled ELSE Unsettled

MarkBefore(p) ==
  /\ GoTo(p, "idle", "marked")
  /\ view' = [view EXCEPT ![p].mark = Mark]
  /\ UNCHANGED <<chain, lock, database, job, history>>

\* The signer's 'balance' answer, from whichever endpoint served it.
ReadBalance(p) ==
  /\ GoTo(p, "marked", "read")
  /\ \E s \in floor .. head : view' = [view EXCEPT ![p].slot = s]
  /\ UNCHANGED <<chain, lock, database, job, history>>

\* sleeve_of: the profile's share of that balance under the claims of now.
ReadClaims(p) ==
  /\ GoTo(p, "read", "claimed")
  /\ view' = [view EXCEPT ![p].amount = Split(bal[view[p].slot], Residual, claims)[p]]
  /\ UNCHANGED <<chain, lock, database, job, history>>

\* unsettled_guard: a figure only when both marks agree and nothing is pending.
AgreesBefore(mark) == mark # Unsettled
Agrees(mark) == mark = Mark /\ mark # Unsettled
MarkAfter(p) ==
  /\ GoTo(p, "claimed", "viewed")
  /\ view' = [view EXCEPT ![p].known = Agrees(view[p].mark),
                          ![p].fresh = view[p].slot >= view[p].mark,
                          ![p].mark = Unsettled]
  /\ UNCHANGED <<chain, lock, database, job, history>>

\* A move is sized on the read.  reopen, balance_wallet and deposit_caps take
\* its balances whether or not the guard withheld the dollar figure, and
\* nothing holds the balance read to the settled slot.
Trusted(p) == view[p].known /\ view[p].fresh
Size(p) ==
  /\ GoTo(p, "viewed", "waiting")
  /\ \E d \in Amounts :
       /\ view[p].amount + d >= 0
       /\ job' = [job EXCEPT ![p].delta = d]
  /\ view' = [view EXCEPT ![p] = NoView]
  /\ strays' = IF Trusted(p) THEN strays ELSE strays \cup {"unsettled sizing"}
  /\ UNCHANGED <<chain, lock, database, own, outside>>

Rest(p) ==
  /\ pc[p] = "viewed"
  /\ Forget(p)
  /\ UNCHANGED <<chain, lock, database, history>>

-----------------------------------------------------------------------------
(* Booking the pending write: lp/signers.py settle_pending.                *)

\* The slots wallets.write_slot may have said when the settling goes on: the
\* write's own, or none once PENDING_EXPIRE_S passed; a pending write that
\* names no signature asks nothing.
ReportedSlots ==
  IF pending.tx = NoTx THEN {0}
  ELSE (IF txs[pending.tx].state \in {"landed", "failed"} THEN {txs[pending.tx].slot} ELSE {})
       \cup (IF aged THEN {0} ELSE {})

\* The slot the after-read must not precede.
NeedIgnoresWrite(at) == Larger(pending.slot, settled)
Need(at) == Larger(Larger(pending.slot, settled), at)

\* wallets.book: claim, settled slot and the cleared pending, in one
\* transaction, at slot s; the overdraw it returns is reported.
BookAt(s) ==
  LET moved == bal[s] - pending.before
      claim == claims[pending.by]
  IN  /\ claims' = [claims EXCEPT ![pending.by] = ClaimAfter(claim, moved)]
      /\ overdrawn' = [overdrawn EXCEPT ![pending.by] = @ + ClaimAfter(claim, moved) - (claim + moved)]
      /\ settled' = Larger(settled, s)
      /\ strays' = IF outside[s] # outside[pending.slot] THEN strays \cup {"outside transfer"} ELSE strays

\* The holder's writes claim nothing: the settled slot alone moves on.
BookNothingStays(s) == UNCHANGED <<settled, claims, overdrawn, strays>>
BookNothing(s) ==
  /\ settled' = Larger(settled, s)
  /\ UNCHANGED <<claims, overdrawn, strays>>

Book ==
  /\ \E at \in ReportedSlots :
       IF pending.by = Residual THEN BookNothing(Need(at))
       ELSE \E s \in Larger(Need(at), floor) .. head : BookAt(s)
  /\ pending' = NoWrite
  /\ aged' = FALSE

-----------------------------------------------------------------------------
(* One write under the lock: lp/signers.py locked_chain.                   *)

Release(p) == lock' = IF lock = p THEN NoOne ELSE lock

TakeLock(p) ==
  /\ GoTo(p, "waiting", "locked")
  /\ lock = NoOne
  /\ lock' = p
  /\ UNCHANGED <<chain, database, view, job, history>>

\* LockTimeout: nothing is sent, the next poll tries again.
LockTimeout(p) ==
  /\ pc[p] = "waiting"
  /\ lock # NoOne
  /\ Forget(p)
  /\ UNCHANGED <<chain, lock, database, history>>

\* Nothing goes out while an earlier write of the wallet is unbooked.
SettleEarlierOrNot(p) ==
  /\ GoTo(p, "locked", "clear")
  /\ Book \/ UNCHANGED <<database, strays>>
  /\ UNCHANGED <<chain, lock, view, job, own, outside>>
SettleEarlier(p) ==
  /\ GoTo(p, "locked", "clear")
  /\ IF pending = NoWrite THEN UNCHANGED <<database, strays>> ELSE Book
  /\ UNCHANGED <<chain, lock, view, job, own, outside>>

\* The earlier write cannot be booked, or the mints or the balance before
\* cannot be read: refused, the lock released.
Refuse(p) ==
  /\ pc[p] \in {"locked", "clear"}
  /\ Forget(p)
  /\ Release(p)
  /\ UNCHANGED <<chain, database, history>>

\* The slots a before-read may have: at or past the settled slot.  A write of
\* the holder measures nothing and carries the settled slot itself.
BeforeSlotsAny(p) == IF p = Residual THEN {settled} ELSE floor .. head
BeforeSlots(p) == IF p = Residual THEN {settled} ELSE Larger(settled, floor) .. head

\* The write is recorded as pending before anything is sent.
Prepare(p) ==
  /\ GoTo(p, "clear", "prepared")
  /\ \E s \in BeforeSlots(p) :
       pending' = [by |-> p, before |-> IF p = Residual THEN 0 ELSE bal[s], slot |-> s, tx |-> NoTx]
  /\ UNCHANGED <<chain, lock, settled, claims, overdrawn, aged, view, job, history>>

\* The signer sends; what happens to the transaction is the chain's matter.
Send(p) ==
  /\ GoTo(p, "prepared", "sent")
  /\ sent < MaxWrites
  /\ sent' = sent + 1
  /\ txs' = [txs EXCEPT ![sent + 1] = [by |-> p, delta |-> job[p].delta, state |-> "flying", slot |-> 0]]
  /\ job' = [job EXCEPT ![p] = [delta |-> 0, tx |-> sent + 1]]
  /\ UNCHANGED <<head, floor, bal, lock, database, view, history>>

\* The signer refused or failed before a send: its answer names no signature.
SendNothing(p) ==
  /\ GoTo(p, "prepared", "returned")
  /\ UNCHANGED <<chain, lock, database, view, job, history>>

\* The signer's answer names its signatures, whatever became of them; they
\* are recorded on the pending write this process read before (job).
Return(p) ==
  /\ GoTo(p, "sent", "returned")
  /\ pending' = [pending EXCEPT !.tx = job[p].tx]
  /\ aged' = FALSE
  /\ job' = [job EXCEPT ![p] = NoJob]
  /\ UNCHANGED <<chain, lock, settled, claims, overdrawn, view, history>>

\* The signer timed out after its send: no answer, no signatures.
ReturnNothing(p) ==
  /\ GoTo(p, "sent", "returned")
  /\ MayLose
  /\ strays' = strays \cup {"lost signature"}
  /\ job' = [job EXCEPT ![p] = NoJob]
  /\ UNCHANGED <<chain, lock, database, view, own, outside>>

SettleOwn(p) ==
  /\ pc[p] = "returned"
  /\ Book
  /\ Forget(p)
  /\ Release(p)
  /\ UNCHANGED <<chain, own, outside>>

\* claim_unsettled: not measured in time; it stays pending.
LeavePending(p) ==
  /\ pc[p] = "returned"
  /\ Forget(p)
  /\ Release(p)
  /\ UNCHANGED <<chain, database, history>>

\* The process dies; its database session ends with it.
Crash(p) ==
  /\ pc[p] # "idle"
  /\ pc[p] = "sent" => MayLose
  /\ strays' = IF pc[p] = "sent" THEN strays \cup {"lost signature"} ELSE strays
  /\ Forget(p)
  /\ Release(p)
  /\ UNCHANGED <<chain, database, own, outside>>

-----------------------------------------------------------------------------
(* The chain, as the reads of src/ meet it.                                *)

\* A new slot whose balance is the last one's plus d; o of it from outside.
Advance(d, o) ==
  /\ head < MaxSlot
  /\ bal[head] + d >= 0
  /\ head' = head + 1
  /\ bal' = [bal EXCEPT ![head + 1] = bal[head] + d]
  /\ outside' = [outside EXCEPT ![head + 1] = outside[head] + o]

Land(i) ==
  /\ txs[i].state = "flying"
  /\ Advance(txs[i].delta, 0)
  /\ txs' = [txs EXCEPT ![i].state = "landed", ![i].slot = head + 1]
  /\ own' = [own EXCEPT ![txs[i].by] = @ + txs[i].delta]
  /\ strays' = IF own'[txs[i].by] < 0 THEN strays \cup {"overspent"} ELSE strays
  /\ UNCHANGED <<floor, sent, lock, database, pc, view, job>>

\* Landed with an error: its slot counts, nothing of the mint moves.
FailOnChain(i) ==
  /\ txs[i].state = "flying"
  /\ txs' = [txs EXCEPT ![i].state = "failed", ![i].slot = head]
  /\ UNCHANGED <<head, floor, bal, sent, lock, database, pc, view, job, history>>

\* Its blockhash expired (~90 s) and no endpoint will ever know it.
Expire(i) ==
  /\ txs[i].state = "flying"
  /\ txs' = [txs EXCEPT ![i].state = "dead"]
  /\ UNCHANGED <<head, floor, bal, sent, lock, database, pc, view, job, history>>

\* PENDING_EXPIRE_S (300 s) after the send.  The code looks at its clock alone,
\* and endpoints that lagged have moved on; a transaction still undecided, or
\* one an endpoint still does not know, outlived the wait.
Age ==
  /\ pending.tx # NoTx
  /\ ~aged
  /\ aged' = TRUE
  /\ \E s \in floor .. head :
       /\ floor' = s
       /\ strays' = IF txs[pending.tx].state = "flying" \/ txs[pending.tx].slot > s
                    THEN strays \cup {"outlived"} ELSE strays
  /\ UNCHANGED <<head, bal, txs, sent, lock, settled, pending, claims, overdrawn, pc, view, job, own, outside>>

\* Somebody outside the wallet's profiles sends it some of the mint: the
\* residual's (MULTI_DESIGN.md, a fresh deposit routes to its holder).
Donate(d) ==
  /\ Advance(d, d)
  /\ own' = [own EXCEPT ![Residual] = @ + d]
  /\ UNCHANGED <<floor, txs, sent, lock, database, pc, view, job, strays>>

-----------------------------------------------------------------------------

Init ==
  /\ head = 0 /\ floor = 0 /\ sent = 0 /\ settled = 0
  /\ bal = [s \in Slots |-> IF s = 0 THEN SumFunction(InitFunds) ELSE 0]
  /\ outside = [s \in Slots |-> 0]
  /\ txs = [i \in Txs |-> [by |-> NoOne, delta |-> 0, state |-> "unsent", slot |-> 0]]
  /\ lock = NoOne /\ pending = NoWrite /\ aged = FALSE
  /\ claims = [p \in Profiles |-> IF p = Residual THEN 0 ELSE InitFunds[p]]
  /\ pc = [p \in Profiles |-> "idle"]
  /\ view = [p \in Profiles |-> NoView]
  /\ job = [p \in Profiles |-> NoJob]
  /\ overdrawn = [p \in Profiles |-> 0]
  /\ own = InitFunds
  /\ strays = {}

Look(p) == MarkBefore(p) \/ ReadBalance(p) \/ ReadClaims(p) \/ MarkAfter(p)
Write(p) == \/ TakeLock(p) \/ LockTimeout(p) \/ SettleEarlier(p) \/ Refuse(p)
            \/ Prepare(p) \/ Send(p) \/ SendNothing(p) \/ Return(p) \/ ReturnNothing(p)
            \/ SettleOwn(p) \/ LeavePending(p)

Next ==
  \/ \E p \in Profiles : Look(p) \/ Size(p) \/ Rest(p) \/ Write(p) \/ Crash(p)
  \/ \E i \in Txs : Land(i) \/ FailOnChain(i) \/ Expire(i)
  \/ Age
  \/ \E d \in Donations : Donate(d)

Spec == Init /\ [][Next]_vars

-----------------------------------------------------------------------------
(* Properties                                                              *)

States == {"idle", "marked", "read", "claimed", "viewed", "waiting", "locked", "clear",
           "prepared", "sent", "returned"}

\* Every variable the chain and the database keep has its type; no claim is
\* ever below 0 (the floor of claim_after).
TypeOK ==
  /\ head \in Slots /\ floor \in 0 .. head /\ settled \in 0 .. head
  /\ bal \in [Slots -> Int] /\ outside \in [Slots -> Int]
  /\ txs \in [Txs -> [by : Profiles \cup {NoOne}, delta : Int,
                      state : {"unsent", "flying", "landed", "failed", "dead"}, slot : 0 .. head]]
  /\ sent \in 0 .. MaxWrites
  /\ lock \in Profiles \cup {NoOne}
  /\ pending \in [by : Profiles \cup {NoOne}, before : Int, slot : 0 .. head, tx : Txs \cup {NoTx}]
  /\ claims \in [Profiles -> Nat]
  /\ overdrawn \in [Profiles -> Int]
  /\ aged \in BOOLEAN
  /\ pc \in [Profiles -> States]
  /\ job \in [Profiles -> [delta : Int, tx : Txs \cup {NoTx}]]
  /\ own \in [Profiles -> Int]

\* The transaction of the pending write: its signature is on record, or its
\* process still waits for the signer's answer.
Outstanding ==
  IF pending.tx # NoTx THEN pending.tx
  ELSE IF pending.by \in Profiles /\ pc[pending.by] = "sent" THEN job[pending.by].tx ELSE NoTx

\* What the pending write moved of p, unbooked so far.
Landed(i) == i # NoTx /\ txs[i].state = "landed"
Unbooked(p) == IF pending.by = p /\ Landed(Outstanding) THEN txs[Outstanding].delta ELSE 0

\* No signature was lost, no transaction or endpoint outlived PENDING_EXPIRE_S,
\* and no outside transfer fell between the two reads of a write.
Accountable == strays \subseteq {"unsettled sizing", "overspent"}

\* A claim moves only by what the claimant's own transactions moved
\* (wallets.py:16): whatever the interleaving, lag or crash, each claim plus
\* the pending write's unbooked movement is what the profile's own
\* transactions left it, plus the overdraws that were reported.
Exact == \A p \in Claimers : claims[p] + Unbooked(p) = own[p] + overdrawn[p]
AttributionExact == Accountable => Exact

\* The same once a write is booked and nothing is in flight, of every crash
\* (settle_pending's comment: the difference is that write's, after a crash
\* too).
AlwaysExact ==
  pending = NoWrite /\ (\A i \in Txs : txs[i].state # "flying") /\ strays \cap {"outside transfer", "outlived"} = {}
    => Exact

\* Every write up to the settled slot is booked (wallets.settle_state), and
\* no read the settled slot admits can miss a booked one: the next write's
\* difference holds that write alone.
Low == Larger(settled, floor)
SettledDivides ==
  Accountable => \A i \in Txs : Landed(i) =>
    IF i = Outstanding THEN txs[i].slot > settled ELSE txs[i].slot <= Low

\* At most one transaction of the wallet is undecided, and it is the pending
\* write's (locked_chain: no other write goes out while one is unbooked), until
\* a signature is lost or a transaction outlives its pending write.
Traced == "lost signature" \notin strays /\ "outlived" \notin strays
OneInFlight ==
  Traced => \A i \in Txs : txs[i].state = "flying" => i = Outstanding

Solvent == \A p \in Profiles : own[p] >= 0

\* A dollar figure unsettled_guard lets through, on a balance not older than
\* the settled slot, is exactly the profile's own money: never another's,
\* never short of it, up to the outside transfers since; as long as no
\* profile ever spent beyond its own, which an overdrawn claim never shows
\* again.
Arrived(p) == IF p = Residual THEN outside[head] - outside[view[p].slot] ELSE 0
Covered == Accountable /\ "overspent" \notin strays
KnownViewExact ==
  Covered =>
    \A p \in Profiles :
      pc[p] = "viewed" /\ Trusted(p)
        => view[p].amount + Arrived(p) = own[p]

\* Nobody spends another profile's money, as long as every move is sized on
\* such a figure.
SpendsOwnMoney == strays \subseteq {"overspent"} => Solvent

\* As the documents say it: wallet() returns the sleeve view, so capital,
\* caps, deploy-all and the swap planner see only the profile's own money.
NeverSpendsAnothers == Accountable => Solvent

\* The wallet implements a ledger in which a write moves its own profile's
\* funds in one step (SleeveLedger).
Claimed == [p \in Claimers |-> claims[p] + Unbooked(p) - overdrawn[p]]
Funds == [p \in Profiles |-> IF p = Residual THEN bal[head] - SumFunction(Claimed) ELSE Claimed[p]]
Ledger == INSTANCE SleeveLedger WITH funds <- Funds
ImplementsLedger == Ledger!Init /\ [][Accountable' => [Ledger!Next]_(Ledger!vars)]_vars

-----------------------------------------------------------------------------
(* The inductive invariant behind AttributionExact.                        *)

Section == {"locked", "clear", "prepared", "sent", "returned"}

\* The lock's section holds one process, and the pending write in the
\* database is the one its step says.
SectionInv ==
  /\ \A p \in Profiles : lock = p <=> pc[p] \in Section
  /\ \A p \in Profiles : pc[p] = "clear" => pending = NoWrite
  /\ \A p \in Profiles : pc[p] \in {"prepared", "sent", "returned"} => pending.by = p
  /\ \A p \in Profiles : pc[p] \in {"prepared", "sent"} => pending.tx = NoTx
  /\ \A p \in Profiles : pc[p] = "sent" => job[p].tx \in 1 .. sent
  /\ pending.by = NoOne => pending = NoWrite
  /\ aged => pending.tx # NoTx

\* The pending write, its transaction and the slots between them.
PendingInv ==
  /\ Outstanding \in 0 .. sent
  /\ Outstanding # NoTx => txs[Outstanding].by = pending.by
  /\ \A i \in Txs : i > sent => txs[i].state = "unsent"
  /\ pending # NoWrite => settled <= pending.slot
  /\ pending.by \in Claimers => pending.before = bal[pending.slot]
  /\ pending.by \in Claimers /\ Landed(Outstanding) => txs[Outstanding].slot > pending.slot
  /\ aged /\ Traced => txs[pending.tx].state # "flying" /\ txs[pending.tx].slot <= floor

\* Outside transfers apart, the balance has one value over every slot a read
\* of the pending write, or of the next one, can have: but for the pending
\* write's own step.
Inside(s) == bal[s] - outside[s]
From == IF pending.by \in Claimers /\ pending.slot < Low THEN pending.slot ELSE Low
Step(s) == IF Landed(Outstanding) /\ s < txs[Outstanding].slot THEN txs[Outstanding].delta ELSE 0
LevelInv == \A s \in From .. head : Inside(s) + Step(s) = Inside(head)

\* What the accounting rests on: locked_chain's section, one transaction in
\* flight, and a balance the pending write alone moves.
ClaimsInv ==
  /\ SectionInv
  /\ PendingInv
  /\ OneInFlight
  /\ Accountable => LevelInv /\ Exact

-----------------------------------------------------------------------------
(* The inductive invariant behind the ledger and the guarded reads.        *)

\* What the claimers' own transactions left them, together.
Others == SumFunctionOnSet(own, Claimers)

\* From the sizing of a move to its send.
Sizing == {"waiting", "locked", "clear", "prepared"}

\* The wallet holds what its profiles own together, and every transaction
\* moves what its profile sized.
OwnInv ==
  /\ bal[head] = own[Residual] + Others
  /\ \A s \in 0 .. head : bal[s] >= 0 /\ outside[s] <= outside[head]
  /\ \A i \in Txs : txs[i].state = "flying" => txs[i].by \in Profiles /\ txs[i].delta \in Amounts
  /\ \A p \in Profiles : pc[p] \in Sizing => job[p].delta \in Amounts

\* Until somebody overspends, no claim is overdrawn, and every balance a read
\* may show covers what the claimers own, but for the step of a claimer's
\* landed write that is not booked yet.
OthersStep(s) == IF pending.by \in Claimers THEN Step(s) ELSE 0
CoverInv ==
  /\ Solvent
  /\ \A p \in Claimers : overdrawn[p] = 0
  /\ \A s \in Low .. head : bal[s] >= Others - OthersStep(s)

\* A read whose mark still stands, while no claimer's write landed unbooked:
\* its balance covers the claims, and what it shows is the profile's own.
Looking == {"marked", "read", "claimed"}
Stands(p) == /\ view[p].mark = settled
             /\ view[p].slot >= settled
             /\ ~(pending.by \in Claimers /\ Landed(Outstanding))
ViewInv(p) ==
  /\ pc[p] \in Looking /\ view[p].mark # Unsettled => view[p].mark <= settled /\ pending.by # p
  /\ pc[p] = "viewed" /\ Trusted(p) => pending.by # p
  /\ pc[p] \in {"read", "claimed"} /\ Stands(p) /\ Covered =>
       /\ bal[view[p].slot] >= Others
       /\ p = Residual => bal[view[p].slot] - Others + Arrived(p) = own[p]
  /\ pc[p] = "claimed" /\ Stands(p) /\ Covered => view[p].amount + Arrived(p) = own[p]
  /\ pc[p] = "viewed" /\ Trusted(p) /\ Covered => view[p].amount + Arrived(p) = own[p]

\* As long as every move is sized on a guarded read, what a profile is about
\* to send, or has in flight, leaves it with funds of its own.
SpendInv ==
  strays \subseteq {"overspent"} =>
    /\ strays = {}
    /\ \A p \in Profiles : pc[p] \in {"waiting", "locked"} => pending.by # p
    /\ \A p \in Profiles :
         pc[p] \in Sizing => own[p] + job[p].delta >= 0
    /\ \A i \in Txs : txs[i].state = "flying" => own[txs[i].by] + txs[i].delta >= 0

\* What wallet() and its callers rest on.
WalletInv ==
  /\ ClaimsInv
  /\ SettledDivides
  /\ OwnInv
  /\ Covered => CoverInv
  /\ \A p \in Profiles : ViewInv(p)
  /\ SpendInv
=============================================================================
