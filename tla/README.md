# A verification of the LP rebalancer

TLA+ models of the rebalancer's processes, of the programs that sign for them, of
the bridge that reports them and of the web service that sets vaults up, checked
with TLC, and theorems about them checked with TLAPS. Every definition translates
code of this repository; `PROJECT.json` maps each one to its lines.

## The system

One process per *profile* (`ops/lp-bot@.service`) keeps one concentrated
liquidity position on a DEX pool. Each poll it reads the position from the
chain, decides, and may close it, swap, and open another. Transactions are built
and sent by one Node program per venue (`venues/*/signer.mjs`), called as a
subprocess. A profile may trade a wallet of its own or an owner's *vault*: a Squads
smart account whose policies let the bot's key run certain instructions; the owner
sets it up and runs it from a web page (`onboard/web/`) served by
`onboard/server.mjs`, which holds no key. Beside them `telegram_bridge.mjs` tails the
profiles' event feeds. State is in these places:

| place | what | written by |
|---|---|---|
| the chain | positions, token balances; a vault's signers, policies and money | signers, the owner's wallet; anybody, for balances |
| the onboarding's store (`onboard/store.py`) | a request's row, the owner's exit | the server, a profile's process |
| the owner's page | the one-time set-up key, what it holds signed, the step of a flow | the page; gone when it is closed |
| `run/<profile>/events.jsonl`, the bridge's state file | rows; a cursor per feed | the processes; the bridge |
| PostgreSQL (`sql/`, `db.py`) | `config` (the venue a profile is on), `positions` (the ledger), `wallet_claims`, `wallet_settle`, breakers, statistics | every profile's process |
| `run/<profile>/runtime.json` (`lp/paths.py`) | failure counters, times of the moves, the reopen intent, pauses, amounts owed | the profile's process |
| files `HALT`, `MIGRATE`, `REBALANCE`, `CLOSE` | the operator's commands, and the loop's own HALT | operator, process |

### Inventory

| component | code | operations | what is hard | what makes it correct | here |
|---|---|---|---|---|---|
| shared wallet accounting | `wallets.py`, `lp/signers.py`, `lp/capital.py` | take the lock, settle, read, record as pending, send, record signatures, book; read a sleeve | several processes, lagging nodes, crashes between send and book, lost answers | a claim moves only by the claimant's own transactions; a profile sees only its own money | modelled, proved |
| poll loop and moves | `lp/loop.py`, `lp/moves.py`, `lp/regime.py`, `lp/board.py` | poll, rebalance, reopen, resume, fail over, repoint | transactions that land after an error, reads that lag or fail, crashes between any two writes | at most one position; the ledger follows the chain; moves stay in the day's budgets; capital returns | modelled, proved |
| pauses | `lp/pauses.py` | close and wait, resume | a crash between the close and its books | the close is booked and counted once | not modelled |
| harvest and payout | `lp/harvest.py`, `fees.py`, `lp/governor.py` | split fees, send, owe | a send that may have landed; a crash before the save | nothing is paid twice, nothing owed is forgotten | not modelled |
| swaps and idle money | `lp/swaps.py` | balance before an open, add, sweep, sell leftovers | retries of a swap that may have landed | a swap is made once; leftovers are sold | not modelled |
| breakers | `health.py`, `lp/signers.py` | count, trip, cool down, probe | read-modify-write by several processes | a tripped dependency is left alone, and tried again | not modelled |
| board and migration | `lp/board.py`, `scanner.py`, `lp/polls.py` | score pools and bands | data that is old | numeric; its choice is nondeterministic here | not modelled |
| request gate | `jupgate.py` | reserve a slot under a lock file | two processes and a stale lock | slots are spaced | not modelled |
| event feed, Telegram bridge | `lp/books.py`, `telegram_bridge.mjs` | append, move, rotate, cut; tail with cursors, save, send | a file replaced between two reads, a crash between the read, the save and the send | no row sent twice, none skipped, each at last handled unless the bridge's tick throws | modelled, proved |
| mints and holders | `wallets.py`, `lp/capital.py` | register mints, holder, sole owner | a mint becomes shared | the shares always partition the wallet | not modelled |
| database, audits, statistics | `db.py`, `audit.py`, `stats.py`, `sql/` | queries and reports | | its rows are variables of the models | not modelled |
| guards, configuration | `guards.py`, `config.py` | validate | | a refusal is an outcome of an action | not modelled |
| calm, regime, engine | `calm.py`, `engine.py`, `lp/tape.py`, ... | statistics of market data | floating point | | not modelled |
| venue signers, swappers, payout, janitor | `venues/*/signer.mjs`, `chains/solana/*.mjs`, `shared/` | read, build, simulate, sign, send, confirm, report | several endpoints, re-sends and rebuilds, an answer that breaks off, HALT | nothing is done twice, nothing retried while it may land, what may have landed is reported | modelled (control), proved |
| set-up of a vault | `onboard/server.mjs`, `onboard/decode_sol.mjs`, `onboard/web/`, `chains/solana/vault/` | plan what the chain lacks, check it in the page, sign and send the parts, fund, finish, register | two pages, transactions that land late, the server's crashes, a seed or a name taken | the money reaches only a whole vault, the bot pays last and once, the owner that comes back gets its vault | modelled, proved |
| life of a vault | `onboard/web/main.mjs`, `onboard/server.mjs`, `lp/loop.py`, `chains/solana/vault/policy.mjs` | add, withdraw, revoke, approve, start, the signed exit; the bot's polls, moves, its answer to an exit | a flow's steps run on a reading that is old, the bot and its owner on one vault, rules that grow | what the page tells the owner of a revoke and of an exit holds | modelled, proved |

### How they interact

The loop calls the signers through `lp/signers.py chain`. A write goes through
`locked_chain`: on a shared wallet it runs under a PostgreSQL advisory lock and
books what it moved to the profile's claim. The next sizing reads the wallet
through `lp/capital.py wallet`, which divides it by the claims of all profiles.
So `WalletClaims` is what happens inside one write as several profiles make
them, and `MoveLoop` is the sequence of writes of one profile; each takes the
other as nondeterminism (what a move wants to spend; whether a write was
refused, landed or not). `Signer` is what is inside one such call: what the
subprocess may answer, and what it may have sent when it does; the answers
`MoveLoop` and `WalletClaims` choose from are the ones `Signer` gives.

The page asks the server for transactions, checks what it gets against its own
reading of the rules (`decode_sol.mjs`) and has the wallet sign them; the two never
share state but the chain. The server's row and the bot's process meet in the
store: the exit is a row the server writes and the loop reads. `Onboard` composes
the page, the server and the chain over the two programs' functions in
`SetupPlan`; `VaultLife` composes the page's flows, the server's start, the bot and
the chain; `VaultSystem` puts the second after the first.

## The modules

| module | what it is |
|---|---|
| `Sleeves` | the pure functions of `wallets.py`: `ClaimAfter`, `Split` |
| `WalletClaims` | the writes and reads of the profiles of one wallet, for one mint |
| `SleeveLedger` | the abstract wallet: each profile has funds, a write moves its own |
| `MCWalletClaims` | instances for TLC |
| `WalletClaims_proofs` | sums over finite sets; the types; `ClaimsInv` is inductive; attribution; one write in flight |
| `WalletLedger_proofs` | `WalletInv` is inductive; the settled slot, the guarded read, the money spent; the wallet implements `SleeveLedger` |
| `MoveLoop` | one profile's loop, its crashes and restarts |
| `MCMoveLoop` | instances for TLC |
| `MoveLoop_proofs` | one position, the ledger, the counts, the budgets, the intent, its venue and when it may be stale; what strays without a crash |
| `SignerPrograms` | one record per command of the signers, and how each answers for a transaction that did not go through |
| `Signer`, `MCSigner` | one run of one command, beside the chain and the operator; all commands |
| `Signer_proofs` | the types and the six safety properties of the signers; a run goes on, what it may send, when a payout is owed though it landed |
| `FeedBridge`, `MCFeedBridge` | the bridge, the feeds' files, their writers and the operator |
| `FeedBridge_proofs` | rows sent once and in order, none passed over |
| `SetupPlan` | pure functions: what the server plans of a set-up, what the page accepts |
| `Onboard` | one request, from the form to the registered vault |
| `Onboard_proofs` | the tables the server made; the money reaches a whole vault, the bot last, paid once; the page accepts what the server plans |
| `VaultLife` | a registered vault, between its owner's flows and the bot |
| `VaultLife_proofs` | what the page told of a revoke and of an exit |
| `VaultSystem`, `MCOnboard` | the request and then the vault's life; the instance |
| `VaultSystem_proofs` | the composition implements its two parts, so their theorems are its own |

### WalletClaims

Time is the wallet's: a *slot* is one change of its balance of the mint, and
`bal[s]` the balance after the `s`th. A read returns the balance of any slot
from `floor` (the furthest a node still lags) to `head`; `measure` and
`settle_pending` reject reads before a slot they name, which is what the guards
`BeforeSlots` and `Need` say.

`locked_chain` is the actions `TakeLock`, `SettleEarlier`, `Prepare`, `Send`,
`Return`, `SettleOwn`, in that order, with its ways out: `LockTimeout`,
`Refuse`, `SendNothing` (the signer refused), `ReturnNothing` (the signer was
cut off after its send), `LeavePending` (not measured in time). `Book` is the
one database transaction of `wallets.book`. `Crash` may happen between any two;
the lock goes with the session. `Look` is `wallet()`: the mark, the balance, the
claims, the mark again, then `unsettled_guard`; `Size` is a move sized on it.

Amounts are integers. The pro-rata scaling of an overdraw rounds down where the
code keeps a float. One mint stands for each shared mint; the claims of two
mints touch only in sharing the lock and the slot. The writes of a profile that
shares nothing are the holder's (it measures nothing).

`own` is history: what each profile's own transactions, and outside transfers
for the holder, left it. `strays` records what happened that the accounting does
not cover: a signature lost between send and record, a transaction or an endpoint's
lag that outlived `PENDING_EXPIRE_S`, an outside transfer inside a claimer's write, a
move sized on a figure that `unsettled_guard` withheld or
that is older than the settled slot. Properties say which of these they exclude,
and the two that exclude the least are the runs that fail.

`Age` is the code's clock and nothing else: 300 s after the send `settle_pending` books
a write whose signature no node knows. A transaction still undecided then, or one a
node still does not show, is marked `outlived`. So it is checked that nothing unknown
is booked before, and assumed, where a property says `Traced` or `Accountable`, that a
blockhash (~90 s) and a node's lag end within the wait.

### MoveLoop

`pos` is the chain: every position, and the transaction in flight on it. The
process is at `pc`; `state` is the state file, which the code saves at every
step that changes it. `Unreadable`, `PollNone` and `PollHeld` are the three
answers of `read_status`. A close is `StartMove` (harvest, intent), `SendClose`,
`RetryClose`, then `CloseLanded` or `CloseFailed`, `BookClose`, `CountMove`; an
open `SendOpen`, `OpenLanded` or `OpenFailed`, `BookOpen`, `FinishOpen`. What a
signer answers is not a variable: an answer of success implies the transaction
landed, an error implies nothing, and the read that follows an error may show
what is there, lag, or fail; so `CloseFailed` and `OpenFailed` are always
possible and `CloseLanded` and `OpenLanded` need the chain's consent.

A transaction lands or expires at any time (`LandOpen`, `LandClose`, `Miss`),
but before the next poll: the sleep between two polls (`POLL_SECONDS`, minutes)
outlasts a blockhash (~90 s). A restart after a crash does not
(`RestartSec=60`), and `Start` marks a restart in flight.

Times are moves: `today` is the moves of the last 24 hours, `DayPasses` empties
it, and a calm or normal budget is the set of moves recorded. Which move the
market calls for is a choice (`StartMove`, for every kind and target), and so
are a failover, the operator's `MIGRATE` and the board's pick with nothing held.

`strays` records what a crash or a late landing leaves out of the books by
design or by accident: a crash where no intent remembers the close, a landing
after the loop counted a failure, an intent dropped unbooked after a day, a
crash between the two records of a repointing, a failover that passed over an
intent.

### Signer

The 28 commands (`open`, `close`, `increase`, `harvest`, `close-empty`, swaps and
transfers, per venue and where they differ per kind of wallet) share a handful of control structures, so a
command is a record of `SignerPrograms`: what it may refuse before it connects,
while it reads and after the dry run; how it simulates; whether it looks for HALT
again; when it reads a blockhash; which errors it builds anew on, and how often; and
`SendAnswer`, one operator per sender of the code, which says what is printed and
thrown of a transaction that was refused, broke off, failed on chain, expired or
could not be read. `Signer` is the machine that runs one record: `Connect` (with
HALT), the reads, `DryRun`, `RefuseLate`, then per transaction `SendRefused`,
`SendCut` or `SendAccepted` and the wait of `awaitLanded` (`AwaitStatus`, the height,
`SearchHistory`), and around it `overEndpoints` (`Rotate`) and the rebuilds
(`Rebuild`). A transaction's fate is the chain's (`Settle`); a status read may lag, a
history read is taken to be consistent.

### FeedBridge

`tailAll` is `Tick` (list the feeds, hand over the cursors of vanished ones by inode)
and one `Read` per feed, each followed by `Save` and then the rows' sends (`SendRow`,
`SendFails`). `Start` is the process's start with `migrateState`. Positions are
counted in complete lines, a line still being written is `half`. `DeployMoves`,
`RotatedAway` and `CutShort` are what operators and scripts do to the files;
`SaveFails` and `Crash` may leave the state file unreadable (`torn`), because it is
not written atomically. `shadowed` and `lost` record rows the bridge cannot know of,
or had read when it died. `blank` holds the paths whose cursor in memory is undefined: a
listed feed without one that was gone when it was read. While such a path is gone and
another feed is new, a tick throws (`Throws`) before it changes anything, so `Tick` is
not enabled; the state file leaves such a key out, so a restart heals it.

### SetupPlan and Onboard

`SetupPlan` translates both sides. `SetupTxs` is `setupTxs` of
`chains/solana/vault/admin.mjs` with what it reads of the chain, `PlannedSeed` the
seed's choice, `SetupState` and `FinishAllowed` what the server asks before it goes
on; `Steps` writes an answer as the page decodes it, and `PageAccepts` is
`decodeSolSet`, part by part and as a whole. Lamports of a set-up key are counted in
units of a policy's rent and fee.

`Onboard` runs them. A page is named by its set-up key. `MakePlan` and `StorePlan`
are the two halves of `/api/intent` and `/api/setup`: between the read and the store
another page's answer may have stored its own (`lostPlan`). `Look` decodes the answer and sends
its first part; `Landed` goes on; `Pay`, `PayFunding`, `Finish`, `SendTable`,
`TableDecided`, `Connected` and `Register` are `/api/pay`. `Leave` is any failed call,
reload or closed tab (what was sent may still land, what was asked may still be
answered), `Crash` the server's, `TakeSeed` and `LoseName` other people.

### VaultLife and VaultSystem

A policy stands for a venue's: missing (a venue staged after the set-up), the bot's
with today's rules, the bot's with older ones, or the owner's. The page picks a flow
from what it reads (`Flows`), and runs its steps later: `Build` asks the server for
the transactions of a step, which it plans from the chain as it is then; `SendOne`
and `OneLanded` are `sendSet` and `signAll`; of the owner's own close only one
transaction is built at a time, by its index in a list the server makes again from the
positions left (`NextClose`); `Ask` and the two reads after it are the
signed exit and the wait for its answer. `StartAsked`, `ServiceStarts` and `Started`
are `/api/start`, three steps apart. The bot's `Poll` follows the loop: revoked, it
stops; an exit is read before it acts; on rules that are not today's it holds.
`CloseForOwner`, `ReadAgain`, `RequestDone` are `exit_for_owner`. `told` keeps what the
page told the owner and what since made it void.

`VaultSystem` starts the life where the request ends: registered, with the page still
in the step that funds and starts.

## The runs

| run | bounds | what it shows |
|---|---|---|
| `wallet_pair` | holder and one claimer, 2 writes of -1 or +1, 2 balance changes | every property of the accounting, and that the wallet implements `SleeveLedger` |
| `wallet_donated` | holder and two claimers, 1 write, outside transfers | outside transfers are the holder's in the claims, in what it sees and in the ledger |
| `wallet_lost` | as `wallet_pair` | **violated**: `AlwaysExact` |
| `wallet_stale` | as `wallet_pair`, no lost signatures | **violated**: `NeverSpendsAnothers` |
| `loop_moves` | 2 venues, 2 moves, 3 positions, 2 crashes, 1 day, 1 repointing; budgets 1 and 1; HALT after 2 failures or 2 unreadable polls | one position, ledger, budgets, and where the intent is |
| `loop_returns` | 1 move, 1 crash, fairness | the capital returns or the profile halts |
| `loop_stale_intent` | no crash, 2 moves | **violated**: `NoStaleReplay` |
| `loop_failover` | 1 crash, 1 move, 1 repointing | **violated**: `FailoverBooks` |
| `signers` | every command, up to 2 transactions each, 2 endpoints, HALT | an effect at most once; retried only when nothing can land; success means landed; what may have landed is named; a HALT stops every build; it ends |
| `payout_cut` | the two payouts | **violated**: `OwedMeansUnpaid` |
| `feed_bridge` | the legacy feed and the one it moves to, 2 rows, 2 faults, fairness | rows sent once and in order, none skipped, each row on disk at last handled unless a tick throws on an undefined cursor |
| `onboard` | 2 pages, 2 policies, 3 seeds, 4 tables; 3 faults, or 1 visit of a second page; then 2 flows and 1 fault, or 1 flow and 2 faults, on 2 venues; fairness of the request | the set-up is agreed between server and page, funded whole, the bot last and once, registered at last; then what the page told of a revoke and of an exit |

Why these bounds are enough to be interesting. Attribution goes wrong when a
second write measures what a first one did: two writes and the two slots they
make are the shortest history in which a before-read or an after-read can be on
the wrong side of another's write, and each mutant of the accounting is found
within them. A third profile adds a second claimer, which the pair cannot show
(`wallet_donated`). `Bounds` stops following a behaviour after a lost signature,
a write that outlived its wait or an outside transfer inside one, where most
properties claim nothing, and lets one profile read at a time. In the loop, two moves let the intent, the
counters and the budgets of the first meet the second; two crashes allow a crash
in the recovery from the first; three positions are the one held and two opens,
one more than the loop should ever have; `OneStray` does not follow a behaviour
past a second kind of uncovered event.

In `signers` two transactions are what it takes for a first one to land and a
second one to fail, which is where the senders differ; two endpoints let an attempt
follow another; the builds and tries are the code's own numbers. In `feed_bridge` a
row behind and a row ahead of a cursor, in two files, and two faults let a crash meet
a file that was replaced; `MaxFaults` counts both. In `onboard` two policies let a
set-up be half made, two pages let a second key find it so, three seeds let one be
taken and the next planned again; four tables are one
more than three faults can tear. The bounds named
`Budgets` (faults, visits of a second page) and `Spares` (faults, flows of the owner)
are sets of pairs, so that the run explores their best combinations without their
product: three faults on one page cover a crash in the retry of a failed part, one
visit without faults covers the two pages interleaved, and what goes wrong goes wrong
before the registration or after it. At most two fundings of one page are in flight.
In the life, two flows let a revoke meet an earlier flow's late transactions, or a
start a pending exit; a fault is a lost transaction, a crash, a failed read, a
closed page or a release whose rules grew.

Deadlock is checked in the loop's runs. In the others it is not: what a wallet, a
feed, a command or a page may do is bounded, and a system with nothing to do may do
nothing.

### Fairness

`loop_returns` assumes: the process takes steps while it is up; a transaction is
eventually decided (it lands, fails or its blockhash expires); systemd starts a
process that exited on failure (`Restart=on-failure`); and what keeps a poll
from opening (no price, no gas, a busy lock) does not do so at every poll for
ever: `SendOpen`, enabled again and again, is taken (strong fairness). The
last is an assumption about the world, not the scheduler. No fairness is assumed
of crashes, HALT, landing rather than failing, or reads succeeding.

`signers` assumes that the process runs on, that a transaction is decided, and that
the block height at last passes its last valid one (strong fairness of `HeightPassed`:
the wait looks again and again). Nothing makes a read succeed.

`feed_bridge` assumes only that the bridge takes steps: systemd starts it again
(`Restart=on-failure`), its loop has no way out, and a call to Telegram is answered
or times out. Nothing is asked of the writers or the operator.

`onboard` assumes that the server answers, that a transaction is decided (weakly, per
page: it lands, or dies because the chain refuses it), that a finish that runs goes
on, and that the owner comes back to one page and goes through it. A page that is
left alone, and every other page, may stop for ever; `Registers` supposes that the
others are at last left alone, since two owners' hands can undo each other's set-up
keys for as long as both press on.

### Disagreements found

1. `wallet_lost`: a crash, or a signer cut off at its timeout, between the send
   and the record of the signatures leaves a pending write without signatures,
   which `settle_pending` takes for one never sent and books at once; if its
   transaction then lands, no claim ever gets it. The docstring and
   `sql/021_profile_mints.sql` say a crash is covered.
2. `wallet_stale`: `unsettled_guard` withholds a dollar figure that the sizing of
   an open does not read; `MULTI_DESIGN.md` says the sizing sees only the
   profile's own money.
3. `loop_stale_intent`: an open that lands after it was counted as failed leaves
   its intent in the state file; a later move's failed reopen replays it. But for a
   crash nothing else does: `StaleOnlyIfMissed` is proved.
4. `loop_failover`: `venue_failover` runs before `resume_reopen` and its open
   removes the intent, so a close that landed before a crash is never booked. Without
   a crash (and with no landing after a failure was counted) the ledger is right after
   every failover: `FailoverOnlyIfCrash` is proved.
5. `payout_cut`: a payout whose first send breaks off throws a plain error with no
   signature, though the node may have the transaction; the harvest owes the amount
   again and the next one pays it a second time. Nothing else does in the payout:
   `OwedOnlyIfCut` is proved.

### Departures the properties exempt

Met while modelling, and left to the properties' exceptions or the modules' guards
rather than to a run of their own.

Signers. A second transaction of a `pancakeswap_v3` close or harvest that fails is
thrown, and the whole command runs again without a report of the first
(`RetriedOnlyIfDead`; SIGNER_CONTRACT.md:121-126). Raydium throws on an unread status
without a report; Byreal reports a first send that broke off, Meteora a first
transaction it could not confirm, as not sent; Orca's `sendOnce` reports nothing and
its open does not check that the price is in the band (SIGNER_CONTRACT.md:86-88); the
janitor catches nothing between batches; a Meteora open built anew in place looks for
no HALT (`HaltStopsBuilds`). So `SignaturesReported` is about the programs that promise
it, `Reports`.

Bridge. A cursor follows a moved feed only if the old path vanished
(`telegram_bridge.mjs:97`); a feed without one that vanishes between the listing and
its first read leaves an undefined cursor (`:72`, `:107`), on which the next tick's search
for a new feed's inode throws (`:101`) before it drops the vanished path (`:104`), and
every later tick with it, until the path is back or the bridge starts again: against
`:33`, the new feed is not found at the next tick, and `Delivered` exempts it
(`Throws`); the state file is not written atomically, and an unreadable one sends
every feed again (`torn`); a feed grown to the old offset, or cut and grown past its
cursor, has rows skipped (`shadowed`); a failed save or a crash loses the rows read in
that tick (`lost`). Inodes are taken to be fresh.

Set-up. Two answers at once store the set-up keys and the seed each read, and the
later undoes the other's: a key is forgotten, or the seed put back (`server.mjs:318-332`,
`lostPlan`). Two fundings that were read before the
first landed both land, against "nothing is paid twice": `NeverPaidAgain` is what
remains true. A server that dies with the table in flight makes a second one, against
"never a second one" (`torn`). A name expires whatever the chain holds (`LoseName`).
SOL on an abandoned set-up key stays there. One vault per owner is checked apart from
the row's write.

Life. An owner who closes two positions himself signs the first; then the list built
again is shorter, index 1 is beyond it and is answered 400, and Retry closes the rest
(`main.mjs:582-593`, `server.mjs:474-482`). A withdrawal of everything counts as one
transaction here, whatever it takes. A start while the bot closes for an exit cancels the request and starts
nothing: the bot still stops. A start that is still in the server cancels an exit
asked for after it (`told` forgets in `Started`). No exit is read while the rules are
older or staged, nor when the read fails (`ExitUnread`). `botActive` asks every policy:
after a revoke that landed in part the page says revoked, offers no way to close, and
the bot acts on where it still may; `RevokedStays` is about a revoke whose every
transaction landed, and not about an approval sent before it that lands late. An
add or a withdrawal that was not seen to land in four minutes is built and sent again
by Retry, against `main.mjs:298-299`. A bot in the minute between two starts is not
reachable: the page closes the positions itself, and the bot may open again. After
its policies landed, a failed deposit of an approval leaves Retry with nothing to
approve.

## Proofs

TLAPS proves the theorems below for every value of the constants, under the
assumptions the modules name (`WalletClaims` and `MoveLoop`: naturals where the
configuration has them; `FeedBridgeAssumption`: the feeds have paths, two of them the
legacy feed's; `OnboardAssumption` and `SetupAssumption`; `SignerAssumption`;
`LifeAssumption` of `VaultSystem`, which `VaultLife_proofs` takes as the hypothesis
`Bounded`). Few of the properties are inductive; each proof rests on a stronger
invariant, checked by TLC first.

### The wallet

`WalletClaims_proofs` proves the types (`TypesHold`), `ClaimsHold`, `AttributionHolds`
and `OneInFlightHolds`. That a booked difference is the pending write's movement needs to
know which transaction the pending write is, and that nothing else moved the balance
between the two reads. `ClaimsInv` adds

- `SectionInv`: the lock's section holds one process, and the pending write is
  the one its step says;
- `PendingInv`: the pending write's transaction, its before-read, and the order
  of its slots;
- `OneInFlight`;
- `LevelInv`: outside transfers apart, the balance has one value over every slot
  a read of the pending or of the next write can have, but for the pending
  write's own step.

The step that matters is `BookKeeps`: `LevelInv` gives the difference booked,
`PendingInv` whose it is, and the floor of `ClaimAfter` goes to `overdrawn`.

`WalletLedger_proofs` goes from the claims to the money. `WalletHolds` is that
`WalletInv` holds, which `wallet_pair` checks; beside `ClaimsInv` it has

- `SettledDivides`: at the settled slot the split gives each profile its own;
- `OwnInv`: the wallet is what its profiles own together, and a transaction moves what
  its profile sized;
- `CoverInv`: until somebody spends more than its own, every balance a read may show
  covers the claimers' part, but for the step of a landed write that is not booked;
- `ViewInv`: a read whose settle mark still stands shows the profile's own, one step of
  `wallet()` after the other;
- `SpendInv`: what was sized on such a read leaves its profile with funds of its own,
  until it has landed.

So `SettledHolds`, `KnownViewHolds`, `SpendsHolds`, and `LedgerHolds`: every step of the
wallet is a write of one profile in `SleeveLedger`, or none. What profiles own together
is a sum over a finite set; that it changes by what one member changes is proved by
induction over its subsets, the least counterexample taken by the library's theorem on
strict subsets, which needs no operator for a parameter.

### The loop

`MoveLoop_proofs` proves, for any venues, limits and numbers of positions, moves,
crashes and days, the types (`LoopTypes`), `AtMostOne`, `IntentOnVenue`, `IntentTrue`,
`LedgerFollowsChain`, `MovesCounted` and `BudgetsHold`. The invariant, part by part:

- `OneInv`: what may be held is one position, on the venue the profile is on; the
  process opens where nothing is left (`PlaceFits`);
- `VenueInv`: the intent's venue is one step behind the configuration's;
- `StandInv`: an intent's position was opened, and is gone once the intent says so;
- `UsedInv`: no position, intent or count carries a number not yet given to a move;
- `HoldInv`, `TagInv`: what the process knows of the position it closes, and that the
  intent with the close's number is the close's intent;
- `RowsInv`, `CountInv`: a row or a count may be late in two places only, the step
  that owes it, or `Away`: nothing is held and an intent stands for it;
- `BudgetInv`: while a close may still land, the day has room for one more.

`AwayKeeps`, `CrashLeaves` and `LandLeaves` carry the argument about restarts: an
intent that owes books is lost to no step but the resume that books them, and a crash
or a late landing leaves one.

`StaleOnlyIfMissed` says what remains of `NoStaleReplay`, which `loop_stale_intent`
refutes: as long as the process never crashed and no open landed after it was given up,
the intent that is resumed is the last move's. Its invariant, `FreshInv`, is that in such a
behaviour every intent is the last move's, and that between two polls none is left beside
a position. That says who is to blame: without a crash, an intent outlives its move only
through an open that lands unseen. The crash is in the exemption because TLC needed it
there (one between the record of the intent and the send of the close leaves the position
open beside its intent); `FreshInv` was checked on 8.3 million states with a crash.

`OnlyLateLandings` bounds what the loop's properties exempt: without a crash `strays` holds
nothing but a transaction that landed after the process had counted it as failed. What
must be known for that is small (`UncrashedInv`): an intent whose close is not booked
exists only in the steps of its own move, so no step drops or passes over one, and a
process that stopped for HALT has nothing in flight. With `LedgerFollowsChain` it gives
`FailoverOnlyIfCrash`. TLC checked `UncrashedInv` on 415 339 states (2 moves, 1 day,
1 repointing).

### The signers

`Signer_proofs` proves `TypeOK`, `EffectOnce`, `RetriedOnlyIfDead`, `DoneMeansLanded`,
`SignaturesReported`, `NeverMeansNever` and `HaltStopsBuilds` for every set of commands
and any numbers of transactions and endpoints. First, what each command's record and
each sender's answer promise (`ProgramsSound`, `AnswersSound`), one lemma per venue and
sender; then `SignerInv`, by step:

- `BuiltInv`, `SendInv`: what is no longer to do has landed, and of a build only what is
  known to have landed and the one waited for may land;
- `RetryInv`: an error that is retried leaves nothing that may land;
- `ReportInv`: what may have landed is in the report already;
- `HaltInv`: after a HALT was read the run only ends;
- `OnceInv`: at most one build of a transaction has landed or may.

Three more theorems are of no run's property. `GoesOnward`, an action property, is what
can be proved of `Terminates`: no step of a run goes back. The builds, the attempts of a
build, the steps of an attempt and what is left to send are taken in order (`Onward`), and
each of these has an end (`TypeOK`), so that only the wait for a transaction, which looks
at its status and at the height in turn (`Polls`), could last; that it does not is the
fairness that `signers` assumes. `SendsBounded`: a command sends at most each of its items
once in every attempt of every build, `prog.builds * Attempts * size`; `BoundInv` has the
count at each step, where the wait for a transaction owes the one it has already sent.
`OwedOnlyIfCut`: a payout that fails and names no signature has a landed transfer only
where the answer to the send never came, which is the only cause of what `payout_cut`
shows.

### The feed

`FeedBridge_proofs` proves, for any sequence of feeds, any rows and any faults, the types
(`FeedTypes`), `SentOnceInOrder` (`OnceInOrderHolds`) and `NothingSkipped`
(`SkippedHolds`), from `FeedInv`:

- `Apart`: two paths have two files, and a row is in its own file, in order;
- `BridgeShape`: what the bridge holds at each step of a tick;
- `Cursored`: of each set of cursors that the bridge or the state file holds, no two are
  of one file, each is of the file at its path or waits to be handed over, and what lies
  behind one was sent, lost, shadowed or is in the queue;
- `Unsent`: what a cursor, or no cursor, leaves to be read comes after what was sent of
  its file. `torn` excuses this part only.

The cursor that waits to be handed over is the part that was missing at first: without it
the invariant allows a moved file whose cursor cannot follow it. `FeedInv` was checked
by TLC on two feeds (2 rows, 3 faults, 3.6 million states).

### The request of a vault

`Onboard_proofs` proves `OneTable`, from `TableInv`: each table but the row's, and the
row's own once no finish waits for it, is one the server died with in flight. And from
`OnboardInv` the types, `BotActsLast` (`BotLastHolds`), `FundsWhole` (`FundsHold`) and
`NeverPaidAgain` (`PaidOnceHolds`):

- `VaultsInOrder`, `TxsSafe`: what a vault can be, and that no transaction that may still
  land takes the last key off a vault without all its rules, whichever land first;
- `PagesSafe`, `PagesPaid`: the same of what a page holds signed, and of the answer it
  checks; a page that says it paid did;
- `BotPaid`: the bot spends only after the money and on a whole vault;
- `Kept`: the row knows every set-up key, the vault the owner has is the planned one, and
  a funding in flight is of a whole vault. This holds until a stored plan undoes another,
  `lostPlan`, which the properties of the money exempt.

What is planned and what is accepted come in as lemmas about `SetupPlan`: of every state
of a vault, the plan's parts are safe in the order the page sends them.
TLC checked `OnboardInv` on 10 million states.

`AnswerPassesPage` (`AnswersPass`) is that the two programs agree: `setupTxs` plans and
`decodeSolSet` reads, with nothing shared. `PlanPasses` states it of one answer: for any
vault the chain can leave, any number of policies, any set-up keys left on it and whatever
the page's key holds, the page accepts the steps. The steps are a sequence of seven parts,
each there or not, one as long as the set of keys to take off and one as long as what is
missing of the rules. `PlanShape` is what every answer is; it fixes where each part ends
and so what step `i` is (`StepIs`), and each check of the page is then a fact about
positions. The SOL fed to the key is a fold over the steps: that a fold over one that is
zero but at one place is its value there is proved by a least counterexample, without
induction over the sequence. `AnswerInv` carries the shape from the plan to the page that
decodes it, through the store; it needs each vault's signers to be finite, which is
proved and not assumed. TLC checked it on 756 057 states.

### The life of a vault

`VaultLife_proofs` proves, for finite sets of venues, `TypeOK`, `RevokedStays` and
`StaysClosed`. `ExitInv`: once asked and until a start, the exit is pending or the bot
is off. `RevokeInv`: while a revoke runs that met no approval in flight, every policy
that names the bot has its transaction left in the list. `VaultSystem_proofs` proves that
the composition behaves as `VaultLife` (`SystemLives`) and as `Onboard` (`SystemOnboards`),
so the theorems of both are the system's: `SystemTypes`, `SystemRequests` (with what the
page accepts), `SystemRevoked` and `SystemClosed` state them of the system that `onboard`
checks.

### What the proofs corrected

- `KnownViewExact` was stated until a signature is lost or a transfer falls inside a write.
  It needs more: once a profile spends more than its own, its claim stays overdrawn and
  every later read is wrong; `Covered` says so.
- A stale answer to `/api/setup`, stored after a newer one, puts the old seed back, and not
  only forgets a set-up key: `Kept` failed on it, TLC found the run with one fault and one
  visit, and the history variable became `lostPlan`.
- `IntentTrue` held in `loop_moves` because `OneStray` follows one kind of uncovered event.
  Where two restarts with a transaction in flight leave two positions, a calm move to
  another venue closes one and marks the other's intent; TLC finds it without that bound.
  The property now has the exception of `AtMostOne`, and was checked on every behaviour
  without such a restart before it was proved (7.3 million states).
- Two conditions of `migrateState` overlapped as they were written; they are the code's
  `if` and `else` now.

### Only model-checked

Liveness: `CapitalReturns`, `Terminates`, `Delivered` and `Registers` follow from fairness,
which is out of TLAPS's reach (it has no rule for WF and SF, nor for ENABLED); every
invariant and every action property of the passing runs is a theorem. The five properties
that runs violate are refuted, not proved, on the instance of each; `StaleOnlyIfMissed`,
`FailoverOnlyIfCrash` and `OwedOnlyIfCut` are what holds instead of three of them, and `AttributionHolds` and
`SpendsHolds` of the two of the wallet.

## Not modelled

Left out because the part is numeric, a query, or text:

- scoring, bands, calm, regime and engine (`lp/board.py`, `scanner.py`, `calm.py`,
  `engine.py`, `lp/tape.py`): floating point over market data; the models take every
  choice they could make;
- database reports, audits, statistics (`db.py`, `audit.py`, `stats.py`): they read;
- guards and configuration: a refusal is an outcome of an action;
- what the instructions of a transaction are, their packing, and the decoder's check of
  a single transaction; the gate's limits; messages' text; operations' scripts.

Left out though it has state of its own, so that nothing here speaks of it:

- the pauses (`lp/pauses.py`), the owner's exit inside the loop (`lp/loop.py`; the life
  of the vault has it from the owner's side) and a profile that is disabled or dormant;
- the harvest's split and what is owed (`lp/harvest.py`, `fees.py`): `payout_cut` shows
  what the payout's answer may make it do;
- swaps and idle money, with their retries (`lp/swaps.py`);
- the breakers' shared row (`health.py`) and the lock file of `jupgate.py`: both are
  read-modify-write by several processes, and are listed under the hazards;
- how a mint becomes shared and how its holder changes (`lp/capital.py`).

## Plan

The order in which the modules were written is the order of what an error costs: the
wallet's accounting, the loop, the signers, the vault, the feed. What is left, in that
order: the payout's ledger composed with `Signer` (what is owed across a crash between
a send and the save); the pauses and the owner's exit as actions of `MoveLoop`; mints and
holders over several `WalletClaims`; the breaker's row and the gate's file, each with the
processes that race on it. Worth proving next: the loop's invariants for the actions that
the pauses will add; and, for the composition of the payout with its ledger, that nothing
is paid twice but for what `OwedOnlyIfCut` excuses.
