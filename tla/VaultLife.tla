----------------------------- MODULE VaultLife -----------------------------
(***************************************************************************)
(* A registered vault, between its owner and the bot.  The owner's page    *)
(* runs flows (more capital, a withdrawal, a revoke, an approval), each a  *)
(* list of steps; the bot polls, acts under the policies that name it, and *)
(* answers the exit its owner asked for; both move the same vault, and     *)
(* what they sent may land late or never.                                  *)
(*                                                                         *)
(* A policy stands for a venue's: it is missing (staged), names the bot    *)
(* with today's rules or older ones, or names the owner.                   *)
(***************************************************************************)
EXTENDS Naturals, SequencesExt

CONSTANTS
  Venues,      \* the venues of the bot's rules
  Staged,      \* those added after the vault was registered
  Spares       \* bounds: how much goes wrong, and how many flows the owner runs

VARIABLES
  policy, pos, idle,  \* the chain: each venue's policy, the venues with a position, money next to them
  txs,                \* transactions sent and not decided
  home, bot,          \* the profile's venue; the bot's process
  exit,               \* the newest exit asked for
  tab,                \* the owner's page: the steps of its flow
  start,              \* an /api/start in the server
  spare,              \* of the bounds
  told                \* history: what the page told the owner, and still should hold

money == <<policy, pos, idle>>
lifeVars == <<money, txs, home, bot, exit, tab, start, spare, told>>

Tx(kind, v) == [kind |-> kind, at |-> v]
View == [at |-> "view", todo |-> <<>>, list |-> <<>>, index |-> 0, asked |-> FALSE]
Bot(at, id) == [at |-> at, id |-> id]

\* The set-up carried the deposit, and its page goes on.
Init ==
  /\ policy = [v \in Venues |-> IF v \in Staged THEN "none" ELSE "bot"]
  /\ pos = {} /\ idle = TRUE /\ txs = {}
  /\ home \in Venues \ Staged /\ bot = Bot("off", 0)
  /\ exit = [id |-> 0, state |-> "none"]
  /\ start = "never"
  /\ spare \in Spares
  /\ tab = IF spare.flows = 0 THEN View ELSE [View EXCEPT !.at = "step", !.todo = <<"fund", "start">>]
  /\ told = [asked |-> FALSE, closed |-> FALSE, revoked |-> FALSE, late |-> FALSE]

Fault == spare.faults > 0 /\ spare' = [spare EXCEPT !.faults = @ - 1]

----------------------------------------------------------------------------
(***************************************************************************)
(* What the page reads of the vault (status, viewOf)                       *)
(***************************************************************************)
Reachable == bot.at \notin {"off", "down"}
Names(v) == policy[v] \in {"bot", "old"}
\* Every policy there is names the bot; a staged one says nothing.
BotActive ==
  LET present == {v \in Venues : policy[v] # "none"} IN present # {} /\ \A v \in present : Names(v)
RulesCurrent == \A v \in Venues : policy[v] \notin {"none", "old"}
HasDeposit == idle

\* The steps that empty the bot's positions into the vault.
CloseSteps == IF pos = {} THEN <<>> ELSE IF Reachable THEN <<"ask">> ELSE <<"own">>
OwnCloseSteps == IF pos = {} THEN <<>> ELSE <<"own">>

\* The flows the page offers: of a vault the bot is revoked on, only more
\* capital with the rules back; of an empty one never started, its set-up's end.
Flows ==
  IF ~BotActive THEN {<<"regrant", "start">>}
  ELSE IF start = "never" /\ ~HasDeposit /\ pos = {} THEN {<<"fund", "start">>}
  ELSE {<<"add", "start">>, <<"part">>, CloseSteps \o <<"all">>}
       \cup (IF RulesCurrent THEN {} ELSE {<<"approve", "start">>})
       \cup (IF pos = {} THEN {} ELSE {CloseSteps \o <<"part", "start">>})
       \cup {(IF pos # {} /\ Reachable THEN CloseSteps \o <<"revoke">> ELSE <<"revoke">> \o OwnCloseSteps) \o <<"final">>}

----------------------------------------------------------------------------
(***************************************************************************)
(* The page                                                                *)
(***************************************************************************)
\* The vault read, and the flow its owner picks: its steps run later, on what
\* was read here.
OpenFlow ==
  /\ tab.at = "view" /\ spare.flows > 0
  /\ \E todo \in Flows : tab' = [View EXCEPT !.at = "step", !.todo = todo]
  /\ spare' = [spare EXCEPT !.flows = @ - 1]
  /\ UNCHANGED <<money, txs, home, bot, exit, start, told>>

StepDone(t) == IF Len(t.todo) = 1 THEN View ELSE [t EXCEPT !.at = "step", !.todo = Tail(@), !.list = <<>>]
StepFailed(t) == [t EXCEPT !.at = "failed", !.list = <<>>]

\* Revoked: the money kept in the vault, or withdrawn.
Final ==
  /\ tab.at = "step" /\ Head(tab.todo) = "final"
  /\ tab' \in {View, [tab EXCEPT !.todo = <<"all">>]}
  /\ UNCHANGED <<money, txs, home, bot, exit, start, spare, told>>

\* exit-intent and exit: the signed request; one pending at a time.
Ask ==
  /\ tab.at = "step" /\ Head(tab.todo) = "ask"
  /\ tab' = [tab EXCEPT !.at = "waits", !.asked = TRUE]
  /\ IF tab.asked THEN UNCHANGED <<exit, told>>
     ELSE /\ exit' = IF exit.state = "pending" THEN exit ELSE [id |-> exit.id + 1, state |-> "pending"]
          /\ told' = [told EXCEPT !.asked = TRUE]
  /\ UNCHANGED <<money, txs, home, bot, start, spare>>

\* The vault's positions are read, then the service and the exit's row.
ReadPositions ==
  /\ tab.at = "waits" /\ Head(tab.todo) \in {"ask", "own"} /\ pos = {}
  /\ tab' = IF Head(tab.todo) = "own" THEN StepDone(tab) ELSE [tab EXCEPT !.at = "saw"]
  /\ UNCHANGED <<money, txs, home, bot, exit, start, spare, told>>

ReadAnyAnswer == TRUE   \* mutant: no position is answer enough
\* The bot says it closed, or it does not run.
ReadAnswer == exit.state # "pending" \/ ~Reachable

WaitEnds ==
  /\ tab.at = "saw"
  /\ IF ReadAnswer
     THEN tab' = StepDone(tab) /\ told' = [told EXCEPT !.closed = told.asked]
     ELSE tab' = [tab EXCEPT !.at = "waits"] /\ UNCHANGED told
  /\ UNCHANGED <<money, txs, home, bot, exit, start, spare>>

\* Minutes without the answer.
WaitFails ==
  /\ tab.at = "waits"
  /\ tab' = StepFailed(tab)
  /\ UNCHANGED <<money, txs, home, bot, exit, start, spare, told>>

\* mutant: a revoke of the bot's venue only
RulesChangedHome(signer) == {v \in Venues : policy[v] # signer /\ (signer = "owner" => v = home)}
\* rulesRequest: the policies that do not hold what they should; a revoke
\* leaves a missing one missing.
RulesChanged(signer) == {v \in Venues : policy[v] # signer /\ (signer = "owner" => policy[v] # "none")}
\* approvePlan: in the order of their seeds, those of the set-up first.
InSeedOrder(vs) == SetToSeq(vs \ Staged) \o SetToSeq(vs \cap Staged)
RulesTxs(signer) ==
  LET order == InSeedOrder(RulesChanged(signer)) IN
  [i \in 1..Len(order) |-> Tx(IF signer = "owner" THEN "revoke" ELSE "approve", order[i])]

Deposit == Tx("deposit", home)
\* Every venue's positions; none to close is no transaction.
CloseTxs == SetToSeq({Tx("close", v) : v \in pos})
\* Of a vault that holds nothing there is nothing to withdraw.
WithdrawTxs(kind) == IF idle THEN <<Tx(kind, home)>> ELSE <<>>

\* The server's transactions of a step (tx, ownerTxs); none is an error.
Built(step) ==
  CASE step = "revoke" -> RulesTxs("owner")
    [] step = "approve" -> RulesTxs("bot")
    [] step = "regrant" -> IF RulesTxs("bot") = <<>> THEN <<>> ELSE Append(RulesTxs("bot"), Deposit)
    [] step = "add" -> <<Deposit>>
    [] step = "fund" -> IF HasDeposit \/ pos # {} THEN <<>> ELSE <<Deposit>>
    [] step = "own" -> CloseTxs
    [] OTHER -> WithdrawTxs(step)

\* The transactions an answer still has from this index on.
Signs(list, i) == [tab EXCEPT !.at = "signs", !.list = list, !.index = i]

\* Built, decoded and checked; then signed.  Nothing to close, or to fund, is
\* done already.
Build ==
  /\ tab.at = "step" /\ Head(tab.todo) \notin {"ask", "start", "final"}
  /\ LET list == Built(Head(tab.todo)) IN
     tab' = IF list # <<>> THEN Signs(list, 0)
            ELSE IF Head(tab.todo) \in {"own", "fund"} THEN StepDone(tab) ELSE StepFailed(tab)
  /\ told' = IF Head(tab.todo) = "revoke" THEN [told EXCEPT !.late = \E t \in txs : t.kind = "approve"] ELSE told
  /\ UNCHANGED <<money, txs, home, bot, exit, start, spare>>

\* Every next transaction of a close is asked for when its turn comes, and is
\* that index of the closes of the positions left by then: none there is an
\* error.
NextClose ==
  LET i == tab.index + 1 IN
  IF i < Len(CloseTxs) THEN Signs(SubSeq(CloseTxs, i + 1, Len(CloseTxs)), i) ELSE StepFailed(tab)

\* sendSet, signAll: one after the other, each after the one before landed; a
\* set's transactions are those of its one answer.
SendOne ==
  /\ tab.at = "signs"
  /\ txs' = txs \cup {Head(tab.list)}
  /\ tab' = [tab EXCEPT !.at = "sends"]
  /\ told' = IF Head(tab.list).kind = "approve" THEN [told EXCEPT !.revoked = FALSE] ELSE told
  /\ UNCHANGED <<money, home, bot, exit, start, spare>>

\* landed: the next one, or the step is done (a close waits for its positions).
OneLanded ==
  /\ tab.at = "landed"
  /\ LET last == Len(tab.list) = 1 IN
     /\ tab' = IF Head(tab.todo) = "own"
               THEN IF last THEN [tab EXCEPT !.at = "waits", !.list = <<>>] ELSE NextClose
               ELSE IF last THEN StepDone(tab) ELSE [tab EXCEPT !.at = "signs", !.list = Tail(@)]
     /\ told' = IF last /\ Head(tab.todo) = "revoke" THEN [told EXCEPT !.revoked = ~told.late] ELSE told
  /\ UNCHANGED <<money, txs, home, bot, exit, start, spare>>

\* Retry, or "Close it myself now" (of a revoke: revoke first), or back.
AfterFailure ==
  /\ tab.at = "failed"
  /\ \/ tab' = [tab EXCEPT !.at = "step"]
     \/ /\ Head(tab.todo) = "ask"
        /\ tab' = [tab EXCEPT !.at = "step", !.todo = IF Contains(@, "revoke") THEN <<"revoke", "own", "final">> ELSE <<"own">> \o Tail(@)]
     \/ tab' = View
  /\ UNCHANGED <<money, txs, home, bot, exit, start, spare, told>>

\* The page closed, or out of patience, in any step.
LeavePage ==
  /\ tab.at \notin {"view", "failed"}
  /\ Fault
  /\ tab' \in {View, StepFailed(tab)}
  /\ UNCHANGED <<money, txs, home, bot, exit, start, told>>

----------------------------------------------------------------------------
(***************************************************************************)
(* /api/start                                                              *)
(***************************************************************************)
\* The vault holds something and every policy names the bot.
StartAsked ==
  /\ tab.at = "step" /\ Head(tab.todo) = "start" /\ start \in {"never", "done"}
  /\ IF (HasDeposit \/ pos # {}) /\ BotActive
     THEN start' = "checked" /\ tab' = [tab EXCEPT !.at = "starts"]
     ELSE tab' = StepFailed(tab) /\ UNCHANGED start
  /\ UNCHANGED <<money, txs, home, bot, exit, spare, told>>

\* systemctl enable --now: nothing for a service that runs.
ServiceStarts ==
  /\ start = "checked"
  /\ start' = "running"
  /\ bot' = IF Reachable THEN bot ELSE Bot("poll", 0)
  /\ told' = [told EXCEPT !.asked = FALSE, !.closed = FALSE]
  /\ UNCHANGED <<money, txs, home, exit, tab, spare>>

\* store.py started: an exit asked for before is over.
Started ==
  /\ start = "running"
  /\ start' = "done"
  /\ exit' = IF exit.state = "pending" THEN [exit EXCEPT !.state = "cancelled"] ELSE exit
  /\ tab' = IF tab.at = "starts" THEN StepDone(tab) ELSE tab
  /\ told' = [told EXCEPT !.asked = FALSE, !.closed = FALSE]
  /\ UNCHANGED <<money, txs, home, bot, spare>>

----------------------------------------------------------------------------
(***************************************************************************)
(* The bot                                                                 *)
(***************************************************************************)
\* A signer acts only where the policy is exactly its rules (verifyPolicy).
Acts(v) == policy[v] = "bot"

\* A poll: revoked, it stops; the exit is read before it acts; else (staged or
\* older rules) it holds.
Poll ==
  /\ bot.at = "poll"
  /\ \/ policy[home] = "owner" /\ bot' = Bot("leaves", 0)
     \/ Acts(home) /\ bot' = IF exit.state = "pending" THEN Bot("exits", exit.id) ELSE Bot("acts", 0)
  /\ UNCHANGED <<money, txs, home, exit, tab, start, spare, told>>

\* owner_exit: "a read that fails is no request".
ExitUnread ==
  /\ bot.at = "poll" /\ Acts(home) /\ exit.state = "pending"
  /\ Fault
  /\ bot' = Bot("acts", 0)
  /\ told' = [told EXCEPT !.asked = FALSE, !.closed = FALSE]
  /\ UNCHANGED <<money, txs, home, exit, tab, start>>

\* stop_revoked: an exit it finds is over, and the process ends.
StopRevoked ==
  /\ bot.at = "leaves"
  /\ exit' = IF exit.state = "pending" THEN [exit EXCEPT !.state = "revoked"] ELSE exit
  /\ bot' = Bot("off", 0)
  /\ UNCHANGED <<money, txs, home, tab, start, spare, told>>

\* exit_for_owner: the close, the vault read again, the request done, the end.
CloseForOwner ==
  /\ bot.at = "exits"
  /\ IF home \notin pos THEN bot' = Bot("marks", bot.id) /\ UNCHANGED txs
     ELSE IF Acts(home) THEN bot' = Bot("closes", bot.id) /\ txs' = txs \cup {Tx("shut", home)}
     ELSE bot' = Bot("poll", 0) /\ UNCHANGED txs
  /\ UNCHANGED <<money, home, exit, tab, start, spare, told>>

ReadAgain ==
  /\ bot.at = "closes" /\ Tx("shut", home) \notin txs
  /\ bot' = IF Acts(home) /\ home \notin pos THEN Bot("marks", bot.id) ELSE Bot("poll", 0)
  /\ UNCHANGED <<money, txs, home, exit, tab, start, spare, told>>

RequestDone ==
  /\ bot.at = "marks"
  /\ exit' = IF exit.id = bot.id /\ exit.state = "pending" THEN [exit EXCEPT !.state = "closed"] ELSE exit
  /\ bot' = Bot("off", 0)
  /\ UNCHANGED <<money, txs, home, tab, start, spare, told>>

\* Nothing to do, or a move's close, or an open.
Act ==
  /\ bot.at = "acts"
  /\ \/ bot' = Bot("poll", 0) /\ UNCHANGED txs
     \/ Acts(home) /\ home \in pos /\ bot' = Bot("moves", 0) /\ txs' = txs \cup {Tx("shut", home)}
     \/ Acts(home) /\ home \notin pos /\ idle /\ bot' = Bot("opens", 0) /\ txs' = txs \cup {Tx("open", home)}
  /\ UNCHANGED <<money, home, exit, tab, start, spare, told>>

\* A move's close landed: the open, on a venue whose policies are in place.
Reopen ==
  /\ bot.at = "moves" /\ Tx("shut", home) \notin txs
  /\ \/ /\ home \notin pos
        /\ \E v \in {u \in Venues : Acts(u)} : home' = v /\ txs' = txs \cup {Tx("open", v)}
        /\ bot' = Bot("opens", 0)
     \/ bot' = Bot("poll", 0) /\ UNCHANGED <<home, txs>>
  /\ UNCHANGED <<money, exit, tab, start, spare, told>>

OpenDecided ==
  /\ bot.at = "opens" /\ Tx("open", home) \notin txs
  /\ bot' = Bot("poll", 0)
  /\ UNCHANGED <<money, txs, home, exit, tab, start, spare, told>>

\* The process dies; systemd starts it again.
BotCrash ==
  /\ Reachable /\ Fault
  /\ bot' = Bot("down", 0)
  /\ UNCHANGED <<money, txs, home, exit, tab, start, told>>

Restart ==
  /\ bot.at = "down"
  /\ bot' = Bot("poll", 0)
  /\ UNCHANGED <<money, txs, home, exit, tab, start, spare, told>>

----------------------------------------------------------------------------
(***************************************************************************)
(* The chain                                                               *)
(***************************************************************************)
\* The bot's transactions need a policy that names it; all, what they move.
Valid(t) ==
  CASE t.kind = "shut" -> Names(t.at) /\ t.at \in pos
    [] t.kind = "close" -> t.at \in pos
    [] t.kind = "open" -> Names(t.at) /\ idle
    [] t.kind \in {"part", "all"} -> idle
    [] OTHER -> TRUE

Decided(t, fate) ==
  /\ txs' = txs \ {t}
  /\ tab' = IF tab.at = "sends" /\ Head(tab.list) = t THEN (IF fate THEN [tab EXCEPT !.at = "landed"] ELSE StepFailed(tab)) ELSE tab

Land(t) ==
  /\ Valid(t)
  /\ Decided(t, TRUE)
  /\ policy' = CASE t.kind = "revoke" -> [policy EXCEPT ![t.at] = "owner"]
                 [] t.kind = "approve" -> [policy EXCEPT ![t.at] = "bot"]
                 [] OTHER -> policy
  /\ pos' = IF t.kind = "open" THEN pos \cup {t.at} ELSE IF t.kind \in {"shut", "close"} THEN pos \ {t.at} ELSE pos
  /\ idle' = IF t.kind = "all" THEN FALSE ELSE (idle \/ t.kind \in {"shut", "close", "deposit"})
  /\ UNCHANGED <<home, bot, exit, start, spare, told>>

\* Refused, or its blockhash expired.
Die(t) ==
  /\ Valid(t) => Fault
  /\ ~Valid(t) => UNCHANGED spare
  /\ Decided(t, FALSE)
  /\ UNCHANGED <<money, home, bot, exit, start, told>>

\* A release whose rules grew.
RulesGrow ==
  /\ Fault /\ \E v \in Venues : policy[v] = "bot"
  /\ policy' = [v \in Venues |-> IF policy[v] = "bot" THEN "old" ELSE policy[v]]
  /\ UNCHANGED <<pos, idle, txs, home, bot, exit, tab, start, told>>

Next ==
  \/ OpenFlow \/ Final \/ Ask \/ ReadPositions \/ WaitEnds \/ WaitFails \/ Build \/ SendOne \/ OneLanded \/ AfterFailure \/ LeavePage
  \/ StartAsked \/ ServiceStarts \/ Started
  \/ Poll \/ ExitUnread \/ StopRevoked \/ CloseForOwner \/ ReadAgain \/ RequestDone
  \/ Act \/ Reopen \/ OpenDecided \/ BotCrash \/ Restart
  \/ \E t \in txs : Land(t) \/ Die(t)
  \/ RulesGrow

Spec == Init /\ [][Next]_lifeVars

(***************************************************************************)
(* Properties                                                              *)
(***************************************************************************)
TypeOK ==
  /\ policy \in [Venues -> {"none", "bot", "old", "owner"}] /\ pos \subseteq Venues /\ idle \in BOOLEAN
  /\ \A t \in txs : t.at \in Venues
  /\ home \in Venues /\ bot.at \in {"off", "down", "poll", "leaves", "exits", "closes", "marks", "acts", "moves", "opens"}
  /\ exit.id \in Nat /\ exit.state \in {"none", "pending", "closed", "revoked", "cancelled"}
  /\ tab.at \in {"view", "step", "waits", "saw", "signs", "sends", "landed", "starts", "failed"}
  /\ start \in {"never", "checked", "running", "done"} /\ told \in [DOMAIN told -> BOOLEAN]

\* "The bot can no longer act on your vault": once the page says so, no policy
\* of any venue names the bot until its owner approves again; where an
\* approval sent before was still in flight, the page says it too soon.
RevokedStays == told.revoked => \A v \in Venues : ~Names(v)

\* "Closed into your vault; the bot stopped": once the page says so, the bot
\* sends no open until its owner starts it again, whatever it was doing when
\* asked and however it stopped; a read of the request that fails is the
\* exception the loop makes.
StaysClosed == [][\A t \in txs' \ txs : t.kind = "open" => ~told.closed]_lifeVars
=============================================================================
