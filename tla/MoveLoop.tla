------------------------------ MODULE MoveLoop ------------------------------
(***************************************************************************)
(* One profile's process: the poll loop (lp/loop.py main), the rebalance   *)
(* that closes a position and opens the next one (lp/moves.py), the reopen *)
(* intent that survives a restart (lp/regime.py resume_reopen) and the     *)
(* moves to another venue (lp/board.py).  The state file is written at     *)
(* every step that changes it, so one variable stands for the process's    *)
(* copy and the file; the ledger is the positions table.                   *)
(*                                                                         *)
(* A write that answers with an error may still have landed, or land       *)
(* later; the read that follows it may lag, or fail.  The process may      *)
(* crash between any two steps and is started again.                       *)
(***************************************************************************)
EXTENDS Integers, FiniteSets

CONSTANTS Venues,                 \* the pools a profile may be pointed at
          Home,                   \* the one its configuration starts with
          Nowhere,                \* no venue
          MaxRebalances,          \* max_rebalances_per_day
          MaxCalm,                \* calm_max_moves_per_day
          MaxFailures,            \* max_consecutive_failures
          MaxUnreadable,          \* max_unreadable_polls
          MaxIds,                 \* bound: positions
          MaxMoves,               \* bound: moves the market or the operator asks for
          MaxCrashes,             \* bound: crashes
          MaxDays,                \* bound: days that pass
          MaxRepoints             \* bound: moves to another venue with nothing held

Ids == 1 .. MaxIds
Moves == 1 .. MaxMoves
NoId == 0
NoIntent == [id |-> NoId, venue |-> Nowhere, move |-> 0, closed |-> FALSE]
NoJob == [id |-> NoId, move |-> 0, calm |-> FALSE, target |-> Nowhere, tries |-> 0, next |-> "none"]

ASSUME VenuesAssumption == Home \in Venues /\ Nowhere \notin Venues
ASSUME LimitsAssumption == /\ MaxRebalances \in Nat /\ MaxCalm \in Nat
                           /\ MaxFailures \in Nat \ {0} /\ MaxUnreadable \in Nat \ {0}
                           /\ MaxIds \in Nat /\ MaxMoves \in Nat /\ MaxCrashes \in Nat
                           /\ MaxDays \in Nat /\ MaxRepoints \in Nat

VARIABLES
  pos,          \* the chain: every position, and the transaction in flight on it
  at,           \* the database: the venue of the profile's configuration
  ledger,       \* the database: the row of each position
  state,        \* run/<profile>/runtime.json
  halt,         \* the HALT file
  pc, job,      \* where the process is, and the move it is making
  moves, today, \* the moves made so far, and those of the last 24 hours
  crashes, days, repoints,
  \* history, read by the properties alone
  closes,       \* the moves whose close landed
  strays        \* what happened that the books do not cover

vars == <<pos, at, ledger, state, halt, pc, job, moves, today, crashes, days, repoints, closes, strays>>
counters == <<moves, today, crashes, days, repoints>>
history == <<closes, strays>>

OnChain(i) == pos[i].st \in {"open", "closing"}
InFlight(i) == pos[i].st \in {"opening", "closing"}
Shown == {i \in Ids : OnChain(i) /\ pos[i].venue = at}      \* what a status read of `at' finds
Stray(cause, happened) == strays' = IF happened THEN strays \cup {cause} ELSE strays

\* The intent of a close that landed and is not booked yet: resume_reopen
\* books it.
Resumable ==
  /\ state.pending # NoIntent /\ ~state.pending.closed
  /\ pos[state.pending.id].st = "closed"

\* A counter of failures in a row: past its limit nothing more reads it.
OneMore(n, limit) == IF n < limit THEN n + 1 ELSE limit

GoTo(from, to) == pc = from /\ pc' = to
\* time.sleep at the end of a poll; the move in hand is over.
EndPoll == pc' = "asleep" /\ job' = NoJob

-----------------------------------------------------------------------------
(* The poll: lp/loop.py main.                                              *)

\* The sleep between two polls outlasts a transaction's blockhash.
Wake ==
  /\ GoTo("asleep", "poll")
  /\ \A i \in Ids : ~InFlight(i)
  /\ UNCHANGED <<pos, at, ledger, state, halt, job, counters, history>>

\* A HALT ends the process; it is not started again before the file is gone.
StopForHalt ==
  /\ GoTo("poll", "down")
  /\ halt
  /\ UNCHANGED <<pos, at, ledger, state, halt, job, counters, history>>

Unreadable ==
  /\ pc = "poll" /\ ~halt
  /\ state' = [state EXCEPT !.unread = OneMore(@, MaxUnreadable)]
  /\ halt' = (state'.unread >= MaxUnreadable)
  /\ EndPoll
  /\ UNCHANGED <<pos, at, ledger, counters, history>>

\* Only a read that succeeds and reports nothing may lead to an open.
FoundNothingOrUnread == TRUE
FoundNothing == Shown = {}

PollNone ==
  /\ GoTo("poll", "none") /\ ~halt
  /\ FoundNothing
  /\ state' = [state EXCEPT !.unread = 0]
  /\ UNCHANGED <<pos, at, ledger, halt, job, counters, history>>

PollHeld ==
  /\ GoTo("poll", "held") /\ ~halt
  /\ \E i \in Shown : job' = [NoJob EXCEPT !.id = i]
  /\ state' = [state EXCEPT !.unread = 0]
  /\ UNCHANGED <<pos, at, ledger, halt, counters, history>>

\* Nothing to do, or a move deferred by its gap.
Stay ==
  /\ pc = "held"
  /\ EndPoll
  /\ UNCHANGED <<pos, at, ledger, state, halt, counters, history>>

-----------------------------------------------------------------------------
(* Closing: lp/moves.py rebalance.                                         *)

Recent(times) == Cardinality(times \cap today)
CeilingOfBoth(calm) == Recent(state.normal) + Recent(state.calm) >= MaxRebalances + MaxCalm
AtCeiling(calm) ==
  \/ Recent(state.normal) + Recent(state.calm) >= MaxRebalances + MaxCalm
  \/ ~calm /\ Recent(state.normal) >= MaxRebalances

RefuseMove(calm) ==
  /\ pc = "held"
  /\ AtCeiling(calm)
  /\ halt' = TRUE
  /\ EndPoll
  /\ UNCHANGED <<pos, at, ledger, state, counters, history>>

\* The harvest goes first; then a calm move that stays on its venue leaves a
\* reopen intent, in the state file before the close goes out.
StartMove(calm, target) ==
  /\ GoTo("held", "close")
  /\ moves < MaxMoves
  /\ ~AtCeiling(calm)
  /\ moves' = moves + 1
  /\ today' = today \cup {moves + 1}
  /\ job' = [job EXCEPT !.move = moves + 1, !.calm = calm, !.target = target]
  /\ state' = IF calm /\ target = Nowhere
              THEN [state EXCEPT !.pending = [id |-> job.id, venue |-> at, move |-> moves + 1, closed |-> FALSE]]
              ELSE state
  /\ UNCHANGED <<pos, at, ledger, halt, crashes, days, repoints, history>>

\* A refused write (HALT, a paused mint, the wallet's lock): nothing is sent.
CloseRefused ==
  /\ pc = "close"
  /\ state' = [state EXCEPT !.pending = NoIntent]
  /\ EndPoll
  /\ UNCHANGED <<pos, at, ledger, halt, counters, history>>

\* The signer is called; it may fail before anything is sent.
CallClose(i) ==
  \/ pos' = pos
  \/ pos[i].st = "open" /\ pos' = [pos EXCEPT ![i].st = "closing", ![i].move = job.move]

SendClose ==
  /\ GoTo("close", "closing")
  /\ ~halt
  /\ CallClose(job.id)
  /\ job' = [job EXCEPT !.tries = 1]
  /\ UNCHANGED <<at, ledger, state, halt, counters, history>>

\* A transport error, and a read that shows the position: once more.
RetryClose ==
  /\ pc = "closing" /\ job.tries = 1
  /\ ~halt
  /\ CallClose(job.id)
  /\ job' = [job EXCEPT !.tries = 2]
  /\ UNCHANGED <<at, ledger, state, halt, pc, counters, history>>

\* The signer says it closed, or an error came back and a read finds the
\* position gone.
CloseBelieved == TRUE
CloseSeen == pos[job.id].st = "closed"

CloseLanded ==
  /\ GoTo("closing", "closed")
  /\ CloseSeen
  /\ UNCHANGED <<pos, at, ledger, state, halt, job, counters, history>>

\* An error, and the read that follows shows the position, lags or fails:
\* the intent is dropped, the failure counted.
CloseFailed ==
  /\ GoTo("closing", "failed")
  /\ state' = [state EXCEPT !.pending = NoIntent, !.failures = OneMore(@, MaxFailures)]
  /\ Stray("close missed", pos[job.id].st = "closed")
  /\ UNCHANGED <<pos, at, ledger, halt, job, counters, closes>>

BookClose ==
  /\ GoTo("closed", "booked")
  /\ ledger' = [ledger EXCEPT ![job.id] = IF @ = "none" THEN @ ELSE "closed"]
  /\ UNCHANGED <<pos, at, state, halt, job, counters, history>>

CountNormalOnly == [state EXCEPT !.normal = IF job.calm THEN @ ELSE @ \cup {job.move}]
Counted ==
  IF job.calm
  THEN [state EXCEPT !.calm = @ \cup {job.move}, !.pending.closed = state.pending # NoIntent]
  ELSE [state EXCEPT !.normal = @ \cup {job.move}]

CountMove ==
  /\ pc = "booked"
  /\ state' = Counted
  /\ pc' = IF job.target = Nowhere THEN "reopen" ELSE "repoint"
  /\ job' = [job EXCEPT !.next = "reopen"]
  /\ UNCHANGED <<pos, at, ledger, halt, counters, history>>

-----------------------------------------------------------------------------
(* Another venue: lp/board.py repoint, repoint_with_leftovers and          *)
(* venue_failover.  The configuration moves first, then the intent.        *)

Repoint ==
  /\ GoTo("repoint", "repointed")
  /\ at' = job.target
  /\ UNCHANGED <<pos, ledger, state, halt, job, counters, history>>

IntentStays == state
IntentFollows == IF state.pending = NoIntent THEN state ELSE [state EXCEPT !.pending.venue = at]

MoveIntent ==
  /\ GoTo("repointed", job.next)
  /\ state' = IntentFollows
  /\ Stray("intent passed over", job.next = "reopen" /\ Resumable)
  /\ UNCHANGED <<pos, at, ledger, halt, job, counters, closes>>

\* With nothing held: the operator's MIGRATE (the poll goes on) or a tripped
\* venue's failover (it reopens there).
MoveEmptyAimless(v, next) ==
  /\ GoTo("none", "repoint")
  /\ repoints < MaxRepoints
  /\ v # at
  /\ job' = [NoJob EXCEPT !.next = next]
  /\ repoints' = repoints + 1
  /\ UNCHANGED <<pos, at, ledger, state, halt, moves, today, crashes, days, history>>
MoveEmpty(v, next) ==
  /\ GoTo("none", "repoint")
  /\ repoints < MaxRepoints
  /\ v # at
  /\ job' = [NoJob EXCEPT !.target = v, !.next = next]
  /\ repoints' = repoints + 1
  /\ UNCHANGED <<pos, at, ledger, state, halt, moves, today, crashes, days, history>>
FailOver(v) == MoveEmpty(v, "reopen")
OperatorMoves(v) == MoveEmpty(v, "none")

-----------------------------------------------------------------------------
(* Nothing is held: lp/regime.py resume_reopen, then the board's pick.     *)

Old == state.pending.move \notin today
Elsewhere == state.pending.venue # at

\* No intent: reopen here, or on the board's pick.
PickPool ==
  /\ pc = "none"
  /\ state.pending = NoIntent
  /\ \/ pc' = "reopen" /\ UNCHANGED <<job, repoints>>
     \/ \E v \in Venues \ {at} :
          /\ repoints < MaxRepoints
          /\ repoints' = repoints + 1
          /\ pc' = "repoint"
          /\ job' = [NoJob EXCEPT !.target = v, !.next = "reopen"]
  /\ UNCHANGED <<pos, at, ledger, state, halt, moves, today, crashes, days, history>>

DropOldIntent ==
  /\ pc = "none"
  /\ state.pending # NoIntent /\ Old
  /\ state' = [state EXCEPT !.pending = NoIntent]
  /\ Stray("intent dropped", ~state.pending.closed)
  /\ UNCHANGED <<pos, at, ledger, halt, pc, job, counters, closes>>

IntentElsewhere ==
  /\ pc = "none"
  /\ state.pending # NoIntent /\ ~Old /\ Elsewhere
  /\ halt' = TRUE
  /\ EndPoll
  /\ UNCHANGED <<pos, at, ledger, state, counters, history>>

\* A process stopped between the close and its record books both now.
ResumeForgetsRow == ledger
ResumedLedger ==
  [ledger EXCEPT ![state.pending.id] = IF state.pending.closed \/ @ = "none" THEN @ ELSE "closed"]
ResumedState ==
  [state EXCEPT !.calm = IF state.pending.closed THEN @ ELSE @ \cup {state.pending.move},
                !.pending.closed = TRUE]

ResumeReopen ==
  /\ GoTo("none", "reopen")
  /\ state.pending # NoIntent /\ ~Old /\ ~Elsewhere
  /\ ledger' = ResumedLedger
  /\ state' = ResumedState
  /\ UNCHANGED <<pos, at, halt, job, counters, history>>

-----------------------------------------------------------------------------
(* Opening: lp/moves.py reopen.                                            *)

\* No price, no read, no gas, too little to open, or the write refused:
\* nothing is opened at this poll.
OpenNothing ==
  /\ pc = "reopen"
  /\ EndPoll
  /\ UNCHANGED <<pos, at, ledger, state, halt, counters, history>>

\* guards.open_request refuses, or the swap before the open failed once sent
\* (balance_wallet): counted like a failed open.
OpenRefused ==
  /\ GoTo("reopen", "failed")
  /\ state' = [state EXCEPT !.failures = OneMore(@, MaxFailures)]
  /\ UNCHANGED <<pos, at, ledger, halt, job, counters, history>>

Unused == {i \in Ids : pos[i].st = "none"}
SendOpen ==
  /\ GoTo("reopen", "opening")
  /\ ~halt
  /\ \E i \in Unused :
       /\ \A j \in Unused : i <= j
       /\ \/ pos' = pos
          \/ pos' = [pos EXCEPT ![i].st = "opening", ![i].venue = at]
       /\ job' = [job EXCEPT !.id = i]
  /\ UNCHANGED <<at, ledger, state, halt, counters, history>>

\* The signer says it opened, or an error came back and a read finds a
\* position.
OpenLanded ==
  /\ GoTo("opening", "opened")
  /\ \E i \in Shown : job' = [job EXCEPT !.id = i]
  /\ state' = [state EXCEPT !.failures = 0]
  /\ UNCHANGED <<pos, at, ledger, halt, counters, history>>

OpenFailed ==
  /\ GoTo("opening", "failed")
  /\ state' = [state EXCEPT !.failures = OneMore(@, MaxFailures)]
  /\ Stray("open missed", pos[job.id].st = "open")
  /\ UNCHANGED <<pos, at, ledger, halt, job, counters, closes>>

BookOpen ==
  /\ GoTo("opened", "recorded")
  /\ ledger' = [ledger EXCEPT ![job.id] = "open"]
  /\ UNCHANGED <<pos, at, state, halt, job, counters, history>>

FinishOpen ==
  /\ pc = "recorded"
  /\ state' = [state EXCEPT !.pending = NoIntent]
  /\ EndPoll
  /\ UNCHANGED <<pos, at, ledger, halt, counters, history>>

\* The failure is in the state file; at max_consecutive_failures, HALT.
NeverTooMany == FALSE
TooMany == state.failures >= MaxFailures
HaltAtMax ==
  /\ pc = "failed"
  /\ halt' = (halt \/ TooMany)
  /\ EndPoll
  /\ UNCHANGED <<pos, at, ledger, state, counters, history>>

-----------------------------------------------------------------------------
(* Around the process: the chain, the operator, the service manager.       *)

Awaited(i) == pc \in {"opening", "closing"} /\ job.id = i

LandOpen(i) ==
  /\ pos[i].st = "opening"
  /\ pos' = [pos EXCEPT ![i].st = "open"]
  /\ Stray("open missed", ~Awaited(i))
  /\ UNCHANGED <<at, ledger, state, halt, pc, job, counters, closes>>

LandClose(i) ==
  /\ pos[i].st = "closing"
  /\ pos' = [pos EXCEPT ![i].st = "closed"]
  /\ closes' = closes \cup {pos[i].move}
  /\ Stray("close missed", ~Awaited(i) /\ state.pending.move # pos[i].move)
  /\ UNCHANGED <<at, ledger, state, halt, pc, job, counters>>

\* It failed on chain, or its blockhash expired.
Miss(i) ==
  /\ InFlight(i)
  /\ pos' = [pos EXCEPT ![i].st = IF @ = "opening" THEN "none" ELSE "open"]
  /\ UNCHANGED <<at, ledger, state, halt, pc, job, counters, history>>

\* What a crash leaves unbooked: an open from its send to its row; a close
\* from its send, unless an intent in the state file remembers it, to its
\* row and its count.
Unbooked ==
  \/ pc \in {"opening", "opened"}
  \/ pc \in {"closing", "closed"} /\ state.pending.move # job.move
  \/ pc = "booked" /\ state.pending.move # job.move
Crash ==
  /\ pc # "down"
  /\ crashes < MaxCrashes
  /\ crashes' = crashes + 1
  /\ pc' = "down"
  /\ job' = NoJob
  /\ strays' = strays \cup (IF Unbooked THEN {"crash"} ELSE {})
                      \cup (IF pc = "repointed" THEN {"crash at repoint"} ELSE {})
  /\ UNCHANGED <<pos, at, ledger, state, halt, moves, today, days, repoints, closes>>

\* systemd, RestartSec=60: within the ~90 s a transaction may still land in.
Start ==
  /\ GoTo("down", "poll")
  /\ ~halt
  /\ Stray("restarted in flight", \E i \in Ids : InFlight(i))
  /\ UNCHANGED <<pos, at, ledger, state, halt, job, counters, closes>>

OperatorHalts ==
  /\ ~halt
  /\ halt' = TRUE
  /\ UNCHANGED <<pos, at, ledger, state, pc, job, counters, history>>

OperatorClears ==
  /\ pc = "down" /\ halt
  /\ halt' = FALSE
  /\ UNCHANGED <<pos, at, ledger, state, pc, job, counters, history>>

\* A day passes while the process sleeps or is down.
DayPasses ==
  /\ pc \in {"asleep", "down"} /\ \A i \in Ids : ~InFlight(i)
  /\ days < MaxDays
  /\ days' = days + 1
  /\ today' = {}
  /\ UNCHANGED <<pos, at, ledger, state, halt, pc, job, moves, crashes, repoints, history>>

-----------------------------------------------------------------------------

Init ==
  /\ pos = [i \in Ids |-> [st |-> "none", venue |-> Nowhere, move |-> 0]]
  /\ at = Home
  /\ ledger = [i \in Ids |-> "none"]
  /\ state = [failures |-> 0, unread |-> 0, normal |-> {}, calm |-> {}, pending |-> NoIntent]
  /\ halt = FALSE
  /\ pc = "poll" /\ job = NoJob
  /\ moves = 0 /\ today = {} /\ crashes = 0 /\ days = 0 /\ repoints = 0
  /\ closes = {} /\ strays = {}

\* The moves the loop makes: on the venue it is on, or to another.
Targets == (Venues \cup {Nowhere}) \ {at}

Process ==
  \/ Wake \/ StopForHalt \/ Unreadable \/ PollNone \/ PollHeld \/ Stay
  \/ \E calm \in BOOLEAN : RefuseMove(calm) \/ \E target \in Targets : StartMove(calm, target)
  \/ CloseRefused \/ SendClose \/ RetryClose \/ CloseLanded \/ CloseFailed \/ BookClose \/ CountMove
  \/ Repoint \/ MoveIntent
  \/ \E v \in Venues : FailOver(v) \/ OperatorMoves(v)
  \/ PickPool \/ DropOldIntent \/ IntentElsewhere \/ ResumeReopen
  \/ OpenNothing \/ OpenRefused \/ SendOpen \/ OpenLanded \/ OpenFailed \/ BookOpen \/ FinishOpen
  \/ HaltAtMax

Chain == \E i \in Ids : LandOpen(i) \/ LandClose(i) \/ Miss(i)

Next == Process \/ Chain \/ Crash \/ Start \/ OperatorHalts \/ OperatorClears \/ DayPasses

Spec == Init /\ [][Next]_vars

\* The process runs while it is up, systemd starts it again, a transaction's
\* fate is decided, and whatever keeps a poll from opening (prices, gas, the
\* wallet's lock) does not do so for ever.
FairSpec == Spec /\ WF_vars(Process) /\ WF_vars(Chain) /\ WF_vars(Start) /\ SF_vars(SendOpen)

-----------------------------------------------------------------------------
(* Properties.                                                             *)

PcStates == {"poll", "asleep", "down", "held", "none", "close", "closing", "closed", "booked",
             "repoint", "repointed", "reopen", "opening", "opened", "recorded", "failed"}
Intents == [id : Ids \cup {NoId}, venue : Venues \cup {Nowhere}, move : Moves \cup {0}, closed : BOOLEAN]

\* Every variable has its type.
TypeOK ==
  /\ pos \in [Ids -> [st : {"none", "opening", "open", "closing", "closed"},
                      venue : Venues \cup {Nowhere}, move : Moves \cup {0}]]
  /\ at \in Venues
  /\ ledger \in [Ids -> {"none", "open", "closed"}]
  /\ state \in [failures : 0 .. MaxFailures, unread : 0 .. MaxUnreadable, normal : SUBSET Moves, calm : SUBSET Moves, pending : Intents]
  /\ halt \in BOOLEAN
  /\ pc \in PcStates
  /\ job \in [id : Ids \cup {NoId}, move : Moves \cup {0}, calm : BOOLEAN,
              target : Venues \cup {Nowhere}, tries : 0 .. 2, next : {"none", "reopen"}]
  /\ moves \in Moves \cup {0} /\ today \subseteq Moves
  /\ crashes \in 0 .. MaxCrashes /\ days \in 0 .. MaxDays /\ repoints \in 0 .. MaxRepoints
  /\ closes \subseteq Moves

Live == {i \in Ids : OnChain(i) \/ InFlight(i)}
Accountable == strays = {}

\* A profile holds at most one position, and opens none beside one it may
\* hold (audit.py check_positions; README "A failed write is not a known
\* outcome", "A failed read is not an empty wallet"): through every error,
\* late landing, lagging read, crash and repointing, but for a restart while
\* a transaction is in flight.
AtMostOne == "restarted in flight" \notin strays => Cardinality(Live) <= 1

\* The ledger's open rows are the positions on chain whenever the loop rests
\* (audit.py check_positions fails otherwise).
RowsMatch == \A i \in Ids : ledger[i] = "open" <=> OnChain(i)
LedgerFollowsChain == Accountable /\ pc = "asleep" /\ ~Resumable => RowsMatch

\* The same when the one thing that happened is a failover before the
\* resume ("The persisted intent survives a swap/open failure and a service
\* restart", resume_reopen).
FailoverBooks ==
  strays \subseteq {"intent passed over"} /\ pc = "asleep" /\ ~Resumable => RowsMatch

\* Every close that landed is counted against the day's budgets, also when
\* the process stopped before it counted it (resume_reopen).
MovesCounted ==
  Accountable /\ pc = "asleep" /\ ~Resumable => closes \subseteq state.normal \cup state.calm

\* So the budgets hold: at most max_rebalances_per_day of the normal moves
\* and that plus calm_max_moves_per_day of both close a position in a day.
BudgetsHold ==
  Accountable => /\ Recent(closes) <= MaxRebalances + MaxCalm
                 /\ pc = "asleep" /\ ~Resumable => Recent(closes \ state.calm) <= MaxRebalances

\* An intent is on the venue the profile is pointed at: it does not halt
\* resume_reopen, but for a crash between the two records of a repointing.
IntentOnVenue ==
  "crash at repoint" \notin strays /\ pc \in {"asleep", "poll", "held", "none"} /\ state.pending # NoIntent
    => ~Elsewhere

\* An intent marked closed is of a position that is gone: nothing is opened on
\* its behalf while the position stands.  As for AtMostOne, not past a restart
\* while a transaction is in flight: of two positions a calm move to another
\* venue may close the one its intent is not of.
IntentTrue ==
  "restarted in flight" \notin strays => (state.pending.closed => pos[state.pending.id].st = "closed")

\* The intent resumed is the last close's ("A stale intent would replay
\* after an unrelated failure", moves.py).
NoStaleReplay ==
  pc = "none" /\ state.pending # NoIntent => \A m \in closes : m <= state.pending.move

\* The capital never stays out of a position for good, unless the profile is
\* halted: whatever fails, it is retried until it lands or counts up to HALT.
CapitalReturns == []<>(Shown # {} \/ halt \/ "restarted in flight" \in strays)
=============================================================================
