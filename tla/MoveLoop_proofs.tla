-------------------------- MODULE MoveLoop_proofs --------------------------
(***************************************************************************)
(* Proofs about MoveLoop: that a profile holds one position, that its      *)
(* ledger, its counts and its budgets are right when the loop rests, and   *)
(* that its intent is true and on its venue, for every set of venues, every*)
(* limit and any number of positions, moves, crashes and days.             *)
(*                                                                         *)
(* What a step does to one position, to the intent, to a count, to a row   *)
(* and to the process's place is said once, in the lemmas ...Frame; each   *)
(* part of the invariant then has a lemma ...Keeps that Next preserves it. *)
(* Last, where a stale intent comes from (FreshInv), and what is left out  *)
(* of the books without a crash (UncrashedInv).                            *)
(***************************************************************************)
EXTENDS MoveLoop, FiniteSetTheorems, TLAPS

\* Next, each action named once.
LEMMA Actions ==
  ASSUME Next
  PROVE
    \/ Wake \/ StopForHalt \/ Unreadable \/ PollNone \/ PollHeld \/ Stay \/ CloseRefused \/ SendClose
    \/ RetryClose \/ CloseLanded \/ CloseFailed \/ BookClose \/ CountMove \/ Repoint \/ MoveIntent
    \/ PickPool \/ DropOldIntent \/ IntentElsewhere \/ ResumeReopen \/ OpenNothing \/ OpenRefused
    \/ SendOpen \/ OpenLanded \/ OpenFailed \/ BookOpen \/ FinishOpen \/ HaltAtMax \/ Crash \/ Start
    \/ OperatorHalts \/ OperatorClears \/ DayPasses
    \/ \E c \in BOOLEAN : RefuseMove(c)
    \/ \E c \in BOOLEAN, t \in Targets : StartMove(c, t)
    \/ \E v \in Venues, n \in {"none", "reopen"} : MoveEmpty(v, n)
    \/ \E i \in Ids : LandOpen(i)
    \/ \E i \in Ids : LandClose(i)
    \/ \E i \in Ids : Miss(i)
BY DEF Next, Process, Chain, FailOver, OperatorMoves

-----------------------------------------------------------------------------
(* Types, and where the process is in a move.                              *)

PosTypes == [st : {"none", "opening", "open", "closing", "closed"}, venue : Venues \cup {Nowhere}, move : Moves \cup {0}]
StateTypes ==
  [failures : 0 .. MaxFailures, unread : 0 .. MaxUnreadable, normal : SUBSET Moves, calm : SUBSET Moves, pending : Intents]
JobTypes ==
  [id : Ids \cup {NoId}, move : Moves \cup {0}, calm : BOOLEAN, target : Venues \cup {Nowhere}, tries : 0 .. 2,
   next : {"none", "reopen"}]

PosFits == pos \in [Ids -> PosTypes] /\ \A i \in Ids : pos[i].st = "closing" => pos[i].move \in Moves
IntentFits == state.pending = NoIntent \/ (state.pending.id \in Ids /\ state.pending.move \in Moves)
StateFits == state \in StateTypes /\ IntentFits
JobFits ==
  /\ pc \in PcStates /\ job \in JobTypes
  /\ pc \in {"held", "close", "closing", "closed", "booked"} => job.id \in Ids
  /\ pc \in {"close", "closing", "closed", "booked"} => job.move \in Moves
  /\ pc = "repoint" => job.target \in Venues
BooksFit == at \in Venues /\ ledger \in [Ids -> {"none", "open", "closed"}] /\ halt \in BOOLEAN
CountsFit ==
  /\ moves \in Moves \cup {0} /\ today \subseteq Moves /\ closes \subseteq Moves
  /\ crashes \in 0 .. MaxCrashes /\ days \in 0 .. MaxDays /\ repoints \in 0 .. MaxRepoints

TypeInv == PosFits /\ StateFits /\ JobFits /\ BooksFit /\ CountsFit

LEMMA PosKeeps == ASSUME TypeInv, Next PROVE PosFits'
<1>0. PosFits /\ JobFits /\ at \in Venues
  BY DEF TypeInv, BooksFit
<1>1. CASE \/ Wake \/ StopForHalt \/ Unreadable \/ PollNone \/ PollHeld \/ Stay \/ CloseRefused \/ CloseLanded
           \/ CloseFailed \/ BookClose \/ CountMove \/ Repoint \/ MoveIntent \/ PickPool \/ DropOldIntent
           \/ IntentElsewhere \/ ResumeReopen \/ OpenNothing \/ OpenRefused \/ OpenLanded \/ OpenFailed
           \/ BookOpen \/ FinishOpen \/ HaltAtMax \/ Crash \/ Start \/ OperatorHalts \/ OperatorClears
           \/ DayPasses
           \/ \E c \in BOOLEAN : RefuseMove(c)
           \/ \E c \in BOOLEAN, t \in Targets : StartMove(c, t)
           \/ \E v \in Venues, n \in {"none", "reopen"} : MoveEmpty(v, n)
  <2>1. UNCHANGED pos
    BY <1>1 DEF Wake, StopForHalt, Unreadable, PollNone, PollHeld, Stay, CloseRefused, CloseLanded, CloseFailed,
           BookClose, CountMove, Repoint, MoveIntent, PickPool, DropOldIntent, IntentElsewhere, ResumeReopen,
           OpenNothing, OpenRefused, OpenLanded, OpenFailed, BookOpen, FinishOpen, HaltAtMax, RefuseMove,
           StartMove, MoveEmpty, Crash, Start, OperatorHalts, OperatorClears, DayPasses, counters, history,
           EndPoll
  <2> QED
    BY <1>0, <2>1 DEF PosFits
<1>2. CASE SendClose \/ RetryClose
  <2>1. job.id \in Ids /\ job.move \in Moves
    BY <1>0, <1>2 DEF JobFits, SendClose, RetryClose, GoTo
  <2>2. CallClose(job.id)
    BY <1>2 DEF SendClose, RetryClose
  <2> QED
    BY <1>0, <2>1, <2>2 DEF PosFits, PosTypes, CallClose
<1>3. CASE SendOpen
  <2>1. pos' = pos \/ \E i \in Ids : pos' = [pos EXCEPT ![i].st = "opening", ![i].venue = at]
    BY <1>3 DEF SendOpen, Unused
  <2> QED
    BY <1>0, <2>1, ZenonT(60) DEF PosFits, PosTypes
<1>4. CASE \E i \in Ids : LandOpen(i) \/ LandClose(i) \/ Miss(i)
  <2>1. \E i \in Ids : \E st \in {"none", "open", "closed"} : pos' = [pos EXCEPT ![i].st = st]
    BY <1>4 DEF LandOpen, LandClose, Miss
  <2> QED
    BY <1>0, <2>1 DEF PosFits, PosTypes
<1> QED
  BY <1>1, <1>2, <1>3, <1>4, Actions

LEMMA Intent ==
  /\ NoIntent \in Intents /\ NoIntent.id = 0 /\ NoIntent.move = 0 /\ NoIntent.venue = Nowhere /\ NoIntent.closed = FALSE
  /\ 0 \notin Ids /\ 0 \notin Moves
BY LimitsAssumption DEF NoIntent, Intents, NoId, Ids, Moves

LEMMA OneMoreFits == ASSUME NEW limit \in Nat, NEW n \in 0..limit PROVE OneMore(n, limit) \in 0..limit
BY DEF OneMore

LEMMA StateKeeps == ASSUME TypeInv, Next PROVE StateFits'
<1>0. StateFits /\ JobFits /\ CountsFit /\ at \in Venues
  BY DEF TypeInv, BooksFit
<1>1. CASE \/ Wake \/ StopForHalt \/ Stay \/ SendClose \/ RetryClose \/ CloseLanded \/ BookClose \/ Repoint
           \/ PickPool \/ IntentElsewhere \/ OpenNothing \/ SendOpen \/ BookOpen \/ HaltAtMax \/ Crash \/ Start
           \/ OperatorHalts \/ OperatorClears \/ DayPasses
           \/ \E c \in BOOLEAN : RefuseMove(c)
           \/ \E v \in Venues, n \in {"none", "reopen"} : MoveEmpty(v, n)
           \/ \E i \in Ids : LandOpen(i)
           \/ \E i \in Ids : LandClose(i)
           \/ \E i \in Ids : Miss(i)
  <2>1. UNCHANGED state
    BY <1>1, Zenon DEF Wake, StopForHalt, Stay, SendClose, RetryClose, CloseLanded, BookClose, Repoint, PickPool,
           IntentElsewhere, OpenNothing, SendOpen, BookOpen, HaltAtMax, RefuseMove, MoveEmpty, LandOpen,
           LandClose, Miss, Crash, Start, OperatorHalts, OperatorClears, DayPasses, counters, history, EndPoll
  <2> QED
    BY <1>0, <2>1 DEF StateFits, IntentFits
<1>2. CASE Unreadable \/ PollNone \/ PollHeld
  <2>1. OneMore(state.unread, MaxUnreadable) \in 0..MaxUnreadable /\ 0 \in 0..MaxUnreadable
    BY <1>0, LimitsAssumption, OneMoreFits DEF StateFits, StateTypes
  <2>2. \E n \in 0..MaxUnreadable : state' = [state EXCEPT !.unread = n]
    BY <1>2, <2>1 DEF Unreadable, PollNone, PollHeld
  <2> QED
    BY <1>0, <2>2 DEF StateFits, StateTypes, IntentFits
<1>3. CASE CloseRefused \/ DropOldIntent \/ FinishOpen
  <2>1. state' = [state EXCEPT !.pending = NoIntent]
    BY <1>3 DEF CloseRefused, DropOldIntent, FinishOpen
  <2> QED
    BY <1>0, <2>1, Intent DEF StateFits, StateTypes, IntentFits
<1>4. CASE CloseFailed \/ OpenRefused \/ OpenLanded \/ OpenFailed
  <2>1. OneMore(state.failures, MaxFailures) \in 0..MaxFailures /\ 0 \in 0..MaxFailures
    BY <1>0, LimitsAssumption, OneMoreFits DEF StateFits, StateTypes
  <2>2. \E n \in 0..MaxFailures : \/ state' = [state EXCEPT !.failures = n]
                                \/ state' = [[state EXCEPT !.pending = NoIntent] EXCEPT !.failures = n]
    BY <1>4, <2>1 DEF CloseFailed, OpenRefused, OpenLanded, OpenFailed
  <2> QED
    BY <1>0, <2>2, Intent DEF StateFits, StateTypes, IntentFits
<1>5. CASE \E c \in BOOLEAN, t \in Targets : StartMove(c, t)
  <2>1. job.id \in Ids /\ moves + 1 \in Moves
    BY <1>0, <1>5, LimitsAssumption DEF JobFits, CountsFit, StartMove, GoTo, Moves
  <2>2. [id |-> job.id, venue |-> at, move |-> moves + 1, closed |-> FALSE] \in Intents
    BY <1>0, <2>1 DEF Intents
  <2>3. \/ state' = state
        \/ state' = [state EXCEPT !.pending = [id |-> job.id, venue |-> at, move |-> moves + 1, closed |-> FALSE]]
    BY <1>5 DEF StartMove
  <2> DEFINE x == [id |-> job.id, venue |-> at, move |-> moves + 1, closed |-> FALSE]
  <2>4. x.id \in Ids /\ x.move \in Moves
    BY <2>1
  <2> HIDE DEF x
  <2>5. x \in Intents /\ (state' = state \/ state' = [state EXCEPT !.pending = x])
    BY <2>2, <2>3 DEF x
  <2> QED
    BY <1>0, <2>4, <2>5 DEF StateFits, StateTypes, IntentFits
<1>6. CASE CountMove
  <2>1. job.move \in Moves
    BY <1>0, <1>6 DEF JobFits, CountMove
  <2>2. CASE ~job.calm
    BY <1>0, <1>6, <2>1, <2>2 DEF CountMove, Counted, StateFits, StateTypes, IntentFits
  <2>3. CASE job.calm
    <3> DEFINE s == [state EXCEPT !.calm = state.calm \cup {job.move}]
    <3>1. s \in StateTypes /\ s.pending = state.pending
      BY <1>0, <2>1 DEF StateFits, StateTypes
    <3>2. state' = [s EXCEPT !.pending.closed = (state.pending # NoIntent)]
      BY <1>6, <2>3 DEF CountMove, Counted
    <3>3. state.pending \in Intents
      BY <1>0 DEF StateFits, StateTypes
    <3> HIDE DEF s
    <3> QED
      BY <1>0, <3>1, <3>2, <3>3, Intent DEF StateFits, StateTypes, IntentFits, Intents, NoIntent
  <2> QED
    BY <2>2, <2>3
<1>7. CASE MoveIntent
  <2>1. CASE state.pending = NoIntent
    BY <1>0, <1>7, <2>1 DEF MoveIntent, IntentFollows, StateFits, IntentFits
  <2>2. CASE state.pending # NoIntent
    BY <1>0, <1>7, <2>2 DEF MoveIntent, IntentFollows, StateFits, StateTypes, IntentFits, Intents
  <2> QED
    BY <2>1, <2>2
<1>8. CASE ResumeReopen
  <2>1. state.pending \in Intents /\ state.pending.id \in Ids /\ state.pending.move \in Moves /\ state \in StateTypes
    BY <1>0, <1>8 DEF ResumeReopen, StateFits, StateTypes, IntentFits
  <2>2. state' = [[state EXCEPT !.calm = IF state.pending.closed THEN state.calm ELSE state.calm \cup {state.pending.move}] EXCEPT !.pending.closed = TRUE]
    BY <1>8 DEF ResumeReopen, ResumedState
  <2> QED
    BY <2>1, <2>2 DEF StateFits, StateTypes, IntentFits, Intents
<1> QED
  BY <1>1, <1>2, <1>3, <1>4, <1>5, <1>6, <1>7, <1>8, Actions

LEMMA Job == NoJob \in JobTypes
BY DEF NoJob, JobTypes

LEMMA JobKeeps == ASSUME TypeInv, Next PROVE JobFits'
<1>0. JobFits /\ CountsFit /\ PosFits
  BY DEF TypeInv
<1>1. CASE \/ DropOldIntent \/ OperatorHalts \/ OperatorClears \/ DayPasses
           \/ \E i \in Ids : LandOpen(i)
           \/ \E i \in Ids : LandClose(i)
           \/ \E i \in Ids : Miss(i)
  <2>1. UNCHANGED <<pc, job>>
    BY <1>1 DEF DropOldIntent, LandOpen, LandClose, Miss, OperatorHalts, OperatorClears, DayPasses, counters,
           history, EndPoll
  <2> QED
    BY <1>0, <2>1 DEF JobFits
<1>2. CASE \/ Unreadable \/ Stay \/ CloseRefused \/ IntentElsewhere \/ OpenNothing \/ FinishOpen \/ HaltAtMax
           \/ Crash
           \/ \E c \in BOOLEAN : RefuseMove(c)
  <2>1. job' = NoJob /\ pc' \in {"asleep", "down"}
    BY <1>2 DEF Unreadable, Stay, CloseRefused, RefuseMove, IntentElsewhere, OpenNothing, FinishOpen, HaltAtMax, Crash, EndPoll
  <2> QED
    BY <1>0, <2>1, Job DEF JobFits, PcStates
<1>3. CASE \/ Wake \/ StopForHalt \/ PollNone \/ Start \/ CloseLanded \/ CloseFailed \/ BookClose \/ Repoint
           \/ MoveIntent \/ ResumeReopen \/ OpenRefused \/ OpenFailed \/ BookOpen
  <2>1. /\ UNCHANGED job /\ pc' \in PcStates \ {"held", "close", "closing", "repoint"}
        /\ pc' \in {"closed", "booked"} => pc \in {"closing", "closed"}
    BY <1>0, <1>3 DEF Wake, StopForHalt, PollNone, Start, CloseLanded, CloseFailed, BookClose, Repoint, MoveIntent, ResumeReopen, OpenRefused, OpenFailed, BookOpen,
           GoTo, PcStates, JobFits, JobTypes
  <2> QED
    BY <1>0, <2>1 DEF JobFits
<1>4. CASE PollHeld
  <2>1. pc' = "held" /\ \E i \in Ids : job' = [NoJob EXCEPT !.id = i]
    BY <1>4 DEF PollHeld, GoTo, Shown
  <2> QED
    BY <2>1, Job DEF JobFits, JobTypes, PcStates
<1>5. CASE \E c \in BOOLEAN, t \in Targets : StartMove(c, t)
  <2>1. PICK c \in BOOLEAN, t \in Targets : StartMove(c, t)
    BY <1>5
  <2>2. moves + 1 \in Moves /\ t \in Venues \cup {Nowhere} /\ pc = "held" /\ pc' = "close"
    BY <1>0, <2>1, LimitsAssumption DEF StartMove, CountsFit, Moves, Targets, GoTo
  <2>3. job' = [[[job EXCEPT !.move = moves + 1] EXCEPT !.calm = c] EXCEPT !.target = t]
    BY <2>1 DEF StartMove
  <2>4. [job EXCEPT !.move = moves + 1] \in JobTypes /\ [job EXCEPT !.move = moves + 1].id = job.id
                                          /\ [job EXCEPT !.move = moves + 1].move = moves + 1
    BY <1>0, <2>2 DEF JobFits, JobTypes
  <2>5. job' \in JobTypes /\ job'.id = job.id /\ job'.move = moves + 1
    BY <2>2, <2>3, <2>4 DEF JobTypes
  <2> QED
    BY <1>0, <2>2, <2>5 DEF JobFits, PcStates
<1>6. CASE SendClose \/ RetryClose
  <2>1. pc \in {"close", "closing"} /\ pc' = "closing" /\ \E n \in 1..2 : job' = [job EXCEPT !.tries = n]
    BY <1>6 DEF SendClose, RetryClose, GoTo
  <2> QED
    BY <1>0, <2>1 DEF JobFits, JobTypes, PcStates
<1>7. CASE CountMove
  <2>1. /\ job' = [job EXCEPT !.next = "reopen"]
        /\ pc' = "reopen" \/ (pc' = "repoint" /\ job.target # Nowhere)
    BY <1>7 DEF CountMove
  <2> QED
    BY <1>0, <2>1 DEF JobFits, JobTypes, PcStates
<1>8. CASE \/ PickPool
           \/ \E v \in Venues, n \in {"none", "reopen"} : MoveEmpty(v, n)
  <2>1. \/ UNCHANGED job /\ pc' = "reopen"
        \/ /\ pc' = "repoint"
           /\ \E v \in Venues : \E n \in {"none", "reopen"} : job' = [[NoJob EXCEPT !.target = v] EXCEPT !.next = n]
    BY <1>8, Zenon DEF PickPool, MoveEmpty, GoTo
  <2>2. \A v \in Venues : [NoJob EXCEPT !.target = v] \in JobTypes /\ [NoJob EXCEPT !.target = v].target = v
    BY Job DEF JobTypes
  <2> QED
    BY <1>0, <2>1, <2>2, ZenonT(60) DEF JobFits, JobTypes, PcStates
<1>9. CASE SendOpen \/ OpenLanded
  <2>1. pc' \in {"opening", "opened"} /\ \E i \in Ids : job' = [job EXCEPT !.id = i]
    BY <1>9 DEF SendOpen, OpenLanded, GoTo, Unused, Shown
  <2> QED
    BY <1>0, <2>1 DEF JobFits, JobTypes, PcStates
<1> QED
  BY <1>1, <1>2, <1>3, <1>4, <1>5, <1>6, <1>7, <1>8, <1>9, Actions

LEMMA BooksKeep == ASSUME TypeInv, Next PROVE BooksFit'
<1>0. BooksFit /\ JobFits
  BY DEF TypeInv
<1>1. CASE \/ Wake \/ StopForHalt \/ PollNone \/ PollHeld \/ Stay \/ CloseRefused \/ SendClose \/ RetryClose
           \/ CloseLanded \/ CloseFailed \/ CountMove \/ MoveIntent \/ PickPool \/ DropOldIntent \/ OpenNothing
           \/ OpenRefused \/ SendOpen \/ OpenLanded \/ OpenFailed \/ FinishOpen \/ Crash \/ Start \/ DayPasses
           \/ \E c \in BOOLEAN, t \in Targets : StartMove(c, t)
           \/ \E v \in Venues, n \in {"none", "reopen"} : MoveEmpty(v, n)
           \/ \E i \in Ids : LandOpen(i)
           \/ \E i \in Ids : LandClose(i)
           \/ \E i \in Ids : Miss(i)
  <2>1. UNCHANGED <<at, ledger, halt>>
    BY <1>1 DEF Wake, StopForHalt, PollNone, PollHeld, Stay, CloseRefused, SendClose, RetryClose, CloseLanded,
           CloseFailed, CountMove, MoveIntent, PickPool, DropOldIntent, OpenNothing, OpenRefused, SendOpen,
           OpenLanded, OpenFailed, FinishOpen, StartMove, MoveEmpty, LandOpen, LandClose, Miss, Crash, Start,
           DayPasses, counters, history, EndPoll
  <2> QED
    BY <1>0, <2>1 DEF BooksFit
<1>2. CASE \/ Unreadable \/ IntentElsewhere \/ HaltAtMax \/ OperatorHalts \/ OperatorClears
           \/ \E c \in BOOLEAN : RefuseMove(c)
  <2>1. UNCHANGED <<at, ledger>> /\ halt' \in BOOLEAN
    <3>1. CASE Unreadable
      BY <3>1 DEF Unreadable
    <3>2. CASE HaltAtMax
      BY <3>2 DEF HaltAtMax
    <3>3. CASE IntentElsewhere \/ OperatorHalts \/ OperatorClears \/ \E c \in BOOLEAN : RefuseMove(c)
      BY <3>3 DEF IntentElsewhere, OperatorHalts, OperatorClears, RefuseMove
    <3> QED
      BY <1>2, <3>1, <3>2, <3>3
  <2> QED
    BY <1>0, <2>1 DEF BooksFit
<1>3. CASE BookClose \/ BookOpen \/ ResumeReopen
  <2>1. UNCHANGED <<at, halt>> /\ \E i : \/ ledger' = [ledger EXCEPT ![i] = "open"]
                                     \/ ledger' = [ledger EXCEPT ![i] = "closed"]
                                     \/ ledger' = [ledger EXCEPT ![i] = ledger[i]]
    BY <1>3 DEF BookClose, BookOpen, ResumeReopen, ResumedLedger
  <2> QED
    BY <1>0, <2>1 DEF BooksFit
<1>4. CASE Repoint
  <2>1. job.target \in Venues /\ at' = job.target /\ UNCHANGED <<ledger, halt>>
    BY <1>0, <1>4 DEF JobFits, Repoint, GoTo
  <2> QED
    BY <1>0, <2>1 DEF BooksFit
<1> QED
  BY <1>1, <1>2, <1>3, <1>4, Actions

LEMMA CountsKeep == ASSUME TypeInv, Next PROVE CountsFit'
<1>0. CountsFit /\ PosFits
  BY DEF TypeInv
<1>1. CASE \/ Wake \/ StopForHalt \/ Unreadable \/ PollNone \/ PollHeld \/ Stay \/ CloseRefused \/ SendClose
           \/ RetryClose \/ CloseLanded \/ CloseFailed \/ BookClose \/ CountMove \/ Repoint \/ MoveIntent
           \/ DropOldIntent \/ IntentElsewhere \/ ResumeReopen \/ OpenNothing \/ OpenRefused \/ SendOpen
           \/ OpenLanded \/ OpenFailed \/ BookOpen \/ FinishOpen \/ HaltAtMax \/ Start \/ OperatorHalts
           \/ OperatorClears
           \/ \E c \in BOOLEAN : RefuseMove(c)
           \/ \E i \in Ids : LandOpen(i)
           \/ \E i \in Ids : Miss(i)
  <2>1. UNCHANGED <<moves, today, crashes, days, repoints, closes>>
    BY <1>1 DEF Wake, StopForHalt, Unreadable, PollNone, PollHeld, Stay, CloseRefused, SendClose, RetryClose,
           CloseLanded, CloseFailed, BookClose, CountMove, Repoint, MoveIntent, DropOldIntent, IntentElsewhere,
           ResumeReopen, OpenNothing, OpenRefused, SendOpen, OpenLanded, OpenFailed, BookOpen, FinishOpen,
           HaltAtMax, RefuseMove, LandOpen, Miss, Start, OperatorHalts, OperatorClears, counters, history,
           EndPoll
  <2> QED
    BY <1>0, <2>1 DEF CountsFit
<1>2. CASE \E c \in BOOLEAN, t \in Targets : StartMove(c, t)
  <2>1. moves < MaxMoves /\ moves' = moves + 1 /\ today' = today \cup {moves + 1} /\ UNCHANGED <<crashes, days, repoints, closes>>
    BY <1>2 DEF StartMove, history
  <2>2. moves + 1 \in Moves
    BY <1>0, <2>1, LimitsAssumption DEF CountsFit, Moves
  <2> QED
    BY <1>0, <2>1, <2>2 DEF CountsFit
<1>3. CASE \/ PickPool \/ Crash \/ DayPasses
           \/ \E v \in Venues, n \in {"none", "reopen"} : MoveEmpty(v, n)
  <2>1. CASE PickPool
    <3>1. /\ UNCHANGED <<moves, today, crashes, days, closes>>
          /\ repoints' = repoints \/ (repoints < MaxRepoints /\ repoints' = repoints + 1)
      BY <2>1 DEF PickPool, history
    <3> QED
      BY <1>0, <3>1, LimitsAssumption DEF CountsFit
  <2>2. CASE \E v \in Venues, n \in {"none", "reopen"} : MoveEmpty(v, n)
    BY <1>0, <2>2, LimitsAssumption DEF CountsFit, MoveEmpty, history
  <2>3. CASE Crash
    <3>1. UNCHANGED <<moves, today, days, repoints, closes>> /\ crashes < MaxCrashes /\ crashes' = crashes + 1
      BY <2>3 DEF Crash
    <3> QED
      BY <1>0, <3>1, LimitsAssumption DEF CountsFit
  <2>4. CASE DayPasses
    BY <1>0, <2>4, LimitsAssumption DEF CountsFit, DayPasses, history
  <2> QED
    BY <1>3, <2>1, <2>2, <2>3, <2>4
<1>4. CASE \E i \in Ids : LandClose(i)
  BY <1>0, <1>4 DEF CountsFit, PosFits, LandClose, counters
<1> QED
  BY <1>1, <1>2, <1>3, <1>4, Actions

LEMMA NextTyped == ASSUME TypeInv, [Next]_vars PROVE TypeInv'
<1>1. CASE UNCHANGED vars
  BY <1>1 DEF vars, TypeInv, PosFits, StateFits, IntentFits, JobFits, BooksFit, CountsFit
<1>2. CASE Next
  BY <1>2, PosKeeps, StateKeeps, JobKeeps, BooksKeep, CountsKeep DEF TypeInv
<1> QED
  BY <1>1, <1>2

LEMMA InitTyped == Init => TypeInv
<1> SUFFICES ASSUME Init PROVE TypeInv
  OBVIOUS
<1>1. PosFits
  BY DEF Init, PosFits, PosTypes
<1>2. StateFits
  BY LimitsAssumption, Intent DEF Init, StateFits, StateTypes, IntentFits
<1>3. JobFits
  BY Job DEF Init, JobFits, PcStates
<1>4. BooksFit
  BY VenuesAssumption DEF Init, BooksFit
<1>5. CountsFit
  BY LimitsAssumption DEF Init, CountsFit
<1> QED
  BY <1>1, <1>2, <1>3, <1>4, <1>5 DEF TypeInv

-----------------------------------------------------------------------------
(* At most one position.  While a transaction may be in flight the process *)
(* is where it was sent, or waits; what a profile may hold it holds on the *)
(* venue it is pointed at, and it opens where nothing is left.             *)

Certain == "restarted in flight" \notin strays

OneLive == (\A i, j \in Live : i = j) /\ (\A i \in Live : pos[i].venue = at)
PlaceFits ==
  /\ pc \in {"closed", "booked", "repoint", "repointed", "none", "reopen"} => Live = {}
  /\ pc \in {"poll", "held", "close"} => \A i \in Ids : ~InFlight(i)
  /\ pc \in {"held", "close", "closing", "opening"} => Live \subseteq {job.id}
OneInv == Certain => OneLive /\ PlaceFits

\* What the chain does to one position, as the invariant sees it.
LEMMA Unmoved == ASSUME UNCHANGED pos PROVE Live' = Live /\ \A i \in Ids : InFlight(i)' = InFlight(i)
BY DEF Live, OnChain, InFlight

LEMMA StrayGrows == ASSUME Next PROVE strays \subseteq strays'
<1>1. CASE UNCHANGED strays
  BY <1>1
<1>2. CASE UNCHANGED strays \/ (\E x : strays' = strays \cup x)
  BY <1>2
<1> QED
  BY <1>1, <1>2, Actions DEF Stray, history,
           Wake, StopForHalt, Unreadable, PollNone, PollHeld, Stay, CloseRefused, SendClose, RetryClose,
           CloseLanded, CloseFailed, BookClose, CountMove, Repoint, MoveIntent, PickPool, DropOldIntent,
           IntentElsewhere, ResumeReopen, OpenNothing, OpenRefused, SendOpen, OpenLanded, OpenFailed, BookOpen,
           FinishOpen, HaltAtMax, RefuseMove, StartMove, MoveEmpty, LandOpen, LandClose, Miss, Crash, Start,
           OperatorHalts, OperatorClears, DayPasses

LEMMA OneKeeps == ASSUME TypeInv, OneInv, Next PROVE OneInv'
<1> USE StrayGrows DEF OneInv, Certain
<1>0. TypeInv /\ (Certain' => Certain /\ OneLive /\ PlaceFits)
  OBVIOUS
<1>1. CASE \/ StopForHalt \/ Unreadable \/ Stay \/ CloseRefused \/ CloseFailed \/ DropOldIntent \/ IntentElsewhere
           \/ OpenNothing \/ OpenRefused \/ OpenFailed \/ BookOpen \/ FinishOpen \/ HaltAtMax \/ Crash
           \/ OperatorHalts \/ OperatorClears \/ DayPasses
           \/ \E c \in BOOLEAN : RefuseMove(c)
  <2>1. /\ UNCHANGED <<pos, at>>
        /\ \/ UNCHANGED <<pc, job>>
           \/ pc' \in {"asleep", "down", "failed", "recorded"}
           \/ UNCHANGED pc /\ job'.id = job.id
    BY <1>1 DEF StopForHalt, Unreadable, Stay, CloseRefused, CloseFailed, DropOldIntent, IntentElsewhere,
           OpenNothing, OpenRefused, OpenFailed, BookOpen, FinishOpen, HaltAtMax, RefuseMove, Crash,
           OperatorHalts, OperatorClears, DayPasses, counters, history, EndPoll, GoTo
  <2> QED
    BY <1>0, <2>1, Unmoved DEF OneLive, PlaceFits
<1>2. CASE \/ Wake \/ Start
  <2>1. Certain' => \A i \in Ids : ~InFlight(i)
    BY <1>2 DEF Wake, Start, Stray, Certain
  <2>2. UNCHANGED <<pos, at, job>> /\ pc' = "poll"
    BY <1>2 DEF Wake, Start, GoTo
  <2> QED
    BY <1>0, <2>1, <2>2, Unmoved DEF OneLive, PlaceFits
<1>3. CASE PollNone
  <2>1. Shown = {} /\ pc = "poll" /\ pc' = "none" /\ UNCHANGED <<pos, at, job>>
    BY <1>3 DEF PollNone, FoundNothing, GoTo
  <2>2. Certain' => Live = {}
    BY <1>0, <2>1 DEF OneLive, PlaceFits, Live, Shown
  <2> QED
    BY <1>0, <2>1, <2>2, Unmoved DEF OneLive, PlaceFits
<1>4. CASE PollHeld
  <2>1. pc = "poll" /\ pc' = "held" /\ UNCHANGED <<pos, at>>
    BY <1>4 DEF PollHeld, GoTo
  <2>2. PICK i \in Shown : job' = [NoJob EXCEPT !.id = i]
    BY <1>4 DEF PollHeld
  <2>3. i \in Live /\ job'.id = i
    BY <2>2 DEF Shown, Live, NoJob
  <2> QED
    BY <1>0, <2>1, <2>3, Unmoved DEF OneLive, PlaceFits
<1>5. CASE \/ CloseLanded \/ OpenLanded
           \/ \E c \in BOOLEAN, t \in Targets : StartMove(c, t)
  <2>1. UNCHANGED <<pos, at>>
    BY <1>5 DEF CloseLanded, OpenLanded, StartMove
  <2>2. \/ pc = "held" /\ pc' = "close" /\ job'.id = job.id
        \/ pc' = "opened"
        \/ pc = "closing" /\ pc' = "closed" /\ pos[job.id].st = "closed"
    <3>1. CASE \E c \in BOOLEAN, t \in Targets : StartMove(c, t)
      BY <1>0, <3>1 DEF StartMove, GoTo, TypeInv, JobFits, JobTypes
    <3>2. CASE CloseLanded \/ OpenLanded
      BY <3>2 DEF CloseLanded, CloseSeen, OpenLanded, GoTo
    <3> QED
      BY <1>5, <3>1, <3>2
  <2>3. Certain' /\ pc = "closing" /\ pos[job.id].st = "closed" => Live = {}
    BY <1>0 DEF PlaceFits, Live, OnChain, InFlight
  <2> QED
    BY <1>0, <2>1, <2>2, <2>3, Unmoved DEF OneLive, PlaceFits
<1>6. CASE \/ BookClose \/ CountMove \/ MoveIntent \/ PickPool \/ ResumeReopen
           \/ \E v \in Venues, n \in {"none", "reopen"} : MoveEmpty(v, n)
  <2>1. /\ UNCHANGED <<pos, at>> /\ pc \in {"closed", "booked", "repointed", "none"}
        /\ pc' \in {"booked", "reopen", "repoint", "none"}
    BY <1>0, <1>6 DEF TypeInv, JobFits, JobTypes, GoTo,
           BookClose, CountMove, MoveIntent, PickPool, ResumeReopen, MoveEmpty
  <2> QED
    BY <1>0, <2>1, Unmoved, ZenonT(60) DEF OneLive, PlaceFits
<1>7. CASE Repoint
  <2>1. UNCHANGED pos /\ pc = "repoint" /\ pc' = "repointed"
    BY <1>7 DEF Repoint, GoTo
  <2> QED
    BY <1>0, <2>1, Unmoved DEF OneLive, PlaceFits
<1>8. CASE SendClose \/ RetryClose
  <2>1. /\ UNCHANGED at /\ pc \in {"close", "closing"} /\ pc' = "closing"
        /\ job.id \in Ids /\ job'.id = job.id
    BY <1>0, <1>8 DEF SendClose, RetryClose, GoTo, TypeInv, JobFits, JobTypes
  <2>2. \/ UNCHANGED pos
        \/ pos[job.id].st = "open" /\ pos' = [pos EXCEPT ![job.id].st = "closing", ![job.id].move = job.move]
    BY <1>8 DEF SendClose, RetryClose, CallClose
  <2>3. Live' = Live /\ \A i \in Ids : pos'[i].venue = pos[i].venue
    <3>1. CASE UNCHANGED pos
      BY <3>1, Unmoved
    <3>2. CASE pos[job.id].st = "open" /\ pos' = [pos EXCEPT ![job.id].st = "closing", ![job.id].move = job.move]
      <4> DEFINE x == [pos[job.id] EXCEPT !.st = "closing"]
      <4>1. x.st = "closing" /\ x.venue = pos[job.id].venue /\ pos[job.id] \in PosTypes /\ x \in PosTypes
        BY <1>0, <2>1 DEF TypeInv, PosFits, PosTypes
      <4>2. pos'[job.id] = [x EXCEPT !.move = job.move] /\ \A i \in Ids \ {job.id} : pos'[i] = pos[i]
        BY <1>0, <2>1, <3>2 DEF TypeInv, PosFits
      <4> HIDE DEF x
      <4>3. pos'[job.id].st = "closing" /\ pos'[job.id].venue = pos[job.id].venue
        BY <4>1, <4>2 DEF PosTypes
      <4>4. Live' = Live
        BY <2>1, <3>2, <4>2, <4>3 DEF Live, OnChain, InFlight
      <4> QED
        BY <4>2, <4>3, <4>4
    <3> QED
      BY <2>2, <3>1, <3>2
  <2> QED
    BY <1>0, <2>1, <2>3 DEF OneLive, PlaceFits, Live
<1>9. CASE SendOpen
  <2>1. UNCHANGED at /\ pc = "reopen" /\ pc' = "opening"
    BY <1>9 DEF SendOpen, GoTo
  <2>2. PICK i \in Ids : (UNCHANGED pos \/ pos' = [pos EXCEPT ![i].st = "opening", ![i].venue = at])
                         /\ job' = [job EXCEPT !.id = i]
    BY <1>9 DEF SendOpen, Unused
  <2>3. job'.id = i
    BY <1>0, <2>2 DEF TypeInv, JobFits, JobTypes
  <2>4. CASE UNCHANGED pos
    BY <1>0, <2>1, <2>4, Unmoved DEF OneLive, PlaceFits
  <2>5. CASE pos' = [pos EXCEPT ![i].st = "opening", ![i].venue = at]
    <3>1. pos'[i].venue = at /\ \A j \in Ids \ {i} : pos'[j] = pos[j]
      BY <1>0, <2>5 DEF TypeInv, PosFits, PosTypes
    <3>2. Live = {} => Live' \subseteq {i}
      BY <3>1 DEF Live, OnChain, InFlight
    <3> QED
      BY <1>0, <2>1, <2>3, <3>1, <3>2 DEF OneLive, PlaceFits
  <2> QED
    BY <2>2, <2>4, <2>5
<1>10. CASE \E i \in Ids : LandOpen(i) \/ LandClose(i) \/ Miss(i)
  <2>1. PICK i \in Ids : LandOpen(i) \/ LandClose(i) \/ Miss(i)
    BY <1>10
  <2>2. /\ InFlight(i) /\ UNCHANGED <<at, pc, job>>
        /\ \E st \in {"none", "open", "closed"} : pos' = [pos EXCEPT ![i].st = st]
    BY <2>1 DEF LandOpen, LandClose, Miss, InFlight
  <2>3. /\ pos'[i].venue = pos[i].venue /\ pos'[i].st \in {"none", "open", "closed"}
        /\ \A j \in Ids \ {i} : pos'[j] = pos[j]
    BY <1>0, <2>2 DEF TypeInv, PosFits, PosTypes
  <2>5. Live' \subseteq Live /\ i \in Live
    BY <2>2, <2>3 DEF Live, OnChain, InFlight
  <2>4. Live \subseteq Ids
    BY DEF Live
  <2> QED
    BY <1>0, <2>2, <2>3, <2>4, <2>5 DEF OneLive, PlaceFits
<1> QED
  BY <1>1, <1>2, <1>3, <1>4, <1>5, <1>6, <1>7, <1>8, <1>9, <1>10, Actions

\* At most one position may be held, on any number of venues and through any
\* number of moves, crashes and days, unless a transaction was in flight when
\* the process was started (audit.py check_positions).
THEOREM OneHolds == Spec => []AtMostOne
<1>1. Init => TypeInv /\ OneInv
  <2> SUFFICES ASSUME Init PROVE OneInv
    BY InitTyped
  <2>1. Live = {} /\ (\A i \in Ids : ~InFlight(i)) /\ pc = "poll"
    BY DEF Init, Live, OnChain, InFlight
  <2> QED
    BY <2>1 DEF OneInv, OneLive, PlaceFits
<1>2. TypeInv /\ OneInv /\ [Next]_vars => (TypeInv /\ OneInv)'
  <2> SUFFICES ASSUME TypeInv, OneInv, [Next]_vars PROVE OneInv'
    BY NextTyped
  <2>1. CASE UNCHANGED vars
    <3>1. UNCHANGED <<pos, at, pc, job, strays>>
      BY <2>1 DEF vars
    <3> QED
      BY <3>1, Unmoved DEF OneInv, Certain, OneLive, PlaceFits
  <2> QED
    BY <2>1, OneKeeps
<1>3. OneInv => AtMostOne
  <2> SUFFICES ASSUME \A i, j \in Live : i = j PROVE Cardinality(Live) <= 1
    BY DEF OneInv, OneLive, Certain, AtMostOne
  <2>1. CASE Live = {}
    BY <2>1, FS_EmptySet
  <2>2. CASE Live # {}
    <3>1. PICK i \in Live : Live = {i}
      BY <2>2
    <3> QED
      BY <3>1, FS_Singleton
  <2> QED
    BY <2>1, <2>2
<1> QED
  BY <1>1, <1>2, <1>3, PTL DEF Spec

-----------------------------------------------------------------------------
(* What a step may change: a position, the intent, the counts, the number  *)
(* of the move in hand.                                                    *)

Sends(i) ==
  /\ SendClose \/ RetryClose
  /\ i = job.id /\ pos[i].st = "open" /\ pos'[i].st = "closing" /\ pos'[i].move = job.move
Opens(i) == SendOpen /\ job'.id = i /\ pos[i].st = "none" /\ pos'[i].st = "opening"
OpenLands(i) == LandOpen(i) /\ pos[i].st = "opening" /\ pos'[i].st = "open"
CloseLands(i) == LandClose(i) /\ pos[i].st = "closing" /\ pos'[i].st = "closed"
Misses(i) ==
  Miss(i) /\ ((pos[i].st = "opening" /\ pos'[i].st = "none") \/ (pos[i].st = "closing" /\ pos'[i].st = "open"))
PosSteps(i) ==
  \/ pos'[i] = pos[i]
  \/ Sends(i)
  \/ (Opens(i) \/ OpenLands(i) \/ CloseLands(i) \/ Misses(i)) /\ pos'[i].move = pos[i].move

LEMMA PosFrame ==
  ASSUME TypeInv, Next
  PROVE  \A i \in Ids : PosSteps(i)
<1>0. PosFits /\ JobFits
  BY DEF TypeInv
<1>1. CASE \/ Wake \/ StopForHalt \/ Unreadable \/ PollNone \/ PollHeld \/ Stay \/ CloseRefused \/ CloseLanded
           \/ CloseFailed \/ BookClose \/ CountMove \/ Repoint \/ MoveIntent \/ PickPool \/ DropOldIntent
           \/ IntentElsewhere \/ ResumeReopen \/ OpenNothing \/ OpenRefused \/ OpenLanded \/ OpenFailed
           \/ BookOpen \/ FinishOpen \/ HaltAtMax \/ Crash \/ Start \/ OperatorHalts \/ OperatorClears
           \/ DayPasses
           \/ \E c \in BOOLEAN : RefuseMove(c)
           \/ \E c \in BOOLEAN, t \in Targets : StartMove(c, t)
           \/ \E v \in Venues, n \in {"none", "reopen"} : MoveEmpty(v, n)
  <2>1. UNCHANGED pos
    BY <1>0, <1>1 DEF Wake, StopForHalt, Unreadable, PollNone, PollHeld, Stay, CloseRefused, CloseLanded,
           CloseFailed, BookClose, CountMove, Repoint, MoveIntent, PickPool, DropOldIntent, IntentElsewhere,
           ResumeReopen, OpenNothing, OpenRefused, OpenLanded, OpenFailed, BookOpen, FinishOpen, HaltAtMax,
           RefuseMove, StartMove, MoveEmpty, Crash, Start, OperatorHalts, OperatorClears, DayPasses, counters,
           history, EndPoll, GoTo
  <2> QED
    BY <2>1 DEF PosSteps
<1>2. CASE SendClose \/ RetryClose
  <2>1. job.id \in Ids
    BY <1>0, <1>2 DEF JobFits, SendClose, RetryClose, GoTo
  <2>2. CASE UNCHANGED pos
    BY <2>2 DEF PosSteps
  <2>3. CASE pos[job.id].st = "open" /\ pos' = [pos EXCEPT ![job.id].st = "closing", ![job.id].move = job.move]
    <3> DEFINE x == [pos[job.id] EXCEPT !.st = "closing"]
    <3>1. x.st = "closing" /\ x \in PosTypes
      BY <1>0, <2>1 DEF PosFits, PosTypes
    <3>2. pos'[job.id] = [x EXCEPT !.move = job.move] /\ \A i \in Ids \ {job.id} : pos'[i] = pos[i]
      BY <1>0, <2>1, <2>3 DEF PosFits
    <3> HIDE DEF x
    <3>3. pos'[job.id].st = "closing" /\ pos'[job.id].move = job.move
      BY <3>1, <3>2 DEF PosTypes
    <3> QED
      BY <1>2, <2>3, <3>2, <3>3 DEF PosSteps, Sends
  <2> QED
    BY <1>2, <2>2, <2>3 DEF SendClose, RetryClose, CallClose
<1>3. CASE SendOpen
  <2>1. PICK i \in Ids : /\ pos[i].st = "none" /\ job' = [job EXCEPT !.id = i]
                         /\ UNCHANGED pos \/ pos' = [pos EXCEPT ![i].st = "opening", ![i].venue = at]
    BY <1>3 DEF SendOpen, Unused
  <2>2. job'.id = i
    BY <1>0, <2>1 DEF JobFits, JobTypes
  <2>3. CASE UNCHANGED pos
    BY <2>3 DEF PosSteps
  <2>4. CASE pos' = [pos EXCEPT ![i].st = "opening", ![i].venue = at]
    <3> DEFINE x == [pos[i] EXCEPT !.st = "opening"]
    <3>1. x.st = "opening" /\ x.move = pos[i].move /\ x \in PosTypes
      BY <1>0 DEF PosFits, PosTypes
    <3>2. pos'[i] = [x EXCEPT !.venue = at] /\ \A j \in Ids \ {i} : pos'[j] = pos[j]
      BY <1>0, <2>4 DEF PosFits
    <3> HIDE DEF x
    <3>3. pos'[i].st = "opening" /\ pos'[i].move = pos[i].move
      BY <3>1, <3>2 DEF PosTypes
    <3> QED
      BY <1>3, <2>1, <2>2, <3>2, <3>3 DEF PosSteps, Opens
  <2> QED
    BY <2>1, <2>3, <2>4
<1>4. CASE \E i \in Ids : LandOpen(i) \/ LandClose(i) \/ Miss(i)
  <2>1. PICK i \in Ids : LandOpen(i) \/ LandClose(i) \/ Miss(i)
    BY <1>4
  <2>2. \A j \in Ids \ {i} : pos'[j] = pos[j]
    BY <1>0, <2>1 DEF LandOpen, LandClose, Miss, PosFits
  <2>3. CASE LandOpen(i)
    BY <1>0, <2>3, <2>2 DEF LandOpen, PosFits, PosTypes, PosSteps, OpenLands
  <2>4. CASE LandClose(i)
    BY <1>0, <2>4, <2>2 DEF LandClose, PosFits, PosTypes, PosSteps, CloseLands
  <2>5. CASE Miss(i)
    BY <1>0, <2>5, <2>2 DEF Miss, InFlight, PosFits, PosTypes, PosSteps, Misses
  <2> QED
    BY <2>1, <2>3, <2>4, <2>5
<1> QED
  BY <1>1, <1>2, <1>3, <1>4, Actions

Kept == state.pending'.id = state.pending.id /\ state.pending'.move = state.pending.move
Dropped == (CloseRefused \/ CloseFailed \/ DropOldIntent \/ FinishOpen) /\ state.pending' = NoIntent
Left ==
  /\ \E c \in BOOLEAN, t \in Targets : StartMove(c, t)
  /\ state.pending'.id = job.id /\ state.pending'.venue = at
  /\ state.pending'.move = moves + 1 /\ ~state.pending'.closed
ClosedNow == (CountMove /\ job.calm) \/ ResumeReopen
PendingSteps ==
  \/ UNCHANGED state.pending
  \/ Dropped \/ Left
  \/ /\ Kept /\ ClosedNow /\ state.pending # NoIntent
     /\ state.pending'.closed /\ state.pending'.venue = state.pending.venue
  \/ /\ Kept /\ MoveIntent
     /\ state.pending'.closed = state.pending.closed /\ state.pending'.venue = at

LEMMA PendingFrame ==
  ASSUME TypeInv, Next
  PROVE  PendingSteps
<1>0. StateFits /\ JobFits
  BY DEF TypeInv
<1>1. CASE \/ Wake \/ StopForHalt \/ Stay \/ SendClose \/ RetryClose \/ CloseLanded \/ BookClose \/ Repoint
           \/ PickPool \/ IntentElsewhere \/ OpenNothing \/ SendOpen \/ BookOpen \/ HaltAtMax \/ Crash \/ Start
           \/ OperatorHalts \/ OperatorClears \/ DayPasses
           \/ \E c \in BOOLEAN : RefuseMove(c)
           \/ \E v \in Venues, n \in {"none", "reopen"} : MoveEmpty(v, n)
           \/ \E i \in Ids : LandOpen(i)
           \/ \E i \in Ids : LandClose(i)
           \/ \E i \in Ids : Miss(i)
  <2>1. UNCHANGED state
    BY <1>0, <1>1, Zenon DEF Wake, StopForHalt, Stay, SendClose, RetryClose, CloseLanded, BookClose, Repoint, PickPool,
           IntentElsewhere, OpenNothing, SendOpen, BookOpen, HaltAtMax, RefuseMove, MoveEmpty, LandOpen,
           LandClose, Miss, Crash, Start, OperatorHalts, OperatorClears, DayPasses, counters, history, EndPoll,
           GoTo
  <2> QED
    BY <2>1, Zenon DEF PendingSteps
<1>2. CASE \/ Unreadable \/ PollNone \/ PollHeld \/ OpenRefused \/ OpenLanded \/ OpenFailed
  BY <1>0, <1>2 DEF StateFits, StateTypes, PendingSteps,
           Unreadable, PollNone, PollHeld, OpenRefused, OpenLanded, OpenFailed
<1>3. CASE \/ CloseRefused \/ DropOldIntent \/ FinishOpen
  <2>1. state' = [state EXCEPT !.pending = NoIntent]
    BY <1>3 DEF CloseRefused, DropOldIntent, FinishOpen
  <2> QED
    BY <1>0, <1>3, <2>1 DEF StateFits, StateTypes, PendingSteps, Dropped
<1>4. CASE CloseFailed
  <2>1. state' = [[state EXCEPT !.pending = NoIntent] EXCEPT !.failures = OneMore(state.failures, MaxFailures)]
    BY <1>4 DEF CloseFailed
  <2> QED
    BY <1>0, <1>4, <2>1, Intent DEF StateFits, StateTypes, PendingSteps, Dropped
<1>5. CASE \E c \in BOOLEAN, t \in Targets : StartMove(c, t)
  <2> DEFINE x == [id |-> job.id, venue |-> at, move |-> moves + 1, closed |-> FALSE]
  <2>1. state' = state \/ state' = [state EXCEPT !.pending = x]
    BY <1>5 DEF StartMove
  <2>2. x.id = job.id /\ x.venue = at /\ x.move = moves + 1 /\ ~x.closed
    OBVIOUS
  <2> HIDE DEF x
  <2> QED
    BY <1>0, <1>5, <2>1, <2>2 DEF StateFits, StateTypes, PendingSteps, Left
<1>6. CASE CountMove
  <2>1. CASE ~job.calm
    BY <1>0, <1>6, <2>1 DEF CountMove, Counted, StateFits, StateTypes, PendingSteps
  <2>2. CASE job.calm
    <3> DEFINE s == [state EXCEPT !.calm = state.calm \cup {job.move}]
    <3>1. s.pending = state.pending /\ DOMAIN s = DOMAIN state /\ s = [s EXCEPT !.unread = s.unread]
      BY <1>0 DEF StateFits, StateTypes
    <3>2. state' = [s EXCEPT !.pending.closed = (state.pending # NoIntent)]
      BY <1>6, <2>2 DEF CountMove, Counted
    <3>3. state.pending \in Intents /\ "pending" \in DOMAIN state
      BY <1>0 DEF StateFits, StateTypes
    <3> HIDE DEF s
    <3>4. state'.pending = [state.pending EXCEPT !.closed = (state.pending # NoIntent)]
      BY <3>1, <3>2, <3>3
    <3>5. CASE state.pending = NoIntent
      <4>1. state'.pending = [NoIntent EXCEPT !.closed = FALSE]
        BY <3>4, <3>5
      <4>2. ASSUME NEW r \in Intents, r.closed = FALSE PROVE [r EXCEPT !.closed = FALSE] = r
        BY <4>2 DEF Intents
      <4> QED
        BY <3>5, <4>1, <4>2, Intent DEF PendingSteps
    <3>6. CASE state.pending # NoIntent
      BY <1>6, <2>2, <3>3, <3>4, <3>6 DEF Intents, PendingSteps, Kept, ClosedNow
    <3> QED
      BY <3>5, <3>6
  <2> QED
    BY <2>1, <2>2
<1>7. CASE MoveIntent
  <2>1. state' = IntentFollows
    BY <1>7 DEF MoveIntent
  <2>2. CASE state.pending = NoIntent
    BY <2>1, <2>2 DEF IntentFollows, PendingSteps
  <2>3. CASE state.pending # NoIntent
    <3>1. state' = [state EXCEPT !.pending.venue = at]
      BY <2>1, <2>3 DEF IntentFollows
    <3> QED
      BY <1>0, <1>7, <3>1 DEF StateFits, StateTypes, Intents, PendingSteps, Kept
  <2> QED
    BY <2>2, <2>3
<1>8. CASE ResumeReopen
  <2>1. state' = [[state EXCEPT !.calm = IF state.pending.closed THEN state.calm ELSE state.calm \cup {state.pending.move}]
                    EXCEPT !.pending.closed = TRUE]
    BY <1>8 DEF ResumeReopen, ResumedState
  <2>2. state'.pending = [state.pending EXCEPT !.closed = TRUE]
    BY <1>0, <2>1 DEF StateFits, StateTypes
  <2> QED
    BY <1>0, <1>8, <2>2, Zenon DEF StateFits, StateTypes, Intents, PendingSteps, Kept, ClosedNow, ResumeReopen
<1> QED
  BY <1>1, <1>2, <1>3, <1>4, <1>5, <1>6, <1>7, <1>8, Actions

CountSteps ==
  \/ UNCHANGED <<state.normal, state.calm>>
  \/ CountMove /\ job.calm /\ UNCHANGED state.normal /\ state.calm' = state.calm \cup {job.move}
  \/ CountMove /\ ~job.calm /\ UNCHANGED state.calm /\ state.normal' = state.normal \cup {job.move}
  \/ /\ ResumeReopen /\ ~state.pending.closed
     /\ UNCHANGED state.normal /\ state.calm' = state.calm \cup {state.pending.move}

LEMMA CountFrame ==
  ASSUME TypeInv, Next
  PROVE  CountSteps
<1>0. StateFits
  BY DEF TypeInv
<1>1. CASE \/ Wake \/ StopForHalt \/ Stay \/ SendClose \/ RetryClose \/ CloseLanded \/ BookClose \/ Repoint
           \/ PickPool \/ IntentElsewhere \/ OpenNothing \/ SendOpen \/ BookOpen \/ HaltAtMax \/ Crash \/ Start
           \/ OperatorHalts \/ OperatorClears \/ DayPasses
           \/ \E c \in BOOLEAN : RefuseMove(c)
           \/ \E v \in Venues, n \in {"none", "reopen"} : MoveEmpty(v, n)
           \/ \E i \in Ids : LandOpen(i)
           \/ \E i \in Ids : LandClose(i)
           \/ \E i \in Ids : Miss(i)
  <2>1. UNCHANGED state
    BY <1>0, <1>1, Zenon DEF Wake, StopForHalt, Stay, SendClose, RetryClose, CloseLanded, BookClose, Repoint, PickPool,
           IntentElsewhere, OpenNothing, SendOpen, BookOpen, HaltAtMax, RefuseMove, MoveEmpty, LandOpen,
           LandClose, Miss, Crash, Start, OperatorHalts, OperatorClears, DayPasses, counters, history, EndPoll,
           GoTo
  <2> QED
    BY <2>1 DEF CountSteps
<1>2. CASE \/ Unreadable \/ PollNone \/ PollHeld \/ OpenRefused \/ OpenLanded \/ OpenFailed \/ CloseRefused
           \/ DropOldIntent \/ FinishOpen \/ MoveIntent
           \/ \E c \in BOOLEAN, t \in Targets : StartMove(c, t)
  BY <1>0, <1>2 DEF StateFits, StateTypes, CountSteps, IntentFollows, StartMove,
           Unreadable, PollNone, PollHeld, OpenRefused, OpenLanded, OpenFailed, CloseRefused, DropOldIntent, FinishOpen,
           MoveIntent
<1>3. CASE CloseFailed
  <2>1. state' = [[state EXCEPT !.pending = NoIntent] EXCEPT !.failures = OneMore(state.failures, MaxFailures)]
    BY <1>3 DEF CloseFailed
  <2> QED
    BY <1>0, <2>1 DEF StateFits, StateTypes, CountSteps
<1>4. CASE CountMove
  <2>1. CASE ~job.calm
    BY <1>0, <1>4, <2>1 DEF CountMove, Counted, StateFits, StateTypes, CountSteps
  <2>2. CASE job.calm
    <3> DEFINE s == [state EXCEPT !.calm = state.calm \cup {job.move}]
    <3>1. s \in StateTypes /\ s.normal = state.normal /\ s.calm = state.calm \cup {job.move}
      <4>1. DOMAIN s = DOMAIN state /\ s.normal = state.normal /\ s.calm = state.calm \cup {job.move}
        BY <1>0 DEF StateFits, StateTypes
      <4>2. job.move \in Moves
        BY <1>4 DEF TypeInv, JobFits, CountMove
      <4> QED
        BY <1>0, <4>1, <4>2 DEF StateFits, StateTypes
    <3>2. state' = [s EXCEPT !.pending.closed = (state.pending # NoIntent)]
      BY <1>4, <2>2 DEF CountMove, Counted
    <3> HIDE DEF s
    <3> QED
      BY <1>4, <2>2, <3>1, <3>2 DEF StateTypes, CountSteps
  <2> QED
    BY <2>1, <2>2
<1>5. CASE ResumeReopen
  <2>1. state' = [[state EXCEPT !.calm = IF state.pending.closed THEN state.calm ELSE state.calm \cup {state.pending.move}]
                    EXCEPT !.pending.closed = TRUE]
    BY <1>5 DEF ResumeReopen, ResumedState
  <2>2. /\ UNCHANGED state.normal
        /\ state.calm' = IF state.pending.closed THEN state.calm ELSE state.calm \cup {state.pending.move}
    BY <1>0, <2>1 DEF StateFits, StateTypes
  <2> QED
    BY <1>5, <2>2 DEF CountSteps
<1> QED
  BY <1>1, <1>2, <1>3, <1>4, <1>5, Actions

-----------------------------------------------------------------------------
(* The intent's venue follows the configuration's, one step behind.        *)

VenueInv ==
  "crash at repoint" \notin strays /\ pc # "repointed" /\ state.pending # NoIntent => state.pending.venue = at

LEMMA VenueKeeps == ASSUME TypeInv, VenueInv, Next PROVE VenueInv'
<1> USE StrayGrows DEF VenueInv
<1>0. StateFits /\ JobFits
  BY DEF TypeInv
<1>a. MoveIntent => pc = "repointed" /\ pc' # "repointed"
  BY <1>0 DEF MoveIntent, GoTo, JobFits, JobTypes
<1>1. CASE \/ Wake \/ StopForHalt \/ Unreadable \/ PollNone \/ PollHeld \/ Stay \/ CloseRefused \/ SendClose
           \/ RetryClose \/ CloseLanded \/ CloseFailed \/ BookClose \/ CountMove \/ PickPool \/ DropOldIntent
           \/ IntentElsewhere \/ ResumeReopen \/ OpenNothing \/ OpenRefused \/ SendOpen \/ OpenLanded
           \/ OpenFailed \/ BookOpen \/ FinishOpen \/ HaltAtMax \/ Start \/ OperatorHalts \/ OperatorClears
           \/ DayPasses
           \/ \E c \in BOOLEAN : RefuseMove(c)
           \/ \E c \in BOOLEAN, t \in Targets : StartMove(c, t)
           \/ \E v \in Venues, n \in {"none", "reopen"} : MoveEmpty(v, n)
           \/ \E i \in Ids : LandOpen(i)
           \/ \E i \in Ids : LandClose(i)
           \/ \E i \in Ids : Miss(i)
  <2>1. UNCHANGED at /\ (pc' = pc \/ pc # "repointed")
    BY <1>1 DEF Wake, StopForHalt, Unreadable, PollNone, PollHeld, Stay, CloseRefused, SendClose, RetryClose,
           CloseLanded, CloseFailed, BookClose, CountMove, PickPool, DropOldIntent, IntentElsewhere,
           ResumeReopen, OpenNothing, OpenRefused, SendOpen, OpenLanded, OpenFailed, BookOpen, FinishOpen,
           HaltAtMax, RefuseMove, StartMove, MoveEmpty, LandOpen, LandClose, Miss, Start, OperatorHalts,
           OperatorClears, DayPasses, counters, history, EndPoll, GoTo
  <2> QED
    BY <1>0, <1>a, <2>1, PendingFrame, ZenonT(60) DEF VenueInv, PendingSteps, Dropped, Left
<1>2. CASE Repoint
  BY <1>2 DEF Repoint, GoTo
<1>3. CASE MoveIntent
  <2>1. UNCHANGED at /\ (state.pending # NoIntent => state' = [state EXCEPT !.pending.venue = at])
                  /\ (state.pending = NoIntent => state' = state)
    BY <1>3 DEF MoveIntent, IntentFollows
  <2> QED
    BY <1>0, <2>1 DEF StateFits, StateTypes, Intents
<1>4. CASE Crash
  BY <1>0, <1>4 DEF Crash
<1> QED
  BY <1>1, <1>2, <1>3, <1>4, Actions

\* An intent that is read is on the venue the profile is pointed at, unless
\* the process crashed between the two records of a repointing: resume_reopen
\* does not halt on it.
THEOREM VenueHolds == Spec => []IntentOnVenue
<1>1. Init => TypeInv /\ VenueInv
  BY InitTyped DEF Init, VenueInv
<1>2. TypeInv /\ VenueInv /\ [Next]_vars => (TypeInv /\ VenueInv)'
  <2> SUFFICES ASSUME TypeInv, VenueInv, [Next]_vars PROVE VenueInv'
    BY NextTyped
  <2>1. CASE UNCHANGED vars
    BY <2>1 DEF vars, VenueInv
  <2> QED
    BY <2>1, VenueKeeps
<1>3. VenueInv => IntentOnVenue
  BY DEF VenueInv, IntentOnVenue, Elsewhere
<1> QED
  BY <1>1, <1>2, <1>3, PTL DEF Spec

-----------------------------------------------------------------------------
(* No move is numbered that was not made.                                  *)

UsedInv ==
  /\ job.move <= moves /\ state.pending.move <= moves
  /\ \A i \in Ids : pos[i].move <= moves
  /\ closes \cup state.normal \subseteq 0 .. moves

NumberSteps ==
  \/ UNCHANGED moves /\ job'.move \in {0, job.move}
  \/ moves' = moves + 1 /\ job'.move = moves + 1
CloseSteps == closes' = closes \/ \E i \in Ids : LandClose(i) /\ closes' = closes \cup {pos[i].move}

LEMMA NumberFrame ==
  ASSUME TypeInv, Next
  PROVE  NumberSteps
<1>0. JobFits
  BY DEF TypeInv
<1>1. CASE \/ Wake \/ StopForHalt \/ Unreadable \/ PollNone \/ Stay \/ CloseRefused \/ CloseLanded \/ CloseFailed
           \/ BookClose \/ Repoint \/ MoveIntent \/ DropOldIntent \/ IntentElsewhere \/ ResumeReopen
           \/ OpenNothing \/ OpenRefused \/ OpenFailed \/ BookOpen \/ FinishOpen \/ HaltAtMax \/ Crash \/ Start
           \/ OperatorHalts \/ OperatorClears \/ DayPasses
           \/ \E c \in BOOLEAN : RefuseMove(c)
           \/ \E i \in Ids : LandOpen(i)
           \/ \E i \in Ids : LandClose(i)
           \/ \E i \in Ids : Miss(i)
  <2>1. UNCHANGED moves /\ (UNCHANGED job \/ job' = NoJob)
    BY <1>0, <1>1 DEF Wake, StopForHalt, Unreadable, PollNone, Stay, CloseRefused, CloseLanded, CloseFailed,
           BookClose, Repoint, MoveIntent, DropOldIntent, IntentElsewhere, ResumeReopen, OpenNothing,
           OpenRefused, OpenFailed, BookOpen, FinishOpen, HaltAtMax, RefuseMove, LandOpen, LandClose, Miss,
           Crash, Start, OperatorHalts, OperatorClears, DayPasses, counters, history, EndPoll, GoTo
  <2> QED
    BY <2>1 DEF NumberSteps, NoJob
<1>2. CASE \E c \in BOOLEAN, t \in Targets : StartMove(c, t)
  <2>1. PICK c \in BOOLEAN, t \in Targets : StartMove(c, t)
    BY <1>2
  <2>2. moves' = moves + 1 /\ job' = [[[job EXCEPT !.move = moves + 1] EXCEPT !.calm = c] EXCEPT !.target = t]
    BY <2>1 DEF StartMove
  <2>3. [job EXCEPT !.move = moves + 1].move = moves + 1 /\ DOMAIN [job EXCEPT !.move = moves + 1] = DOMAIN NoJob
    BY <1>0 DEF JobFits, JobTypes, NoJob
  <2>4. job'.move = moves + 1
    BY <2>2, <2>3 DEF NoJob
  <2> QED
    BY <2>2, <2>4 DEF NumberSteps
<1>3. CASE \/ PollHeld \/ CountMove \/ SendClose \/ RetryClose \/ SendOpen \/ OpenLanded
  <2>1. /\ UNCHANGED moves
        /\ \/ \E n \in 1..2 : job' = [job EXCEPT !.tries = n]
           \/ \E i \in Ids : job' = [job EXCEPT !.id = i] \/ job' = [NoJob EXCEPT !.id = i]
           \/ job' = [job EXCEPT !.next = "reopen"]
    <3>1. CASE SendClose \/ RetryClose
      BY <3>1 DEF SendClose, RetryClose, counters
    <3>2. CASE PollHeld \/ CountMove \/ SendOpen \/ OpenLanded
      BY <3>2 DEF PollHeld, CountMove, SendOpen, OpenLanded, counters, Unused, Shown
    <3> QED
      BY <1>3, <3>1, <3>2
  <2> QED
    BY <1>0, <2>1 DEF JobFits, JobTypes, NoJob, NumberSteps
<1>4. CASE \/ PickPool
           \/ \E v \in Venues, n \in {"none", "reopen"} : MoveEmpty(v, n)
  <2>1. /\ UNCHANGED moves
        /\ UNCHANGED job \/ \E v, n : job' = [[NoJob EXCEPT !.target = v] EXCEPT !.next = n]
    BY <1>4 DEF PickPool, MoveEmpty
  <2> QED
    BY <2>1, ZenonT(60) DEF NoJob, NumberSteps
<1> QED
  BY <1>1, <1>2, <1>3, <1>4, Actions

LEMMA CloseFrame ==
  ASSUME TypeInv, Next
  PROVE  CloseSteps
<1>0. TRUE
  OBVIOUS
<1>1. CASE \/ Wake \/ StopForHalt \/ Unreadable \/ PollNone \/ PollHeld \/ Stay \/ CloseRefused \/ SendClose
           \/ RetryClose \/ CloseLanded \/ CloseFailed \/ BookClose \/ CountMove \/ Repoint \/ MoveIntent
           \/ PickPool \/ DropOldIntent \/ IntentElsewhere \/ ResumeReopen \/ OpenNothing \/ OpenRefused
           \/ SendOpen \/ OpenLanded \/ OpenFailed \/ BookOpen \/ FinishOpen \/ HaltAtMax \/ Crash \/ Start
           \/ OperatorHalts \/ OperatorClears \/ DayPasses
           \/ \E c \in BOOLEAN : RefuseMove(c)
           \/ \E c \in BOOLEAN, t \in Targets : StartMove(c, t)
           \/ \E v \in Venues, n \in {"none", "reopen"} : MoveEmpty(v, n)
           \/ \E i \in Ids : LandOpen(i)
           \/ \E i \in Ids : Miss(i)
  <2>1. UNCHANGED closes
    BY <1>0, <1>1 DEF Wake, StopForHalt, Unreadable, PollNone, PollHeld, Stay, CloseRefused, SendClose,
           RetryClose, CloseLanded, CloseFailed, BookClose, CountMove, Repoint, MoveIntent, PickPool,
           DropOldIntent, IntentElsewhere, ResumeReopen, OpenNothing, OpenRefused, SendOpen, OpenLanded,
           OpenFailed, BookOpen, FinishOpen, HaltAtMax, RefuseMove, StartMove, MoveEmpty, LandOpen, Miss, Crash,
           Start, OperatorHalts, OperatorClears, DayPasses, counters, history, EndPoll, GoTo
  <2> QED
    BY <2>1 DEF CloseSteps
<1>2. CASE \E i \in Ids : LandClose(i)
  BY <1>2 DEF LandClose, CloseSteps
<1> QED
  BY <1>1, <1>2, Actions

LEMMA UsedKeeps == ASSUME TypeInv, UsedInv, Next PROVE UsedInv'
<1>1. moves \in Nat /\ moves' \in {moves, moves + 1} /\ job'.move \in {0, job.move, moves'} /\ job'.move <= moves'
  <2>1. moves \in Nat /\ job.move \in Int
    BY LimitsAssumption DEF TypeInv, CountsFit, JobFits, JobTypes, Moves
  <2> QED
    BY <2>1, NumberFrame DEF NumberSteps, UsedInv
<1>2. state.pending'.move <= moves'
  <2>1. CASE Left
    BY <1>1, <2>1 DEF Left, StartMove
  <2>2. CASE ~Left
    <3>1. state.pending'.move \in {0, state.pending.move}
      BY <2>2, PendingFrame, Intent DEF PendingSteps, Dropped, Kept
    <3>2. state.pending.move \in Int
      BY LimitsAssumption DEF TypeInv, StateFits, StateTypes, Intents, Moves
    <3> QED
      BY <1>1, <3>1, <3>2 DEF UsedInv
  <2> QED
    BY <2>1, <2>2
<1>3. ASSUME NEW i \in Ids PROVE pos'[i].move <= moves'
  <2>1. pos'[i].move \in {pos[i].move, job.move}
    BY PosFrame DEF PosSteps, Sends
  <2>2. pos[i].move \in Int /\ job.move \in Int
    BY LimitsAssumption DEF TypeInv, PosFits, PosTypes, JobFits, JobTypes, Moves
  <2> QED
    BY <1>1, <2>1, <2>2 DEF UsedInv
<1>4. closes' \cup state.normal' \subseteq 0 .. moves'
  <2>1. \A m \in closes' \cup state.normal' : m \in closes \cup state.normal \cup {job.move} \/ \E i \in Ids : m = pos[i].move
    BY CountFrame, CloseFrame DEF CountSteps, CloseSteps
  <2>2. \A m \in closes' \cup state.normal' : m \in Nat
    BY NextTyped, LimitsAssumption DEF TypeInv, CountsFit, StateFits, StateTypes, Moves
  <2> QED
    BY <1>1, <2>1, <2>2 DEF UsedInv
<1> QED
  BY <1>1, <1>2, <1>3, <1>4 DEF UsedInv

-----------------------------------------------------------------------------
(* What the process knows of the position it closes, where nothing strayed.*)

BusyStates == {"held", "close", "closing", "closed", "booked", "opened"}
RestStates == {"failed", "asleep", "down"}
SameMove == job'.id = job.id /\ job'.move = job.move /\ job'.calm = job.calm
PlaceSteps ==
  \/ UNCHANGED <<pc, job>> /\ ~SendClose /\ ~SendOpen
  \/ PollHeld \/ OpenLanded \/ Wake \/ Start
  \/ /\ \E c \in BOOLEAN, t \in Targets : StartMove(c, t)
     /\ job'.id = job.id /\ pc = "held" /\ pc' = "close"
  \/ (SendClose \/ RetryClose) /\ SameMove /\ pc \in {"close", "closing"} /\ pc' = "closing"
  \/ CloseLanded /\ SameMove /\ pc = "closing" /\ pc' = "closed"
  \/ BookClose /\ SameMove /\ pc = "closed" /\ pc' = "booked"
  \/ CloseFailed /\ pc = "closing" /\ pc' = "failed"
  \/ /\ pc' \notin BusyStates
     /\ pc = "closing" => pc' = "down"
     /\ pc \in RestStates => pc' \in RestStates

LEMMA PlaceFrame ==
  ASSUME TypeInv, Next
  PROVE  PlaceSteps
<1>0. JobFits
  BY DEF TypeInv
<1>1. CASE \/ StopForHalt \/ Unreadable \/ PollNone \/ Stay \/ CloseRefused \/ CountMove \/ Repoint \/ MoveIntent
           \/ PickPool \/ IntentElsewhere \/ ResumeReopen \/ OpenNothing \/ OpenRefused \/ SendOpen \/ OpenFailed
           \/ BookOpen \/ FinishOpen \/ HaltAtMax \/ Crash
           \/ \E c \in BOOLEAN : RefuseMove(c)
           \/ \E v \in Venues, n \in {"none", "reopen"} : MoveEmpty(v, n)
  <2>1. /\ pc' \notin BusyStates
        /\ pc = "closing" => pc' = "down"
        /\ pc \in RestStates => pc' \in RestStates
    BY <1>0, <1>1 DEF StopForHalt, Unreadable, PollNone, Stay, CloseRefused, CountMove, Repoint, MoveIntent,
           PickPool, IntentElsewhere, ResumeReopen, OpenNothing, OpenRefused, SendOpen, OpenFailed, BookOpen,
           FinishOpen, HaltAtMax, RefuseMove, MoveEmpty, Crash, counters, history, EndPoll, GoTo, BusyStates,
           RestStates, JobFits, JobTypes
  <2> QED
    BY <2>1, ZenonT(60) DEF PlaceSteps
<1>2. CASE \/ OperatorHalts \/ OperatorClears \/ DayPasses \/ DropOldIntent
           \/ \E i \in Ids : LandOpen(i)
           \/ \E i \in Ids : LandClose(i)
           \/ \E i \in Ids : Miss(i)
  <2>1. UNCHANGED <<pc, job>>
    BY <1>2 DEF LandOpen, LandClose, Miss, OperatorHalts, OperatorClears, DayPasses, DropOldIntent
  <2> QED
    BY <2>1 DEF PlaceSteps, SendClose, SendOpen, GoTo
<1>3. CASE \/ PollHeld \/ OpenLanded \/ Wake \/ Start
  BY <1>3 DEF PlaceSteps
<1>4. CASE \E c \in BOOLEAN, t \in Targets : StartMove(c, t)
  <2>1. PICK c \in BOOLEAN, t \in Targets : StartMove(c, t)
    BY <1>4
  <2>2. pc = "held" /\ pc' = "close" /\ job' = [[[job EXCEPT !.move = moves + 1] EXCEPT !.calm = c] EXCEPT !.target = t]
    BY <2>1 DEF StartMove, GoTo
  <2>3. job'.id = job.id
    BY <1>0, <2>2 DEF JobFits, JobTypes
  <2> QED
    BY <1>4, <2>2, <2>3 DEF PlaceSteps
<1>5. CASE \/ SendClose \/ RetryClose
  <2>1. pc \in {"close", "closing"} /\ pc' = "closing" /\ \E n \in 1..2 : job' = [job EXCEPT !.tries = n]
    BY <1>5 DEF SendClose, RetryClose, GoTo
  <2> QED
    BY <1>0, <1>5, <2>1 DEF JobFits, JobTypes, SameMove, PlaceSteps
<1>6. CASE \/ CloseLanded \/ BookClose \/ CloseFailed
  BY <1>6 DEF CloseLanded, BookClose, CloseFailed, GoTo, SameMove, PlaceSteps
<1> QED
  BY <1>1, <1>2, <1>3, <1>4, <1>5, <1>6, Actions

HoldInv ==
  Accountable =>
    /\ \A i \in Ids : pos[i].st = "closing" => pc \in {"closing"} \cup RestStates
    /\ pc \in {"held", "close"} => pos[job.id].st = "open"
    /\ pc = "closing" => pos[job.id].st \in {"open", "closing", "closed"}
    /\ pc \in {"closed", "booked"} => pos[job.id].st = "closed"
    /\ pc = "opened" => pos[job.id].st = "open" /\ job.id \in Ids

LEMMA StillAccountable == ASSUME Next, Accountable' PROVE Accountable /\ Certain /\ UNCHANGED strays
BY StrayGrows DEF Accountable, Certain

\* Where the step starts or ends, while nothing strays.
LEMMA PlaceKnown ==
  ASSUME TypeInv, OneInv, Next, Accountable'
  PROVE  /\ Wake \/ Start => pc' = "poll" /\ UNCHANGED pos /\ \A i \in Ids : ~InFlight(i)
         /\ PollHeld => pc = "poll" /\ pc' = "held" /\ UNCHANGED pos /\ job'.id \in Ids /\ pos[job'.id].st = "open"
         /\ OpenLanded => /\ pc = "opening" /\ pc' = "opened" /\ UNCHANGED pos
                          /\ job'.id = job.id /\ job.id \in Ids /\ OnChain(job.id)
         /\ CloseLanded => UNCHANGED pos /\ pos[job.id].st = "closed"
<1>0. OneLive /\ PlaceFits
  BY StillAccountable DEF OneInv
<1>1. Wake \/ Start => pc' = "poll" /\ UNCHANGED pos /\ \A i \in Ids : ~InFlight(i)
  BY StillAccountable DEF Wake, Start, GoTo, Stray, Accountable
<1>2. ASSUME PollHeld
      PROVE  pc = "poll" /\ pc' = "held" /\ UNCHANGED pos /\ job'.id \in Ids /\ pos[job'.id].st = "open"
  <2>1. pc = "poll" /\ pc' = "held" /\ UNCHANGED pos
    BY <1>2 DEF PollHeld, GoTo
  <2>2. PICK i \in Ids : OnChain(i) /\ job' = [NoJob EXCEPT !.id = i]
    BY <1>2 DEF PollHeld, Shown
  <2>3. ~InFlight(i) /\ job'.id = i
    BY <1>0, <2>1, <2>2 DEF PlaceFits, NoJob
  <2> QED
    BY <2>1, <2>2, <2>3 DEF OnChain, InFlight
<1>3. ASSUME OpenLanded
      PROVE  /\ pc = "opening" /\ pc' = "opened" /\ UNCHANGED pos
             /\ job'.id = job.id /\ job.id \in Ids /\ OnChain(job.id)
  <2>1. pc = "opening" /\ pc' = "opened" /\ UNCHANGED pos
    BY <1>3 DEF OpenLanded, GoTo
  <2>2. PICK i \in Ids : OnChain(i) /\ job' = [job EXCEPT !.id = i]
    BY <1>3 DEF OpenLanded, Shown
  <2>3. job'.id = i /\ i = job.id
    BY <1>0, <2>1, <2>2 DEF PlaceFits, Live, TypeInv, JobFits, JobTypes
  <2> QED
    BY <2>1, <2>2, <2>3
<1>4. CloseLanded => UNCHANGED pos /\ pos[job.id].st = "closed"
  BY DEF CloseLanded, CloseSeen
<1> QED
  BY <1>1, <1>2, <1>3, <1>4

LEMMA HoldKeeps == ASSUME TypeInv, OneInv, HoldInv, Next PROVE HoldInv'
<1> SUFFICES ASSUME Accountable' PROVE HoldInv'
  BY DEF HoldInv
<1>0. Accountable /\ OneLive /\ PlaceFits /\ JobFits
  BY StillAccountable DEF OneInv, TypeInv
<1> DEFINE held == pc \in {"held", "close"} => pos[job.id].st = "open"
           sent == pc = "closing" => pos[job.id].st \in {"open", "closing", "closed"}
           gone == pc \in {"closed", "booked"} => pos[job.id].st = "closed"
           opened == pc = "opened" => pos[job.id].st = "open" /\ job.id \in Ids
<1>1. held /\ sent /\ gone /\ opened
  BY <1>0 DEF HoldInv
<1>2. ASSUME NEW i \in Ids, pos'[i].st = "closing" PROVE pc' \in {"closing"} \cup RestStates
  <2>1. CASE Sends(i)
    BY <2>1 DEF Sends, SendClose, RetryClose, GoTo
  <2>2. CASE pos'[i] = pos[i]
    <3>1. pc \in {"closing"} \cup RestStates /\ InFlight(i)
      BY <1>0, <1>2, <2>2 DEF HoldInv, InFlight
    <3>2. ~Wake /\ ~Start /\ ~PollHeld /\ (OpenLanded => FALSE)
      BY <3>1, PlaceKnown DEF RestStates
    <3>3. ~CloseLanded
      <4> SUFFICES ASSUME CloseLanded PROVE FALSE
        OBVIOUS
      <4>1. pc = "closing" /\ pos[job.id].st = "closed"
        BY PlaceKnown DEF CloseLanded, GoTo
      <4>2. i = job.id
        BY <1>0, <3>1, <4>1 DEF PlaceFits, Live
      <4> QED
        BY <1>2, <2>2, <4>1, <4>2
    <3> QED
      BY <3>1, <3>2, <3>3, PlaceFrame DEF PlaceSteps, RestStates
  <2> QED
    BY <1>2, <2>1, <2>2, PosFrame DEF PosSteps, Opens, OpenLands, CloseLands, Misses
<1>3. job.id \in Ids => PosSteps(job.id)
  BY PosFrame
<1>4. CASE UNCHANGED <<pc, job>> /\ ~SendClose /\ ~SendOpen
  <2>1. pc \in BusyStates => job.id \in Ids
    BY <1>0, <1>1 DEF JobFits, BusyStates
  <2>2. pc # "closing" => ~Sends(job.id)
    BY <1>4 DEF Sends, RetryClose
  <2>3. pc \in {"held", "close"} => ~InFlight(job.id)
    BY <1>0, <2>1 DEF PlaceFits, BusyStates
  <2>4. held' /\ sent' /\ gone' /\ opened'
    BY <1>1, <1>3, <1>4, <2>1, <2>2, <2>3
       DEF BusyStates, PosSteps, Sends, Opens, OpenLands, CloseLands, Misses, InFlight
  <2> QED
    BY <1>2, <2>4 DEF HoldInv
<1>5. CASE \E c \in BOOLEAN, t \in Targets : StartMove(c, t)
  BY <1>1, <1>2, <1>5, <1>0 DEF HoldInv, StartMove, GoTo, JobFits, JobTypes
<1>6. CASE (SendClose \/ RetryClose) /\ SameMove /\ pc \in {"close", "closing"} /\ pc' = "closing"
  <2>1. job.id \in Ids /\ pos[job.id].st \in {"open", "closing", "closed"}
    BY <1>0, <1>1, <1>6 DEF JobFits
  <2>2. ~Opens(job.id) /\ ~OpenLands(job.id)
    BY <2>1, <1>6 DEF Opens, OpenLands
  <2>3. pos'[job.id].st \in {"open", "closing", "closed"}
    BY <1>3, <2>1, <2>2 DEF PosSteps, Sends, CloseLands, Misses
  <2> QED
    BY <1>2, <1>6, <2>3 DEF HoldInv, SameMove
<1>7. CASE CloseLanded \/ BookClose
  BY <1>1, <1>2, <1>7, PlaceKnown DEF HoldInv, CloseLanded, BookClose, GoTo
<1>8. CASE PollHeld \/ Wake \/ Start
  BY <1>2, <1>8, PlaceKnown DEF HoldInv
<1>9. CASE OpenLanded
  <2>1. pos[job.id].st # "closing"
    BY <1>0, <1>9, PlaceKnown DEF HoldInv, RestStates
  <2> QED
    BY <1>2, <1>9, <2>1, PlaceKnown DEF HoldInv, OnChain
<1>10. CASE CloseFailed \/ pc' \notin BusyStates
  BY <1>2, <1>10 DEF HoldInv, CloseFailed, GoTo, BusyStates
<1> QED
  BY <1>4, <1>5, <1>6, <1>7, <1>8, <1>9, <1>10, PlaceFrame DEF PlaceSteps

\* A close carries its move's number; an intent of that number is its intent.
MoveStates == {"close", "closing", "closed", "booked"}
Intends(i) == state.pending.id = i /\ ~state.pending.closed
TagInv ==
  Accountable =>
    /\ pc = "closing" /\ pos[job.id].st = "closing" => pos[job.id].move = job.move
    /\ \A i \in Ids : pos[i].st = "closing" /\ state.pending.move = pos[i].move => Intends(i)
    /\ pc \in MoveStates /\ state.pending.move = job.move => Intends(job.id)

\* The steps that change the intent end no close.
LEMMA IntentPlaces ==
  ASSUME TypeInv, Next
  PROVE  /\ Left \/ ClosedNow \/ MoveIntent => pc' \in {"close", "reopen", "repoint", "none"} /\ UNCHANGED pos /\ pc' # pc
         /\ Left => pc = "held" /\ pc' = "close" /\ moves' = moves + 1
         /\ Dropped => UNCHANGED pos
         /\ SendClose \/ RetryClose \/ CloseLanded \/ BookClose => UNCHANGED state
<1>1. JobFits
  BY DEF TypeInv
<1>2. Left => pc = "held" /\ pc' = "close" /\ moves' = moves + 1 /\ UNCHANGED pos
  BY DEF Left, StartMove, GoTo
<1>3. ClosedNow => pc \in {"booked", "none"} /\ pc' \in {"reopen", "repoint"} /\ UNCHANGED pos
  BY DEF ClosedNow, CountMove, ResumeReopen, GoTo
<1>4. MoveIntent => pc = "repointed" /\ pc' \in {"reopen", "none"} /\ UNCHANGED pos
  BY <1>1 DEF MoveIntent, GoTo, JobFits, JobTypes
<1>5. Dropped => UNCHANGED pos
  BY DEF Dropped, CloseRefused, CloseFailed, DropOldIntent, FinishOpen
<1>6. SendClose \/ RetryClose \/ CloseLanded \/ BookClose => UNCHANGED state
  BY DEF SendClose, RetryClose, CloseLanded, BookClose
<1> QED
  BY <1>2, <1>3, <1>4, <1>5, <1>6

LEMMA TagKeeps == ASSUME TypeInv, OneInv, UsedInv, HoldInv, TagInv, Next PROVE TagInv'
<1> SUFFICES ASSUME Accountable' PROVE TagInv'
  BY DEF TagInv
<1>0. Accountable /\ OneLive /\ PlaceFits /\ JobFits /\ TypeInv' /\ HoldInv'
  BY StillAccountable, NextTyped, HoldKeeps DEF OneInv, TypeInv
<1>1. ASSUME pc' = "closing", pos'[job'.id].st = "closing" PROVE pos'[job'.id].move = job'.move
  <2>1. job'.id \in Ids
    BY <1>0, <1>1 DEF TypeInv, JobFits
  <2>2. PosSteps(job'.id)
    BY <2>1, PosFrame
  <2>3. pos'[job'.id] = pos[job'.id] \/ Sends(job'.id)
    BY <1>1, <2>2 DEF PosSteps, Opens, OpenLands, CloseLands, Misses
  <2>4. \/ UNCHANGED <<pc, job>>
        \/ SameMove /\ pc \in {"close", "closing"}
    BY <1>1, PlaceKnown, PlaceFrame DEF PlaceSteps, StartMove, BusyStates, GoTo
  <2>5. pc = "close" => ~InFlight(job'.id)
    BY <1>0, <2>1 DEF PlaceFits
  <2>6. CASE Sends(job'.id)
    BY <2>4, <2>6 DEF Sends, SameMove
  <2>7. CASE pos'[job'.id] = pos[job'.id]
    BY <1>0, <1>1, <2>4, <2>5, <2>7 DEF TagInv, SameMove, InFlight
  <2> QED
    BY <2>3, <2>6, <2>7
<1>2. ASSUME NEW i \in Ids, pos'[i].st = "closing", state.pending'.move = pos'[i].move PROVE Intends(i)'
  <2>1. pos'[i] = pos[i] \/ Sends(i)
    BY <1>2, PosFrame DEF PosSteps, Opens, OpenLands, CloseLands, Misses
  <2>2. pc' \in {"closing"} \cup RestStates
    BY <1>0, <1>2 DEF HoldInv
  <2>3. ~Left /\ ~ClosedNow /\ ~MoveIntent
    BY <2>2, IntentPlaces DEF RestStates
  <2>4. pos'[i].move \in Moves
    BY <1>0, <1>2 DEF TypeInv, PosFits
  <2>5. UNCHANGED state.pending
    BY <1>2, <2>3, <2>4, PendingFrame, Intent DEF PendingSteps, Dropped
  <2>6. CASE pos'[i] = pos[i]
    BY <1>0, <1>2, <2>5, <2>6 DEF TagInv, Intends
  <2>7. CASE Sends(i)
    <3>1. pc \in MoveStates
      BY <2>7 DEF Sends, SendClose, RetryClose, GoTo, MoveStates
    <3> QED
      BY <1>0, <1>2, <2>5, <2>7, <3>1 DEF TagInv, Intends, Sends
  <2> QED
    BY <2>1, <2>6, <2>7
<1>3. ASSUME pc' \in MoveStates, state.pending'.move = job'.move PROVE Intends(job.id)' /\ job'.id = job.id
  <2>1. job'.move \in Moves
    BY <1>0, <1>3 DEF TypeInv, JobFits, MoveStates
  <2>2. ~Dropped
    BY <1>3, <2>1, Intent DEF Dropped
  <2>3. CASE UNCHANGED <<pc, job>>
    <3>1. UNCHANGED state.pending
      BY <2>2, <2>3, PendingFrame, IntentPlaces DEF PendingSteps
    <3> QED
      BY <1>0, <1>3, <2>3, <3>1 DEF TagInv, Intends
  <2>4. CASE SameMove /\ pc \in MoveStates /\ (SendClose \/ RetryClose \/ CloseLanded \/ BookClose)
    BY <1>0, <1>3, <2>4, IntentPlaces DEF TagInv, Intends, SameMove
  <2>5. CASE job'.id = job.id /\ \E c \in BOOLEAN, t \in Targets : StartMove(c, t)
    <3>1. CASE Left
      BY <2>5, <3>1 DEF Left, Intends
    <3>2. CASE ~Left
      <4>1. UNCHANGED state.pending
        BY <2>2, <2>5, <3>2, PendingFrame
           DEF PendingSteps, ClosedNow, CountMove, ResumeReopen, MoveIntent, StartMove, GoTo
      <4>2. moves \in Nat /\ moves' = moves + 1 /\ job'.move = moves + 1
        <5>1. moves \in Nat
          BY LimitsAssumption DEF TypeInv, CountsFit, Moves
        <5> QED
          BY <2>5, <5>1, NumberFrame DEF NumberSteps, StartMove
      <4> QED
        BY <1>3, <4>1, <4>2 DEF UsedInv
    <3> QED
      BY <3>1, <3>2
  <2> QED
    BY <1>3, <2>3, <2>4, <2>5, PlaceFrame, PlaceKnown DEF PlaceSteps, BusyStates, MoveStates, CloseFailed
<1> QED
  BY <1>1, <1>2, <1>3 DEF TagInv, Intends

-----------------------------------------------------------------------------
(* The books, where nothing strayed: a row or a count may be late only in  *)
(* the step that owes it, or while its intent stands and nothing is held.  *)

Away ==
  /\ Resumable /\ Live = {}
  /\ pc \in {"poll", "asleep", "down", "none", "repoint", "repointed", "failed"}

RowLate(i) ==
  \/ pc \in {"opening", "opened"} /\ i = job.id /\ ledger[i] # "open"
  \/ pc \in {"closing", "closed"} /\ i = job.id /\ pos[i].st = "closed"
  \/ Away /\ i = state.pending.id
RowRight(i) == ledger[i] = "open" <=> OnChain(i)
RowsInv == Accountable => \A i \in Ids : RowRight(i) \/ RowLate(i)

CountLate(m) ==
  \/ pc \in {"closing", "closed", "booked"} /\ m = job.move /\ pos[job.id].st = "closed"
  \/ Away /\ m = state.pending.move
CountInv == Accountable => \A m \in closes : m \in state.normal \cup state.calm \/ CountLate(m)

KnownInv == TypeInv /\ OneInv /\ UsedInv /\ HoldInv /\ TagInv

\* Where a step goes that starts in a close or in an open.
LEMMA StepsFrom ==
  ASSUME TypeInv, Next
  PROVE  /\ pc \in {"closing", "closed", "booked"} =>
              \/ UNCHANGED <<pc, job>> \/ RetryClose \/ CloseLanded \/ CloseFailed \/ BookClose \/ CountMove \/ Crash
         /\ pc \in {"opening", "opened"} =>
              UNCHANGED <<pc, job>> \/ OpenLanded \/ OpenFailed \/ BookOpen \/ Crash
<1>1. CASE \/ OperatorHalts \/ OperatorClears \/ DayPasses
           \/ \E i \in Ids : LandOpen(i)
           \/ \E i \in Ids : LandClose(i)
           \/ \E i \in Ids : Miss(i)
  BY <1>1 DEF LandOpen, LandClose, Miss, OperatorHalts, OperatorClears, DayPasses
<1>2. CASE \/ Wake \/ StopForHalt \/ Unreadable \/ PollNone \/ PollHeld \/ Stay \/ CloseRefused \/ SendClose
           \/ RetryClose \/ CloseLanded \/ CloseFailed \/ BookClose \/ CountMove \/ Repoint \/ MoveIntent
           \/ PickPool \/ DropOldIntent \/ IntentElsewhere \/ ResumeReopen \/ OpenNothing \/ OpenRefused
           \/ SendOpen \/ OpenLanded \/ OpenFailed \/ BookOpen \/ FinishOpen \/ HaltAtMax \/ Crash \/ Start
           \/ \E c \in BOOLEAN : RefuseMove(c)
           \/ \E c \in BOOLEAN, t \in Targets : StartMove(c, t)
           \/ \E v \in Venues, n \in {"none", "reopen"} : MoveEmpty(v, n)
  <2>1. ASSUME pc \in {"closing", "closed", "booked"}
        PROVE  RetryClose \/ CloseLanded \/ CloseFailed \/ BookClose \/ CountMove \/ Crash
    BY <1>2, <2>1 DEF Wake, StopForHalt, Unreadable, PollNone, PollHeld, Stay, CloseRefused, SendClose, Repoint,
           MoveIntent, PickPool, DropOldIntent, IntentElsewhere, ResumeReopen, OpenNothing, OpenRefused,
           SendOpen, OpenLanded, OpenFailed, BookOpen, FinishOpen, HaltAtMax, RefuseMove, StartMove, MoveEmpty,
           Start, GoTo
  <2>2. ASSUME pc \in {"opening", "opened"} PROVE OpenLanded \/ OpenFailed \/ BookOpen \/ Crash
    BY <1>2, <2>2 DEF Wake, StopForHalt, Unreadable, PollNone, PollHeld, Stay, CloseRefused, SendClose,
           RetryClose, CloseLanded, CloseFailed, BookClose, CountMove, Repoint, MoveIntent, PickPool,
           DropOldIntent, IntentElsewhere, ResumeReopen, OpenNothing, OpenRefused, SendOpen, FinishOpen,
           HaltAtMax, RefuseMove, StartMove, MoveEmpty, Start, GoTo
  <2> QED
    BY <2>1, <2>2
<1> QED
  BY <1>1, <1>2, Actions

RowSteps(i) ==
  \/ ledger'[i] = ledger[i]
  \/ BookClose /\ i = job.id /\ ledger'[i] # "open"
  \/ BookOpen /\ i = job.id /\ ledger'[i] = "open"
  \/ ResumeReopen /\ i = state.pending.id /\ ~state.pending.closed /\ ledger'[i] # "open"

LEMMA LedgerFrame ==
  ASSUME TypeInv, Next
  PROVE  \A i \in Ids : RowSteps(i)
<1>0. BooksFit /\ JobFits
  BY DEF TypeInv
<1>1. CASE \/ Wake \/ StopForHalt \/ Unreadable \/ PollNone \/ PollHeld \/ Stay \/ CloseRefused \/ SendClose
           \/ RetryClose \/ CloseLanded \/ CloseFailed \/ CountMove \/ Repoint \/ MoveIntent \/ PickPool
           \/ DropOldIntent \/ IntentElsewhere \/ OpenNothing \/ OpenRefused \/ SendOpen \/ OpenLanded
           \/ OpenFailed \/ FinishOpen \/ HaltAtMax \/ Crash \/ Start \/ OperatorHalts \/ OperatorClears
           \/ DayPasses
           \/ \E c \in BOOLEAN : RefuseMove(c)
           \/ \E c \in BOOLEAN, t \in Targets : StartMove(c, t)
           \/ \E v \in Venues, n \in {"none", "reopen"} : MoveEmpty(v, n)
           \/ \E i \in Ids : LandOpen(i)
           \/ \E i \in Ids : LandClose(i)
           \/ \E i \in Ids : Miss(i)
  <2>1. UNCHANGED ledger
    BY <1>0, <1>1 DEF Wake, StopForHalt, Unreadable, PollNone, PollHeld, Stay, CloseRefused, SendClose,
           RetryClose, CloseLanded, CloseFailed, CountMove, Repoint, MoveIntent, PickPool, DropOldIntent,
           IntentElsewhere, OpenNothing, OpenRefused, SendOpen, OpenLanded, OpenFailed, FinishOpen, HaltAtMax,
           RefuseMove, StartMove, MoveEmpty, LandOpen, LandClose, Miss, Crash, Start, OperatorHalts,
           OperatorClears, DayPasses, counters, history, EndPoll, GoTo
  <2> QED
    BY <2>1 DEF RowSteps
<1>2. CASE BookClose
  BY <1>0, <1>2 DEF BooksFit, BookClose, RowSteps
<1>3. CASE BookOpen
  BY <1>0, <1>3 DEF BooksFit, BookOpen, RowSteps
<1>4. CASE ResumeReopen
  BY <1>0, <1>4 DEF BooksFit, ResumeReopen, ResumedLedger, RowSteps
<1> QED
  BY <1>1, <1>2, <1>3, <1>4, Actions

LEMMA AwayKeeps ==
  ASSUME KnownInv, Next, Accountable', Away
  PROVE  (Away' /\ Kept) \/ ResumeReopen
<1> SUFFICES ASSUME ~ResumeReopen PROVE Away' /\ Kept
  OBVIOUS
<1>0. TypeInv /\ Accountable /\ StateFits /\ JobFits
  BY StillAccountable DEF KnownInv, TypeInv
<1>1. /\ pc' \in {"poll", "asleep", "down", "none", "repoint", "repointed", "failed"}
      /\ ~SendOpen /\ ~Dropped /\ ~Left /\ ~ClosedNow
  <2>1. state.pending # NoIntent /\ ~state.pending.closed /\ Shown = {}
    BY DEF Away, Resumable, Live, Shown
  <2>2. ~PollHeld /\ ~PickPool /\ ~DropOldIntent
    BY <2>1, StillAccountable DEF PollHeld, PickPool, DropOldIntent, Stray, Accountable
  <2>3. MoveIntent => pc' = "none"
    <3>1. MoveIntent => job.next # "reopen"
      BY <1>0, StillAccountable DEF MoveIntent, Stray, Accountable, Away
    <3> QED
      BY <1>0, <3>1 DEF MoveIntent, GoTo, JobFits, JobTypes
  <2>4. pc' \in {"poll", "asleep", "down", "none", "repoint", "repointed", "failed"}
    BY <2>2, <2>3, Actions DEF Away, GoTo, EndPoll, counters, history,
           Wake, StopForHalt, Unreadable, PollNone, Stay, CloseRefused, SendClose, RetryClose, CloseLanded,
           CloseFailed, BookClose, CountMove, Repoint, IntentElsewhere, OpenNothing, OpenRefused, SendOpen,
           OpenLanded, OpenFailed, BookOpen, FinishOpen, HaltAtMax, RefuseMove, StartMove, MoveEmpty, LandOpen,
           LandClose, Miss, Crash, Start, OperatorHalts, OperatorClears, DayPasses
  <2> QED
    BY <2>2, <2>4 DEF Away, SendOpen, Dropped, CloseRefused, CloseFailed, FinishOpen, Left, StartMove,
           ClosedNow, CountMove, GoTo
<1>2. \A i \in Ids : pos'[i] = pos[i]
  BY <1>0, <1>1, PosFrame DEF PosSteps, Sends, Opens, OpenLands, CloseLands, Misses, Away, Live, OnChain, InFlight
<1>3. /\ Kept /\ state.pending'.closed = state.pending.closed
      /\ state.pending' = state.pending \/ MoveIntent
  BY <1>0, <1>1, PendingFrame DEF PendingSteps, Kept
<1>4. Resumable'
  <2>1. state.pending.id \in Ids /\ state.pending.move \in Moves
    BY <1>0 DEF Away, Resumable, StateFits, IntentFits
  <2> QED
    BY <1>2, <1>3, <2>1, Intent DEF Away, Resumable, Kept
<1>5. Live' = {}
  BY <1>2 DEF Away, Live, OnChain, InFlight
<1> QED
  BY <1>1, <1>3, <1>4, <1>5 DEF Away

\* A crash in a close that landed leaves its intent.
LEMMA CrashLeaves ==
  ASSUME KnownInv, Crash, Next, Accountable', pc \in {"closing", "closed", "booked"}, pos[job.id].st = "closed"
  PROVE  Away' /\ Kept /\ state.pending.id = job.id /\ state.pending.move = job.move
<1>0. Accountable /\ OneLive /\ PlaceFits /\ JobFits /\ TypeInv
  BY StillAccountable DEF KnownInv, OneInv, TypeInv
<1>1. state.pending.move = job.move
  BY DEF Crash, Unbooked, Accountable
<1>2. Intends(job.id) /\ job.move \in Moves
  BY <1>0, <1>1 DEF KnownInv, TagInv, MoveStates, JobFits
<1>3. UNCHANGED <<pos, state>> /\ pc' = "down"
  BY DEF Crash
<1>4. Live = {}
  BY <1>0 DEF PlaceFits, Live, OnChain, InFlight
<1>5. Live' = {}
  BY <1>3, <1>4, Unmoved
<1> QED
  BY <1>1, <1>2, <1>3, <1>5, Intent DEF Away, Resumable, Intends, Kept

\* A close lands under the eyes of the step that waits for it, or is left to
\* its intent.
LEMMA LandLeaves ==
  ASSUME KnownInv, NEW i \in Ids, LandClose(i), Next, Accountable'
  PROVE  /\ pos'[i].st = "closed"
         /\ \/ pc' = "closing" /\ job'.id = i /\ pos[i].move = job'.move
            \/ Away' /\ state.pending'.id = i /\ state.pending'.move = pos[i].move
<1>0. Accountable /\ OneLive /\ PlaceFits /\ TypeInv
  BY StillAccountable DEF KnownInv, OneInv
<1>1. pos[i].st = "closing" /\ UNCHANGED <<pc, job, state>> /\ (Awaited(i) \/ state.pending.move = pos[i].move)
  BY StillAccountable DEF LandClose, Stray, Accountable
<1>2. pos'[i].st = "closed" /\ \A j \in Ids \ {i} : pos'[j] = pos[j]
  BY <1>0 DEF LandClose, TypeInv, PosFits, PosTypes
<1>3. pc \in {"closing"} \cup RestStates
  BY <1>0, <1>1 DEF KnownInv, HoldInv
<1>4. CASE pc = "closing" /\ job.id = i
  BY <1>0, <1>1, <1>2, <1>4 DEF KnownInv, TagInv
<1>5. CASE ~(pc = "closing" /\ job.id = i)
  <2>1. i \in Live
    BY <1>1 DEF Live, InFlight
  <2>2. pc \in RestStates /\ state.pending.move = pos[i].move
    BY <1>0, <1>1, <1>3, <1>5, <2>1 DEF PlaceFits, Awaited, RestStates
  <2>3. Intends(i) /\ state.pending # NoIntent
    <3>1. pos[i].move \in Moves
      BY <1>0, <1>1 DEF TypeInv, PosFits
    <3> QED
      BY <1>0, <1>1, <2>2, <3>1, Intent DEF KnownInv, TagInv
  <2>4. Live' = {}
    BY <1>0, <1>2, <2>1 DEF OneLive, Live, OnChain, InFlight
  <2> QED
    BY <1>1, <1>2, <2>2, <2>3, <2>4 DEF Away, Resumable, Intends, RestStates
<1> QED
  BY <1>2, <1>4, <1>5

LEMMA KnownKeeps == ASSUME KnownInv, Next PROVE KnownInv'
BY NextTyped, OneKeeps, UsedKeeps, HoldKeeps, TagKeeps DEF KnownInv

LEMMA RowsKeep == ASSUME KnownInv, RowsInv, Next PROVE RowsInv'
<1> SUFFICES ASSUME Accountable', NEW i \in Ids PROVE (RowRight(i) \/ RowLate(i))'
  BY DEF RowsInv
<1>0. /\ Accountable /\ OneLive /\ PlaceFits /\ JobFits /\ TypeInv /\ KnownInv'
      /\ RowRight(i) \/ RowLate(i)
  BY StillAccountable, KnownKeeps DEF KnownInv, OneInv, TypeInv, RowsInv
<1>a. PosSteps(i) /\ RowSteps(i)
  BY <1>0, PosFrame, LedgerFrame
<1>1. CASE Away /\ i = state.pending.id
  <2>1. CASE Away' /\ Kept
    BY <1>1, <2>1 DEF RowLate, Kept
  <2>2. CASE ResumeReopen
    <3>1. ledger'[i] # "open" /\ UNCHANGED pos
      BY <1>0, <1>1, <2>2 DEF ResumeReopen, ResumedLedger, TypeInv, BooksFit, Away, Resumable
    <3> QED
      BY <1>1, <3>1 DEF RowRight, OnChain, Away, Resumable
  <2> QED
    BY <1>1, <2>1, <2>2, AwayKeeps
<1>2. CASE pc \in {"opening", "opened"} /\ i = job.id /\ ledger[i] # "open"
  <2>1. pos[i].st # "closing"
    BY <1>0, <1>2 DEF KnownInv, HoldInv, RestStates
  <2>2. CASE UNCHANGED <<pc, job>> \/ OpenLanded
    <3>1. ledger'[i] = ledger[i]
      BY <1>a, <1>2, <2>2 DEF RowSteps, BookClose, BookOpen, ResumeReopen, OpenLanded, GoTo
    <3> QED
      BY <1>2, <2>2, <3>1, PlaceKnown, <1>0 DEF RowLate, KnownInv
  <2>3. CASE OpenFailed
    <3>1. pos[i].st # "open" /\ UNCHANGED <<pos, ledger>>
      BY <1>2, <2>3, StillAccountable DEF OpenFailed, Stray, Accountable
    <3> QED
      BY <1>2, <2>1, <3>1 DEF RowRight, OnChain
  <2>4. CASE BookOpen
    BY <1>0, <1>2, <2>4 DEF BookOpen, GoTo, KnownInv, HoldInv, TypeInv, BooksFit, RowRight, OnChain
  <2>5. CASE Crash
    BY <1>2, <2>5 DEF Crash, Unbooked, Accountable
  <2> QED
    BY <1>0, <1>2, <2>2, <2>3, <2>4, <2>5, StepsFrom
<1>3. CASE pc \in {"closing", "closed"} /\ i = job.id /\ pos[i].st = "closed"
  <2>1. pos'[i] = pos[i]
    BY <1>a, <1>3 DEF PosSteps, Sends, Opens, OpenLands, CloseLands, Misses
  <2>2. CASE UNCHANGED <<pc, job>>
    BY <1>3, <2>1, <2>2 DEF RowLate
  <2>3. CASE RetryClose \/ CloseLanded
    <3>1. pc' \in {"closing", "closed"} /\ job'.id = job.id
      BY <1>0, <2>3 DEF RetryClose, CloseLanded, GoTo, JobFits, JobTypes
    <3> QED
      BY <1>3, <2>1, <3>1 DEF RowLate
  <2>4. CASE BookClose
    <3>1. ledger'[i] # "open"
      BY <1>0, <1>3, <2>4 DEF BookClose, TypeInv, BooksFit
    <3> QED
      BY <1>3, <2>1, <3>1 DEF RowRight, OnChain
  <2>5. CASE CloseFailed
    BY <1>3, <2>5, StillAccountable DEF CloseFailed, Stray, Accountable
  <2>6. CASE Crash
    BY <1>3, <2>6, CrashLeaves DEF RowLate, Kept
  <2>7. ~CountMove
    BY <1>3 DEF CountMove
  <2> QED
    BY <1>0, <1>3, <2>2, <2>3, <2>4, <2>5, <2>6, <2>7, StepsFrom
<1>4. CASE RowRight(i)
  <2>1. CASE BookClose /\ i = job.id /\ ledger'[i] # "open"
    BY <1>0, <2>1 DEF BookClose, GoTo, KnownInv, HoldInv, RowRight, OnChain
  <2>2. CASE BookOpen /\ i = job.id /\ ledger'[i] = "open"
    BY <1>0, <2>2 DEF BookOpen, GoTo, KnownInv, HoldInv, RowRight, OnChain
  <2>3. CASE ResumeReopen /\ ledger'[i] # "open"
    <3>1. ~OnChain(i) /\ UNCHANGED pos
      BY <1>0, <2>3 DEF ResumeReopen, GoTo, PlaceFits, Live
    <3> QED
      BY <2>3, <3>1 DEF RowRight, OnChain
  <2>4. CASE ledger'[i] = ledger[i]
    <3>1. CASE CloseLands(i)
      BY <1>0, <3>1, LandLeaves DEF CloseLands, RowLate
    <3>2. CASE OpenLands(i)
      <4>1. Awaited(i) /\ UNCHANGED <<pc, job>> /\ ledger[i] # "open"
        BY <1>4, <3>2, StillAccountable DEF OpenLands, LandOpen, Stray, Accountable, RowRight, OnChain
      <4>2. pc = "opening"
        BY <1>0, <3>2, <4>1 DEF Awaited, OpenLands, KnownInv, HoldInv
      <4> QED
        BY <2>4, <4>1, <4>2 DEF RowLate, Awaited
    <3>3. CASE ~CloseLands(i) /\ ~OpenLands(i)
      BY <1>a, <1>4, <2>4, <3>3 DEF PosSteps, Sends, Opens, Misses, RowRight, OnChain
    <3> QED
      BY <3>1, <3>2, <3>3
  <2> QED
    BY <1>a, <2>1, <2>2, <2>3, <2>4 DEF RowSteps
<1> QED
  BY <1>0, <1>1, <1>2, <1>3, <1>4 DEF RowLate

LEMMA CountKeeps == ASSUME KnownInv, CountInv, Next PROVE CountInv'
<1> DEFINE counted == state.normal \cup state.calm
<1> SUFFICES ASSUME Accountable', NEW m \in closes' PROVE m \in counted' \/ CountLate(m)'
  BY DEF CountInv
<1>0. Accountable /\ OneLive /\ PlaceFits /\ JobFits /\ TypeInv
  BY StillAccountable DEF KnownInv, OneInv, TypeInv
<1>1. counted \subseteq counted'
  BY <1>0, CountFrame DEF CountSteps
<1>2. CASE Away /\ m = state.pending.move
  <2>1. CASE ResumeReopen
    BY <1>0, <1>2, <2>1, CountFrame DEF CountSteps, CountMove, GoTo, ResumeReopen, ResumedState, Away, Resumable,
           TypeInv, StateFits, StateTypes
  <2> QED
    BY <1>2, <2>1, AwayKeeps DEF CountLate, Kept
<1>3. CASE pc \in {"closing", "closed", "booked"} /\ m = job.move /\ pos[job.id].st = "closed"
  <2>1. pos'[job.id] = pos[job.id]
    BY <1>0, <1>3, PosFrame DEF JobFits, PosSteps, Sends, Opens, OpenLands, CloseLands, Misses
  <2>2. CASE UNCHANGED <<pc, job>>
    BY <1>3, <2>1, <2>2 DEF CountLate
  <2>3. CASE RetryClose \/ CloseLanded \/ BookClose
    <3>1. pc' \in {"closing", "closed", "booked"} /\ job'.id = job.id /\ job'.move = job.move
      BY <1>0, <2>3 DEF RetryClose, CloseLanded, BookClose, GoTo, JobFits, JobTypes
    <3> QED
      BY <1>3, <2>1, <3>1 DEF CountLate
  <2>4. CASE CountMove
    <3>1. job.move \in counted'
      BY <1>0, <2>4 DEF CountMove, Counted, TypeInv, StateFits, StateTypes
    <3> QED
      BY <1>3, <3>1
  <2>5. CASE CloseFailed
    BY <1>3, <2>5, StillAccountable DEF CloseFailed, Stray, Accountable
  <2>6. CASE Crash
    BY <1>3, <2>6, CrashLeaves DEF CountLate, Kept
  <2> QED
    BY <1>0, <1>3, <2>2, <2>3, <2>4, <2>5, <2>6, StepsFrom
<1>4. CASE \E i \in Ids : LandClose(i) /\ m = pos[i].move
  BY <1>4, LandLeaves DEF CountLate
<1>5. CASE m \in closes
  BY <1>0, <1>1, <1>2, <1>3, <1>5 DEF CountInv, CountLate
<1> QED
  BY <1>0, <1>4, <1>5, CloseFrame DEF CloseSteps

-----------------------------------------------------------------------------
(* The day's budgets: a close on its way has room in them, and so has the  *)
(* count it owes.                                                          *)

Both == MaxRebalances + MaxCalm
Sending ==
  \/ pc \in {"close", "closing"} /\ pos[job.id].st # "closed"
  \/ \E i \in Ids : pos[i].st = "closing"
BudgetInv ==
  Accountable =>
    /\ Recent(closes) <= Both
    /\ Sending => Recent(closes) < Both
    /\ Recent(state.normal) <= MaxRebalances
    /\ pc \in MoveStates /\ ~job.calm => Recent(state.normal) < MaxRebalances

LEMMA RecentFacts ==
  ASSUME NEW s, NEW t, s \subseteq Moves, t \subseteq Moves
  PROVE  /\ Recent(s) \in Nat
         /\ s \subseteq t => Recent(s) <= Recent(t)
         /\ Recent(s \cup t) <= Recent(s) + Recent(t)
         /\ \A m : Recent(s \cup {m}) <= Recent(s) + 1
<1>1. IsFiniteSet(Moves)
  BY LimitsAssumption, FS_Interval DEF Moves
<1>2. IsFiniteSet(s \cap today) /\ IsFiniteSet(t \cap today)
  BY <1>1, FS_Subset
<1>3. Recent(s) \in Nat /\ Recent(t) \in Nat
  BY <1>2, FS_CardinalityType DEF Recent
<1>4. s \subseteq t => Recent(s) <= Recent(t)
  <2>1. s \subseteq t => s \cap today \subseteq t \cap today
    OBVIOUS
  <2> QED
    BY <1>2, <2>1, FS_Subset DEF Recent
<1>5. Recent(s \cup t) <= Recent(s) + Recent(t)
  <2> DEFINE a == s \cap today
             b == t \cap today
  <2>1. (s \cup t) \cap today = a \cup b
    OBVIOUS
  <2>2. IsFiniteSet(a) /\ IsFiniteSet(b) /\ Recent(s) = Cardinality(a) /\ Recent(t) = Cardinality(b)
        /\ Recent(s \cup t) = Cardinality(a \cup b)
    BY <1>2, <2>1 DEF Recent
  <2> HIDE DEF a, b
  <2>3. Cardinality(a \cup b) = Cardinality(a) + Cardinality(b) - Cardinality(a \cap b)
    BY <2>2, FS_Union
  <2>4. Cardinality(a \cap b) \in Nat
    BY <2>2, FS_Subset, FS_CardinalityType
  <2> QED
    BY <1>3, <2>2, <2>3, <2>4
<1>6. ASSUME NEW m PROVE Recent(s \cup {m}) <= Recent(s) + 1
  <2>1. CASE m \in today
    <3>1. (s \cup {m}) \cap today = (s \cap today) \cup {m}
      BY <2>1
    <3>2. Cardinality((s \cap today) \cup {m}) = IF m \in s \cap today THEN Cardinality(s \cap today) ELSE Cardinality(s \cap today) + 1
      BY <1>2, FS_AddElement
    <3> QED
      BY <1>3, <3>1, <3>2 DEF Recent
  <2>2. CASE m \notin today
    <3>1. (s \cup {m}) \cap today = s \cap today
      BY <2>2
    <3>2. Recent(s \cup {m}) = Recent(s)
      BY <3>1 DEF Recent
    <3> QED
      BY <1>3, <3>2
  <2> QED
    BY <2>1, <2>2
<1> QED
  BY <1>3, <1>4, <1>5, <1>6

LEMMA BudgetKeeps == ASSUME KnownInv, CountInv, BudgetInv, Next PROVE BudgetInv'
<1> SUFFICES ASSUME Accountable' PROVE BudgetInv'
  BY DEF BudgetInv
<1>0. /\ Accountable /\ OneLive /\ PlaceFits /\ JobFits /\ TypeInv /\ TypeInv'
      /\ closes \subseteq Moves /\ state.normal \subseteq Moves /\ state.calm \subseteq Moves
      /\ MaxRebalances \in Nat /\ MaxCalm \in Nat /\ Both \in Nat
  BY StillAccountable, NextTyped, LimitsAssumption DEF KnownInv, OneInv, TypeInv, CountsFit, StateFits, StateTypes, Both
<1>1. CASE \E c \in BOOLEAN, t \in Targets : StartMove(c, t)
  <2>1. PICK c \in BOOLEAN, t \in Targets : StartMove(c, t)
    BY <1>1
  <2>2. /\ pc = "held" /\ pc' = "close" /\ UNCHANGED <<pos, closes>> /\ today' = today \cup {moves + 1}
        /\ ~AtCeiling(c) /\ job' = [[[job EXCEPT !.move = moves + 1] EXCEPT !.calm = c] EXCEPT !.target = t]
    BY <2>1 DEF StartMove, GoTo, history
  <2>3. job'.calm = c
    BY <1>0, <2>2 DEF JobFits, JobTypes
  <2>4. moves + 1 \notin closes \cup state.normal
    <3>1. moves \in Nat /\ closes \cup state.normal \subseteq 0 .. moves
      BY <1>0 DEF KnownInv, UsedInv, TypeInv, CountsFit, Moves
    <3> QED
      BY <3>1
  <2>5. UNCHANGED state.normal
    BY <1>0, <1>1, <2>2, CountFrame DEF CountSteps, CountMove, ResumeReopen, GoTo
  <2>6. Recent(closes)' = Recent(closes) /\ Recent(state.normal)' = Recent(state.normal)
    <3>1. closes' \cap today' = closes \cap today /\ state.normal' \cap today' = state.normal \cap today
      BY <2>2, <2>4, <2>5
    <3> QED
      BY <3>1 DEF Recent
  <2>7. Recent(closes) < Both
    <3>1. closes \subseteq state.normal \cup state.calm
      BY <1>0, <2>2 DEF CountInv, CountLate, Away
    <3>2. Recent(closes) <= Recent(state.normal \cup state.calm)
      <4>1. state.normal \cup state.calm \subseteq Moves
        BY <1>0
      <4> QED
        BY <1>0, <3>1, <4>1, RecentFacts
    <3>3. Recent(state.normal \cup state.calm) <= Recent(state.normal) + Recent(state.calm)
      BY <1>0, RecentFacts
    <3>4. Recent(state.normal) + Recent(state.calm) < Both
      BY <1>0, <2>2, RecentFacts DEF AtCeiling, Both
    <3>5. Recent(closes) \in Nat /\ Recent(state.normal) \in Nat /\ Recent(state.calm) \in Nat
          /\ Recent(state.normal \cup state.calm) \in Nat
      <4>1. state.normal \cup state.calm \subseteq Moves
        BY <1>0
      <4> QED
        BY <1>0, <4>1, RecentFacts
    <3> QED
      BY <1>0, <3>2, <3>3, <3>4, <3>5
  <2>8. ~c => Recent(state.normal) < MaxRebalances
    BY <1>0, <2>2, RecentFacts DEF AtCeiling
  <2>9. Recent(closes) \in Nat /\ Both \in Nat
    BY <1>0, RecentFacts
  <2> QED
    BY <1>0, <2>3, <2>6, <2>7, <2>8, <2>9 DEF BudgetInv, Both
<1>2. CASE DayPasses
  <2>1. /\ today' = {} /\ pc' \in {"asleep", "down"} /\ UNCHANGED <<pos, pc>>
        /\ \A i \in Ids : ~InFlight(i)
    BY <1>2 DEF DayPasses
  <2>2. Recent(closes)' = 0 /\ Recent(state.normal)' = 0
    BY <2>1, FS_EmptySet DEF Recent
  <2>3. ~Sending' /\ pc' \notin MoveStates
    BY <2>1 DEF Sending, MoveStates, InFlight
  <2> QED
    BY <1>0, <2>2, <2>3 DEF BudgetInv, Both
<1>3. CASE UNCHANGED today /\ ~\E c \in BOOLEAN, t \in Targets : StartMove(c, t)
  <2>1. /\ Recent(state.normal)' <= MaxRebalances
        /\ pc' \in MoveStates /\ ~job'.calm => Recent(state.normal)' < MaxRebalances
    <3>1. CASE CountMove
      <4>1. pc = "booked" /\ pc' \notin MoveStates
        BY <3>1 DEF CountMove, MoveStates
      <4>2. state.normal' = state.normal \/ (~job.calm /\ state.normal' = state.normal \cup {job.move})
        BY <1>0, CountFrame DEF CountSteps
      <4>3. Recent(state.normal)' = Cardinality(state.normal' \cap today)
        BY <1>3 DEF Recent
      <4>4. CASE state.normal' = state.normal
        BY <1>0, <4>1, <4>3, <4>4 DEF BudgetInv, Recent
      <4>5. CASE ~job.calm /\ state.normal' = state.normal \cup {job.move}
        <5>1. Recent(state.normal) < MaxRebalances /\ Recent(state.normal) \in Nat
          BY <1>0, <4>1, <4>5, RecentFacts DEF BudgetInv, MoveStates
        <5>2. Recent(state.normal \cup {job.move}) <= Recent(state.normal) + 1
          BY <1>0, RecentFacts
        <5>3. Recent(state.normal \cup {job.move}) \in Nat
          <6>1. state.normal \cup {job.move} \subseteq Moves
            BY <1>0, <4>1 DEF JobFits
          <6> QED
            BY <6>1, RecentFacts
        <5>4. Recent(state.normal)' = Recent(state.normal \cup {job.move})
          BY <4>3, <4>5 DEF Recent
        <5> QED
          BY <1>0, <4>1, <5>1, <5>2, <5>3, <5>4
      <4> QED
        BY <4>2, <4>4, <4>5
    <3>2. CASE ~CountMove
      <4>1. UNCHANGED state.normal
        BY <1>0, <3>2, CountFrame DEF CountSteps
      <4>2. Recent(state.normal)' = Recent(state.normal)
        BY <1>3, <4>1 DEF Recent
      <4>3. pc' \in MoveStates => pc \in MoveStates /\ job'.calm = job.calm
        BY <1>0, <1>3, PlaceFrame, PlaceKnown DEF PlaceSteps, MoveStates, BusyStates, SameMove, KnownInv
      <4> QED
        BY <1>0, <4>2, <4>3 DEF BudgetInv
    <3> QED
      BY <3>1, <3>2
  <2>2. CASE \E i \in Ids : LandClose(i)
    <3>1. PICK i \in Ids : LandClose(i)
      BY <2>2
    <3>2. pos[i].st = "closing" /\ closes' = closes \cup {pos[i].move} /\ UNCHANGED <<pc, job>>
      BY <3>1 DEF LandClose
    <3>3. Recent(closes)' = Recent(closes \cup {pos[i].move})
      BY <1>3, <3>2 DEF Recent
    <3>4. Recent(closes) \in Nat /\ Recent(closes) < Both
      BY <1>0, <3>2, RecentFacts DEF BudgetInv, Sending
    <3>5. Recent(closes \cup {pos[i].move}) <= Recent(closes) + 1
      BY <1>0, RecentFacts
    <3>6. closes \cup {pos[i].move} \subseteq Moves
      BY <1>0, <3>2 DEF TypeInv, CountsFit
    <3>7. Recent(closes \cup {pos[i].move}) \in Nat
      BY <3>6, RecentFacts
    <3>8. ~Sending'
      <4>1. pos'[i].st = "closed" /\ \A j \in Ids \ {i} : pos'[j] = pos[j]
        BY <1>0, <3>1 DEF LandClose, TypeInv, PosFits, PosTypes
      <4>2. i \in Live /\ \A j \in Ids \ {i} : pos[j].st # "closing"
        BY <1>0, <3>2 DEF OneLive, Live, InFlight
      <4>3. pc \in {"close", "closing"} => job.id = i
        BY <1>0, <4>2 DEF PlaceFits
      <4> QED
        BY <3>2, <4>1, <4>2, <4>3 DEF Sending
    <3> QED
      BY <1>0, <2>1, <3>3, <3>4, <3>5, <3>7, <3>8 DEF BudgetInv, Both
  <2>3. CASE ~\E i \in Ids : LandClose(i)
    <3>1. Recent(closes)' = Recent(closes)
      <4>1. UNCHANGED closes
        BY <1>0, <2>3, CloseFrame DEF CloseSteps
      <4> QED
        BY <1>3, <4>1 DEF Recent
    <3>2. Sending' => Sending
      <4>1. ASSUME NEW i \in Ids, pos'[i].st = "closing" PROVE Sending
        BY <1>0, <4>1, PosFrame
           DEF PosSteps, Sends, Opens, OpenLands, CloseLands, Misses, SendClose, RetryClose, GoTo, Sending
      <4>2. ASSUME pc' \in {"close", "closing"}, pos'[job'.id].st # "closed" PROVE Sending
        <5>1. pc \in {"close", "closing"} /\ job'.id = job.id
          BY <1>0, <1>3, <4>2, PlaceFrame, PlaceKnown DEF PlaceSteps, BusyStates, SameMove, KnownInv
        <5>2. PosSteps(job.id)
          BY <1>0, <5>1, PosFrame DEF JobFits
        <5>3. pos[job.id].st # "closed"
          BY <4>2, <5>1, <5>2 DEF PosSteps, Sends, Opens, OpenLands, CloseLands, Misses
        <5> QED
          BY <5>1, <5>3 DEF Sending
      <4> QED
        BY <4>1, <4>2 DEF Sending
    <3> QED
      BY <1>0, <2>1, <3>1, <3>2 DEF BudgetInv, Both
  <2> QED
    BY <2>2, <2>3
<1>4. \/ UNCHANGED today
      \/ DayPasses \/ \E c \in BOOLEAN, t \in Targets : StartMove(c, t)
  <2>1. CASE \/ Wake \/ StopForHalt \/ Unreadable \/ PollNone \/ PollHeld \/ Stay \/ CloseRefused \/ SendClose
             \/ RetryClose \/ CloseLanded \/ CloseFailed \/ BookClose \/ CountMove \/ Repoint \/ MoveIntent
             \/ PickPool \/ DropOldIntent \/ IntentElsewhere \/ ResumeReopen \/ OpenNothing \/ OpenRefused
             \/ SendOpen \/ OpenLanded \/ OpenFailed \/ BookOpen \/ FinishOpen \/ HaltAtMax \/ Crash \/ Start
             \/ OperatorHalts \/ OperatorClears
             \/ \E c \in BOOLEAN : RefuseMove(c)
             \/ \E v \in Venues, n \in {"none", "reopen"} : MoveEmpty(v, n)
             \/ \E i \in Ids : LandOpen(i)
             \/ \E i \in Ids : LandClose(i)
             \/ \E i \in Ids : Miss(i)
    BY <2>1, Zenon DEF Wake, StopForHalt, Unreadable, PollNone, PollHeld, Stay, CloseRefused, SendClose, RetryClose,
           CloseLanded, CloseFailed, BookClose, CountMove, Repoint, MoveIntent, PickPool, DropOldIntent,
           IntentElsewhere, ResumeReopen, OpenNothing, OpenRefused, SendOpen, OpenLanded, OpenFailed, BookOpen,
           FinishOpen, HaltAtMax, RefuseMove, MoveEmpty, LandOpen, LandClose, Miss, Crash, Start, OperatorHalts,
           OperatorClears, counters
  <2>2. CASE DayPasses \/ \E c \in BOOLEAN, t \in Targets : StartMove(c, t)
    BY <2>2
  <2> QED
    BY <2>1, <2>2, Actions, Zenon
<1> QED
  BY <1>1, <1>2, <1>3, <1>4

-----------------------------------------------------------------------------
(* The theorems.                                                           *)

LoopInv == KnownInv /\ RowsInv /\ CountInv /\ BudgetInv

LEMMA InitHolds == Init => LoopInv
<1> SUFFICES ASSUME Init PROVE LoopInv
  OBVIOUS
<1>1. TypeInv
  BY InitTyped
<1>2. /\ Live = {} /\ (\A i \in Ids : ~InFlight(i) /\ ~OnChain(i) /\ pos[i].st = "none" /\ pos[i].move = 0)
      /\ pc = "poll" /\ job.move = 0 /\ state.pending = NoIntent /\ state.normal = {} /\ closes = {}
      /\ (\A i \in Ids : ledger[i] = "none") /\ today = {} /\ moves = 0
  BY DEF Init, Live, OnChain, InFlight, NoJob
<1>3. OneInv /\ HoldInv /\ TagInv
  BY <1>2 DEF OneInv, OneLive, PlaceFits, HoldInv, TagInv, MoveStates
<1>4. UsedInv
  BY <1>2, Intent DEF UsedInv
<1>5. RowsInv /\ CountInv
  BY <1>2 DEF RowsInv, RowRight, CountInv
<1>6. BudgetInv
  <2>1. Recent(closes) = 0 /\ Recent(state.normal) = 0
    BY <1>2, FS_EmptySet DEF Recent
  <2>2. ~Sending /\ pc \notin MoveStates
    BY <1>2 DEF Sending, MoveStates
  <2> QED
    BY <2>1, <2>2, LimitsAssumption DEF BudgetInv, Both
<1> QED
  BY <1>1, <1>3, <1>4, <1>5, <1>6 DEF LoopInv, KnownInv

LEMMA NextHolds == ASSUME LoopInv, [Next]_vars PROVE LoopInv'
<1>1. CASE UNCHANGED vars
  <2>1. /\ UNCHANGED <<pos, at, ledger, state, pc, job, moves, today, closes, strays>> /\ TypeInv'
        /\ Live' = Live /\ \A i \in Ids : InFlight(i)' = InFlight(i) /\ OnChain(i)' = OnChain(i)
    BY <1>1, NextTyped DEF vars, LoopInv, KnownInv, Live, InFlight, OnChain
  <2>2. OneInv' /\ UsedInv' /\ HoldInv' /\ TagInv'
    BY <2>1 DEF LoopInv, KnownInv, OneInv, Certain, OneLive, PlaceFits, UsedInv, HoldInv, Accountable, TagInv, Intends
  <2>3. Away' = Away
    BY <2>1 DEF Away, Resumable
  <2>4. RowsInv' /\ CountInv'
    BY <2>1, <2>3 DEF LoopInv, RowsInv, RowRight, RowLate, CountInv, CountLate, Accountable
  <2>5. BudgetInv'
    BY <2>1 DEF LoopInv, BudgetInv, Recent, Sending, Accountable
  <2> QED
    BY <2>1, <2>2, <2>4, <2>5 DEF LoopInv, KnownInv
<1>2. CASE Next
  BY <1>2, KnownKeeps, RowsKeep, CountKeeps, BudgetKeeps DEF LoopInv
<1> QED
  BY <1>1, <1>2

\* The invariant the properties below are read from, for every profile's
\* venues and limits and for any number of positions, moves, crashes, days.
THEOREM LoopHolds == Spec => []LoopInv
BY InitHolds, NextHolds, PTL DEF Spec

\* Every variable of the loop keeps its type.
THEOREM LoopTypes == Spec => []TypeOK
<1>1. LoopInv => TypeOK
  BY DEF LoopInv, KnownInv, TypeInv, TypeOK, PosFits, PosTypes, StateFits, StateTypes, JobFits, JobTypes, BooksFit, CountsFit
<1> QED
  BY <1>1, LoopHolds, PTL

\* The ledger's open rows are the positions on chain whenever the loop rests
\* and no close waits to be booked by resume_reopen.
THEOREM LedgerHolds == Spec => []LedgerFollowsChain
<1>1. LoopInv => LedgerFollowsChain
  BY DEF LoopInv, RowsInv, RowRight, RowLate, Away, LedgerFollowsChain, RowsMatch
<1> QED
  BY <1>1, LoopHolds, PTL

\* Every close that landed is counted against the day's budgets, also by a
\* process that was started after it landed.
THEOREM CountedHolds == Spec => []MovesCounted
<1>1. LoopInv => MovesCounted
  BY DEF LoopInv, CountInv, CountLate, Away, MovesCounted
<1> QED
  BY <1>1, LoopHolds, PTL

\* No day sees more closes than max_rebalances_per_day of the normal moves
\* and calm_max_moves_per_day more of both.
THEOREM BudgetsHolds == Spec => []BudgetsHold
<1>1. ASSUME LoopInv PROVE BudgetsHold
  <2>1. state.normal \subseteq Moves /\ closes \subseteq Moves
    BY <1>1 DEF LoopInv, KnownInv, TypeInv, StateFits, StateTypes, CountsFit
  <2>2. ASSUME Accountable, pc = "asleep", ~Resumable PROVE Recent(closes \ state.calm) <= MaxRebalances
    <3>1. closes \ state.calm \subseteq state.normal
      BY <1>1, <2>2 DEF LoopInv, CountInv, CountLate, Away
    <3>2. Recent(closes \ state.calm) <= Recent(state.normal)
      <4>1. closes \ state.calm \subseteq Moves
        BY <2>1
      <4> QED
        BY <2>1, <3>1, <4>1, RecentFacts
    <3>3. /\ Recent(closes \ state.calm) \in Nat /\ Recent(state.normal) \in Nat
          /\ Recent(state.normal) <= MaxRebalances
      <4>1. closes \ state.calm \subseteq Moves
        BY <2>1
      <4> QED
        BY <1>1, <2>1, <2>2, <4>1, RecentFacts DEF LoopInv, BudgetInv
    <3> QED
      BY <3>2, <3>3, LimitsAssumption
  <2> QED
    BY <1>1, <2>2 DEF LoopInv, BudgetInv, Both, BudgetsHold
<1> QED
  BY <1>1, LoopHolds, PTL
-----------------------------------------------------------------------------
(* The intent and its position: an intent is of a position that was opened, *)
(* and is marked closed where nothing is held.                             *)

Made == {"open", "closing", "closed"}
StandInv ==
  Certain =>
    /\ pc = "held" => pos[job.id].st = "open"
    /\ state.pending # NoIntent => pos[state.pending.id].st \in Made
    /\ state.pending.closed => pos[state.pending.id].st = "closed"

LEMMA StandKeeps == ASSUME TypeInv, OneInv, StandInv, Next PROVE StandInv'
<1> SUFFICES ASSUME Certain' PROVE StandInv'
  BY DEF StandInv
<1>0. Certain /\ OneLive /\ PlaceFits /\ JobFits /\ IntentFits /\ IntentFits'
  BY StrayGrows, NextTyped DEF Certain, OneInv, TypeInv, StateFits
<1>1. \A i \in Ids : /\ pos[i].st \in Made => pos'[i].st \in Made
                     /\ pos[i].st = "closed" => pos'[i].st = "closed"
  BY PosFrame DEF PosSteps, Sends, Opens, OpenLands, CloseLands, Misses, Made
<1>2. ASSUME pc' = "held" PROVE pos'[job'.id].st = "open"
  <2>1. CASE UNCHANGED <<pc, job>>
    <3>1. job.id \in Ids /\ pos[job.id].st = "open" /\ ~InFlight(job.id)
      BY <1>0, <1>2, <2>1 DEF StandInv, PlaceFits, JobFits
    <3>2. ~Sends(job.id)
      BY <1>2, <2>1 DEF Sends, SendClose, RetryClose, GoTo
    <3> QED
      BY <2>1, <3>1, <3>2, PosFrame DEF PosSteps, Opens, OpenLands, CloseLands, Misses
  <2>2. CASE PollHeld
    <3>1. pc = "poll" /\ UNCHANGED pos
      BY <2>2 DEF PollHeld, GoTo
    <3>2. PICK i \in Ids : OnChain(i) /\ job' = [NoJob EXCEPT !.id = i]
      BY <2>2 DEF PollHeld, Shown
    <3>3. ~InFlight(i) /\ job'.id = i
      BY <1>0, <3>1, <3>2 DEF PlaceFits, NoJob
    <3> QED
      BY <3>1, <3>2, <3>3 DEF OnChain, InFlight
  <2>3. ~OpenLanded /\ ~Wake /\ ~Start
    BY <1>2 DEF OpenLanded, Wake, Start, GoTo
  <2>4. UNCHANGED <<pc, job>> \/ PollHeld
    BY <1>2, <2>3, PlaceFrame, ZenonT(60) DEF PlaceSteps, BusyStates
  <2> QED
    BY <2>1, <2>2, <2>4
<1>3. CASE UNCHANGED state.pending
  <2>1. state.pending.closed => state.pending # NoIntent
    BY Intent
  <2>2. state.pending # NoIntent => state.pending.id \in Ids
    BY <1>0 DEF IntentFits
  <2>3. CASE state.pending = NoIntent
    BY <1>2, <1>3, <2>1, <2>3 DEF StandInv
  <2>4. CASE state.pending # NoIntent
    <3> DEFINE i == state.pending.id
    <3>1. i \in Ids /\ pos[i].st \in Made /\ (state.pending.closed => pos[i].st = "closed")
      BY <1>0, <2>2, <2>4 DEF StandInv
    <3>2. pos'[i].st \in Made /\ (pos[i].st = "closed" => pos'[i].st = "closed")
      BY <1>1, <3>1
    <3> QED
      BY <1>2, <1>3, <3>1, <3>2 DEF StandInv
  <2> QED
    BY <2>3, <2>4
<1>4. CASE Dropped
  BY <1>2, <1>4, Intent DEF StandInv, Dropped
<1>5. CASE Left
  BY <1>0, <1>2, <1>5, IntentPlaces DEF StandInv, Left, Made
<1>6. CASE Kept /\ ClosedNow /\ state.pending # NoIntent
  <2>1. UNCHANGED pos /\ Live = {}
    BY <1>0, <1>6, IntentPlaces DEF ClosedNow, CountMove, ResumeReopen, GoTo, PlaceFits
  <2>2. state.pending.id \in Ids /\ pos[state.pending.id].st \in Made
    BY <1>0, <1>6 DEF IntentFits, StandInv
  <2>3. pos[state.pending.id].st = "closed"
    BY <2>1, <2>2 DEF Live, OnChain, InFlight, Made
  <2> QED
    BY <1>2, <1>6, <2>1, <2>3 DEF StandInv, Kept, Made
<1>7. CASE Kept /\ MoveIntent /\ state.pending'.closed = state.pending.closed
  <2>1. UNCHANGED pos
    BY <1>7, IntentPlaces
  <2>2. state.pending' # NoIntent => state.pending # NoIntent
    BY <1>0, <1>7, Intent DEF IntentFits, Kept
  <2> QED
    BY <1>0, <1>2, <1>7, <2>1, <2>2 DEF StandInv, Kept
<1> QED
  BY <1>3, <1>4, <1>5, <1>6, <1>7, PendingFrame DEF PendingSteps

\* An intent marked closed is of a position that is gone, so a resumed move
\* opens nothing beside the position it was to replace (resume_reopen), unless
\* a transaction was in flight when the process was started.
THEOREM IntentHolds == Spec => []IntentTrue
<1>1. Init => TypeInv /\ OneInv /\ StandInv
  BY InitTyped, InitHolds, Intent DEF Init, LoopInv, KnownInv, StandInv
<1>2. TypeInv /\ OneInv /\ StandInv /\ [Next]_vars => (TypeInv /\ OneInv /\ StandInv)'
  <2> SUFFICES ASSUME TypeInv, OneInv, StandInv, [Next]_vars PROVE OneInv' /\ StandInv'
    BY NextTyped
  <2>1. CASE UNCHANGED vars
    <3>1. UNCHANGED <<pos, at, pc, job, state, strays>>
      BY <2>1 DEF vars
    <3> QED
      BY <3>1, Unmoved DEF OneInv, Certain, OneLive, PlaceFits, StandInv
  <2> QED
    BY <2>1, OneKeeps, StandKeeps
<1>3. StandInv => IntentTrue
  BY DEF StandInv, Certain, IntentTrue
<1> QED
  BY <1>1, <1>2, <1>3, PTL DEF Spec
-----------------------------------------------------------------------------
(* Where a stale intent comes from: without a crash, and but for an open   *)
(* that lands after it was given up, an intent is the last move's, and     *)
(* none is left beside a position.                                         *)

Fresh == crashes = 0 /\ "open missed" \notin strays
BetweenPolls == {"asleep", "down", "failed"}
FreshInv ==
  Fresh =>
    /\ Certain
    /\ pc = "down" => \A i \in Ids : ~InFlight(i)
    /\ pc = "opening" => \A i \in Ids : pos[i].st # "closing"
    /\ state.pending # NoIntent => state.pending.move = moves
    /\ pc \in {"poll", "held"} \cup BetweenPolls /\ state.pending # NoIntent => \A i \in Ids : ~OnChain(i)

LEMMA Uncrashed == ASSUME TypeInv, Next, crashes' = 0 PROVE crashes = 0 /\ ~Crash
<1>1. UNCHANGED crashes \/ Crash
  <2>1. CASE \/ Wake \/ StopForHalt \/ Unreadable \/ PollNone \/ PollHeld \/ Stay \/ CloseRefused \/ SendClose
             \/ RetryClose \/ CloseLanded \/ CloseFailed \/ BookClose \/ CountMove \/ Repoint \/ MoveIntent
             \/ PickPool \/ DropOldIntent \/ IntentElsewhere \/ ResumeReopen \/ OpenNothing \/ OpenRefused
             \/ SendOpen \/ OpenLanded \/ OpenFailed \/ BookOpen \/ FinishOpen \/ HaltAtMax \/ Start
             \/ OperatorHalts \/ OperatorClears \/ DayPasses
             \/ \E c \in BOOLEAN : RefuseMove(c)
             \/ \E c \in BOOLEAN, t \in Targets : StartMove(c, t)
             \/ \E v \in Venues, n \in {"none", "reopen"} : MoveEmpty(v, n)
             \/ \E i \in Ids : LandOpen(i)
             \/ \E i \in Ids : LandClose(i)
             \/ \E i \in Ids : Miss(i)
    <3>1. UNCHANGED crashes
      BY <2>1 DEF Wake, StopForHalt, Unreadable, PollNone, PollHeld, Stay, CloseRefused, SendClose, RetryClose,
           CloseLanded, CloseFailed, BookClose, CountMove, Repoint, MoveIntent, PickPool, DropOldIntent,
           IntentElsewhere, ResumeReopen, OpenNothing, OpenRefused, SendOpen, OpenLanded, OpenFailed, BookOpen,
           FinishOpen, HaltAtMax, RefuseMove, StartMove, MoveEmpty, LandOpen, LandClose, Miss, Start,
           OperatorHalts, OperatorClears, DayPasses, counters, history
    <3> QED
      BY <3>1
  <2> QED
    BY <2>1, Actions
<1>2. ~Crash
  <2>1. crashes \in Nat
    BY LimitsAssumption DEF TypeInv, CountsFit
  <2>2. Crash => crashes' = crashes + 1
    BY DEF Crash
  <2>3. crashes' # crashes + 1
    BY <2>1
  <2> QED
    BY <2>2, <2>3
<1> QED
  BY <1>1, <1>2

LEMMA FreshBefore == ASSUME TypeInv, Next, Fresh' PROVE Fresh /\ ~Crash
BY Uncrashed, StrayGrows DEF Fresh

\* A move is numbered where it starts.
LEMMA MoveStarts == ASSUME Next PROVE UNCHANGED moves \/ \E c \in BOOLEAN, t \in Targets : StartMove(c, t)
<1>1. CASE \/ Wake \/ StopForHalt \/ Unreadable \/ PollNone \/ PollHeld \/ Stay \/ CloseRefused \/ SendClose
           \/ RetryClose \/ CloseLanded \/ CloseFailed \/ BookClose \/ CountMove \/ Repoint \/ MoveIntent
           \/ PickPool \/ DropOldIntent \/ IntentElsewhere \/ ResumeReopen \/ OpenNothing \/ OpenRefused
           \/ SendOpen \/ OpenLanded \/ OpenFailed \/ BookOpen \/ FinishOpen \/ HaltAtMax \/ Crash \/ Start
           \/ OperatorHalts \/ OperatorClears \/ DayPasses
           \/ \E c \in BOOLEAN : RefuseMove(c)
           \/ \E v \in Venues, n \in {"none", "reopen"} : MoveEmpty(v, n)
           \/ \E i \in Ids : LandOpen(i)
           \/ \E i \in Ids : LandClose(i)
           \/ \E i \in Ids : Miss(i)
  <2>1. UNCHANGED moves
    BY <1>1, Zenon DEF Wake, StopForHalt, Unreadable, PollNone, PollHeld, Stay, CloseRefused, SendClose, RetryClose,
             CloseLanded, CloseFailed, BookClose, CountMove, Repoint, MoveIntent, PickPool, DropOldIntent,
             IntentElsewhere, ResumeReopen, OpenNothing, OpenRefused, SendOpen, OpenLanded, OpenFailed, BookOpen,
             FinishOpen, HaltAtMax, MoveEmpty, RefuseMove, LandOpen, LandClose, Miss, Crash, Start,
             OperatorHalts, OperatorClears, DayPasses, counters, history
  <2> QED
    BY <2>1, Zenon
<1> QED
  BY <1>1, Actions

\* How a poll ends, and how the next one begins: with no intent, with nothing
\* held, with an open given up, or where the poll before it ended.
LEMMA PollEnds ==
  ASSUME TypeInv, Next, ~Crash, pc' \in {"poll", "held"} \cup BetweenPolls
  PROVE  \/ state.pending' = NoIntent
         \/ pc = "none" /\ UNCHANGED pos
         \/ pc = "reopen" /\ UNCHANGED pos
         \/ OpenFailed
         \/ /\ pc \in {"poll", "held"} \cup BetweenPolls
            /\ ~SendOpen /\ ~SendClose /\ ~RetryClose /\ \A c \in BOOLEAN, t \in Targets : ~StartMove(c, t)
<1> DEFINE Rests == {"poll", "held"} \cup BetweenPolls
<1>1. \A f : [[state EXCEPT !.pending = NoIntent] EXCEPT !.failures = f].pending = NoIntent
  BY DEF TypeInv, StateFits, StateTypes
<1>2. CloseRefused \/ CloseFailed \/ FinishOpen => state.pending' = NoIntent
  BY <1>1 DEF TypeInv, StateFits, StateTypes, CloseRefused, CloseFailed, FinishOpen
<1>3. IntentElsewhere \/ DropOldIntent => pc = "none" /\ UNCHANGED pos
  BY DEF IntentElsewhere, DropOldIntent
<1>4. OpenNothing \/ OpenRefused => pc = "reopen" /\ UNCHANGED pos
  BY DEF OpenNothing, OpenRefused, GoTo
<1>5. \/ Wake \/ StopForHalt \/ Unreadable \/ PollNone \/ PollHeld \/ Stay \/ HaltAtMax \/ Start
      \/ \E c \in BOOLEAN : RefuseMove(c)
      => pc \in Rests
  BY DEF Wake, StopForHalt, Unreadable, PollNone, PollHeld, Stay, HaltAtMax, Start, RefuseMove, GoTo, BetweenPolls
<1>6. \/ OperatorHalts \/ OperatorClears \/ DayPasses
      \/ \E i \in Ids : LandOpen(i) \/ LandClose(i) \/ Miss(i)
      => UNCHANGED pc
  BY DEF OperatorHalts, OperatorClears, DayPasses, LandOpen, LandClose, Miss
<1>7. pc' \notin Rests \/ ~(\/ SendClose \/ RetryClose \/ CloseLanded \/ BookClose \/ CountMove \/ Repoint \/ MoveIntent \/ PickPool
                            \/ ResumeReopen \/ SendOpen \/ OpenLanded \/ BookOpen
                            \/ (\E c \in BOOLEAN, t \in Targets : StartMove(c, t))
                            \/ \E v \in Venues, n \in {"none", "reopen"} : MoveEmpty(v, n))
  <2>1. SendClose \/ RetryClose \/ CloseLanded \/ BookClose \/ CountMove => pc' \notin Rests
    BY DEF SendClose, RetryClose, CloseLanded, BookClose, CountMove, GoTo, BetweenPolls
  <2>2. Repoint \/ MoveIntent \/ PickPool \/ ResumeReopen \/ SendOpen \/ OpenLanded \/ BookOpen => pc' \notin Rests
    BY DEF Repoint, MoveIntent, PickPool, ResumeReopen, SendOpen, OpenLanded, BookOpen, GoTo, BetweenPolls,
           TypeInv, JobFits, JobTypes
  <2>3. (\E c \in BOOLEAN, t \in Targets : StartMove(c, t)) => pc' \notin Rests
    BY DEF StartMove, GoTo, BetweenPolls
  <2>4. (\E v \in Venues, n \in {"none", "reopen"} : MoveEmpty(v, n)) => pc' \notin Rests
    BY DEF MoveEmpty, GoTo, BetweenPolls
  <2> QED
    BY <2>1, <2>2, <2>3, <2>4
<1> QED
  BY <1>2, <1>3, <1>4, <1>5, <1>6, <1>7, Actions DEF SendOpen, SendClose, RetryClose, StartMove, GoTo

\* Only a start finds a transaction in flight.
LEMMA StrayElsewhere == ASSUME Next, ~Start PROVE "restarted in flight" \in strays' => "restarted in flight" \in strays
<1>1. CASE UNCHANGED strays
  BY <1>1
<1>2. CASE strays' \subseteq strays \cup {"close missed", "open missed", "intent passed over", "intent dropped", "crash", "crash at repoint"}
  BY <1>2
<1> QED
  BY <1>1, <1>2, Actions DEF Stray, history,
           Wake, StopForHalt, Unreadable, PollNone, PollHeld, Stay, CloseRefused, SendClose, RetryClose,
           CloseLanded, CloseFailed, BookClose, CountMove, Repoint, MoveIntent, PickPool, DropOldIntent,
           IntentElsewhere, ResumeReopen, OpenNothing, OpenRefused, SendOpen, OpenLanded, OpenFailed, BookOpen,
           FinishOpen, HaltAtMax, RefuseMove, StartMove, MoveEmpty, LandOpen, LandClose, Miss, Crash,
           OperatorHalts, OperatorClears, DayPasses

\* An intent is there already, or is left by a move that begins.
LEMMA StartPends ==
  ASSUME TypeInv, NEW c \in BOOLEAN, NEW t \in Targets, StartMove(c, t)
  PROVE  UNCHANGED state.pending \/ state.pending'.move = moves + 1
BY DEF TypeInv, StateFits, StateTypes, StartMove

LEMMA DownFrom ==
  ASSUME TypeInv, Next, ~Crash, ~StopForHalt, pc' = "down"
  PROVE  pc = "down" /\ ~SendOpen /\ ~SendClose /\ ~RetryClose
BY Actions DEF Wake, Unreadable, PollNone, PollHeld, Stay, CloseRefused, SendClose, RetryClose,
           CloseLanded, CloseFailed, BookClose, CountMove, Repoint, MoveIntent, PickPool, DropOldIntent,
           IntentElsewhere, ResumeReopen, OpenNothing, OpenRefused, SendOpen, OpenLanded, OpenFailed, BookOpen,
           FinishOpen, HaltAtMax, MoveEmpty, RefuseMove, StartMove, LandOpen, LandClose, Miss, Start,
           OperatorHalts, OperatorClears, DayPasses, GoTo, EndPoll, TypeInv, JobFits, JobTypes

LEMMA OpeningFrom == ASSUME TypeInv, Next, pc' = "opening" PROVE pc \in {"opening", "reopen"}
BY Actions DEF Wake, StopForHalt, Unreadable, PollNone, PollHeld, Stay, CloseRefused, SendClose, RetryClose,
           CloseLanded, CloseFailed, BookClose, CountMove, Repoint, MoveIntent, PickPool, DropOldIntent,
           IntentElsewhere, ResumeReopen, OpenNothing, OpenRefused, SendOpen, OpenLanded, OpenFailed, BookOpen,
           FinishOpen, HaltAtMax, MoveEmpty, RefuseMove, StartMove, LandOpen, LandClose, Miss, Crash, Start,
           OperatorHalts, OperatorClears, DayPasses, GoTo, EndPoll, TypeInv, JobFits, JobTypes

\* An open given up, and not there to be missed.
LEMMA GivenUp ==
  ASSUME TypeInv, OpenFailed, Fresh', Live \subseteq {job.id}, \A i \in Ids : pos[i].st # "closing"
  PROVE  \A i \in Ids : ~OnChain(i)'
<1>1. UNCHANGED pos /\ pos[job.id].st # "open"
  BY DEF OpenFailed, Stray, Fresh
<1> QED
  BY <1>1 DEF Live, OnChain

\* Between two polls no open lands unnoticed.
LEMMA LandsLate == ASSUME NEW i \in Ids, LandOpen(i), pc \notin {"opening", "closing"} PROVE "open missed" \in strays'
BY DEF LandOpen, Awaited, Stray

LEMMA FreshKeeps == ASSUME TypeInv, OneInv, UsedInv, StandInv, FreshInv, Next PROVE FreshInv'
<1> DEFINE Rests == {"poll", "held"} \cup BetweenPolls
<1> SUFFICES ASSUME Fresh' PROVE FreshInv'
  BY DEF FreshInv
<1>0. Fresh /\ ~Crash /\ JobFits /\ IntentFits
  BY FreshBefore DEF TypeInv, StateFits
<1>1. /\ Certain /\ OneLive /\ PlaceFits
      /\ pc = "down" => \A i \in Ids : ~InFlight(i)
      /\ pc = "opening" => \A i \in Ids : pos[i].st # "closing"
      /\ state.pending # NoIntent => state.pending.move = moves
      /\ pc \in Rests /\ state.pending # NoIntent => \A i \in Ids : ~OnChain(i)
  BY <1>0 DEF FreshInv, OneInv
<1>a. Kept /\ state.pending' # NoIntent => state.pending # NoIntent
  BY NextTyped, Intent DEF Kept, TypeInv, StateFits, IntentFits
<1>2. Certain'
  <2>1. CASE Start
    BY <1>1, <2>1 DEF Start, GoTo, Stray, Certain
  <2>2. CASE ~Start
    BY <1>0, <1>1, <2>2, StrayElsewhere DEF Certain
  <2> QED
    BY <2>1, <2>2
<1>3. ASSUME pc' = "down" PROVE \A i \in Ids : ~InFlight(i)'
  <2>1. CASE StopForHalt
    BY <1>1, <2>1 DEF StopForHalt, GoTo, PlaceFits, InFlight
  <2>2. CASE ~StopForHalt
    <3>1. pc = "down" /\ ~SendOpen /\ ~SendClose /\ ~RetryClose
      BY <1>0, <1>3, <2>2, DownFrom
    <3> QED
      BY <1>1, <3>1, PosFrame DEF PosSteps, Sends, Opens, OpenLands, CloseLands, Misses, InFlight
  <2> QED
    BY <2>1, <2>2
<1>4. ASSUME pc' = "opening" PROVE \A i \in Ids : pos'[i].st # "closing"
  <2>1. pc = "opening" \/ (pc = "reopen" /\ Live = {})
    BY <1>1, <1>4, OpeningFrom DEF PlaceFits
  <2>2. \A i \in Ids : pos[i].st # "closing"
    BY <1>1, <2>1 DEF Live, OnChain
  <2>3. ~SendClose /\ ~RetryClose
    BY <1>4 DEF SendClose, RetryClose, GoTo
  <2> QED
    BY <2>2, <2>3, PosFrame DEF PosSteps, Sends, Opens, OpenLands, CloseLands, Misses
<1>5. state.pending' # NoIntent => state.pending'.move = moves'
  <2>1. CASE \E c \in BOOLEAN, t \in Targets : StartMove(c, t)
    <3>1. pc = "held" /\ moves' = moves + 1
      BY <2>1 DEF StartMove, GoTo
    <3>2. state.pending = NoIntent
      <4>1. job.id \in Ids /\ pos[job.id].st = "open"
        BY <1>0, <1>1, <3>1 DEF StandInv, JobFits
      <4> QED
        BY <1>1, <3>1, <4>1 DEF OnChain
    <3>3. UNCHANGED state.pending \/ state.pending'.move = moves + 1
      BY <2>1, StartPends
    <3> QED
      BY <3>1, <3>2, <3>3
  <2>2. CASE ~\E c \in BOOLEAN, t \in Targets : StartMove(c, t)
    <3>1. UNCHANGED moves /\ ~Left
      BY <2>2, MoveStarts DEF Left
    <3> QED
      BY <1>1, <1>a, <3>1, PendingFrame DEF PendingSteps, Dropped, Kept
  <2> QED
    BY <2>1, <2>2
<1>6. ASSUME pc' \in Rests, state.pending' # NoIntent PROVE \A i \in Ids : ~OnChain(i)'
  <2>1. CASE pc \in {"none", "reopen"} /\ UNCHANGED pos
    BY <1>1, <2>1 DEF PlaceFits, Live, OnChain
  <2>2. CASE OpenFailed
    <3>1. pc = "opening"
      BY <2>2 DEF OpenFailed, GoTo
    <3>2. Live \subseteq {job.id} /\ \A i \in Ids : pos[i].st # "closing"
      BY <1>1, <3>1 DEF PlaceFits
    <3> QED
      BY <2>2, <3>2, GivenUp
  <2>3. CASE /\ pc \in Rests /\ ~SendOpen /\ ~SendClose /\ ~RetryClose
             /\ \A c \in BOOLEAN, t \in Targets : ~StartMove(c, t)
    <3>1. state.pending # NoIntent
      <4>1. ~Left
        BY <2>3 DEF Left
      <4> QED
        BY <1>6, <1>a, <4>1, PendingFrame DEF PendingSteps, Dropped
    <3>2. \A i \in Ids : ~OnChain(i)
      BY <1>1, <2>3, <3>1
    <3>3. \A i \in Ids : ~LandOpen(i)
      BY <2>3, LandsLate DEF BetweenPolls, Fresh
    <3> QED
      BY <2>3, <3>2, <3>3, PosFrame DEF PosSteps, Sends, Opens, OpenLands, CloseLands, Misses, OnChain
  <2> QED
    BY <1>0, <1>6, <2>1, <2>2, <2>3, PollEnds
<1> QED
  BY <1>2, <1>3, <1>4, <1>5, <1>6 DEF FreshInv

\* What is resumed is the last move's, for every profile, limit and number of
\* moves, unless the process crashed, or an open landed after the process had
\* counted it as failed: nothing else leaves a stale intent (moves.py reopen,
\* regime.py resume_reopen).
THEOREM StaleOnlyIfMissed == Spec => [](crashes = 0 /\ "open missed" \notin strays => NoStaleReplay)
<1>1. Init => LoopInv /\ StandInv /\ FreshInv
  BY InitHolds, Intent DEF Init, StandInv, FreshInv, Certain, OnChain, InFlight
<1>2. LoopInv /\ StandInv /\ FreshInv /\ [Next]_vars => (LoopInv /\ StandInv /\ FreshInv)'
  <2> SUFFICES ASSUME LoopInv, StandInv, FreshInv, [Next]_vars PROVE StandInv' /\ FreshInv'
    BY NextHolds
  <2>1. CASE UNCHANGED vars
    <3>1. UNCHANGED <<pos, at, pc, job, state, strays, moves, crashes>>
      BY <2>1 DEF vars
    <3> QED
      BY <3>1 DEF StandInv, FreshInv, Fresh, Certain, OnChain, InFlight
  <2> QED
    BY <2>1, StandKeeps, FreshKeeps DEF LoopInv, KnownInv
<1>3. LoopInv /\ FreshInv => (crashes = 0 /\ "open missed" \notin strays => NoStaleReplay)
  <2> SUFFICES ASSUME LoopInv, FreshInv, Fresh, pc = "none", state.pending # NoIntent, NEW m \in closes
               PROVE  m <= state.pending.move
    BY DEF NoStaleReplay, Fresh
  <2>1. m \in 0 .. moves /\ state.pending.move = moves
    BY DEF LoopInv, KnownInv, UsedInv, FreshInv
  <2> QED
    BY <2>1
<1> QED
  BY <1>1, <1>2, <1>3, LoopHolds, PTL DEF Spec

-----------------------------------------------------------------------------
(* What strays without a crash: only a transaction that lands late.        *)

Lates == {"open missed", "close missed"}
UncrashedInv ==
  crashes = 0 =>
    /\ strays \subseteq Lates
    /\ pc = "down" => \A i \in Ids : ~InFlight(i)
    /\ state.pending # NoIntent /\ ~state.pending.closed => pc \in MoveStates /\ job.calm

\* The steps that leave something out of the books, a late landing apart.
LEMMA StrayCauses ==
  ASSUME Next
  PROVE  \/ strays' \subseteq strays \cup Lates
         \/ Crash
         \/ Start /\ \E i \in Ids : InFlight(i)
         \/ DropOldIntent /\ ~state.pending.closed
         \/ MoveIntent /\ Resumable
<1>1. CASE UNCHANGED strays
  BY <1>1
<1>2. CASE \E c \in Lates, h \in BOOLEAN : Stray(c, h)
  BY <1>2 DEF Stray
<1>3. CASE CloseFailed \/ OpenFailed \/ \E i \in Ids : LandOpen(i) \/ LandClose(i)
  <2>1. CASE CloseFailed \/ \E i \in Ids : LandClose(i)
    BY <2>1 DEF CloseFailed, LandClose, Stray, Lates
  <2>2. CASE OpenFailed \/ \E i \in Ids : LandOpen(i)
    BY <2>2 DEF OpenFailed, LandOpen, Stray, Lates
  <2> QED
    BY <1>3, <2>1, <2>2
<1>4. CASE Start \/ DropOldIntent \/ MoveIntent
  BY <1>4 DEF Start, DropOldIntent, MoveIntent, Stray
<1>5. CASE \/ Wake \/ StopForHalt \/ Unreadable \/ PollNone \/ PollHeld \/ Stay \/ CloseRefused \/ SendClose
           \/ RetryClose \/ CloseLanded \/ BookClose \/ CountMove \/ Repoint
           \/ PickPool \/ IntentElsewhere \/ ResumeReopen \/ OpenNothing \/ OpenRefused
           \/ SendOpen \/ OpenLanded \/ BookOpen \/ FinishOpen \/ HaltAtMax
           \/ OperatorHalts \/ OperatorClears \/ DayPasses
           \/ \E c \in BOOLEAN : RefuseMove(c)
           \/ \E c \in BOOLEAN, t \in Targets : StartMove(c, t)
           \/ \E v \in Venues, n \in {"none", "reopen"} : MoveEmpty(v, n)
           \/ \E i \in Ids : Miss(i)
  <2>1. UNCHANGED strays
    BY <1>5, Zenon DEF history, Wake, StopForHalt, Unreadable, PollNone, PollHeld, Stay, CloseRefused, SendClose,
           RetryClose, CloseLanded, BookClose, CountMove, Repoint, PickPool, IntentElsewhere, ResumeReopen,
           OpenNothing, OpenRefused, SendOpen, OpenLanded, BookOpen, FinishOpen, HaltAtMax, RefuseMove, StartMove,
           MoveEmpty, Miss, OperatorHalts, OperatorClears, DayPasses
  <2> QED
    BY <1>1, <2>1
<1> QED
  BY <1>3, <1>4, <1>5, Actions

\* A move goes on to its count, or drops its intent.
LEMMA MoveGoesOn ==
  ASSUME TypeInv, Next, ~Crash, pc \in MoveStates
  PROVE  \/ pc' \in MoveStates /\ UNCHANGED job.calm
         \/ CloseRefused \/ CloseFailed \/ CountMove
<1>1. CASE pc \in {"closing", "closed", "booked"}
  BY <1>1, StepsFrom DEF RetryClose, CloseLanded, BookClose, GoTo, MoveStates, TypeInv, JobFits, JobTypes
<1>2. CASE pc = "close"
  BY <1>2, Actions DEF Wake, StopForHalt, Unreadable, PollNone, PollHeld, Stay, SendClose, RetryClose,
           CloseLanded, CloseFailed, BookClose, CountMove, Repoint, MoveIntent, PickPool, DropOldIntent,
           IntentElsewhere, ResumeReopen, OpenNothing, OpenRefused, SendOpen, OpenLanded, OpenFailed, BookOpen,
           FinishOpen, HaltAtMax, MoveEmpty, RefuseMove, StartMove, LandOpen, LandClose, Miss, Start,
           OperatorHalts, OperatorClears, DayPasses, GoTo, MoveStates, TypeInv, JobFits, JobTypes
<1> QED
  BY <1>1, <1>2 DEF MoveStates

LEMMA UncrashedKeeps == ASSUME TypeInv, OneInv, UncrashedInv, Next PROVE UncrashedInv'
<1> SUFFICES ASSUME crashes' = 0 PROVE UncrashedInv'
  BY DEF UncrashedInv
<1>0. crashes = 0 /\ ~Crash /\ IntentFits /\ IntentFits' /\ JobFits
  BY Uncrashed, NextTyped DEF TypeInv, StateFits
<1>1. /\ strays \subseteq Lates
      /\ pc = "down" => \A i \in Ids : ~InFlight(i)
      /\ state.pending # NoIntent /\ ~state.pending.closed => pc \in MoveStates /\ job.calm
  BY <1>0 DEF UncrashedInv
<1>2. PlaceFits
  BY <1>1 DEF OneInv, Certain, Lates
<1>3. strays' \subseteq Lates
  <2>1. ~(Start /\ \E i \in Ids : InFlight(i))
    BY <1>1 DEF Start, GoTo
  <2>2. ~(DropOldIntent /\ ~state.pending.closed)
    BY <1>1 DEF DropOldIntent, MoveStates
  <2>3. ~(MoveIntent /\ Resumable)
    BY <1>1 DEF MoveIntent, GoTo, Resumable, MoveStates
  <2> QED
    BY <1>0, <1>1, <2>1, <2>2, <2>3, StrayCauses
<1>4. ASSUME pc' = "down" PROVE \A i \in Ids : ~InFlight(i)'
  <2>1. CASE StopForHalt
    BY <1>2, <2>1 DEF StopForHalt, GoTo, PlaceFits, InFlight
  <2>2. CASE ~StopForHalt
    <3>1. pc = "down" /\ ~SendOpen /\ ~SendClose /\ ~RetryClose
      BY <1>0, <1>4, <2>2, DownFrom
    <3> QED
      BY <1>1, <3>1, PosFrame DEF PosSteps, Sends, Opens, OpenLands, CloseLands, Misses, InFlight
  <2> QED
    BY <2>1, <2>2
<1>5. ASSUME state.pending' # NoIntent, ~state.pending'.closed PROVE pc' \in MoveStates /\ job'.calm
  <2>1. CASE UNCHANGED state.pending
    <3>1. pc \in MoveStates /\ job.calm
      BY <1>1, <1>5, <2>1
    <3>2. ~CloseRefused /\ ~CloseFailed
      BY <1>5 DEF CloseRefused, CloseFailed, TypeInv, StateFits, StateTypes
    <3>3. ~CountMove
      <4>1. state.pending # NoIntent /\ state \in StateTypes
        BY <1>5, <2>1 DEF TypeInv, StateFits
      <4>2. CountMove => state' = [state EXCEPT !.calm = @ \cup {job.move}, !.pending.closed = TRUE]
        BY <3>1, <4>1 DEF CountMove, Counted
      <4>3. CountMove => state.pending'.closed
        BY <4>1, <4>2 DEF StateTypes, Intents
      <4> QED
        BY <1>5, <4>3
    <3> QED
      BY <1>0, <3>1, <3>2, <3>3, MoveGoesOn
  <2>2. CASE Left
    <3>1. PICK c \in BOOLEAN, t \in Targets : StartMove(c, t)
      BY <2>2 DEF Left
    <3>2. pc = "held" /\ pc' = "close" /\ job' = [job EXCEPT !.move = moves + 1, !.calm = c, !.target = t]
      BY <3>1 DEF StartMove, GoTo
    <3>3. ~c => UNCHANGED state.pending
      BY <3>1 DEF StartMove
    <3>4. c
      BY <1>1, <1>5, <3>2, <3>3 DEF MoveStates
    <3> QED
      BY <1>0, <3>2, <3>4 DEF MoveStates, JobFits, JobTypes
  <2>3. CASE MoveIntent /\ state.pending'.closed = state.pending.closed
    <3>1. pc = "repointed"
      BY <2>3 DEF MoveIntent, GoTo
    <3>2. state.pending = NoIntent => state.pending' = NoIntent
      BY <2>3 DEF MoveIntent, IntentFollows
    <3> QED
      BY <1>1, <1>5, <2>3, <3>1, <3>2 DEF MoveStates
  <2> QED
    BY <1>5, <2>1, <2>2, <2>3, PendingFrame DEF PendingSteps, Dropped
<1> QED
  BY <1>3, <1>4, <1>5 DEF UncrashedInv

LEMMA UncrashedHolds == Spec => []UncrashedInv
<1>1. Init => UncrashedInv
  BY DEF Init, UncrashedInv
<1>2. LoopInv /\ UncrashedInv /\ [Next]_vars => UncrashedInv'
  <2> SUFFICES ASSUME LoopInv, UncrashedInv, [Next]_vars PROVE UncrashedInv'
    OBVIOUS
  <2>1. CASE UNCHANGED vars
    <3>1. UNCHANGED <<pos, pc, job, state, strays, crashes>>
      BY <2>1 DEF vars
    <3> QED
      BY <3>1 DEF UncrashedInv, InFlight
  <2> QED
    BY <2>1, UncrashedKeeps DEF LoopInv, KnownInv
<1> QED
  BY <1>1, <1>2, LoopHolds, PTL DEF Spec

\* Without a crash, for every profile and limit, nothing is left out of the
\* books but a transaction that landed after the process had counted it as
\* failed: no intent is dropped or passed over unbooked, and no process starts
\* beside a transaction in flight (moves.py, regime.py, board.py).
THEOREM OnlyLateLandings == Spec => [](crashes = 0 => strays \subseteq {"open missed", "close missed"})
<1>1. UncrashedInv => (crashes = 0 => strays \subseteq {"open missed", "close missed"})
  BY DEF UncrashedInv, Lates
<1> QED
  BY <1>1, UncrashedHolds, PTL

\* A failover leaves no close out of the books, unless the process crashed or
\* a transaction landed late: the intent it removes is of a close that was
\* booked (board.py venue_failover, moves.py reopen).
THEOREM FailoverOnlyIfCrash == Spec => [](crashes = 0 => FailoverBooks)
<1>1. UncrashedInv /\ LedgerFollowsChain => (crashes = 0 => FailoverBooks)
  BY DEF UncrashedInv, Lates, FailoverBooks, LedgerFollowsChain, Accountable
<1> QED
  BY <1>1, UncrashedHolds, LedgerHolds, PTL
=============================================================================
