------------------------ MODULE VaultSystem_proofs ------------------------
(***************************************************************************)
(* Before the registration the composition behaves as Onboard alone, and   *)
(* after it as VaultLife alone: what Onboard_proofs and VaultLife_proofs   *)
(* show of their behaviours holds of the whole system's.  The theorems     *)
(* after the first two carry it over by name.                              *)
(***************************************************************************)
EXTENDS VaultSystem, Onboard_proofs

LifeProofs == INSTANCE VaultLife_proofs

\* A request's step leaves the registered vault alone; a vault's step is one of
\* VaultLife's.
THEOREM SystemLives == SystemSpec => Life!Spec
<1>1. SystemInit => Life!Init
  BY DEF SystemInit
<1>2. [RequestStep \/ LifeStep]_<<vars, life>> => [Life!Next]_Life!lifeVars
  BY DEF RequestStep, LifeStep, life, Life!lifeVars, Life!money
<1> QED
  BY <1>1, <1>2, PTL DEF SystemSpec, Life!Spec

\* A vault's step leaves the request that made it alone.
THEOREM SystemOnboards == SystemSpec => FairSpec
<1>1. SystemInit => Init
  BY DEF SystemInit
<1>2. [RequestStep \/ LifeStep]_<<vars, life>> => [Next]_vars
  BY DEF RequestStep, LifeStep
<1> QED
  BY <1>1, <1>2, PTL DEF SystemSpec, FairSpec, Spec

-----------------------------------------------------------------------------
(* VaultLife, and VaultLife as VaultLife_proofs extends it, are one.       *)

LEMMA SameSteps == Life!Next <=> LifeProofs!Next
<1>1. Life!OpenFlow <=> LifeProofs!OpenFlow
  BY DEF Life!OpenFlow, LifeProofs!OpenFlow, Life!BotActive, LifeProofs!BotActive, Life!CloseSteps,
         LifeProofs!CloseSteps, Life!Flows, LifeProofs!Flows, Life!HasDeposit, LifeProofs!HasDeposit,
         Life!Names, LifeProofs!Names, Life!OwnCloseSteps, LifeProofs!OwnCloseSteps, Life!Reachable,
         LifeProofs!Reachable, Life!RulesCurrent, LifeProofs!RulesCurrent, Life!View, LifeProofs!View,
         Life!money, LifeProofs!money
<1>2. Life!Final <=> LifeProofs!Final
  BY DEF Life!Final, LifeProofs!Final, Life!View, LifeProofs!View, Life!money, LifeProofs!money
<1>3. Life!Ask <=> LifeProofs!Ask
  BY DEF Life!Ask, LifeProofs!Ask, Life!money, LifeProofs!money
<1>4. Life!ReadPositions <=> LifeProofs!ReadPositions
  BY DEF Life!ReadPositions, LifeProofs!ReadPositions, Life!StepDone, LifeProofs!StepDone, Life!View,
         LifeProofs!View, Life!money, LifeProofs!money
<1>5. Life!WaitEnds <=> LifeProofs!WaitEnds
  BY DEF Life!WaitEnds, LifeProofs!WaitEnds, Life!Reachable, LifeProofs!Reachable, Life!ReadAnswer,
         LifeProofs!ReadAnswer, Life!StepDone, LifeProofs!StepDone, Life!View, LifeProofs!View, Life!money,
         LifeProofs!money
<1>6. Life!WaitFails <=> LifeProofs!WaitFails
  BY DEF Life!WaitFails, LifeProofs!WaitFails, Life!StepFailed, LifeProofs!StepFailed, Life!money,
         LifeProofs!money
<1>7. Life!SendOne <=> LifeProofs!SendOne
  BY DEF Life!SendOne, LifeProofs!SendOne, Life!money, LifeProofs!money
<1>0. \A S : Life!SetToSeq(S) = LifeProofs!SetToSeq(S)
  <2>1. \A S : Life!Cardinality(S) = LifeProofs!Cardinality(S)
    BY DEF Life!Cardinality, LifeProofs!Cardinality
  <2> QED
    BY <2>1, Zenon DEF Life!SetToSeq, LifeProofs!SetToSeq, Life!IsInjective, LifeProofs!IsInjective
<1>8. Life!OneLanded <=> LifeProofs!OneLanded
  <2>1. Life!CloseTxs = LifeProofs!CloseTxs
    BY <1>0 DEF Life!CloseTxs, LifeProofs!CloseTxs, Life!Tx, LifeProofs!Tx
  <2>2. Life!NextClose = LifeProofs!NextClose
    BY <2>1 DEF Life!NextClose, LifeProofs!NextClose, Life!Signs, LifeProofs!Signs, Life!StepFailed,
           LifeProofs!StepFailed
  <2> QED
    BY <2>2 DEF Life!OneLanded, LifeProofs!OneLanded, Life!StepDone, LifeProofs!StepDone, Life!View,
           LifeProofs!View, Life!money, LifeProofs!money
<1>9. Life!AfterFailure <=> LifeProofs!AfterFailure
  BY DEF Life!AfterFailure, LifeProofs!AfterFailure, Life!Contains, LifeProofs!Contains, Life!View,
         LifeProofs!View, Life!money, LifeProofs!money
<1>10. Life!LeavePage <=> LifeProofs!LeavePage
  BY DEF Life!LeavePage, LifeProofs!LeavePage, Life!Fault, LifeProofs!Fault, Life!StepFailed,
         LifeProofs!StepFailed, Life!View, LifeProofs!View, Life!money, LifeProofs!money
<1>11. Life!StartAsked <=> LifeProofs!StartAsked
  BY DEF Life!StartAsked, LifeProofs!StartAsked, Life!BotActive, LifeProofs!BotActive, Life!HasDeposit,
         LifeProofs!HasDeposit, Life!Names, LifeProofs!Names, Life!StepFailed, LifeProofs!StepFailed,
         Life!money, LifeProofs!money
<1>12. Life!ServiceStarts <=> LifeProofs!ServiceStarts
  BY DEF Life!ServiceStarts, LifeProofs!ServiceStarts, Life!Bot, LifeProofs!Bot, Life!Reachable,
         LifeProofs!Reachable, Life!money, LifeProofs!money
<1>13. Life!Started <=> LifeProofs!Started
  BY DEF Life!Started, LifeProofs!Started, Life!StepDone, LifeProofs!StepDone, Life!View, LifeProofs!View,
         Life!money, LifeProofs!money
<1>14. Life!Poll <=> LifeProofs!Poll
  BY DEF Life!Poll, LifeProofs!Poll, Life!Acts, LifeProofs!Acts, Life!Bot, LifeProofs!Bot, Life!money,
         LifeProofs!money
<1>15. Life!ExitUnread <=> LifeProofs!ExitUnread
  BY DEF Life!ExitUnread, LifeProofs!ExitUnread, Life!Acts, LifeProofs!Acts, Life!Bot, LifeProofs!Bot,
         Life!Fault, LifeProofs!Fault, Life!money, LifeProofs!money
<1>16. Life!StopRevoked <=> LifeProofs!StopRevoked
  BY DEF Life!StopRevoked, LifeProofs!StopRevoked, Life!Bot, LifeProofs!Bot, Life!money, LifeProofs!money
<1>17. Life!CloseForOwner <=> LifeProofs!CloseForOwner
  BY DEF Life!CloseForOwner, LifeProofs!CloseForOwner, Life!Acts, LifeProofs!Acts, Life!Bot,
         LifeProofs!Bot, Life!Tx, LifeProofs!Tx, Life!money, LifeProofs!money
<1>18. Life!ReadAgain <=> LifeProofs!ReadAgain
  BY DEF Life!ReadAgain, LifeProofs!ReadAgain, Life!Acts, LifeProofs!Acts, Life!Bot, LifeProofs!Bot,
         Life!Tx, LifeProofs!Tx, Life!money, LifeProofs!money
<1>19. Life!RequestDone <=> LifeProofs!RequestDone
  BY DEF Life!RequestDone, LifeProofs!RequestDone, Life!Bot, LifeProofs!Bot, Life!money, LifeProofs!money
<1>20. Life!Act <=> LifeProofs!Act
  BY DEF Life!Act, LifeProofs!Act, Life!Acts, LifeProofs!Acts, Life!Bot, LifeProofs!Bot, Life!Tx,
         LifeProofs!Tx, Life!money, LifeProofs!money
<1>21. Life!Reopen <=> LifeProofs!Reopen
  BY DEF Life!Reopen, LifeProofs!Reopen, Life!Acts, LifeProofs!Acts, Life!Bot, LifeProofs!Bot, Life!Tx,
         LifeProofs!Tx, Life!money, LifeProofs!money
<1>22. Life!OpenDecided <=> LifeProofs!OpenDecided
  BY DEF Life!OpenDecided, LifeProofs!OpenDecided, Life!Bot, LifeProofs!Bot, Life!Tx, LifeProofs!Tx,
         Life!money, LifeProofs!money
<1>23. Life!BotCrash <=> LifeProofs!BotCrash
  BY DEF Life!BotCrash, LifeProofs!BotCrash, Life!Bot, LifeProofs!Bot, Life!Fault, LifeProofs!Fault,
         Life!Reachable, LifeProofs!Reachable, Life!money, LifeProofs!money
<1>24. Life!Restart <=> LifeProofs!Restart
  BY DEF Life!Restart, LifeProofs!Restart, Life!Bot, LifeProofs!Bot, Life!money, LifeProofs!money
<1>25. Life!RulesGrow <=> LifeProofs!RulesGrow
  BY DEF Life!RulesGrow, LifeProofs!RulesGrow, Life!Fault, LifeProofs!Fault
<1>26. \A t : Life!Land(t) <=> LifeProofs!Land(t)
  BY DEF Life!Land, LifeProofs!Land, Life!Decided, LifeProofs!Decided, Life!Names, LifeProofs!Names,
         Life!StepFailed, LifeProofs!StepFailed, Life!Valid, LifeProofs!Valid
<1>27. \A t : Life!Die(t) <=> LifeProofs!Die(t)
  BY DEF Life!Die, LifeProofs!Die, Life!Decided, LifeProofs!Decided, Life!Fault, LifeProofs!Fault,
         Life!Names, LifeProofs!Names, Life!StepFailed, LifeProofs!StepFailed, Life!Valid,
         LifeProofs!Valid, Life!money, LifeProofs!money
<1>28. Life!Build <=> LifeProofs!Build
  <2>2. \A signer : Life!RulesTxs(signer) = LifeProofs!RulesTxs(signer)
    BY <1>0 DEF Life!RulesTxs, LifeProofs!RulesTxs, Life!RulesChanged, LifeProofs!RulesChanged,
           Life!InSeedOrder, LifeProofs!InSeedOrder, Life!Tx, LifeProofs!Tx
  <2>3. \A step : Life!Built(step) = LifeProofs!Built(step)
    BY <1>0, <2>2 DEF Life!Built, LifeProofs!Built, Life!CloseTxs, LifeProofs!CloseTxs, Life!Tx, LifeProofs!Tx,
           Life!WithdrawTxs, LifeProofs!WithdrawTxs, Life!Deposit, LifeProofs!Deposit,
           Life!HasDeposit, LifeProofs!HasDeposit
  <2> QED
    BY <2>3 DEF Life!Build, LifeProofs!Build, Life!Signs, LifeProofs!Signs, Life!StepDone, LifeProofs!StepDone, Life!StepFailed,
           LifeProofs!StepFailed, Life!View, LifeProofs!View, Life!money, LifeProofs!money
<1> QED
  BY <1>1, <1>2, <1>3, <1>4, <1>5, <1>6, <1>7, <1>8, <1>9, <1>10, <1>11, <1>12, <1>13, <1>14, <1>15, <1>16,
     <1>17, <1>18, <1>19, <1>20, <1>21, <1>22, <1>23, <1>24, <1>25, <1>26, <1>27, <1>28 DEF Life!Next, LifeProofs!Next

LEMMA SameLife == Life!Spec => LifeProofs!Spec
<1>1. Life!Init => LifeProofs!Init
  BY DEF Life!Init, LifeProofs!Init, Life!Bot, LifeProofs!Bot, Life!View, LifeProofs!View
<1>2. Life!lifeVars = LifeProofs!lifeVars
  BY DEF Life!lifeVars, LifeProofs!lifeVars, Life!money, LifeProofs!money
<1>3. [Life!Next]_Life!lifeVars => [LifeProofs!Next]_LifeProofs!lifeVars
  BY SameSteps DEF Life!lifeVars, LifeProofs!lifeVars, Life!money, LifeProofs!money
<1> QED
  BY <1>1, <1>3, PTL DEF Life!Spec, LifeProofs!Spec

LEMMA SystemBounded == LifeProofs!Bounded
BY LifeAssumption DEF LifeProofs!Bounded, IsFiniteSet, LifeProofs!IsFiniteSet

\* "The bot can no longer act on your vault": once the page has said so, in the
\* whole system, no policy names the bot until its owner approves one again.
THEOREM SystemRevoked == SystemSpec => []RevokedStays
<1>1. LifeProofs!Spec => []LifeProofs!RevokedStays
  BY SystemBounded, LifeProofs!RevokedHolds
<1>2. LifeProofs!RevokedStays => RevokedStays
  BY DEF LifeProofs!RevokedStays, Life!RevokedStays, RevokedStays, Life!Names, LifeProofs!Names
<1> QED
  BY <1>1, <1>2, SystemLives, SameLife, PTL

\* "Closed into your vault; the bot stopped": once the page has said so, in the
\* whole system, the bot sends no open until its owner starts it again.
THEOREM SystemClosed == SystemSpec => StaysClosed
<1>1. LifeProofs!Spec => LifeProofs!StaysClosed
  BY SystemBounded, LifeProofs!ClosedHolds
<1>2. [\A t \in txs' \ txs : t.kind = "open" => ~told.closed]_LifeProofs!lifeVars
        => [\A t \in txs' \ txs : t.kind = "open" => ~told.closed]_Life!lifeVars
  BY DEF Life!lifeVars, LifeProofs!lifeVars, Life!money, LifeProofs!money
<1> QED
  BY <1>1, <1>2, SystemLives, SameLife, PTL DEF StaysClosed, Life!StaysClosed, LifeProofs!StaysClosed

\* In the whole system too: the bot acts last, on a whole vault and with the
\* money there; a funding reaches a whole vault, unless a stored plan undid
\* another; no page pays again; the bot pays one table, but for crashes; and
\* the page accepts what the server plans.
THEOREM SystemRequests ==
  SystemSpec => []BotActsLast /\ []OneTable /\ FundsWhole /\ NeverPaidAgain /\ []AnswerPassesPage
BY SystemOnboards, BotLastHolds, OneTableHolds, FundsHold, PaidOnceHolds, AnswersPass, PTL DEF FairSpec

\* The request, its pages and the chain, then the vault's bot and its owner's
\* flows, keep their types.
THEOREM SystemTypes == SystemSpec => []TypesOK
<1>1. LifeProofs!Spec => []LifeProofs!TypeOK
  BY SystemBounded, LifeProofs!LifeTypes
<1>2. LifeProofs!TypeOK => Life!TypeOK
  BY DEF LifeProofs!TypeOK, Life!TypeOK
<1>3. TypeOK /\ Life!TypeOK => TypesOK
  BY DEF TypesOK
<1>4. FairSpec => Spec
  BY DEF FairSpec
<1> QED
  BY <1>1, <1>2, <1>3, <1>4, SystemOnboards, OnboardTypes, SystemLives, SameLife, PTL
=============================================================================
