------------------------------ MODULE Signer ------------------------------
(***************************************************************************)
(* One run of one command of SignerPrograms: a Node process that connects  *)
(* to an RPC endpoint, reads, builds, perhaps simulates, signs, sends and  *)
(* waits, and then prints a report, an error, or both.  Before a signature *)
(* it may go to the next endpoint; after one it may not.  Beside it, the   *)
(* chain takes, refuses or forgets its transactions when it likes, and the *)
(* operator's HALT may appear.                                             *)
(*                                                                         *)
(* An item is what one transaction does: a position to open, to harvest or *)
(* to close, a batch of token accounts, a swap, a transfer.                *)
(***************************************************************************)
EXTENDS SignerPrograms, Sequences

CONSTANTS
  Programs,    \* the commands that may be run
  Endpoints    \* how many RPC endpoints the scripts go over

ASSUME SignerAssumption == Programs \subseteq AllPrograms /\ Endpoints \in Nat \ {0}

VARIABLES
  prog, exec, size, named,      \* the command, --execute, its items, the position named
  pc, tryNo, build,             \* where it is, in which attempt of which build
  todo,                         \* items still to be sent
  txs,                          \* transactions a node may have got
  known,                        \* of these, those the process saw confirmed
  err, report, exit,            \* the error thrown, what was printed, how it ended
  halt,                         \* a HALT file exists
  began                         \* history: whether it existed when this build began

command == <<prog, exec, size, named>>
process == <<pc, tryNo, build, todo, known, err, report, exit, began>>
vars == <<command, process, txs, halt>>

Items == 1..size
Fates == {"flight", "landed", "failed", "failedSlip", "dead"}
NoReport == [printed |-> FALSE, sent |-> FALSE, sigs |-> {}]

\* What a command does to an item can be done once only by its nature (a closed
\* position cannot be closed), does no harm twice (harvest), or must not be
\* done twice.
Exit      == prog.cmd \in {"close", "close-empty"}
Repeats   == Exit \/ prog.cmd = "harvest"
LandedOf(i) == {k \in DOMAIN txs : txs[k].item = i /\ txs[k].fate = "landed"}
\* The positions (or accounts) the chain still shows.
Present   == IF Exit THEN {i \in Items : LandedOf(i) = {}} ELSE Items

Init ==
  /\ prog \in Programs
  /\ exec \in BOOLEAN
  /\ size \in prog.sizes
  /\ named \in Items
  /\ pc = "connect" /\ tryNo = 1 /\ build = 1
  /\ todo = {} /\ known = {} /\ txs = << >>
  /\ err = "none" /\ report = NoReport /\ exit = "running"
  /\ halt \in BOOLEAN /\ began = FALSE

\* rebuildOnRefusal, rebuildOnSlippage, OPEN_ATTEMPTS: another build is allowed.
MayRebuildOnceMore == build <= prog.builds
MayRebuild == build < prog.builds

-----------------------------------------------------------------------------
\* Ways to go on.
Goto(l) == pc' = l /\ UNCHANGED <<err, report, exit>>
Throw(e) == pc' = "thrown" /\ err' = e /\ UNCHANGED <<report, exit>>
End(how, r) == pc' = "done" /\ exit' = how /\ report' = r /\ UNCHANGED err
Kept == UNCHANGED <<command, halt>>

\* A refusal before the endpoint loop.
RefuseEarly ==
  /\ pc = "connect" /\ tryNo = 1 /\ prog.pre # {}
  /\ Throw("fatal")
  /\ Kept /\ UNCHANGED <<tryNo, build, todo, known, txs, began>>

ConnectUnguarded ==
  /\ pc = "connect"
  /\ began' = halt
  /\ Goto("read")
  /\ Kept /\ UNCHANGED <<tryNo, build, todo, known, txs>>

\* connect: HALT is looked for in each attempt, before the key is read.
Connect ==
  /\ pc = "connect"
  /\ began' = halt
  /\ IF halt THEN Throw("fatal") ELSE Goto("read")
  /\ Kept /\ UNCHANGED <<tryNo, build, todo, known, txs>>

\* The reads, the checks and the build: nothing is signed yet.
ReadFails ==
  /\ pc = "read"
  /\ \/ Throw("rotate")
     \/ prog.checks # {} /\ Throw("fatal")
     \/ prog.named /\ named \notin Present /\ Throw("fatal")
  /\ Kept /\ UNCHANGED <<tryNo, build, todo, known, txs, began>>

NothingToDo ==
  /\ pc = "read" /\ prog.noop
  /\ End("ok", [printed |-> TRUE, sent |-> FALSE, sigs |-> {}])
  /\ Kept /\ UNCHANGED <<tryNo, build, todo, known, txs, began>>

ReadAndBuild ==
  /\ pc = "read"
  /\ prog.named => named \in Present
  /\ todo' = Present /\ known' = {}
  /\ Goto("built")
  /\ Kept /\ UNCHANGED <<tryNo, build, txs, began>>

\* The dry run prints what was built, its simulation with it.
DryRun ==
  /\ pc = "built" /\ ~exec
  /\ \/ End("ok", [printed |-> TRUE, sent |-> FALSE, sigs |-> {}])
     \/ prog.sim = "strict" /\ Throw("fatal")
  /\ Kept /\ UNCHANGED <<tryNo, build, todo, known, txs, began>>

\* With --execute: the simulation's verdict, the checks left, HALT once more.
RefuseLate ==
  /\ pc = "built" /\ exec
  /\ \/ prog.sim \in {"both", "strict"} /\ Throw("fatal")
     \/ prog.sim = "both" /\ Throw("slip")
     \/ prog.late # {} /\ Throw("fatal")
     \/ prog.reguard /\ halt /\ Throw("fatal")
  /\ Kept /\ UNCHANGED <<tryNo, build, todo, known, txs, began>>

Proceed ==
  /\ pc = "built" /\ exec
  /\ prog.reguard => ~halt
  /\ Goto("send")
  /\ Kept /\ UNCHANGED <<tryNo, build, todo, known, txs, began>>

-----------------------------------------------------------------------------
\* The transaction at hand did not go through: what the script makes of it.
\* A build begun anew in place does not connect again: no HALT is looked for.
Answer(r, this) ==
  LET a == SendAnswer(prog.send, known, this, r)
      printed == [printed |-> TRUE, sent |-> a.sigs # {}, sigs |-> a.sigs]
  IN /\ \/ /\ a.err = "anew" /\ MayRebuild
           /\ build' = build + 1 /\ began' = halt
           /\ Goto("read")
        \/ /\ a.err = "anew" => ~MayRebuild
           /\ a.err \in {"none", "anew"}
           /\ End("failed", printed)
           /\ UNCHANGED <<build, began>>
        \/ /\ a.err \notin {"none", "anew"}
           /\ pc' = "thrown" /\ err' = a.err /\ UNCHANGED exit
           /\ report' = IF a.prints THEN printed ELSE report
           /\ UNCHANGED <<build, began>>
     /\ Kept /\ UNCHANGED <<tryNo, todo, known>>

\* Sent one after the other, each once the one before is confirmed; which goes
\* first makes no difference.  got: a node answered with a signature.
Next1 == CHOOSE i \in todo : TRUE
Offer(fate, got) == txs' = Append(txs, [item |-> Next1, fate |-> fate, got |-> got])
Cur == Len(txs)

SendRefused ==
  /\ pc = "send"
  /\ \E r \in {"refused", "slip"} \cup (IF prog.hash = "send" THEN {"unhashed"} ELSE {}) :
       Answer(r, Cur + 1)
  /\ UNCHANGED txs

\* The answer to the first send is lost: a node has the transaction or not.
SendCut ==
  /\ pc = "send"
  /\ \E fate \in {"flight", "dead"} : Offer(fate, FALSE)
  /\ Answer("cut", Cur + 1)

SendAccepted ==
  /\ pc = "send"
  /\ Offer("flight", TRUE)
  /\ Goto("status")
  /\ Kept /\ UNCHANGED <<tryNo, build, todo, known, began>>

\* Confirmed: the next one, or the report.
Confirmed ==
  /\ known' = known \cup {Cur}
  /\ todo' = todo \ {txs[Cur].item}
  /\ IF todo' = {} THEN End("ok", [printed |-> TRUE, sent |-> TRUE, sigs |-> known']) ELSE Goto("send")
  /\ Kept /\ UNCHANGED <<tryNo, build, txs, began>>

FailedOnChain == txs[Cur].fate \in {"failed", "failedSlip"}

\* awaitLanded: the status, from a node that may not have it yet ...
AwaitStatus ==
  /\ pc = "status"
  /\ \/ txs[Cur].fate = "landed" /\ Confirmed
     \/ FailedOnChain /\ Answer(txs[Cur].fate, Cur) /\ UNCHANGED txs
     \/ Goto("height") /\ Kept /\ UNCHANGED <<tryNo, build, todo, known, txs, began>>

\* ... the block height, not past the last valid one while it may still land ...
PastNever == FALSE
PastLastValid == txs[Cur].fate # "flight"

HeightBelow ==
  /\ pc = "height"
  /\ Goto("status")
  /\ Kept /\ UNCHANGED <<tryNo, build, todo, known, txs, began>>

HeightPassed ==
  /\ pc = "height" /\ PastLastValid
  /\ Goto("history")
  /\ Kept /\ UNCHANGED <<tryNo, build, todo, known, txs, began>>

\* ... and then what the chain's history says: a record without an error.
AssumedThere == txs[Cur].fate \in {"landed", "dead"}
InHistory == txs[Cur].fate = "landed"

SearchHistory ==
  /\ pc = "history"
  /\ \/ InHistory /\ Confirmed
     \/ FailedOnChain /\ Answer(txs[Cur].fate, Cur) /\ UNCHANGED txs
     \/ txs[Cur].fate = "dead" /\ Answer("never", Cur) /\ UNCHANGED txs

\* Any of these reads may fail.
AwaitUnread ==
  /\ pc \in {"status", "height", "history"}
  /\ Answer("unread", Cur) /\ UNCHANGED txs

-----------------------------------------------------------------------------
\* overEndpoints: the next attempt, on this endpoint or the next one.
Attempts == prog.tries * (IF prog.roams THEN Endpoints ELSE 1)

Rotate ==
  /\ pc = "thrown" /\ err = "rotate" /\ tryNo < Attempts
  /\ tryNo' = tryNo + 1
  /\ pc' = "connect" /\ err' = "none" /\ UNCHANGED <<report, exit>>
  /\ Kept /\ UNCHANGED <<build, todo, known, txs, began>>

\* rebuildOnRefusal, rebuildOnSlippage: the whole operation again.
Rebuild ==
  /\ pc = "thrown" /\ exec /\ err \in prog.again /\ MayRebuild
  /\ build' = build + 1 /\ tryNo' = 1
  /\ pc' = "connect" /\ err' = "none" /\ UNCHANGED <<report, exit>>
  /\ Kept /\ UNCHANGED <<todo, known, txs, began>>

GiveUp ==
  /\ pc = "thrown"
  /\ err = "rotate" => tryNo = Attempts
  /\ err \in prog.again => ~exec \/ ~MayRebuild
  /\ End("failed", report)
  /\ Kept /\ UNCHANGED <<tryNo, build, todo, known, txs, began>>

-----------------------------------------------------------------------------
\* The chain settles what a node has: an item that is gone cannot be taken
\* again.
Settle(k) ==
  /\ txs[k].fate = "flight"
  /\ \E fate \in {"landed", "failed", "failedSlip", "dead"} :
       /\ fate = "landed" => txs[k].item \in Present
       /\ txs' = [txs EXCEPT ![k].fate = fate]
  /\ UNCHANGED <<command, process, halt>>

HaltAppears ==
  /\ ~halt /\ exit = "running"
  /\ halt' = TRUE
  /\ UNCHANGED <<command, process, txs>>

Step ==
  \/ RefuseEarly \/ Connect \/ ReadFails \/ NothingToDo \/ ReadAndBuild
  \/ DryRun \/ RefuseLate \/ Proceed
  \/ SendRefused \/ SendCut \/ SendAccepted
  \/ AwaitStatus \/ HeightBelow \/ HeightPassed \/ SearchHistory \/ AwaitUnread
  \/ Rotate \/ Rebuild \/ GiveUp

Next == Step \/ HaltAppears \/ \E k \in DOMAIN txs : Settle(k)

Spec == Init /\ [][Next]_vars

\* The process runs on; a transaction lands, fails or expires; the height of
\* the chain passes a transaction's last valid one, however often it is read
\* before that.
FairSpec ==
  /\ Spec /\ WF_vars(Step) /\ SF_vars(HeightPassed)
  /\ WF_vars(\E k \in DOMAIN txs : Settle(k))

-----------------------------------------------------------------------------
TypeOK ==
  /\ prog \in Programs /\ exec \in BOOLEAN /\ size \in prog.sizes /\ named \in Items
  /\ pc \in {"connect", "read", "built", "send", "status", "height", "history", "thrown", "done"}
  /\ tryNo \in 1..Attempts /\ build \in 1..prog.builds
  /\ todo \subseteq Items /\ known \subseteq DOMAIN txs
  /\ txs \in Seq([item : Items, fate : Fates, got : BOOLEAN])
  /\ err \in Classes \cup {"none"}
  /\ report.sigs \subseteq DOMAIN txs /\ report.sent = (report.sigs # {})
  /\ exit \in {"running", "ok", "failed"} /\ halt \in BOOLEAN /\ began \in BOOLEAN

\* An open, an increase, a swap or a transfer is made at most once, whatever
\* was retried: on another endpoint, as a new build, after a lost answer.
EffectOnce == Repeats \/ \A i \in Items : Cardinality(LandedOf(i)) <= 1

\* Nothing is tried again, on another endpoint or as a new build, while a
\* transaction of the command has landed or may still land.  Not so where
\* pancakeswap_v3 closes or harvests several positions: what is
\* thrown of the second transaction runs the whole command again (sendOne).
Settled == \A k \in DOMAIN txs : txs[k].fate \in {"failed", "failedSlip", "dead"}
RetriedOnlyIfDead ==
  pc \in {"connect", "read", "built"} => Settled \/ (prog.script = "pancakeswap_v3" /\ size > 1)

\* Success is printed only once every item of the command has landed.
DoneMeansLanded == exit = "ok" /\ report.sent => \A i \in Items : LandedOf(i) # {}

\* What the caller must look up is named: a signature the node answered with is
\* in the report, unless that transaction is known to have failed or expired.
Reports == {"byreal", "jupiter", "orca_swap", "payout"}
SignaturesReported ==
  exit # "running" /\ prog.script \in Reports =>
    \A k \in DOMAIN txs : txs[k].got /\ txs[k].fate \in {"flight", "landed"} => k \in report.sigs

\* NeverLanded: thrown only of a transaction that did not land and cannot.
NeverMeansNever == err = "never" => txs[Cur].fate = "dead"

\* A HALT found when a build begins stops it, on each endpoint and in each new
\* build.  An open of meteora_dlmm built anew in place is the exception.
HaltStopsBuilds ==
  began => pc \in {"thrown", "done"} \/ (prog.send = "meteoraOpen" /\ build > 1)

\* The command ends: the endpoints, the builds and the wait are all bounded.
Terminates == <>(pc = "done")

\* The loop owes again what a payout did not report (lp/harvest.py): then it
\* must not have been paid.
OwedMeansUnpaid ==
  prog.script = "payout" /\ exit = "failed" /\ ~report.printed =>
    \A k \in DOMAIN txs : txs[k].fate # "landed"
=============================================================================
