--------------------------- MODULE Signer_proofs ---------------------------
(***************************************************************************)
(* Proofs about Signer, for every set of its commands, any number of       *)
(* endpoints and of transactions in a command: its types, that an effect   *)
(* is made at most once, that nothing is tried again while it may land,    *)
(* that what is owed after a payout is owed, but for a report cut off,     *)
(* that a run goes on, and how much it may send.                           *)
(***************************************************************************)
EXTENDS Signer, FiniteSetTheorems, TLAPS

-----------------------------------------------------------------------------
(* What the proofs use of a command's record.                              *)

Styles ==
  {"raydium", "byreal", "pancake", "orca", "orcaVault", "meteora", "meteoraOpen", "jupiter", "orcaSwap", "payout", "janitor"}
Rebuilders == {"raydium", "byreal", "pancake"}
OneByOne == {"orca", "orcaVault", "jupiter", "orcaSwap", "payout"}

Sound(p) ==
  /\ p.send \in Styles
  /\ p.sizes \in {{1}, 1..MaxTxs}
  /\ p.again \subseteq {"slip", "sentSlip", "never"}
  /\ p.again # {} => p.send \in Rebuilders
  /\ p.builds \in 1..3 /\ p.tries \in 1..3
  /\ p.send \in OneByOne => p.sizes = {1}
  /\ p.send = "pancake" <=> p.script = "pancakeswap_v3"
  /\ p.send = "pancake" => p.sizes = {1} \/ (p.named /\ p.cmd \in {"close", "harvest"})
  /\ p.script \in {"byreal", "jupiter", "orca_swap", "payout"} => p.send \in {"byreal", "jupiter", "orcaSwap", "payout"}

USE DEF Sound, Styles, Rebuilders, OneByOne, Script

LEMMA RaydiumSound == \A p \in RaydiumCommands : Sound(p)
<1>1. Sound(RaydiumOpen)
  BY DEF RaydiumOpen, Rebuilt, Raydium
<1>2. Sound(RaydiumHarvest)
  BY DEF RaydiumHarvest, Rebuilt, Raydium
<1>3. Sound(RaydiumClose)
  BY DEF RaydiumClose, Rebuilt, Raydium
<1>4. Sound(RaydiumIncrease)
  BY DEF RaydiumIncrease, Rebuilt, Raydium
<1>5. Sound(RaydiumRebalance)
  BY DEF RaydiumRebalance, Raydium
<1> HIDE DEF Sound
<1> QED
  BY <1>1, <1>2, <1>3, <1>4, <1>5 DEF RaydiumCommands

LEMMA ByrealSound == \A p \in ByrealCommands : Sound(p)
<1>1. Sound(ByrealOpen)
  BY DEF ByrealOpen, ByrealRebuilt, Byreal
<1>2. Sound(ByrealHarvest)
  BY DEF ByrealHarvest, Byreal
<1>3. Sound(ByrealClose)
  BY DEF ByrealClose, ByrealRebuilt, Byreal
<1> HIDE DEF Sound
<1> QED
  BY <1>1, <1>2, <1>3 DEF ByrealCommands

LEMMA PancakeSound == \A p \in PancakeCommands : Sound(p)
<1>1. Sound(PancakeOpen)
  BY DEF PancakeOpen, PancakeRebuilt, Pancake
<1>2. Sound(PancakeExit("harvest"))
  BY DEF PancakeExit, Pancake
<1>3. Sound(PancakeRebuilt(PancakeExit("close")))
  BY DEF PancakeExit, PancakeRebuilt, Pancake
<1> HIDE DEF Sound
<1> QED
  BY <1>1, <1>2, <1>3 DEF PancakeCommands

LEMMA OrcaSound == \A p \in OrcaCommands : Sound(p)
<1>1. Sound(OrcaRebalance)
  BY DEF OrcaRebalance, OrcaVault
<1>2. \A orca \in {OrcaKey, OrcaVault} : Sound(OrcaOpen(orca)) /\ Sound(OrcaHarvest(orca)) /\ Sound(OrcaClose(orca))
  BY DEF OrcaKey, OrcaVault, OrcaOpen, OrcaHarvest, OrcaClose
<1>3. ASSUME NEW p \in OrcaCommands
      PROVE  \/ p = OrcaRebalance
             \/ \E orca \in {OrcaKey, OrcaVault} : p \in {OrcaOpen(orca), OrcaHarvest(orca), OrcaClose(orca)}
  BY <1>3 DEF OrcaCommands
<1> HIDE DEF Sound
<1> QED
  BY <1>1, <1>2, <1>3

LEMMA MeteoraSound == \A p \in MeteoraCommands : Sound(p)
<1>1. Sound(MeteoraOpen)
  BY DEF MeteoraOpen, Meteora
<1>2. Sound(MeteoraHarvest)
  BY DEF MeteoraHarvest, Meteora
<1>3. Sound(MeteoraClose)
  BY DEF MeteoraClose, Meteora
<1>4. Sound(MeteoraRebalance)
  BY DEF MeteoraRebalance, Meteora
<1> HIDE DEF Sound
<1> QED
  BY <1>1, <1>2, <1>3, <1>4 DEF MeteoraCommands

LEMMA OthersSound == \A p \in {JupiterSwap, JupiterRebalance, OrcaSwapRebalance, PayoutSend, PayoutVault, JanitorClose} : Sound(p)
<1>1. Sound(JupiterSwap)
  BY DEF JupiterSwap, Jupiter
<1>2. Sound(JupiterRebalance)
  BY DEF JupiterRebalance, JupiterSwap, Jupiter
<1>3. Sound(OrcaSwapRebalance)
  BY DEF OrcaSwapRebalance, OrcaSwap
<1>4. Sound(PayoutSend)
  BY DEF PayoutSend, Payout
<1>5. Sound(PayoutVault)
  BY DEF PayoutVault, Payout
<1>6. Sound(JanitorClose)
  BY DEF JanitorClose, Janitor
<1> HIDE DEF Sound
<1> QED
  BY <1>1, <1>2, <1>3, <1>4, <1>5, <1>6

LEMMA ProgramsSound == \A p \in Programs : Sound(p)
<1> HIDE DEF Sound
<1>1. \A p \in AllPrograms : Sound(p)
  BY RaydiumSound, ByrealSound, PancakeSound, OrcaSound, MeteoraSound, OthersSound, SMTT(60) DEF AllPrograms
<1> QED
  BY <1>1, SignerAssumption

-----------------------------------------------------------------------------
(* What the proofs use of an answer.                                       *)

Retried == {"slip", "sentSlip", "never", "rotate", "anew"}

AnswerSound(style, seen, this, r, a) ==
  /\ a.err \in Classes \cup {"none"}
  /\ a.sigs \subseteq seen \cup (IF r \in Accepted THEN {this} ELSE {})
  /\ a.err = "anew" => style = "meteoraOpen"
  /\ a.err = "never" => r = "never"
  /\ a.err \in Retried => r \notin {"cut", "unread"}
  /\ a.err \in Retried => seen = {} \/ style \in OneByOne \cup {"pancake", "janitor"}
  /\ a.err = "rotate" => style \in OneByOne \cup {"pancake"}
  /\ style = "byreal" => a.err = "none" /\ seen \subseteq a.sigs
  /\ style \in {"byreal", "jupiter", "orcaSwap", "payout"} /\ r = "unread" => this \in a.sigs /\ (a.prints \/ a.err = "none")

LEMMA AnswersSound ==
  ASSUME NEW style \in Styles, NEW seen, NEW this, NEW r \in Failures
  PROVE  AnswerSound(style, seen, this, r, SendAnswer(style, seen, this, r))
<1> USE DEF AnswerSound, Retried, SendAnswer, Throws, Prints, PrintsAndThrows, Failures, Accepted, Slips, Classes
<1>1. CASE style = "raydium" BY <1>1 DEF RaydiumAnswer
<1>2. CASE style = "byreal" BY <1>2 DEF ByrealAnswer
<1>3. CASE style = "pancake" BY <1>3 DEF PancakeAnswer
<1>4. CASE style = "orca" BY <1>4 DEF OrcaAnswer
<1>5. CASE style = "orcaVault" BY <1>5 DEF OrcaVaultAnswer
<1>6. CASE style = "meteora" BY <1>6 DEF MeteoraAnswer
<1>7. CASE style = "meteoraOpen" BY <1>7 DEF MeteoraOpenAnswer
<1>8. CASE style = "jupiter" BY <1>8 DEF JupiterAnswer
<1>9. CASE style = "orcaSwap" BY <1>9 DEF OrcaSwapAnswer
<1>10. CASE style = "payout" BY <1>10 DEF PayoutAnswer
<1>11. CASE style = "janitor" BY <1>11 DEF JanitorAnswer
<1> QED
  BY <1>1, <1>2, <1>3, <1>4, <1>5, <1>6, <1>7, <1>8, <1>9, <1>10, <1>11

-----------------------------------------------------------------------------
(* The invariant.  A transaction is live while it may land or has.         *)

Live(k) == txs[k].fate \in {"flight", "landed"}
Loose == prog.script = "pancakeswap_v3" /\ size > 1
Waiting == pc \in {"status", "height", "history"}
Sending == pc = "send" \/ Waiting

\* Live transactions of a build are those confirmed and the one waited for.
AllSeen == \A k \in DOMAIN txs : Live(k) => k \in known \/ (Waiting /\ k = Cur)

BuiltInv ==
  pc = "built" \/ Sending =>
    /\ todo # {} /\ \A i \in Items \ todo : LandedOf(i) # {}
    /\ pc = "built" => known = {}

SendInv ==
  Sending =>
    /\ \A k \in known : txs[k].fate = "landed" /\ txs[k].item \notin todo
    /\ AllSeen \/ Loose
    /\ Waiting => Cur \in DOMAIN txs /\ Cur \notin known /\ txs[Cur].item \in todo /\ txs[Cur].got

RetryInv == pc = "thrown" /\ err \in prog.again \cup {"rotate"} => Settled \/ Loose

ReportInv ==
  /\ exit # "running" <=> pc = "done"
  /\ pc \notin {"thrown", "done"} => err = "none"
  /\ pc \in {"thrown", "done"} /\ prog.script \in Reports =>
       \A k \in DOMAIN txs : txs[k].got /\ Live(k) => k \in report.sigs

HaltInv ==
  began => (pc = "thrown" /\ err = "fatal") \/ pc = "done" \/ (prog.send = "meteoraOpen" /\ build > 1)

OnceInv ==
  ~Repeats => \A j, k \in DOMAIN txs : Live(j) /\ Live(k) /\ txs[j].item = txs[k].item => j = k

SignerInv ==
  /\ TypeOK /\ BuiltInv /\ SendInv /\ RetryInv /\ ReportInv /\ HaltInv /\ OnceInv
  /\ RetriedOnlyIfDead /\ NeverMeansNever /\ DoneMeansLanded

LEMMA CommandFacts ==
  ASSUME TypeOK
  PROVE  Sound(prog) /\ size \in Nat \ {0} /\ Attempts \in Nat \ {0} /\ 1 \in 1..prog.builds
<1> HIDE DEF Sound
<1>1. Sound(prog)
  BY ProgramsSound DEF TypeOK
<1>2. size \in Nat \ {0}
  BY <1>1, MaxTxsAssumption DEF TypeOK, Sound
<1>3. Attempts \in Nat \ {0}
  <2>1. prog.tries \in 1..3 /\ Endpoints \in Nat \ {0}
    BY <1>1, SignerAssumption DEF Sound
  <2>2. prog.tries * Endpoints \in Nat \ {0}
    BY <2>1
  <2> QED
    BY <2>1, <2>2 DEF Attempts
<1> QED
  BY <1>1, <1>2, <1>3 DEF Sound

LEMMA InitKeeps == Init => SignerInv
<1> SUFFICES ASSUME Init PROVE SignerInv
  OBVIOUS
<1> HIDE DEF Sound
<1> USE DEF Init
<1>1. TypeOK
  <2>1. Sound(prog)
    BY ProgramsSound
  <2>2. prog.tries * Endpoints \in Nat \ {0} /\ prog.tries \in Nat
    BY <2>1, SignerAssumption DEF Sound
  <2>3. tryNo \in 1..Attempts /\ build \in 1..prog.builds
    BY <2>1, <2>2 DEF Attempts, Sound
  <2>4. txs \in Seq([item : Items, fate : Fates, got : BOOLEAN])
    OBVIOUS
  <2> QED
    BY <2>3, <2>4 DEF TypeOK, NoReport
<1>2. BuiltInv /\ SendInv /\ RetryInv /\ ReportInv /\ HaltInv /\ OnceInv /\ RetriedOnlyIfDead /\ NeverMeansNever /\ DoneMeansLanded
  BY DEF BuiltInv, SendInv, Sending, Waiting, RetryInv, ReportInv, HaltInv, OnceInv, RetriedOnlyIfDead, Settled, NeverMeansNever, DoneMeansLanded, NoReport
<1> QED
  BY <1>1, <1>2 DEF SignerInv

Quiet == RefuseEarly \/ Connect \/ ReadFails \/ NothingToDo \/ ReadAndBuild \/ DryRun \/ RefuseLate \/ Proceed

LEMMA QuietKeeps == ASSUME SignerInv, Quiet PROVE SignerInv'
<1> HIDE DEF Sound
<1> USE DEF Quiet, SignerInv, Goto, Throw, End, Kept, command
<1>f. Sound(prog) /\ size \in Nat \ {0} /\ Attempts \in Nat \ {0}
  BY CommandFacts
<1>u. UNCHANGED <<command, txs, halt, build, tryNo>>
  BY DEF RefuseEarly, Connect, ReadFails, NothingToDo, ReadAndBuild, DryRun, RefuseLate, Proceed
<1>s. pc \in {"connect", "read", "built"} /\ (Settled \/ Loose)
  BY DEF RefuseEarly, Connect, ReadFails, NothingToDo, ReadAndBuild, DryRun, RefuseLate, Proceed, RetriedOnlyIfDead, Loose
<1>1. TypeOK'
  <2>1. /\ exec' \in BOOLEAN /\ halt' \in BOOLEAN
        /\ prog' \in Programs /\ size' \in prog'.sizes /\ named' \in Items'
    BY <1>u DEF TypeOK, Items
  <2>2. tryNo' \in 1..Attempts' /\ build' \in 1..prog'.builds
    BY <1>u DEF TypeOK, Attempts
  <2>3. txs' \in Seq([item : Items', fate : Fates, got : BOOLEAN])
    BY <1>u DEF TypeOK, Items
  <2>4. began' \in BOOLEAN
    BY DEF RefuseEarly, Connect, ReadFails, NothingToDo, ReadAndBuild, DryRun, RefuseLate, Proceed, TypeOK
  <2>5. pc' \in {"connect", "read", "built", "send", "status", "height", "history", "thrown", "done"} /\ err' \in Classes \cup {"none"} /\ exit' \in {"running", "ok", "failed"}
    BY DEF RefuseEarly, Connect, ReadFails, NothingToDo, ReadAndBuild, DryRun, RefuseLate, Proceed, TypeOK, Classes
  <2>6. todo' \subseteq Items' /\ known' \subseteq DOMAIN txs'
    BY <1>u DEF RefuseEarly, Connect, ReadFails, NothingToDo, ReadAndBuild, DryRun, RefuseLate, Proceed, TypeOK, Present, Items
  <2>7. report'.sigs \subseteq DOMAIN txs' /\ report'.sent = (report'.sigs # {})
    <3>1. report' = report \/ (report'.sigs = {} /\ report'.sent = FALSE)
      BY DEF RefuseEarly, Connect, ReadFails, NothingToDo, ReadAndBuild, DryRun, RefuseLate, Proceed
    <3>2. CASE report' = report
      BY <3>2, <1>u DEF TypeOK
    <3> QED
      BY <3>1, <3>2
  <2> QED
    BY <2>1, <2>2, <2>3, <2>4, <2>5, <2>6, <2>7 DEF TypeOK
<1>2. BuiltInv'
  <2>1. CASE ReadAndBuild
    <3>1. Settled => Present = Items
      BY DEF Present, LandedOf, Settled
    <3>2. Loose => Present # {}
      BY <2>1, <1>f DEF ReadAndBuild, Loose, Sound, TypeOK
    <3>3. todo' # {} /\ known' = {}
      BY <2>1, <3>1, <3>2, <1>s, <1>f DEF ReadAndBuild, Items
    <3>4. \A i \in Items \ todo' : LandedOf(i) # {}
      BY <2>1 DEF ReadAndBuild, Present
    <3> QED
      BY <2>1, <3>3, <3>4, <1>u DEF ReadAndBuild, BuiltInv, Items, LandedOf, Sending, Waiting
  <2>2. CASE ~ReadAndBuild
    BY <2>2, <1>u, <1>s DEF RefuseEarly, Connect, ReadFails, NothingToDo, DryRun, RefuseLate, Proceed, BuiltInv, Sending, Waiting, Items, LandedOf
  <2> QED
    BY <2>1, <2>2
<1>21. SendInv'
  BY <1>u, <1>s DEF RefuseEarly, Connect, ReadFails, NothingToDo, ReadAndBuild, DryRun, RefuseLate, Proceed, BuiltInv, SendInv, Sending, Waiting, AllSeen, Live, Settled, Loose
<1>3. (RetryInv /\ RetriedOnlyIfDead)'
  BY <1>u, <1>s DEF RefuseEarly, Connect, ReadFails, NothingToDo, ReadAndBuild, DryRun, RefuseLate, Proceed, RetryInv, RetriedOnlyIfDead, Settled, Loose
<1>4. ReportInv'
  BY <1>u, <1>s, <1>f DEF RefuseEarly, Connect, ReadFails, NothingToDo, ReadAndBuild, DryRun, RefuseLate, Proceed, ReportInv, Live, Settled, Loose, Reports, TypeOK, Fates
<1>5. HaltInv'
  BY <1>u, <1>s DEF RefuseEarly, Connect, ReadFails, NothingToDo, ReadAndBuild, DryRun, RefuseLate, Proceed, HaltInv
<1>6. OnceInv'
  BY <1>u DEF OnceInv, Live, Repeats, Exit
<1>7. (NeverMeansNever /\ DoneMeansLanded)'
  BY <1>u, <1>s DEF RefuseEarly, Connect, ReadFails, NothingToDo, ReadAndBuild, DryRun, RefuseLate, Proceed, NeverMeansNever, DoneMeansLanded, Cur, LandedOf, Items
<1> QED
  BY <1>1, <1>2, <1>21, <1>3, <1>4, <1>5, <1>6, <1>7

-----------------------------------------------------------------------------
(* What a step leaves of the transactions there are.                       *)

TxsTyped == txs \in Seq([item : Items, fate : Fates, got : BOOLEAN])
Later ==
  /\ DOMAIN txs \subseteq DOMAIN txs'
  /\ \A k \in DOMAIN txs :
       /\ txs'[k].item = txs[k].item /\ txs'[k].got = txs[k].got
       /\ txs[k].fate # "flight" => txs'[k].fate = txs[k].fate

LEMMA LandedStays ==
  ASSUME Later, UNCHANGED size, \A i \in Items \ todo : LandedOf(i) # {}
  PROVE  \A i \in Items' \ todo : LandedOf(i)' # {}
<1> SUFFICES ASSUME NEW i \in Items \ todo PROVE LandedOf(i)' # {}
  BY DEF Items
<1>1. PICK k \in DOMAIN txs : txs[k].item = i /\ txs[k].fate = "landed"
  BY DEF LandedOf
<1>2. k \in DOMAIN txs' /\ txs'[k].item = i /\ txs'[k].fate = "landed"
  BY <1>1 DEF Later
<1> QED
  BY <1>2 DEF LandedOf

LEMMA Offered ==
  ASSUME TypeOK, todo # {}, UNCHANGED command, NEW fate \in Fates, NEW got \in BOOLEAN, Offer(fate, got)
  PROVE  /\ TxsTyped' /\ Later
         /\ Cur' = Cur + 1 /\ DOMAIN txs' = DOMAIN txs \cup {Cur'} /\ Cur' \notin DOMAIN txs
         /\ Next1 \in todo /\ txs'[Cur'] = [item |-> Next1, fate |-> fate, got |-> got]
         /\ \A k \in DOMAIN txs : txs'[k] = txs[k]
<1> DEFINE T == [item : Items, fate : Fates, got : BOOLEAN]
           e == [item |-> Next1, fate |-> fate, got |-> got]
<1>1. Next1 \in todo
  BY DEF Next1
<1>2. txs \in Seq(T) /\ e \in T
  BY <1>1 DEF TypeOK
<1>3. txs' = Append(txs, e)
  BY DEF Offer
<1> HIDE DEF T, e
<1>4. /\ txs' \in Seq(T) /\ Len(txs) \in Nat /\ Len(txs') = Len(txs) + 1
      /\ DOMAIN txs = 1..Len(txs) /\ DOMAIN txs' = 1..Len(txs')
      /\ txs'[Len(txs')] = e /\ \A k \in 1..Len(txs) : txs'[k] = txs[k]
  BY <1>2, <1>3
<1>5. Cur' = Cur + 1 /\ DOMAIN txs' = DOMAIN txs \cup {Cur'} /\ Cur' \notin DOMAIN txs
  BY <1>4 DEF Cur
<1>6. TxsTyped'
  BY <1>4 DEF TxsTyped, T, Items, command
<1> QED
  BY <1>1, <1>4, <1>5, <1>6 DEF Later, Cur, e

-----------------------------------------------------------------------------
(* Answers                                                                 *)

LEMMA TxTyped ==
  ASSUME TypeOK, NEW k \in DOMAIN txs
  PROVE  txs[k].item \in Items /\ txs[k].fate \in Fates
<1> DEFINE T == [item : Items, fate : Fates, got : BOOLEAN]
<1>1. txs \in Seq(T)
  BY DEF TypeOK
<1>2. txs[k] \in T
  <2> HIDE DEF T
  <2> QED
    BY <1>1
<1> QED
  BY <1>2

\* A command of one transaction has none confirmed while it waits for it.
LEMMA OneItem ==
  ASSUME SignerInv, Sending, ~Loose, prog.send \in OneByOne \cup {"pancake"}
  PROVE  known = {}
<1> HIDE DEF Sound
<1>1. size = 1
  <2>1. Sound(prog) /\ size \in Nat \ {0} /\ size \in prog.sizes
    BY CommandFacts DEF SignerInv, TypeOK
  <2>2. CASE prog.send \in OneByOne
    BY <2>1, <2>2 DEF Sound
  <2>3. CASE prog.send = "pancake"
    BY <2>1, <2>3 DEF Sound, Loose
  <2> QED
    BY <2>2, <2>3
<1>2. Items = {1}
  BY <1>1 DEF Items
<1>3. todo = {1}
  BY <1>2 DEF SignerInv, TypeOK, BuiltInv
<1>4. \A k \in known : txs[k].item \in Items
  BY TxTyped DEF SignerInv, TypeOK
<1> QED
  BY <1>2, <1>3, <1>4 DEF SignerInv, SendInv

LEMMA AnswerKeeps ==
  ASSUME SignerInv, Sending, NEW r \in Failures, NEW this, Answer(r, this),
         TxsTyped', Later, OnceInv',
         r \in Accepted => this \in DOMAIN txs',
         r = "never" => txs'[Cur'].fate = "dead",
         \/ Loose
         \/ \A k \in DOMAIN txs' : Live(k)' =>
              \/ k \in known
              \/ r \in {"cut", "unread"} /\ (txs'[k].got => r = "unread" /\ k = this)
  PROVE  SignerInv'
<1> HIDE DEF Sound
<1> DEFINE a == SendAnswer(prog.send, known, this, r)
<1>f. Sound(prog)
  BY CommandFacts DEF SignerInv
<1>a. AnswerSound(prog.send, known, this, r, a)
  BY <1>f, AnswersSound DEF Sound
<1> DEFINE printed == [printed |-> TRUE, sent |-> a.sigs # {}, sigs |-> a.sigs]
<1>b. /\ UNCHANGED <<command, halt, tryNo, todo, known>>
      /\ \/ a.err = "anew" /\ MayRebuild /\ build' = build + 1 /\ pc' = "read" /\ UNCHANGED <<err, report, exit>> /\ began' = halt
         \/ a.err \in {"none", "anew"} /\ pc' = "done" /\ exit' = "failed" /\ report' = printed /\ UNCHANGED <<err, build, began>>
         \/ /\ a.err \notin {"none", "anew"} /\ pc' = "thrown" /\ err' = a.err /\ UNCHANGED <<exit, build, began>>
            /\ report' = IF a.prints THEN printed ELSE report
  BY DEF Answer, Goto, End, Kept
<1> HIDE DEF a
<1>1. TypeOK'
  <2>1. /\ prog' \in Programs /\ size' \in prog'.sizes /\ named' \in Items'
        /\ todo' \subseteq Items' /\ tryNo' \in 1..Attempts'
    BY <1>b DEF SignerInv, TypeOK, Items, command, Attempts
  <2>2. exec' \in BOOLEAN /\ halt' \in BOOLEAN /\ began' \in BOOLEAN
    BY <1>b DEF SignerInv, TypeOK, command
  <2>3. build' \in 1..prog'.builds
    BY <1>b, <1>f DEF SignerInv, TypeOK, command, MayRebuild, Sound
  <2>4. known' \subseteq DOMAIN txs' /\ report.sigs \subseteq DOMAIN txs'
    BY <1>b DEF SignerInv, TypeOK, Later
  <2>5. a.sigs \subseteq DOMAIN txs'
    BY <1>b, <2>4, <1>a DEF AnswerSound
  <2>6. report'.sigs \subseteq DOMAIN txs' /\ report'.sent = (report'.sigs # {})
    <3>1. CASE report' = report
      BY <3>1, <2>4 DEF SignerInv, TypeOK
    <3>2. CASE report' = printed
      BY <3>2, <2>5
    <3> QED
      BY <1>b, <3>1, <3>2
  <2>7. pc' \in {"read", "done", "thrown"} /\ err' \in Classes \cup {"none"} /\ exit' \in {"running", "ok", "failed"}
    BY <1>a, <1>b DEF SignerInv, TypeOK, AnswerSound
  <2> QED
    BY <2>1, <2>2, <2>3, <2>4, <2>6, <2>7 DEF TypeOK, TxsTyped
<1>2. BuiltInv' /\ SendInv'
  BY <1>b DEF BuiltInv, SendInv, Sending, Waiting
<1>3. a.err \in prog.again \cup {"rotate", "anew"} => Settled' \/ Loose
  <2> SUFFICES ASSUME a.err \in prog.again \cup {"rotate", "anew"}, ~Loose PROVE Settled'
    OBVIOUS
  <2>1. a.err \in Retried /\ r \notin {"cut", "unread"}
    BY <1>f, <1>a DEF Sound, AnswerSound, Retried
  <2>2. known = {} \/ prog.send \in OneByOne \cup {"pancake"}
    BY <2>1, <1>f, <1>a DEF AnswerSound, Sound
  <2>3. known = {}
    <3> SUFFICES ASSUME prog.send \in OneByOne \cup {"pancake"} PROVE known = {}
      BY <2>2
    <3> QED
      BY OneItem
  <2>4. \A k \in DOMAIN txs' : ~Live(k)'
    BY <2>1, <2>3
  <2>5. \A k \in DOMAIN txs' : txs'[k].fate \in Fates
    <3> DEFINE T == [item : Items', fate : Fates, got : BOOLEAN]
    <3>1. txs' \in Seq(T)
      BY DEF TxsTyped
    <3>2. \A k \in DOMAIN txs' : txs'[k] \in T
      <4> HIDE DEF T
      <4> QED
        BY <3>1
    <3> QED
      BY <3>2
  <2> QED
    BY <2>4, <2>5 DEF Settled, Live, Fates
<1>4. (RetryInv /\ RetriedOnlyIfDead)'
  BY <1>3, <1>b DEF RetryInv, RetriedOnlyIfDead, Settled, Loose, command
<1>5. ReportInv'
  <2>1. exit' # "running" <=> pc' = "done"
    BY <1>b DEF SignerInv, ReportInv, Sending, Waiting
  <2>2. ASSUME pc' \in {"thrown", "done"}, prog'.script \in Reports, NEW k \in DOMAIN txs', txs'[k].got, Live(k)'
        PROVE  k \in report'.sigs
    <3>1. ~Loose /\ prog.send \in {"byreal", "jupiter", "orcaSwap", "payout"} /\ prog.script \in Reports
      BY <1>b, <1>f, <2>2 DEF Loose, Reports, Sound, command
    <3>2. k \in known \/ (r = "unread" /\ k = this)
      BY <2>2, <3>1
    <3>3. CASE prog.send = "byreal"
      BY <3>2, <3>3, <1>a, <1>b, <2>2 DEF AnswerSound, Failures, Accepted
    <3>4. CASE prog.send # "byreal"
      <4>1. known = {}
        BY <3>1, <3>4, OneItem
      <4> QED
        BY <4>1, <3>1, <3>2, <1>a, <1>b, <2>2 DEF AnswerSound
    <3> QED
      BY <3>3, <3>4
  <2>3. pc' \notin {"thrown", "done"} => err' = "none"
    BY <1>b DEF SignerInv, ReportInv, Sending, Waiting
  <2> QED
    BY <2>1, <2>2, <2>3 DEF ReportInv
<1>6. HaltInv'
  <2>1. build \in Nat /\ build >= 1
    BY <1>f DEF SignerInv, TypeOK, Sound
  <2>2. began => prog.send = "meteoraOpen" /\ build > 1
    BY DEF SignerInv, HaltInv, Sending, Waiting
  <2>3. prog' = prog
    BY <1>b DEF command
  <2>4. a.err = "anew" => prog.send = "meteoraOpen"
    BY <1>a DEF AnswerSound
  <2>5. CASE a.err = "anew" /\ build' = build + 1
    BY <2>1, <2>3, <2>4, <2>5 DEF HaltInv
  <2>6. CASE began' = began /\ build' = build
    BY <2>2, <2>3, <2>6 DEF HaltInv
  <2> QED
    BY <1>b, <2>5, <2>6
<1>7. NeverMeansNever' /\ DoneMeansLanded'
  <2>1. err = "none"
    BY DEF SignerInv, ReportInv, Sending, Waiting
  <2>2. err' = "never" => r = "never"
    BY <1>a, <1>b, <2>1 DEF AnswerSound
  <2>3. DoneMeansLanded'
    BY <1>b DEF DoneMeansLanded, SignerInv, ReportInv, Sending, Waiting
  <2> QED
    BY <2>2, <2>3 DEF NeverMeansNever
<1> QED
  BY <1>1, <1>2, <1>4, <1>5, <1>6, <1>7 DEF SignerInv

SendAnswers == SendRefused \/ SendCut
WaitAnswers == (AwaitStatus /\ FailedOnChain) \/ SearchHistory \/ AwaitUnread

LEMMA OnceKept ==
  ASSUME OnceInv, UNCHANGED <<txs, command>>
  PROVE  OnceInv'
BY DEF OnceInv, Live, Repeats, Exit, command

LEMMA SendRefusedKeeps == ASSUME SignerInv, SendRefused PROVE SignerInv'
<1>1. PICK r \in {"refused", "slip", "unhashed"} : Answer(r, Cur + 1) /\ pc = "send" /\ UNCHANGED txs
  BY DEF SendRefused
<1>2. Sending /\ ~Waiting /\ UNCHANGED command
  BY <1>1 DEF Sending, Waiting, Answer, Kept
<1>3. TxsTyped' /\ Later /\ OnceInv'
  BY <1>1, <1>2, OnceKept DEF SignerInv, TypeOK, TxsTyped, Later, Items, command
<1>4. r \in Failures /\ r \notin Accepted /\ r # "never"
  BY <1>1 DEF Failures, Accepted
<1>5. Loose \/ \A k \in DOMAIN txs' : Live(k)' => k \in known
  BY <1>1, <1>2 DEF SignerInv, SendInv, AllSeen, Live
<1> QED
  BY <1>1, <1>2, <1>3, <1>4, <1>5, AnswerKeeps

LEMMA OfferedOnce ==
  ASSUME SignerInv, pc = "send", UNCHANGED command, NEW fate \in Fates, NEW got \in BOOLEAN, Offer(fate, got)
  PROVE  OnceInv'
<1> HIDE DEF Sound
<1>1. /\ todo # {} /\ Next1 \in todo
      /\ DOMAIN txs' = DOMAIN txs \cup {Cur'} /\ Cur' \notin DOMAIN txs
      /\ txs'[Cur'].item = Next1 /\ \A k \in DOMAIN txs : txs'[k] = txs[k]
  <2>1. TypeOK /\ todo # {}
    BY DEF SignerInv, BuiltInv, Sending
  <2>2. txs'[Cur'] = [item |-> Next1, fate |-> fate, got |-> got]
    BY <2>1, Offered
  <2> QED
    BY <2>1, <2>2, Offered
<1> SUFFICES ASSUME ~Repeats, NEW j \in DOMAIN txs', NEW k \in DOMAIN txs',
                    Live(j)', Live(k)', txs'[j].item = txs'[k].item
             PROVE  j = k
  BY DEF OnceInv, Repeats, Exit, command
<1>2. ~Loose
  <2>1. Sound(prog)
    BY CommandFacts DEF SignerInv
  <2> QED
    BY <2>1 DEF Loose, Sound, Repeats, Exit, SignerInv, TypeOK
<1>3. \A i \in DOMAIN txs : Live(i) => txs[i].item \notin todo
  BY <1>2 DEF SignerInv, SendInv, AllSeen, Sending, Waiting
<1>4. CASE j \in DOMAIN txs /\ k \in DOMAIN txs
  BY <1>1, <1>4 DEF SignerInv, OnceInv, Live
<1>5. CASE j = Cur' /\ k \in DOMAIN txs
  BY <1>1, <1>3, <1>5 DEF Live
<1>6. CASE k = Cur' /\ j \in DOMAIN txs
  BY <1>1, <1>3, <1>6 DEF Live
<1> QED
  BY <1>1, <1>4, <1>5, <1>6

LEMMA SendCutKeeps == ASSUME SignerInv, SendCut PROVE SignerInv'
<1>1. PICK fate \in {"flight", "dead"} : Offer(fate, FALSE)
  BY DEF SendCut
<1>2. pc = "send" /\ Answer("cut", Cur + 1) /\ fate \in Fates
  BY DEF SendCut, Fates
<1>3. Sending /\ ~Waiting /\ UNCHANGED command
  BY <1>2 DEF Sending, Waiting, Answer, Kept
<1>4. /\ TxsTyped' /\ Later
      /\ DOMAIN txs' = DOMAIN txs \cup {Cur'}
      /\ txs'[Cur'].got = FALSE /\ \A k \in DOMAIN txs : txs'[k] = txs[k]
  <2>1. TypeOK /\ todo # {}
    BY <1>3 DEF SignerInv, BuiltInv
  <2>2. txs'[Cur'] = [item |-> Next1, fate |-> fate, got |-> FALSE]
    BY <1>1, <1>2, <1>3, <2>1, Offered
  <2>3. txs'[Cur'].got = FALSE
    BY <2>2
  <2>4. TxsTyped' /\ Later /\ DOMAIN txs' = DOMAIN txs \cup {Cur'} /\ \A k \in DOMAIN txs : txs'[k] = txs[k]
    BY <1>1, <1>2, <1>3, <2>1, Offered
  <2> QED
    BY <2>3, <2>4
<1>5. OnceInv'
  BY <1>1, <1>2, <1>3, OfferedOnce
<1>6. Loose \/ \A k \in DOMAIN txs' : Live(k)' => k \in known \/ ~txs'[k].got
  BY <1>3, <1>4 DEF SignerInv, SendInv, AllSeen, Live
<1>7. "cut" \in Failures /\ "cut" \notin Accepted
  BY DEF Failures, Accepted
<1> QED
  BY <1>2, <1>3, <1>4, <1>5, <1>6, <1>7, AnswerKeeps

LEMMA SendAcceptedKeeps == ASSUME SignerInv, SendAccepted PROVE SignerInv'
<1> HIDE DEF Sound
<1>1. /\ pc = "send" /\ pc' = "status" /\ Offer("flight", TRUE)
      /\ UNCHANGED <<command, halt, err, report, exit, tryNo, build, todo, known, began>>
  BY DEF SendAccepted, Goto, Kept
<1>2. "flight" \in Fates /\ todo # {} /\ Sending /\ ~Waiting
  BY <1>1 DEF Fates, SignerInv, BuiltInv, Sending, Waiting
<1>3. /\ TxsTyped' /\ Later
      /\ DOMAIN txs' = DOMAIN txs \cup {Cur'} /\ Cur' \notin DOMAIN txs
      /\ Next1 \in todo /\ txs'[Cur'] = [item |-> Next1, fate |-> "flight", got |-> TRUE]
      /\ \A k \in DOMAIN txs : txs'[k] = txs[k]
  BY <1>1, <1>2, Offered DEF SignerInv
<1>4. OnceInv'
  BY <1>1, <1>2, OfferedOnce
<1>5. TypeOK'
  <2>1. /\ exec' \in BOOLEAN /\ halt' \in BOOLEAN /\ began' \in BOOLEAN
        /\ prog' \in Programs /\ size' \in prog'.sizes /\ named' \in Items'
    BY <1>1 DEF SignerInv, TypeOK, Items, command
  <2>2. tryNo' \in 1..Attempts' /\ build' \in 1..prog'.builds
    BY <1>1 DEF SignerInv, TypeOK, Attempts, command
  <2>3. todo' \subseteq Items' /\ known' \subseteq DOMAIN txs'
    BY <1>1, <1>3 DEF SignerInv, TypeOK, Items, command
  <2>4. report'.sigs \subseteq DOMAIN txs' /\ report'.sent = (report'.sigs # {})
    BY <1>1, <1>3 DEF SignerInv, TypeOK
  <2> QED
    BY <1>1, <1>3, <2>1, <2>2, <2>3, <2>4 DEF SignerInv, TypeOK, TxsTyped
<1>6. BuiltInv'
  <2>1. \A i \in Items' \ todo : LandedOf(i)' # {}
    BY <1>1, <1>2, <1>3, LandedStays DEF SignerInv, BuiltInv, command
  <2> QED
    BY <1>1, <1>2, <2>1 DEF BuiltInv
<1>7. SendInv'
  <2>1. \A k \in known' : k \in DOMAIN txs /\ txs'[k].fate = "landed" /\ txs'[k].item \notin todo'
    BY <1>1, <1>2, <1>3 DEF SignerInv, SendInv, TypeOK
  <2>2. AllSeen' \/ Loose'
    BY <1>1, <1>2, <1>3 DEF SignerInv, SendInv, AllSeen, Live, Loose, command, Waiting
  <2> QED
    BY <1>1, <1>3, <2>1, <2>2 DEF SendInv
<1>8. RetryInv' /\ RetriedOnlyIfDead' /\ ReportInv' /\ HaltInv' /\ NeverMeansNever' /\ DoneMeansLanded'
  BY <1>1 DEF SignerInv, RetryInv, RetriedOnlyIfDead, ReportInv, HaltInv, NeverMeansNever, DoneMeansLanded, command
<1> QED
  BY <1>4, <1>5, <1>6, <1>7, <1>8 DEF SignerInv

-----------------------------------------------------------------------------
(* The wait                                                                *)

LEMMA ConfirmedKeeps ==
  ASSUME SignerInv, Waiting, Confirmed, UNCHANGED txs, txs[Cur].fate = "landed"
  PROVE  SignerInv'
<1>1. /\ UNCHANGED <<command, halt, tryNo, build, began, err>>
      /\ known' = known \cup {Cur} /\ todo' = todo \ {txs[Cur].item}
      /\ \/ todo' = {} /\ pc' = "done" /\ exit' = "ok" /\ report' = [printed |-> TRUE, sent |-> TRUE, sigs |-> known']
         \/ todo' # {} /\ pc' = "send" /\ UNCHANGED <<report, exit>>
  BY DEF Confirmed, End, Goto, Kept
<1>2. /\ Sending /\ Cur \in DOMAIN txs /\ Cur' = Cur
      /\ txs[Cur].item \in todo /\ txs[Cur].item \in Items /\ Later
  BY TxTyped DEF Sending, SignerInv, SendInv, Cur, Later
<1>3. \A i \in Items \ todo' : LandedOf(i) # {}
  <2>1. \A i \in Items \ todo : LandedOf(i) # {}
    BY <1>2 DEF SignerInv, BuiltInv
  <2>2. Cur \in LandedOf(txs[Cur].item)
    BY <1>2 DEF LandedOf
  <2> QED
    BY <1>1, <2>1, <2>2
<1>4. TypeOK'
  <2>1. /\ exec' \in BOOLEAN /\ halt' \in BOOLEAN /\ began' \in BOOLEAN
        /\ prog' \in Programs /\ size' \in prog'.sizes /\ named' \in Items'
    BY <1>1 DEF SignerInv, TypeOK, Items, command
  <2>2. tryNo' \in 1..Attempts' /\ build' \in 1..prog'.builds
    BY <1>1 DEF SignerInv, TypeOK, Attempts, command
  <2>3. todo' \subseteq Items' /\ known' \subseteq DOMAIN txs'
    BY <1>1, <1>2 DEF SignerInv, TypeOK, Items, command
  <2>4. report'.sigs \subseteq DOMAIN txs' /\ report'.sent = (report'.sigs # {})
    <3>1. CASE report' = report
      BY <3>1 DEF SignerInv, TypeOK
    <3>2. CASE report' = [printed |-> TRUE, sent |-> TRUE, sigs |-> known']
      <4>1. known' # {} /\ report'.sent = TRUE /\ report'.sigs = known'
        BY <1>1, <3>2
      <4> QED
        BY <2>3, <4>1
    <3> QED
      BY <1>1, <3>1, <3>2
  <2>5. txs' \in Seq([item : Items', fate : Fates, got : BOOLEAN])
    BY <1>1 DEF SignerInv, TypeOK, Items, command
  <2> QED
    BY <1>1, <2>1, <2>2, <2>3, <2>4, <2>5 DEF SignerInv, TypeOK
<1>5. BuiltInv'
  BY <1>1, <1>3 DEF BuiltInv, Sending, Waiting, Items, LandedOf, command
<1>6. SendInv'
  BY <1>1, <1>2 DEF SignerInv, SendInv, Sending, Waiting, AllSeen, Live, Loose, command
<1>7. ReportInv'
  <2>1. exit' # "running" <=> pc' = "done"
    BY <1>1, <1>2 DEF SignerInv, ReportInv, Sending, Waiting
  <2>2. err = "none"
    BY <1>2 DEF SignerInv, ReportInv, Sending, Waiting
  <2>3. ASSUME pc' = "done", prog'.script \in Reports, NEW k \in DOMAIN txs', Live(k)' PROVE k \in report'.sigs
    <3>1. ~Loose
      BY <1>1, <2>3 DEF Loose, Reports, command
    <3> QED
      BY <1>1, <1>2, <2>3, <3>1 DEF SignerInv, SendInv, AllSeen, Live
  <2> QED
    BY <1>1, <2>1, <2>2, <2>3 DEF ReportInv
<1>8. RetryInv' /\ RetriedOnlyIfDead' /\ HaltInv' /\ NeverMeansNever'
  <2>1. err' = "none" /\ pc' \in {"send", "done"}
    BY <1>1, <1>2 DEF SignerInv, ReportInv, Sending, Waiting
  <2>2. began => prog.send = "meteoraOpen" /\ build > 1
    BY <1>2 DEF SignerInv, HaltInv, Sending, Waiting
  <2> QED
    BY <1>1, <2>1, <2>2 DEF RetryInv, RetriedOnlyIfDead, HaltInv, NeverMeansNever, command
<1>9. DoneMeansLanded'
  <2>1. exit = "running"
    BY <1>2 DEF SignerInv, ReportInv, Sending, Waiting
  <2> QED
    BY <1>1, <1>3, <2>1 DEF DoneMeansLanded, Items, LandedOf, command
<1>10. OnceInv'
  BY <1>1, OnceKept DEF SignerInv
<1> QED
  BY <1>4, <1>5, <1>6, <1>7, <1>8, <1>9, <1>10 DEF SignerInv

\* Any answer about the transaction waited for.
LEMMA WaitAnswerKeeps ==
  ASSUME SignerInv, Waiting, UNCHANGED txs, NEW r \in {"failed", "failedSlip", "never", "unread"}, Answer(r, Cur),
         r # "unread" => txs[Cur].fate \in {"failed", "failedSlip", "dead"},
         r = "never" => txs[Cur].fate = "dead"
  PROVE  SignerInv'
<1>1. Sending /\ UNCHANGED command /\ Cur' = Cur /\ Cur \in DOMAIN txs
  BY DEF Sending, Answer, Kept, SignerInv, SendInv, Cur
<1>2. TxsTyped' /\ Later /\ OnceInv'
  BY <1>1, OnceKept DEF SignerInv, TypeOK, TxsTyped, Later, Items, command
<1>3. r \in Failures
  BY DEF Failures
<1>4. Loose \/ \A k \in DOMAIN txs' : Live(k)' => k \in known \/ (r = "unread" /\ k = Cur)
  BY <1>1 DEF SignerInv, SendInv, AllSeen, Live
<1> QED
  BY <1>1, <1>2, <1>3, <1>4, AnswerKeeps

\* The wait goes on.
LEMMA WaitGoesOn ==
  ASSUME SignerInv, Waiting, pc' \in {"status", "height", "history"},
         UNCHANGED <<command, halt, txs, tryNo, build, todo, known, began, err, report, exit>>
  PROVE  SignerInv'
<1>1. TypeOK'
  BY DEF SignerInv, TypeOK, Items, Attempts, command
<1>2. BuiltInv' /\ SendInv'
  BY DEF SignerInv, BuiltInv, SendInv, Sending, Waiting, AllSeen, Live, Loose, Items, LandedOf, Cur, command
<1>3. RetryInv' /\ RetriedOnlyIfDead' /\ ReportInv' /\ NeverMeansNever' /\ DoneMeansLanded'
  BY DEF SignerInv, RetryInv, RetriedOnlyIfDead, ReportInv, NeverMeansNever, DoneMeansLanded, Waiting, Cur, Items, LandedOf, command
<1>4. HaltInv'
  BY DEF SignerInv, HaltInv, Waiting, command
<1>5. OnceInv'
  BY OnceKept DEF SignerInv
<1> QED
  BY <1>1, <1>2, <1>3, <1>4, <1>5 DEF SignerInv

LEMMA WaitKeeps ==
  ASSUME SignerInv, AwaitStatus \/ HeightBelow \/ HeightPassed \/ SearchHistory \/ AwaitUnread
  PROVE  SignerInv'
<1>1. CASE AwaitStatus
  <2>1. Waiting
    BY <1>1 DEF AwaitStatus, Waiting
  <2>2. CASE txs[Cur].fate = "landed" /\ Confirmed
    BY <2>1, <2>2, ConfirmedKeeps DEF Confirmed
  <2>3. CASE FailedOnChain /\ Answer(txs[Cur].fate, Cur) /\ UNCHANGED txs
    BY <2>1, <2>3, WaitAnswerKeeps DEF FailedOnChain
  <2>4. CASE Goto("height") /\ Kept /\ UNCHANGED <<tryNo, build, todo, known, txs, began>>
    BY <2>1, <2>4, WaitGoesOn DEF Goto, Kept
  <2> QED
    BY <1>1, <2>2, <2>3, <2>4 DEF AwaitStatus
<1>2. CASE HeightBelow
  BY <1>2, WaitGoesOn DEF HeightBelow, Goto, Kept, Waiting
<1>3. CASE HeightPassed
  BY <1>3, WaitGoesOn DEF HeightPassed, Goto, Kept, Waiting
<1>4. CASE SearchHistory
  <2>1. Waiting
    BY <1>4 DEF SearchHistory, Waiting
  <2>2. CASE InHistory /\ Confirmed
    BY <2>1, <2>2, ConfirmedKeeps DEF Confirmed, InHistory
  <2>3. CASE FailedOnChain /\ Answer(txs[Cur].fate, Cur) /\ UNCHANGED txs
    BY <2>1, <2>3, WaitAnswerKeeps DEF FailedOnChain
  <2>4. CASE txs[Cur].fate = "dead" /\ Answer("never", Cur) /\ UNCHANGED txs
    BY <2>1, <2>4, WaitAnswerKeeps
  <2> QED
    BY <1>4, <2>2, <2>3, <2>4 DEF SearchHistory
<1>5. CASE AwaitUnread
  BY <1>5, WaitAnswerKeeps DEF AwaitUnread, Waiting
<1> QED
  BY <1>1, <1>2, <1>3, <1>4, <1>5

-----------------------------------------------------------------------------
(* After an error, the chain and the operator                              *)

\* Another attempt or another build.
LEMMA AnewKeeps == ASSUME SignerInv, Rotate \/ Rebuild PROVE SignerInv'
<1> HIDE DEF Sound
<1>1. /\ pc = "thrown" /\ err \in prog.again \cup {"rotate"} /\ pc' = "connect" /\ err' = "none"
      /\ UNCHANGED <<command, halt, txs, report, exit, todo, known, began>>
  BY DEF Rotate, Rebuild, Kept
<1>2. \/ tryNo' = tryNo + 1 /\ tryNo < Attempts /\ build' = build
      \/ tryNo' = 1 /\ build' = build + 1 /\ build < prog.builds /\ err \in prog.again
  BY DEF Rotate, Rebuild, MayRebuild
<1>3. Sound(prog) /\ Attempts \in Nat \ {0}
  BY CommandFacts DEF SignerInv
<1>4. TypeOK'
  <2>1. /\ exec' \in BOOLEAN /\ halt' \in BOOLEAN /\ began' \in BOOLEAN
        /\ prog' \in Programs /\ size' \in prog'.sizes /\ named' \in Items' /\ todo' \subseteq Items'
    BY <1>1 DEF SignerInv, TypeOK, Items, command
  <2>2. tryNo \in 1..Attempts /\ build \in 1..prog.builds /\ prog.builds \in 1..3
    BY <1>3 DEF SignerInv, TypeOK, Sound
  <2>3. tryNo' \in 1..Attempts /\ build' \in 1..prog.builds
    BY <1>2, <1>3, <2>2
  <2>4. tryNo' \in 1..Attempts' /\ build' \in 1..prog'.builds
    BY <1>1, <2>3 DEF Attempts, command
  <2>5. txs' \in Seq([item : Items', fate : Fates, got : BOOLEAN])
    BY <1>1 DEF SignerInv, TypeOK, Items, command
  <2>6. report'.sigs \subseteq DOMAIN txs' /\ report'.sent = (report'.sigs # {})
    BY <1>1 DEF SignerInv, TypeOK
  <2> QED
    BY <1>1, <2>1, <2>4, <2>5, <2>6 DEF SignerInv, TypeOK
<1>5. BuiltInv' /\ SendInv' /\ RetryInv'
  BY <1>1 DEF BuiltInv, SendInv, RetryInv, Sending, Waiting
<1>6. RetriedOnlyIfDead'
  BY <1>1 DEF SignerInv, RetryInv, RetriedOnlyIfDead, Settled, Loose, command
<1>7. ReportInv' /\ NeverMeansNever' /\ DoneMeansLanded'
  BY <1>1 DEF SignerInv, ReportInv, NeverMeansNever, DoneMeansLanded, Items, LandedOf, command
<1>8. HaltInv'
  <2>1. err # "fatal"
    BY <1>1, <1>3 DEF Sound
  <2>2. began => prog.send = "meteoraOpen" /\ build > 1
    BY <1>1, <2>1 DEF SignerInv, HaltInv
  <2>3. prog.send = "meteoraOpen" => build' = build
    BY <1>2, <1>3 DEF Sound
  <2> QED
    BY <1>1, <2>2, <2>3 DEF HaltInv, command
<1>9. OnceInv'
  BY <1>1, OnceKept DEF SignerInv
<1> QED
  BY <1>4, <1>5, <1>6, <1>7, <1>8, <1>9 DEF SignerInv

LEMMA GiveUpKeeps == ASSUME SignerInv, GiveUp PROVE SignerInv'
<1>1. /\ pc = "thrown" /\ pc' = "done" /\ exit' = "failed" /\ report' = report
      /\ UNCHANGED <<command, halt, txs, err, tryNo, build, todo, known, began>>
  BY DEF GiveUp, End, Kept
<1>2. TypeOK'
  <2>1. report'.sigs \subseteq DOMAIN txs' /\ report'.sent = (report'.sigs # {})
    BY <1>1 DEF SignerInv, TypeOK
  <2> QED
    BY <1>1, <2>1 DEF SignerInv, TypeOK, Items, Attempts, command
<1>3. BuiltInv' /\ SendInv' /\ RetryInv' /\ RetriedOnlyIfDead' /\ HaltInv'
  BY <1>1 DEF BuiltInv, SendInv, RetryInv, RetriedOnlyIfDead, HaltInv, Sending, Waiting
<1>4. ReportInv' /\ NeverMeansNever' /\ DoneMeansLanded'
  BY <1>1 DEF SignerInv, ReportInv, NeverMeansNever, DoneMeansLanded, Live, Cur, command
<1>5. OnceInv'
  BY <1>1, OnceKept DEF SignerInv
<1> QED
  BY <1>2, <1>3, <1>4, <1>5 DEF SignerInv

LEMMA Decided ==
  ASSUME TypeOK, NEW k \in DOMAIN txs, Settle(k)
  PROVE  /\ TxsTyped' /\ Later /\ DOMAIN txs' = DOMAIN txs /\ Cur' = Cur
         /\ \A j \in DOMAIN txs : Live(j)' => Live(j)
<1> DEFINE T == [item : Items, fate : Fates, got : BOOLEAN]
<1>1. PICK fate \in {"landed", "failed", "failedSlip", "dead"} : txs' = [txs EXCEPT ![k].fate = fate]
  BY DEF Settle
<1>2. txs[k].fate = "flight" /\ UNCHANGED command /\ fate \in Fates
  BY <1>1 DEF Settle, Fates
<1>3. txs \in Seq(T)
  BY DEF TypeOK
<1>4. txs[k] \in T
  <2> HIDE DEF T
  <2> QED
    BY <1>3
<1>5. [txs[k] EXCEPT !.fate = fate] \in T
  BY <1>2, <1>4
<1>6. txs' = [txs EXCEPT ![k] = [txs[k] EXCEPT !.fate = fate]]
  BY <1>1
<1>7. txs' \in Seq(T) /\ Len(txs') = Len(txs) /\ DOMAIN txs' = DOMAIN txs
  <2> DEFINE e == [txs[k] EXCEPT !.fate = fate]
  <2> HIDE DEF T, e
  <2> QED
    BY <1>3, <1>5, <1>6 DEF e
<1>8. /\ txs'[k] = [txs[k] EXCEPT !.fate = fate]
      /\ \A j \in DOMAIN txs : j # k => txs'[j] = txs[j]
  BY <1>6
<1>9. txs'[k].item = txs[k].item /\ txs'[k].got = txs[k].got
  BY <1>4, <1>8
<1>10. TxsTyped'
  BY <1>2, <1>7 DEF TxsTyped, Items, command
<1> QED
  BY <1>2, <1>7, <1>8, <1>9, <1>10 DEF Later, Cur, Live

LEMMA SettleKeeps == ASSUME SignerInv, NEW k \in DOMAIN txs, Settle(k) PROVE SignerInv'
<1>1. UNCHANGED <<command, process, halt>>
  BY DEF Settle
<1>2. /\ TxsTyped' /\ Later /\ DOMAIN txs' = DOMAIN txs /\ Cur' = Cur
      /\ \A j \in DOMAIN txs : Live(j)' => Live(j)
  BY Decided DEF SignerInv
<1>3. Settled => Settled'
  BY <1>2 DEF Settled, Later
<1>4. TypeOK'
  <2>1. report'.sigs \subseteq DOMAIN txs' /\ report'.sent = (report'.sigs # {})
    BY <1>1, <1>2 DEF SignerInv, TypeOK, process
  <2> QED
    BY <1>1, <1>2, <2>1 DEF SignerInv, TypeOK, TxsTyped, Items, Attempts, command, process
<1>5. BuiltInv'
  <2>1. (\A i \in Items \ todo : LandedOf(i) # {}) => \A i \in Items' \ todo : LandedOf(i)' # {}
    BY <1>1, <1>2, LandedStays DEF command
  <2> QED
    BY <1>1, <2>1 DEF SignerInv, BuiltInv, Sending, Waiting, process
<1>6. SendInv'
  <2> SUFFICES ASSUME Sending PROVE SendInv'
    BY <1>1 DEF SendInv, Sending, Waiting, process
  <2>1. known \subseteq DOMAIN txs
    BY DEF SignerInv, TypeOK
  <2>2. \A j \in known' : txs'[j].fate = "landed" /\ txs'[j].item \notin todo'
    BY <1>1, <1>2, <2>1 DEF SignerInv, SendInv, Later, process
  <2>3. AllSeen' \/ Loose'
    BY <1>1, <1>2 DEF SignerInv, SendInv, AllSeen, Loose, Waiting, command, process
  <2>4. Waiting => Cur' \in DOMAIN txs' /\ Cur' \notin known' /\ txs'[Cur'].item \in todo' /\ txs'[Cur'].got
    BY <1>1, <1>2 DEF SignerInv, SendInv, Later, process
  <2> QED
    BY <1>1, <2>2, <2>3, <2>4 DEF SendInv, Waiting, process
<1>7. RetryInv' /\ RetriedOnlyIfDead' /\ HaltInv'
  BY <1>1, <1>3 DEF SignerInv, RetryInv, RetriedOnlyIfDead, HaltInv, Loose, command, process
<1>8. ReportInv'
  BY <1>1, <1>2 DEF SignerInv, ReportInv, Later, command, process
<1>9. NeverMeansNever'
  <2> SUFFICES ASSUME err = "never" PROVE txs'[Cur'].fate = "dead"
    BY <1>1 DEF NeverMeansNever, process
  <2>1. txs[Cur].fate = "dead"
    BY DEF SignerInv, NeverMeansNever
  <2>2. Cur # k
    BY <2>1 DEF Settle
  <2>3. txs'[Cur] = txs[Cur]
    BY <2>2 DEF Settle
  <2> QED
    BY <1>2, <2>1, <2>3
<1>10. DoneMeansLanded'
  <2> SUFFICES ASSUME exit = "ok" /\ report.sent PROVE \A i \in Items' : LandedOf(i)' # {}
    BY <1>1 DEF DoneMeansLanded, process
  <2>1. \A i \in Items : LandedOf(i) # {}
    BY DEF SignerInv, DoneMeansLanded
  <2> SUFFICES ASSUME NEW i \in Items PROVE LandedOf(i)' # {}
    BY <1>1 DEF Items, command
  <2>2. PICK j \in DOMAIN txs : txs[j].item = i /\ txs[j].fate = "landed"
    BY <2>1 DEF LandedOf
  <2> QED
    BY <1>2, <2>2 DEF LandedOf, Later
<1>11. OnceInv'
  BY <1>1, <1>2 DEF SignerInv, OnceInv, Later, Repeats, Exit, command
<1> QED
  BY <1>4, <1>5, <1>6, <1>7, <1>8, <1>9, <1>10, <1>11 DEF SignerInv

\* A HALT, or nothing at all.
LEMMA IdleKeeps ==
  ASSUME SignerInv, UNCHANGED <<command, process, txs>>, halt' \in BOOLEAN
  PROVE  SignerInv'
<1>1. TypeOK'
  <2>1. report'.sigs \subseteq DOMAIN txs' /\ report'.sent = (report'.sigs # {})
    BY DEF SignerInv, TypeOK, process
  <2> QED
    BY <2>1 DEF SignerInv, TypeOK, Items, Attempts, command, process
<1>2. BuiltInv' /\ SendInv'
  BY DEF SignerInv, BuiltInv, SendInv, Sending, Waiting, AllSeen, Live, Loose, Items, LandedOf, Cur, command, process
<1>3. RetryInv' /\ RetriedOnlyIfDead' /\ HaltInv'
  BY DEF SignerInv, RetryInv, RetriedOnlyIfDead, HaltInv, Settled, Loose, command, process
<1>4. ReportInv' /\ NeverMeansNever' /\ DoneMeansLanded'
  BY DEF SignerInv, ReportInv, NeverMeansNever, DoneMeansLanded, Live, Cur, Items, LandedOf, command, process
<1>5. OnceInv'
  BY OnceKept DEF SignerInv
<1> QED
  BY <1>1, <1>2, <1>3, <1>4, <1>5 DEF SignerInv

LEMMA NextKeeps == SignerInv /\ [Next]_vars => SignerInv'
<1> SUFFICES ASSUME SignerInv, [Next]_vars PROVE SignerInv'
  OBVIOUS
<1>1. CASE Quiet
  BY <1>1, QuietKeeps
<1>2. CASE SendRefused \/ SendCut \/ SendAccepted
  BY <1>2, SendRefusedKeeps, SendCutKeeps, SendAcceptedKeeps
<1>3. CASE AwaitStatus \/ HeightBelow \/ HeightPassed \/ SearchHistory \/ AwaitUnread
  BY <1>3, WaitKeeps
<1>4. CASE Rotate \/ Rebuild
  BY <1>4, AnewKeeps
<1>5. CASE GiveUp
  BY <1>5, GiveUpKeeps
<1>6. CASE \E k \in DOMAIN txs : Settle(k)
  BY <1>6, SettleKeeps
<1>7. CASE HaltAppears
  <2>1. halt' \in BOOLEAN
    BY <1>7 DEF HaltAppears
  <2> QED
    BY <1>7, <2>1, IdleKeeps DEF HaltAppears
<1>8. CASE UNCHANGED vars
  <2>1. halt' \in BOOLEAN
    BY <1>8 DEF SignerInv, TypeOK, vars
  <2> QED
    BY <1>8, <2>1, IdleKeeps DEF vars
<1> QED
  BY <1>1, <1>2, <1>3, <1>4, <1>5, <1>6, <1>7, <1>8 DEF Next, Step, Quiet

-----------------------------------------------------------------------------
(* Theorems                                                                *)

\* The invariant: what is live is confirmed or waited for, and an error that
\* leads to another attempt left nothing live behind.
THEOREM SignerHolds == Spec => []SignerInv
BY InitKeeps, NextKeeps, PTL DEF Spec

\* Every variable of a command's run keeps its type, whatever it answers.
THEOREM SignerTypes == Spec => []TypeOK
<1>1. SignerInv => TypeOK
  BY DEF SignerInv
<1> QED
  BY <1>1, SignerHolds, PTL

\* An open, an increase, a swap or a transfer lands at most once, through every
\* endpoint and every new build (overEndpoints, rebuildOnRefusal).
THEOREM EffectHolds == Spec => []EffectOnce
<1>1. SignerInv => EffectOnce
  <2> SUFFICES ASSUME SignerInv, ~Repeats, NEW i \in Items PROVE Cardinality(LandedOf(i)) <= 1
    BY DEF EffectOnce
  <2>1. \A j, k \in LandedOf(i) : j = k
    BY DEF SignerInv, OnceInv, LandedOf, Live
  <2>2. CASE LandedOf(i) = {}
    BY <2>2, FS_EmptySet
  <2>3. CASE LandedOf(i) # {}
    <3>1. PICK k : LandedOf(i) = {k}
      BY <2>1, <2>3
    <3>2. Cardinality({k}) = 1
      BY FS_Singleton
    <3> QED
      BY <3>1, <3>2
  <2> QED
    BY <2>2, <2>3
<1> QED
  BY <1>1, SignerHolds, PTL

\* Nothing is tried again, on another endpoint or as a new build, while a
\* transaction of the command has landed or may still land (AfterSignError).
THEOREM RetryHolds == Spec => []RetriedOnlyIfDead
<1>1. SignerInv => RetriedOnlyIfDead
  BY DEF SignerInv
<1> QED
  BY <1>1, SignerHolds, PTL

\* Success is printed only once every item of the command has landed.
THEOREM DoneHolds == Spec => []DoneMeansLanded
<1>1. SignerInv => DoneMeansLanded
  BY DEF SignerInv
<1> QED
  BY <1>1, SignerHolds, PTL

\* A signature a node answered with is in the report of a script that promises
\* one, unless its transaction cannot land (reportSent, partialReport).
THEOREM ReportHolds == Spec => []SignaturesReported
<1>1. SignerInv => SignaturesReported
  BY DEF SignerInv, ReportInv, SignaturesReported, Live
<1> QED
  BY <1>1, SignerHolds, PTL

\* NeverLanded is thrown only of a transaction that did not land and cannot.
THEOREM NeverHolds == Spec => []NeverMeansNever
<1>1. SignerInv => NeverMeansNever
  BY DEF SignerInv
<1> QED
  BY <1>1, SignerHolds, PTL

\* A HALT found when a build begins stops it (assertNotHalted), but for an open
\* of meteora_dlmm built anew in place.
THEOREM HaltHolds == Spec => []HaltStopsBuilds
<1>1. SignerInv => HaltStopsBuilds
  BY DEF SignerInv, HaltInv, HaltStopsBuilds
<1> QED
  BY <1>1, SignerHolds, PTL
-----------------------------------------------------------------------------
(* A run goes on.  Its builds, the attempts of a build, the steps of an    *)
(* attempt and what is left to send are taken in order; only the wait for  *)
(* a transaction may repeat, between its status and the block height.      *)

Phase(l) ==
  IF l = "connect" THEN 0 ELSE IF l = "read" THEN 1 ELSE IF l = "built" THEN 2
  ELSE IF l = "thrown" THEN 4 ELSE IF l = "done" THEN 5 ELSE 3
Awaits(l) == IF l = "send" THEN 0 ELSE IF l = "history" THEN 2 ELSE 1

Polls ==
  /\ pc \in {"status", "height"} /\ pc' \in {"status", "height"}
  /\ UNCHANGED <<tryNo, build, todo, known, err, report, exit, began, txs>>
Onward ==
  \/ build' > build
  \/ build' = build /\ tryNo' > tryNo
  \/ /\ build' = build /\ tryNo' = tryNo
     /\ \/ Phase(pc') > Phase(pc)
        \/ Sending /\ Sending' /\ todo' \subseteq todo /\ todo' # todo
        \/ Sending /\ Sending' /\ todo' = todo /\ Awaits(pc') > Awaits(pc)

LEMMA Phases ==
  /\ Phase("connect") = 0 /\ Phase("read") = 1 /\ Phase("built") = 2 /\ Phase("thrown") = 4 /\ Phase("done") = 5
  /\ Phase("send") = 3 /\ Phase("status") = 3 /\ Phase("height") = 3 /\ Phase("history") = 3
  /\ Awaits("send") = 0 /\ Awaits("status") = 1 /\ Awaits("height") = 1 /\ Awaits("history") = 2
BY DEF Phase, Awaits

LEMMA AnswerOnward == ASSUME SignerInv, Sending, NEW r, NEW this, Answer(r, this) PROVE Onward
<1>1. build \in Nat
  BY CommandFacts DEF SignerInv, TypeOK, Sound
<1>2. UNCHANGED tryNo /\ (build' = build + 1 \/ (UNCHANGED build /\ pc' \in {"thrown", "done"}))
  BY DEF Answer, Kept, End, Goto
<1>3. Phase(pc) = 3
  BY Phases DEF Sending, Waiting
<1> QED
  BY <1>1, <1>2, <1>3, Phases DEF Onward

LEMMA ConfirmedOnward == ASSUME SignerInv, Waiting, Confirmed PROVE Onward
<1>1. txs[Cur].item \in todo
  BY DEF SignerInv, SendInv, Sending
<1>2. todo' \subseteq todo /\ todo' # todo /\ UNCHANGED <<build, tryNo>> /\ pc' \in {"send", "done"}
  BY <1>1 DEF Confirmed, Goto, End
<1>3. Phase(pc) = 3 /\ Sending
  BY Phases DEF Sending, Waiting
<1> QED
  BY <1>2, <1>3, Phases DEF Onward, Sending

LEMMA NextOnward == ASSUME SignerInv, Next PROVE Onward \/ Polls \/ UNCHANGED process
<1>0. build \in Nat /\ tryNo \in Nat
  BY CommandFacts DEF SignerInv, TypeOK, Sound
<1>1. CASE Quiet
  <2>1. UNCHANGED <<build, tryNo>>
    BY <1>1 DEF Quiet, RefuseEarly, Connect, ReadFails, NothingToDo, ReadAndBuild, DryRun, RefuseLate, Proceed
  <2>2. \/ pc = "connect" /\ pc' \in {"read", "thrown"}
        \/ pc = "read" /\ pc' \in {"built", "thrown", "done"}
        \/ pc = "built" /\ pc' \in {"send", "thrown", "done"}
    BY <1>1 DEF Quiet, RefuseEarly, Connect, ReadFails, NothingToDo, ReadAndBuild, DryRun, RefuseLate, Proceed, Throw, Goto, End
  <2> QED
    BY <2>1, <2>2, Phases DEF Onward
<1>2. CASE SendRefused \/ SendCut \/ AwaitUnread
  <2>1. Sending /\ \E r, this : Answer(r, this)
    BY <1>2 DEF SendRefused, SendCut, AwaitUnread, Sending, Waiting
  <2> QED
    BY <2>1, AnswerOnward
<1>3. CASE SendAccepted
  <2>1. pc = "send" /\ pc' = "status" /\ UNCHANGED <<build, tryNo, todo>>
    BY <1>3 DEF SendAccepted, Goto
  <2> QED
    BY <2>1, Phases DEF Onward, Sending, Waiting
<1>4. CASE AwaitStatus \/ SearchHistory
  <2>1. Waiting /\ Sending
    BY <1>4 DEF AwaitStatus, SearchHistory, Waiting, Sending
  <2>2. \/ Confirmed
        \/ \E r, this : Answer(r, this)
        \/ Polls
    BY <1>4 DEF AwaitStatus, SearchHistory, Polls, Goto, Kept
  <2> QED
    BY <2>1, <2>2, AnswerOnward, ConfirmedOnward
<1>5. CASE HeightBelow
  BY <1>5 DEF HeightBelow, Polls, Goto, Kept
<1>6. CASE HeightPassed
  <2>1. pc = "height" /\ pc' = "history" /\ UNCHANGED <<build, tryNo, todo>>
    BY <1>6 DEF HeightPassed, Goto
  <2> QED
    BY <2>1, Phases DEF Onward, Sending, Waiting
<1>7. CASE Rotate \/ Rebuild \/ GiveUp
  <2>1. \/ build' = build + 1
        \/ UNCHANGED build /\ tryNo' = tryNo + 1
        \/ UNCHANGED <<build, tryNo>> /\ pc = "thrown" /\ pc' = "done"
    BY <1>7 DEF Rotate, Rebuild, GiveUp, End
  <2> QED
    BY <1>0, <2>1, Phases DEF Onward
<1>8. CASE HaltAppears \/ \E k \in DOMAIN txs : Settle(k)
  BY <1>8 DEF HaltAppears, Settle
<1> QED
  BY <1>1, <1>2, <1>3, <1>4, <1>5, <1>6, <1>7, <1>8 DEF Next, Step, Quiet

\* A command never goes back: each of its own steps takes it to a later build,
\* attempt or step, or leaves less to send, or is the wait for a transaction
\* (overEndpoints, rebuildOnRefusal, awaitLanded).
THEOREM GoesOnward == Spec => [][Onward \/ Polls \/ UNCHANGED process]_vars
BY SignerHolds, NextOnward, PTL DEF Spec

-----------------------------------------------------------------------------
\* A report that names a signature was printed.
Printed == report.sigs # {} => report.printed

LEMMA PrintedKeeps == ASSUME Printed, [Next]_vars PROVE Printed'
<1>1. CASE UNCHANGED report
  BY <1>1 DEF Printed
<1>2. CASE report'.printed \/ report'.sigs = {}
  BY <1>2 DEF Printed
<1>3. \A r, this : Answer(r, this) => UNCHANGED report \/ report'.printed
  BY DEF Answer, Goto, End
<1>4. Confirmed => UNCHANGED report \/ report'.printed
  BY DEF Confirmed, Goto, End
<1>5. Quiet => UNCHANGED report \/ report'.printed
  BY DEF Quiet, RefuseEarly, Connect, ReadFails, NothingToDo, ReadAndBuild, DryRun, RefuseLate, Proceed, Throw, Goto, End
<1>6. SendRefused \/ SendCut \/ AwaitUnread \/ AwaitStatus \/ SearchHistory => UNCHANGED report \/ report'.printed
  BY <1>3, <1>4 DEF SendRefused, SendCut, AwaitUnread, AwaitStatus, SearchHistory, Goto
<1>7. SendAccepted \/ HeightBelow \/ HeightPassed \/ Rotate \/ Rebuild \/ GiveUp => UNCHANGED report
  BY DEF SendAccepted, HeightBelow, HeightPassed, Rotate, Rebuild, GiveUp, Goto, End
<1>8. HaltAppears \/ (\E k \in DOMAIN txs : Settle(k)) \/ UNCHANGED vars => UNCHANGED report
  BY DEF HaltAppears, Settle, process, vars
<1> QED
  BY <1>1, <1>2, <1>5, <1>6, <1>7, <1>8 DEF Next, Step, Quiet

\* What a payout did not report, and the loop owes again (lp/harvest.py), was
\* paid only where the first send's answer was lost (payout.mjs).
THEOREM OwedOnlyIfCut ==
  Spec => [](prog.script = "payout" /\ exit = "failed" /\ ~report.printed =>
               \A k \in DOMAIN txs : txs[k].fate = "landed" => ~txs[k].got)
<1>1. Init => Printed
  BY DEF Init, NoReport, Printed
<1>2. Printed /\ [Next]_vars => Printed'
  BY PrintedKeeps
<1>3. SignerInv /\ Printed => (prog.script = "payout" /\ exit = "failed" /\ ~report.printed =>
                                 \A k \in DOMAIN txs : txs[k].fate = "landed" => ~txs[k].got)
  BY DEF SignerInv, ReportInv, Printed, Live, Reports
<1> QED
  BY <1>1, <1>2, <1>3, SignerHolds, PTL DEF Spec

-----------------------------------------------------------------------------
(* How much a run may send: in each attempt, each of its items once.       *)

Turns == (build - 1) * Attempts + tryNo
Room == Turns * size
BoundInv ==
  /\ pc \in {"connect", "read", "built"} => Len(txs) + size <= Room
  /\ pc = "send" => Len(txs) + Cardinality(todo) <= Room
  /\ Waiting => Len(txs) + Cardinality(todo) <= Room + 1
  /\ pc \in {"thrown", "done"} => Len(txs) <= Room

LEMMA Times ==
  ASSUME NEW a \in Nat, NEW b \in Nat, NEW c \in Nat
  PROVE  a * c \in Nat /\ (a <= b => a * c <= b * c) /\ (a + 1 <= b => a * c + c <= b * c)
<1>1. a * c \in Nat
  OBVIOUS
<1>2. ASSUME a <= b PROVE a * c <= b * c
  <2>1. b * c = a * c + (b - a) * c /\ (b - a) * c >= 0
    BY <1>2
  <2> QED
    BY <1>1, <2>1
<1>3. ASSUME a + 1 <= b PROVE a * c + c <= b * c
  <2>1. b * c = (a * c + c) + (b - a - 1) * c /\ (b - a - 1) * c >= 0
    BY <1>3
  <2> QED
    BY <1>1, <2>1
<1> QED
  BY <1>1, <1>2, <1>3

LEMMA TodoFacts ==
  ASSUME TypeOK
  PROVE  /\ size \in Nat \ {0} /\ Len(txs) \in Nat
         /\ IsFiniteSet(todo) /\ Cardinality(todo) \in Nat /\ Cardinality(todo) <= size
         /\ todo # {} => Cardinality(todo) >= 1
         /\ \A i \in todo : Cardinality(todo \ {i}) = Cardinality(todo) - 1
<1>1. size \in Nat \ {0}
  BY CommandFacts
<1>2. IsFiniteSet(1..size) /\ Cardinality(1..size) = size
  BY <1>1, FS_Interval
<1>3. IsFiniteSet(todo) /\ Cardinality(todo) <= size
  BY <1>2, FS_Subset DEF TypeOK, Items
<1>4. Cardinality(todo) \in Nat
  BY <1>3, FS_CardinalityType
<1>5. todo # {} => Cardinality(todo) # 0
  BY <1>3, FS_EmptySet
<1>6. \A i \in todo : Cardinality(todo \ {i}) = Cardinality(todo) - 1
  BY <1>3, FS_RemoveElement
<1> QED
  BY <1>1, <1>3, <1>4, <1>5, <1>6 DEF TypeOK

LEMMA TodoPrimed == ASSUME TypeOK' PROVE Cardinality(todo') \in Nat /\ Cardinality(todo') <= size'
<1>1. size' \in Nat \ {0}
  BY ProgramsSound, MaxTxsAssumption DEF TypeOK, Sound
<1>2. IsFiniteSet(1..size') /\ Cardinality(1..size') = size'
  BY <1>1, FS_Interval
<1>3. IsFiniteSet(todo') /\ Cardinality(todo') <= size'
  BY <1>2, FS_Subset DEF TypeOK, Items
<1> QED
  BY <1>3, FS_CardinalityType

LEMMA TurnFacts ==
  ASSUME TypeOK
  PROVE  /\ Turns \in Nat /\ Room \in Nat
         /\ Turns <= prog.builds * Attempts
<1>1. build \in 1..prog.builds /\ tryNo \in 1..Attempts /\ Attempts \in Nat /\ prog.builds \in Nat /\ size \in Nat
  BY CommandFacts DEF TypeOK, Sound
<1>2. (build - 1) * Attempts \in Nat /\ (build - 1) * Attempts + Attempts <= prog.builds * Attempts
  BY <1>1, Times
<1>3. prog.builds * Attempts \in Nat
  BY <1>1, Times
<1>4. Turns \in Nat /\ Turns <= prog.builds * Attempts
  BY <1>1, <1>2, <1>3 DEF Turns
<1> QED
  BY <1>1, <1>4, Times DEF Room

LEMMA NextTurn ==
  ASSUME TypeOK, UNCHANGED command
  PROVE  /\ UNCHANGED <<build, tryNo>> => Room' = Room
         /\ \/ build' = build + 1 /\ tryNo' \in {1, tryNo}
            \/ UNCHANGED build /\ tryNo' = tryNo + 1
            => Room' \in Nat /\ Room' >= Room + size
<1>1. build \in 1..prog.builds /\ tryNo \in 1..Attempts /\ Attempts \in Nat /\ prog.builds \in Nat /\ size \in Nat
  BY CommandFacts DEF TypeOK, Sound
<1>2. Attempts' = Attempts /\ size' = size
  BY DEF command, Attempts
<1>3. UNCHANGED <<build, tryNo>> => Room' = Room
  BY <1>2 DEF Room, Turns
<1>4. ASSUME Turns' \in Nat, Turns' >= Turns + 1 PROVE Room' \in Nat /\ Room' >= Room + size
  <2>0. PICK t \in Nat : t = Turns'
    BY <1>4
  <2>1. Turns \in Nat /\ Turns + 1 <= t
    BY <1>4, <2>0, TurnFacts
  <2>2. Turns * size + size <= t * size
    BY <1>1, <2>1, Times
  <2>3. Room' = t * size /\ t * size \in Nat
    BY <1>1, <1>2, <2>0, Times DEF Room
  <2> QED
    BY <2>2, <2>3 DEF Room
<1>5. CASE UNCHANGED build /\ tryNo' = tryNo + 1
  <2>1. Turns' = Turns + 1 /\ Turns \in Nat
    <3>1. (build - 1) * Attempts \in Nat
      BY <1>1, Times
    <3> QED
      BY <1>1, <1>2, <1>5, <3>1 DEF Turns
  <2>2. Turns' \in Nat /\ Turns' >= Turns + 1
    BY <2>1
  <2> QED
    BY <1>4, <1>5, <2>2
<1>6. CASE build' = build + 1 /\ tryNo' \in {1, tryNo}
  <2>1. (build - 1) * Attempts \in Nat /\ build * Attempts = (build - 1) * Attempts + Attempts
    BY <1>1, Times
  <2>2. Turns' = build * Attempts + tryNo'
    BY <1>1, <1>2, <1>6 DEF Turns
  <2>3. Turns' \in Nat /\ Turns' >= Turns + 1
    BY <1>1, <1>6, <2>1, <2>2 DEF Turns
  <2> QED
    BY <1>4, <1>6, <2>3
<1> QED
  BY <1>3, <1>5, <1>6

LEMMA RoomEnough == ASSUME TypeOK PROVE Room <= prog.builds * Attempts * size
<1>1. Turns \in Nat /\ Turns <= prog.builds * Attempts
  BY TurnFacts
<1>2. prog.builds * Attempts \in Nat /\ size \in Nat
  BY CommandFacts, Times DEF Sound
<1> QED
  BY <1>1, <1>2, Times DEF Room

LEMMA AnswerBounded ==
  ASSUME SignerInv, UNCHANGED command, NEW n \in Nat, n <= Room, Len(txs') = n, NEW r, NEW this, Answer(r, this)
  PROVE  BoundInv'
<1>0. TypeOK /\ Room \in Nat /\ size \in Nat
  BY CommandFacts, TurnFacts DEF SignerInv
<1>1. CASE build' = build + 1 /\ UNCHANGED tryNo /\ pc' = "read"
  <2>1. Room' \in Nat /\ Room' >= Room + size
    BY <1>0, <1>1, NextTurn
  <2>2. size' = size
    BY DEF command
  <2>3. n + size <= Room'
    BY <1>0, <2>1
  <2> QED
    BY <1>1, <2>2, <2>3 DEF BoundInv, Waiting
<1>2. CASE UNCHANGED <<build, tryNo>> /\ pc' \in {"thrown", "done"}
  BY <1>0, <1>2, NextTurn DEF BoundInv, Waiting
<1> QED
  BY <1>1, <1>2 DEF Answer, Kept, End, Goto

LEMMA NextBounded == ASSUME SignerInv, BoundInv, Next PROVE BoundInv'
<1>0. /\ TypeOK /\ TypeOK' /\ Room \in Nat /\ size \in Nat \ {0} /\ Len(txs) \in Nat
      /\ IsFiniteSet(todo) /\ Cardinality(todo) \in Nat /\ Cardinality(todo) <= size
      /\ (todo # {} => Cardinality(todo) >= 1)
  BY TodoFacts, TurnFacts, NextKeeps DEF SignerInv
<1>u. UNCHANGED command
  BY DEF Next, Step, RefuseEarly, Connect, ReadFails, NothingToDo, ReadAndBuild, DryRun, RefuseLate, Proceed,
         SendRefused, SendCut, SendAccepted, AwaitStatus, HeightBelow, HeightPassed, SearchHistory, AwaitUnread,
         Rotate, Rebuild, GiveUp, Kept, Answer, Confirmed, HaltAppears, Settle
<1>s. size' = size
  BY <1>u DEF command
<1>c. Cardinality(todo') \in Nat /\ Cardinality(todo') <= size
  BY <1>0, <1>s, TodoPrimed
<1>1. CASE Quiet
  <2>1. UNCHANGED <<build, tryNo, txs>> /\ pc \in {"connect", "read", "built"}
    BY <1>1 DEF Quiet, RefuseEarly, Connect, ReadFails, NothingToDo, ReadAndBuild, DryRun, RefuseLate, Proceed
  <2>2. pc' \in {"read", "built", "send", "thrown", "done"}
    BY <1>1 DEF Quiet, RefuseEarly, Connect, ReadFails, NothingToDo, ReadAndBuild, DryRun, RefuseLate, Proceed, Throw, Goto, End
  <2>3. Room' = Room
    BY <1>0, <1>u, <2>1, NextTurn
  <2> QED
    BY <1>0, <1>s, <1>c, <2>1, <2>2, <2>3 DEF BoundInv, Waiting
<1>2. CASE SendRefused \/ AwaitUnread \/ ((AwaitStatus \/ SearchHistory) /\ \E r, this : Answer(r, this) /\ UNCHANGED txs)
  <2>1. PICK r, this : Answer(r, this) /\ UNCHANGED txs
    BY <1>2 DEF SendRefused, AwaitUnread
  <2>2. Sending
    BY <1>2 DEF SendRefused, AwaitUnread, AwaitStatus, SearchHistory, Sending, Waiting
  <2>3. todo # {}
    BY <2>2 DEF SignerInv, BuiltInv
  <2>4. Len(txs) <= Room
    BY <1>0, <2>2, <2>3 DEF BoundInv, Sending
  <2> QED
    BY <1>0, <1>u, <2>1, <2>4, AnswerBounded
<1>3. CASE SendCut \/ SendAccepted
  <2>1. pc = "send"
    BY <1>3 DEF SendCut, SendAccepted
  <2>2. todo # {}
    BY <2>1 DEF SignerInv, BuiltInv, Sending
  <2>3. \E fate, got : Offer(fate, got)
    BY <1>3 DEF SendCut, SendAccepted
  <2>4. Len(txs') = Len(txs) + 1
    BY <2>3 DEF Offer, SignerInv, TypeOK
  <2>5. Len(txs) + Cardinality(todo) <= Room
    BY <2>1 DEF BoundInv
  <2>6. CASE SendCut
    <3>1. \E r, this : Answer(r, this)
      BY <2>6 DEF SendCut
    <3>2. Len(txs) + 1 \in Nat /\ Len(txs) + 1 <= Room
      BY <1>0, <2>2, <2>5
    <3> QED
      BY <1>u, <2>4, <3>1, <3>2, AnswerBounded
  <2>7. CASE SendAccepted
    <3>1. pc' = "status" /\ UNCHANGED <<build, tryNo, todo>>
      BY <2>7 DEF SendAccepted, Goto
    <3>2. Room' = Room
      BY <1>0, <1>u, <3>1, NextTurn
    <3> QED
      BY <1>0, <2>4, <2>5, <3>1, <3>2 DEF BoundInv, Waiting
  <2> QED
    BY <1>3, <2>6, <2>7
<1>4. CASE (AwaitStatus \/ SearchHistory) /\ Confirmed
  <2>1. Waiting /\ UNCHANGED <<build, tryNo, txs>> /\ pc' \in {"send", "done"}
    BY <1>4 DEF AwaitStatus, SearchHistory, Waiting, Confirmed, Goto, End
  <2>2. txs[Cur].item \in todo /\ todo' = todo \ {txs[Cur].item}
    BY <1>4, <2>1 DEF SignerInv, SendInv, Sending, Confirmed
  <2>3. Cardinality(todo') = Cardinality(todo) - 1
    BY <1>0, <2>2, TodoFacts
  <2>4. Room' = Room
    BY <1>0, <1>u, <2>1, NextTurn
  <2> QED
    BY <1>0, <2>1, <2>2, <2>3, <2>4 DEF BoundInv, Waiting
<1>5. CASE HeightBelow \/ HeightPassed \/ (AwaitStatus /\ Goto("height") /\ UNCHANGED <<tryNo, build, todo, txs>>)
  <2>1. Waiting /\ Waiting' /\ UNCHANGED <<build, tryNo, txs, todo>>
    BY <1>5 DEF HeightBelow, HeightPassed, AwaitStatus, Goto, Waiting
  <2>2. Room' = Room
    BY <1>0, <1>u, <2>1, NextTurn
  <2> QED
    BY <2>1, <2>2 DEF BoundInv, Waiting
<1>6. CASE Rotate \/ Rebuild
  <2>1. pc = "thrown" /\ pc' = "connect" /\ UNCHANGED txs
    BY <1>6 DEF Rotate, Rebuild
  <2>2. \/ build' = build + 1 /\ tryNo' \in {1, tryNo}
        \/ UNCHANGED build /\ tryNo' = tryNo + 1
    BY <1>6 DEF Rotate, Rebuild
  <2>3. Room' \in Nat /\ Room' >= Room + size
    BY <1>0, <1>u, <2>2, NextTurn
  <2> QED
    BY <1>0, <1>s, <2>1, <2>3 DEF BoundInv, Waiting
<1>7. CASE GiveUp
  <2>1. pc = "thrown" /\ pc' = "done" /\ UNCHANGED <<txs, build, tryNo>>
    BY <1>7 DEF GiveUp, End
  <2> QED
    BY <1>0, <1>u, <2>1, NextTurn DEF BoundInv, Waiting
<1>8. CASE HaltAppears \/ \E k \in DOMAIN txs : Settle(k)
  <2>1. UNCHANGED <<pc, build, tryNo, todo>>
    BY <1>8 DEF HaltAppears, Settle, process
  <2>2. Len(txs') = Len(txs)
    BY <1>8 DEF HaltAppears, Settle, SignerInv, TypeOK
  <2> QED
    BY <1>0, <1>s, <1>u, <2>1, <2>2, NextTurn DEF BoundInv, Waiting
<1>9. AwaitStatus \/ SearchHistory =>
        \/ Confirmed
        \/ \E r, this : Answer(r, this) /\ UNCHANGED txs
        \/ AwaitStatus /\ Goto("height") /\ UNCHANGED <<tryNo, build, todo, txs>>
  BY DEF AwaitStatus, SearchHistory
<1> QED
  BY <1>1, <1>2, <1>3, <1>4, <1>5, <1>6, <1>7, <1>8, <1>9 DEF Next, Step, Quiet

\* A command sends at most each of its items once in each attempt of each of
\* its builds, whatever fails (overEndpoints, rebuildOnRefusal, sendAll).
THEOREM SendsBounded == Spec => [](Len(txs) <= prog.builds * Attempts * size)
<1>1. Init => BoundInv
  <2> SUFFICES ASSUME Init PROVE BoundInv
    OBVIOUS
  <2>1. TypeOK
    BY InitKeeps DEF SignerInv
  <2>2. size \in Nat /\ Attempts \in Nat
    BY <2>1, CommandFacts
  <2>3. Turns = 1
    BY <2>2, Times DEF Turns, Init
  <2>4. Room = size
    BY <2>2, <2>3 DEF Room
  <2> QED
    BY <2>2, <2>4 DEF BoundInv, Init, Waiting
<1>2. SignerInv /\ BoundInv /\ [Next]_vars => BoundInv'
  <2> SUFFICES ASSUME SignerInv, BoundInv, [Next]_vars PROVE BoundInv'
    OBVIOUS
  <2>1. CASE UNCHANGED vars
    <3>1. UNCHANGED <<prog, size, pc, tryNo, build, todo, txs>>
      BY <2>1 DEF vars, command, process
    <3> QED
      BY <3>1 DEF BoundInv, Waiting, Room, Turns, Attempts
  <2> QED
    BY <2>1, NextBounded
<1>3. SignerInv /\ BoundInv => Len(txs) <= prog.builds * Attempts * size
  <2> SUFFICES ASSUME SignerInv, BoundInv PROVE Len(txs) <= prog.builds * Attempts * size
    OBVIOUS
  <2>1. TypeOK /\ Room \in Nat /\ Len(txs) \in Nat /\ size \in Nat \ {0}
    BY TodoFacts, TurnFacts DEF SignerInv
  <2>2. Cardinality(todo) \in Nat /\ (todo # {} => Cardinality(todo) >= 1)
    BY <2>1, TodoFacts
  <2>3. Waiting => Cardinality(todo) >= 1
    <3>1. Waiting => txs[Cur].item \in todo
      BY DEF SignerInv, SendInv, Sending
    <3> QED
      BY <2>2, <3>1
  <2>4. Len(txs) <= Room
    <3>1. pc \in {"connect", "read", "built", "send", "thrown", "done"} \/ Waiting
      BY <2>1 DEF TypeOK, Waiting
    <3> QED
      BY <2>1, <2>2, <2>3, <3>1 DEF BoundInv
  <2>5. Room <= prog.builds * Attempts * size /\ prog.builds * Attempts * size \in Nat
    <3>1. prog.builds \in Nat /\ Attempts \in Nat
      BY <2>1, CommandFacts DEF Sound
    <3>2. prog.builds * Attempts \in Nat
      BY <3>1, Times
    <3> QED
      BY <2>1, <3>2, RoomEnough, Times
  <2> QED
    BY <2>1, <2>4, <2>5
<1> QED
  BY <1>1, <1>2, <1>3, SignerHolds, PTL DEF Spec
=============================================================================
