----------------------------- MODULE SetupPlan -----------------------------
(***************************************************************************)
(* An owner's set-up of its vault, as two programs see it: the server      *)
(* plans the steps the chain still lacks, and the owner's page, which does *)
(* not trust the server, decodes them and refuses what it did not expect.  *)
(*                                                                         *)
(* A vault is a smart account at a seed.  Its owner always signs it, so    *)
(* `signers' are the others: the pages' one-time set-up keys.  Money of a  *)
(* set-up key is counted in units: one pays a policy's rent and fee, one   *)
(* is the account's floor and the fee of its last transaction.             *)
(***************************************************************************)
EXTENDS Integers, FiniteSets, SequencesExt

CONSTANTS
  Keys,      \* the pages' one-time set-up keys
  Policies,  \* how many policies the bot's rules make
  LastSeed   \* bound: seeds a smart account is made at

ASSUME SetupAssumption == Policies \in Nat \ {0} /\ LastSeed \in Nat \ {0}

Seeds == 1..LastSeed
Vault == [by : {"nobody", "owner", "other"}, signers : SUBSET Keys, made : 0..Policies]

WholeWithOthers(v) == v.by = "owner" /\ v.made = Policies   \* mutant: the other signers are not counted
\* Every policy is on it and only its owner signs it.
Whole(v) == v.by = "owner" /\ v.made = Policies /\ v.signers = {}

----------------------------------------------------------------------------
\* setupDone: the account at the seed is free, or the owner's with no signer
\* this request does not know.
Ours(v, known) == v.by = "nobody" \/ (v.by = "owner" /\ v.signers \subseteq known)

\* setupRequest: the planned seed, or the next free one when another account
\* (or an unknown signer) holds it.  `index' is the program's last seed.
PlannedSeed(vault, index, seed, known) ==
  IF seed = 0 THEN index + 1
  ELSE IF Ours(vault[seed], known) THEN seed
  ELSE (IF seed > index THEN seed ELSE index) + 1

NeedFromStart(v) == Policies + 1   \* mutant: also for the policies that are there
\* What the set-up key spends on what is missing, and its account's floor.
Need(v) == Policies - v.made + 1

FundedNever(v, funded) == FALSE   \* mutant: the chain is not asked
\* The funding is on chain already; only a whole vault is asked for it.
Funded(v, funded) == Whole(v) /\ funded > 0

\* setupTxs: what the chain lacks of the set-up of vault v at `seed', for the
\* page whose key holds `sol'.  `funded': fundings of this vault on chain.
SetupTxs(v, seed, key, sol, funded) ==
  LET missing == v.made < Policies
      created == v.by = "owner"
      need    == Need(v)
      release == ~missing /\ key \in v.signers /\ sol >= 1
      stale   == v.signers \ {key}
  IN [seed    |-> seed,
      create  |-> missing /\ ~created,
      off     |-> IF missing \/ release THEN stale ELSE v.signers,
      on      |-> missing /\ created /\ key \notin v.signers,
      feed    |-> IF missing /\ need > sol THEN need - sol ELSE 0,
      next    |-> v.made + 1,
      release |-> release,
      back    |-> IF release THEN sol ELSE 0,
      fund    |-> ~Funded(v, funded),
      seen    |-> funded]   \* history, not in the answer

NoPlan == [seed |-> 0, create |-> FALSE, off |-> {}, on |-> FALSE, feed |-> 0, next |-> 0,
           release |-> FALSE, back |-> 0, fund |-> FALSE, seen |-> 0]

HasOwnerPart(p) == p.create \/ p.off # {} \/ p.on \/ p.feed > 0
HasPolicyPart(p) == p.next <= Policies   \* mutant: the funding does not wait for the release
HasKeyPart(p)   == p.next <= Policies \/ p.release
AllDone(p)      == ~HasOwnerPart(p) /\ ~HasKeyPart(p) /\ ~p.fund

----------------------------------------------------------------------------
(***************************************************************************)
(* The answer as the page reads it: the steps in the order they are sent.  *)
(***************************************************************************)
Step(does, by, key, n) == [does |-> does, by |-> by, key |-> key, n |-> n]
If(cond, s) == IF cond THEN s ELSE <<>>

\* One instruction after another; `mine' is the page's set-up key.
Steps(p, owner, mine) ==
     If(p.create, <<Step("create", owner, mine, p.seed)>>)
  \o [i \in 1..Cardinality(p.off) |-> Step("remove", owner, SetToSeq(p.off)[i], 0)]
  \o If(p.on, <<Step("add", owner, mine, 0)>>)
  \o If(p.feed > 0, <<Step("feed", owner, mine, p.feed)>>)
  \o [i \in 1..(Policies + 1 - p.next) |-> Step("policy", mine, mine, p.next + i - 1)]
  \o If(p.release, <<Step("remove", mine, mine, 0), Step("back", mine, mine, p.back)>>)
  \o If(p.fund, <<Step("deposit", owner, mine, 0), Step("gas", owner, mine, 0)>>)

Changes == {"policy", "add", "remove"}   \* settings transactions
Funding == {"deposit", "gas"}

At(steps, what) == {i \in DOMAIN steps : steps[i].does = what}
Before(steps, i, whats) == \E j \in 1..(i - 1) : steps[j].does \in whats

\* phase: the owner's part, the set-up key's, the funding.
Phase(s, mine) == IF s.by = mine THEN 1 ELSE IF s.does \in Funding THEN 2 ELSE 0
InPhase(steps, mine) ==
  \A i, j \in DOMAIN steps : i < j => Phase(steps[i], mine) <= Phase(steps[j], mine)

\* readCreate: at the planned seed, by the owner, with this page's key.
CreatesPlanned(s, owner, mine, seed) == s.by = owner /\ s.key = mine /\ s.n = seed

\* setupPolicies: the seeds the rules' policies get.
PolicySeeds == 1..Policies

\* KEY_BASE, KEY_PER_POLICY: what the set-up key may be sent for its work.
KeyBound(n) == IF n = 0 THEN 0 ELSE 1 + n

\* setupPart: each step where it may be, by whom it may be.
PartsAccepted(steps, owner, mine, seed) ==
  /\ InPhase(steps, mine)
  /\ \A i \in At(steps, "create") :
       /\ CreatesPlanned(steps[i], owner, mine, seed)
       /\ ~Before(steps, i, {"create", "policy", "feed"} \cup Funding)
  /\ \A i \in DOMAIN steps : steps[i].does \in Changes => ~Before(steps, i, Funding)
  /\ \A i \in At(steps, "add") : steps[i].by = owner /\ steps[i].key = mine
  /\ \A i \in At(steps, "remove") : steps[i].key # owner /\ (steps[i].by = mine => steps[i].key = mine)
  /\ \A i \in At(steps, "policy") :
       /\ steps[i].by = mine /\ steps[i].n \in PolicySeeds
       /\ ~\E j \in 1..(i - 1) : steps[j].does = "remove" /\ steps[j].by = mine
  /\ \A i, j \in At(steps, "policy") :
       i < j /\ ~(\E k \in At(steps, "policy") : i < k /\ k < j) => steps[j].n = steps[i].n + 1
  /\ \A i \in At(steps, "back") : steps[i].by = mine /\ Before(steps, i, {"remove"})

\* deposit: the money to the vault, and the bot's gas, each once.
FundedOnce(steps) == Cardinality(At(steps, "gas")) = 1 /\ Cardinality(At(steps, "deposit")) = 1

\* setupWhole: every policy the rules make exists after it, no more SOL than its work takes.
WholeAccepted(steps) ==
  LET policies == At(steps, "policy")
      fed == FoldLeft(+, 0, [i \in DOMAIN steps |-> IF steps[i].does = "feed" THEN steps[i].n ELSE 0])
  IN
  /\ At(steps, "create") # {} => \E i \in policies : steps[i].n = 1 /\ ~Before(steps, i, {"policy"})
  /\ policies # {} => \E i \in policies : steps[i].n = Policies /\ ~\E j \in policies : j > i
  /\ fed <= KeyBound(Cardinality(policies))
  /\ (\E i \in DOMAIN steps : steps[i].does \in Funding) => FundedOnce(steps)

\* decodeSolSet: every part, then the set as a whole.
PageAccepts(steps, owner, mine, seed) == PartsAccepted(steps, owner, mine, seed) /\ WholeAccepted(steps)

----------------------------------------------------------------------------
\* setupState: every step landed and the owner the only signer, as planned.
SetupState(v, known) ==
  IF ~Ours(v, known) THEN "replan" ELSE IF Whole(v) THEN "done" ELSE "pending"

\* finishSetup: the vault as planned, or the finish stops.
FinishAllowed(v, known) == Ours(v, known) /\ Whole(v)
=============================================================================
