-------------------------- MODULE SignerPrograms --------------------------
(***************************************************************************)
(* The commands of the venue signers, the two swappers, the payout script  *)
(* and the janitor, one record per command, and the ways they answer for a *)
(* transaction that did not go through.  Signer.tla runs them.             *)
(*                                                                         *)
(* A command's record:                                                     *)
(*   script, cmd  which one it is                                          *)
(*   pre     refusals before the endpoint loop is entered                  *)
(*   checks  refusals while it reads and builds, before any signature      *)
(*   late    refusals after the dry run's branch: with --execute only      *)
(*   noop    whether it may find nothing to do and say so                  *)
(*   sizes   how many transactions a build may hold                        *)
(*   named   whether the named position must be among those it finds       *)
(*   sim     "dry": simulated by a dry run, reported;  "both": always, and *)
(*           a failure refuses --execute;  "strict": always, a failure     *)
(*           refuses either way;  "none"                                   *)
(*   reguard whether HALT is looked for again just before the send         *)
(*   hash    "send": each blockhash is read at the send;  "built": before  *)
(*   send    how a failed send is answered (SendAnswer)                    *)
(*   again   the errors after which the whole operation is built again     *)
(*   builds  how many builds in all                                        *)
(*   tries   attempts on each endpoint;  roams: more than one endpoint     *)
(***************************************************************************)
EXTENDS Naturals, FiniteSets

CONSTANTS
  MaxTxs   \* the most transactions of one operation (positions, account batches)

ASSUME MaxTxsAssumption == MaxTxs \in Nat \ {0}

-----------------------------------------------------------------------------
\* What becomes of a transaction the process tries to send.
\*   unhashed    its blockhash could not be read: nothing was signed
\*   refused     the preflight refused it;  slip: over a moved price
\*   cut         the first send broke off: a node may have it or not
\*   failed      it failed on chain;  failedSlip: over a moved price
\*   never       its blockhash expired and the history does not know it
\*   unread      a read of its status failed after the send
Failures == {"unhashed", "refused", "slip", "cut", "failed", "failedSlip", "never", "unread"}
Slips    == {"slip", "failedSlip"}
\* The node answered the first send with a signature.
Accepted == {"failed", "failedSlip", "never", "unread"}

\* An answer: the report printed, if any, then the error thrown, if any.
Throws(e)               == [prints |-> FALSE, sigs |-> {},   err |-> e]
Prints(sigs)            == [prints |-> TRUE,  sigs |-> sigs, err |-> "none"]
PrintsAndThrows(sigs, e) == [prints |-> TRUE, sigs |-> sigs, err |-> e]

\* The classes of a thrown error beside a refusal's own name.
\*   rotate  a rate limit or a transport failure before anything was sent
\*   slip    a program's refusal over a moved price, not marked as sent
\*   sent    marked as sent (AfterSignError, SentError, `sent`)
\*   sentSlip  marked as sent, with a price refusal in its text
\*   never   NeverLanded;  partial: some of several transactions went out
\*   anew    the caller builds again in place (meteora_dlmm open)
Classes == {"rotate", "fatal", "slip", "sent", "sentSlip", "never", "partial", "anew"}

-----------------------------------------------------------------------------
(***************************************************************************)
(* The answers.  known: signatures confirmed so far; this: the transaction *)
(* that did not go through; r: what became of it.                          *)
(***************************************************************************)

RaydiumAnswerUnreadNever(known, this, r) ==
  IF known # {} THEN PrintsAndThrows(known, "partial")
  ELSE Throws(IF r \in {"never", "unread"} THEN "never" ELSE IF r \in Slips THEN "sentSlip" ELSE "sent")

\* sendLanded / sendActing: NeverLanded as itself, any other error marked
\* sent, the failed blockhash read included.  sendAll: a later failure is
\* reported with the signatures confirmed before it.
RaydiumAnswer(known, this, r) ==
  IF known # {} THEN PrintsAndThrows(known, "partial")
  ELSE Throws(IF r = "never" THEN "never" ELSE IF r \in Slips THEN "sentSlip" ELSE "sent")

ByrealAnswerConfirmed(known, this, r) == Prints(known)

\* sendAll never throws; reportSent prints what has a signature.
ByrealAnswer(known, this, r) ==
  Prints(IF r \in Accepted THEN known \cup {this} ELSE known)

PancakeAnswerCutRotates(known, this, r) ==
  IF r \in {"unhashed", "cut"} THEN Throws("rotate")
  ELSE IF r \in Accepted THEN Prints(known \cup {this})
  ELSE Throws(IF r = "slip" THEN "slip" ELSE "sent")

\* sendOne reads the blockhash outside its try; a failed first send is an
\* AfterSignError; from the signature on, a SentError that partialReport prints.
PancakeAnswer(known, this, r) ==
  IF r = "unhashed" THEN Throws("rotate")
  ELSE IF r \in Accepted THEN Prints(known \cup {this})
  ELSE Throws(IF r = "slip" THEN "slip" ELSE "sent")

\* sendOnce: the SDK's callback signs, sends and confirms; any error is an
\* AfterSignError.
OrcaAnswer(known, this, r) == Throws("sent")

\* sendVault: the blockhash is read before the try.
OrcaVaultAnswer(known, this, r) ==
  Throws(CASE r = "unhashed" -> "rotate" [] r = "never" -> "never" [] OTHER -> "sent")

\* sendAll: nothing confirmed yet is an AfterSignError, later the report.
MeteoraAnswer(known, this, r) ==
  IF known = {} THEN Throws("sent") ELSE Prints(known)

\* openOnce: a preflight refusal that a fresh build fixes (a moved active bin)
\* is built again while nothing was sent, else the report.
MeteoraOpenAnswer(known, this, r) ==
  IF known = {} /\ r = "slip" THEN PrintsAndThrows({}, "anew") ELSE Prints(known)

\* sendSwap: expired and unknown is a plain error, a failed first send an
\* AfterSignError, anything after the send a report and a SentError.
JupiterAnswer(known, this, r) ==
  IF r = "never" THEN Throws("never")
  ELSE IF r \in Accepted THEN PrintsAndThrows({this}, "sent") ELSE Throws("sent")

\* The same of the Orca fallback swap.
OrcaSwapAnswer(known, this, r) ==
  CASE r = "never" -> Throws("never")
    [] r \in Accepted \ {"never"} -> PrintsAndThrows({this}, "sent")
    [] OTHER -> Throws("sent")

\* send / sendFromVault: the first failure as it is, later the report.
PayoutAnswer(known, this, r) ==
  IF r \in Accepted \ {"never"} THEN Prints({this})
  ELSE Throws(IF r = "never" THEN "never" ELSE "fatal")

\* closeEmpty catches nothing.
JanitorAnswer(known, this, r) == Throws(IF r = "never" THEN "never" ELSE "fatal")

SendAnswer(style, known, this, r) ==
  CASE style = "raydium"     -> RaydiumAnswer(known, this, r)
    [] style = "byreal"      -> ByrealAnswer(known, this, r)
    [] style = "pancake"     -> PancakeAnswer(known, this, r)
    [] style = "orca"        -> OrcaAnswer(known, this, r)
    [] style = "orcaVault"   -> OrcaVaultAnswer(known, this, r)
    [] style = "meteora"     -> MeteoraAnswer(known, this, r)
    [] style = "meteoraOpen" -> MeteoraOpenAnswer(known, this, r)
    [] style = "jupiter"     -> JupiterAnswer(known, this, r)
    [] style = "orcaSwap"    -> OrcaSwapAnswer(known, this, r)
    [] style = "payout"      -> PayoutAnswer(known, this, r)
    [] style = "janitor"     -> JanitorAnswer(known, this, r)

-----------------------------------------------------------------------------
(***************************************************************************)
(* The scripts: how they connect, which endpoints they go over.            *)
(***************************************************************************)
Script(name, style, tries, roams) ==
  [script |-> name, cmd |-> "none", pre |-> {}, checks |-> {}, late |-> {}, noop |-> FALSE,
   sizes |-> {1}, named |-> FALSE, sim |-> "none", reguard |-> FALSE, hash |-> "send",
   send |-> style, again |-> {}, builds |-> 1, tries |-> tries, roams |-> roams]

Raydium  == Script("raydium_clmm", "raydium", 2, TRUE)
Byreal   == [Script("byreal", "byreal", 2, TRUE) EXCEPT !.hash = "built"]
Pancake  == Script("pancakeswap_v3", "pancake", 3, TRUE)
OrcaKey  == Script("orca", "orca", 2, TRUE)
OrcaVault == Script("orca", "orcaVault", 2, TRUE)
Meteora  == Script("meteora_dlmm", "meteora", 2, TRUE)
Jupiter  == [Script("jupiter", "jupiter", 2, TRUE) EXCEPT !.hash = "built"]
OrcaSwap == [Script("orca_swap", "orcaSwap", 2, TRUE) EXCEPT !.hash = "built"]
Payout   == Script("payout", "payout", 1, FALSE)
Janitor  == Script("janitor", "janitor", 1, FALSE)

\* The checks of a swap on the profile's own pool: the sides and their prices
\* (swapSides), what may be sold, the plan, the quote's value and its impact.
PoolSwapChecks == {"mints", "pair", "price", "sleeve", "value", "impact"}
\* What every open wants: gas for the close, the price in the band, a deposit
\* the caps fund, the position under LPBOT_MAX_USD.
OpenChecks == {"gas", "outside", "empty", "cap"}

-----------------------------------------------------------------------------
RebuiltAfterSend(c) == [c EXCEPT !.again = {"slip", "sentSlip", "never", "sent"}, !.builds = 3]

\* raydium_clmm: rebuildOnRefusal builds harvest, close, increase and open up
\* to three times after a price refusal or NeverLanded.
Rebuilt(c) == [c EXCEPT !.again = {"slip", "sentSlip", "never"}, !.builds = 3]

RaydiumOpen ==
  Rebuilt([Raydium EXCEPT !.cmd = "open", !.sim = "dry", !.pre = {"args"},
    !.checks = OpenChecks \cup {"mints", "tick", "reserve", "rounds", "account"}])

RaydiumHarvest ==
  Rebuilt([Raydium EXCEPT !.cmd = "harvest", !.sim = "dry", !.named = TRUE, !.pre = {"args"},
    !.checks = {"mints"}, !.sizes = 1..MaxTxs])

RaydiumClose ==
  Rebuilt([Raydium EXCEPT !.cmd = "close", !.sim = "dry", !.named = TRUE, !.pre = {"args"},
    !.checks = {"mints"}, !.sizes = 1..MaxTxs])

RaydiumIncrease ==
  Rebuilt([Raydium EXCEPT !.cmd = "increase", !.sim = "dry", !.named = TRUE, !.pre = {"args"},
    !.checks = OpenChecks \cup {"mints", "reserve", "rounds"}])

RaydiumRebalance ==
  [Raydium EXCEPT !.cmd = "rebalance", !.sim = "dry", !.pre = {"args"}, !.noop = TRUE,
    !.checks = PoolSwapChecks \cup {"depth"}, !.reguard = TRUE]

\* byreal: only a simulation's price refusal is thrown, so only that is rebuilt;
\* harvest is not.
ByrealRebuilt(c) == [c EXCEPT !.again = {"slip"}, !.builds = 3]

ByrealOpen ==
  ByrealRebuilt([Byreal EXCEPT !.cmd = "open", !.sim = "both",
    !.checks = OpenChecks \cup {"tick", "other"}])

ByrealHarvest ==
  [Byreal EXCEPT !.cmd = "harvest", !.sim = "both", !.pre = {"args"}, !.named = TRUE,
    !.noop = TRUE, !.sizes = 1..MaxTxs]

ByrealClose ==
  ByrealRebuilt([Byreal EXCEPT !.cmd = "close", !.sim = "both", !.pre = {"args"},
    !.named = TRUE, !.sizes = 1..MaxTxs])

\* pancakeswap_v3: close and open are rebuilt on a price refusal not marked
\* sent: a simulation's, or a preflight's, of whichever transaction.
PancakeRebuilt(c) == [c EXCEPT !.again = {"slip"}, !.builds = 3]

PancakeOpen ==
  PancakeRebuilt([Pancake EXCEPT !.cmd = "open", !.sim = "both", !.pre = {"args"},
    !.checks = OpenChecks \cup {"tick"}, !.late = {"reserve"}])

PancakeExit(cmd) ==
  [Pancake EXCEPT !.cmd = cmd, !.sim = "both", !.pre = {"args"}, !.named = TRUE, !.sizes = 1..MaxTxs]

\* orca: one position, one transaction; no rebuilds.  With a vault the SDK only
\* builds and sendVault sends.
OrcaOpen(orca) ==
  [orca EXCEPT !.cmd = "open", !.sim = "dry", !.pre = {"adaptive"}, !.checks = {"mints", "gas", "cap"}]

OrcaHarvest(orca) == [orca EXCEPT !.cmd = "harvest", !.sim = "dry", !.checks = {"mints"}, !.named = TRUE]

OrcaClose(orca) == [orca EXCEPT !.cmd = "close", !.sim = "dry", !.checks = {"mints"}, !.named = TRUE]

OrcaRebalance ==
  [OrcaVault EXCEPT !.cmd = "rebalance", !.sim = "dry", !.pre = {"args"}, !.noop = TRUE,
    !.checks = PoolSwapChecks, !.reguard = TRUE]

\* meteora_dlmm: an open may take several transactions (a position's init,
\* resizes, deposits) and is built again once, inside the same connection.
MeteoraOpen ==
  [Meteora EXCEPT !.cmd = "open", !.sim = "dry", !.checks = OpenChecks \cup {"mints", "width"},
    !.sizes = 1..MaxTxs, !.send = "meteoraOpen", !.builds = 2]

MeteoraHarvest ==
  [Meteora EXCEPT !.cmd = "harvest", !.pre = {"args"}, !.checks = {"mints"}, !.named = TRUE,
    !.noop = TRUE, !.sizes = 1..MaxTxs]

MeteoraClose ==
  [Meteora EXCEPT !.cmd = "close", !.pre = {"args"}, !.checks = {"mints"}, !.named = TRUE, !.sizes = 1..MaxTxs]

MeteoraRebalance ==
  [Meteora EXCEPT !.cmd = "rebalance", !.sim = "dry", !.pre = {"args"}, !.noop = TRUE,
    !.checks = PoolSwapChecks \cup {"depth"}, !.reguard = TRUE]

\* What refuses a swap through Jupiter: the sizes (mint facts, sleeve, gas),
\* the quote and what the API built of it, and the checks of that before it is
\* signed, the simulated balances last.
JupiterSizes  == {"decimals", "mints", "sleeve", "rounds"}
JupiterQuote  == {"noquote", "impact", "fee", "nobuild"}
JupiterVerify == {"quote", "value", "payer", "signers", "program", "instruction", "takes", "pays", "sol"}

\* With --execute the API's own simulation and the quote's age count too.
JupiterSwap ==
  [Jupiter EXCEPT !.cmd = "swap", !.sim = "strict", !.pre = {"tokens"},
    !.checks = JupiterSizes \cup JupiterQuote \cup JupiterVerify, !.late = {"simulated", "stale"}]

JupiterRebalance ==
  [JupiterSwap EXCEPT !.cmd = "rebalance", !.pre = @ \cup {"price", "args"}, !.noop = TRUE]

\* The swap through one Orca pool, when Jupiter does not answer: the same in
\* this script's own words, every instruction of the transaction named.
OrcaSwapSizes  == {"mint", "decimals", "price", "sleeve"}
OrcaSwapQuote  == {"pool", "pair", "disabled", "quote", "value", "impact"}
OrcaSwapVerify ==
  {"payer", "signers", "lookup", "program", "instruction", "accounts", "data", "swaps", "fee", "takes", "pays", "sol"}

OrcaSwapRebalance ==
  [OrcaSwap EXCEPT !.cmd = "rebalance", !.sim = "strict", !.pre = {"args", "pool", "owner"},
    !.checks = OrcaSwapSizes \cup OrcaSwapQuote \cup OrcaSwapVerify, !.noop = TRUE,
    !.reguard = TRUE, !.late = {"nokey", "stale"}]

\* One transfer to the pinned profit wallet; a vault's goes to an approved
\* payout account, its blockhash read before HALT is looked for again.
PayoutSend ==
  [Payout EXCEPT !.cmd = "send", !.sim = "dry", !.reguard = TRUE, !.pre = {"pin", "args"},
    !.checks = {"self", "reserve", "mints", "rounds", "short"}]

PayoutVault ==
  [Payout EXCEPT !.cmd = "send", !.sim = "dry", !.reguard = TRUE, !.pre = {"pin", "args", "native"},
    !.checks = {"mints", "rounds", "account", "short"}, !.hash = "built"]

\* Closes the wallet's empty token accounts, eight a transaction.
JanitorClose ==
  [Janitor EXCEPT !.cmd = "close-empty", !.pre = {"args"}, !.checks = {"plan"}, !.noop = TRUE, !.sizes = 1..MaxTxs]

\* What each script's command line offers, and which of it is run with rebuilds.
RaydiumCommands == {RaydiumOpen, RaydiumHarvest, RaydiumClose, RaydiumIncrease, RaydiumRebalance}
ByrealCommands  == {ByrealOpen, ByrealHarvest, ByrealClose}
PancakeCommands == {PancakeOpen, PancakeExit("harvest"), PancakeRebuilt(PancakeExit("close"))}
OrcaCommands ==
  {OrcaRebalance} \cup UNION {{OrcaOpen(orca), OrcaHarvest(orca), OrcaClose(orca)} : orca \in {OrcaKey, OrcaVault}}
MeteoraCommands == {MeteoraOpen, MeteoraHarvest, MeteoraClose, MeteoraRebalance}

AllPrograms ==
  RaydiumCommands \cup ByrealCommands \cup PancakeCommands \cup OrcaCommands \cup MeteoraCommands
    \cup {JupiterSwap, JupiterRebalance, OrcaSwapRebalance, PayoutSend, PayoutVault, JanitorClose}
=============================================================================
