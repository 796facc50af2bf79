---------------------------- MODULE VaultSystem ----------------------------
(***************************************************************************)
(* A vault from its owner's form to its last withdrawal: the request until *)
(* it is registered (Onboard), then the vault's life (VaultLife), which    *)
(* begins as its page starts the bot.  Where the bounds leave the owner no *)
(* flow, only the request is explored.                                     *)
(***************************************************************************)
EXTENDS Onboard

CONSTANTS Venues, Staged, Spares

ASSUME LifeAssumption ==
  /\ IsFiniteSet(Venues) /\ Staged \subseteq Venues /\ Staged # Venues
  /\ Spares \subseteq [faults : Nat, flows : Nat]

VARIABLES policy, pos, idle, txs, home, bot, exit, tab, start, spare, told

life == <<policy, pos, idle, txs, home, bot, exit, tab, start, spare, told>>
Life == INSTANCE VaultLife

\* A bound: what goes wrong, goes wrong before the registration or after it.
SystemInit ==
  /\ Init /\ Life!Init
  /\ spare.flows = 0 \/ left = [faults |-> 0, visits |-> 0]

RequestStep == Next /\ UNCHANGED life

\* No policy names the bot, and no page offers a flow, before the vault is
\* registered and its page says so.
LifeStep ==
  /\ row.state = "registered" /\ page[Keeps].pc = "ready"
  /\ Life!Next
  /\ UNCHANGED vars

SystemSpec ==
  /\ SystemInit /\ [][RequestStep \/ LifeStep]_<<vars, life>>
  /\ Fairness

(***************************************************************************)
(* Properties                                                              *)
(***************************************************************************)
\* The request, its pages and the chain, then the vault's bot and its owner's
\* flows, keep their types.
TypesOK == TypeOK /\ Life!TypeOK

\* "The bot can no longer act on your vault": VaultLife's property.
RevokedStays == Life!RevokedStays

\* "Closed into your vault; the bot stopped": VaultLife's property.
StaysClosed == Life!StaysClosed
=============================================================================
