--------------------------- MODULE MCWalletClaims ---------------------------
(* WalletClaims for TLC: a holder and two claimers, one unit moved at a time. *)
EXTENDS WalletClaims, TLC

CONSTANTS h, a, b

MCProfiles == {h, a, b}
MCPair == {h, a}
MCPairFunds == [p \in MCPair |-> 1]
MCAmounts == {-1, 1}
MCDonations == {1}
MCSpends == {-1}
NoDonations == {}
MCFunds == [p \in MCProfiles |-> 1]
\* Bound: one profile reads the wallet at a time (a read changes nothing the
\* others see; it still interleaves with every step of their writes).
OneReader == Cardinality({p \in Profiles : pc[p] \in {"marked", "read", "claimed", "viewed"}}) <= 1
\* Bound: a behaviour is not followed past a lost signature or an outside
\* transfer inside a write, of which most properties claim nothing.
Bounds == Accountable /\ OneReader
Symmetry == Permutations({a, b})
=============================================================================
