------------------------------ MODULE Sleeves ------------------------------
(***************************************************************************)
(* How one mint of a shared wallet is divided between its profiles: the    *)
(* pure functions at the head of wallets.py.  A profile's share is called  *)
(* its view.  Amounts are integers, so the pro-rata scaling of an overdraw *)
(* rounds down where the code keeps a float.                               *)
(***************************************************************************)
EXTENDS Integers, Functions

\* wallets.claim_after: a claim is floored at 0; what would have gone below
\* is the overdraw, reported and never booked.
ClaimAfterUnfloored(claim, delta) == claim + delta
ClaimAfter(claim, delta) == IF claim + delta >= 0 THEN claim + delta ELSE 0

\* What everybody but the holder of the residual claims of the mint.
Wanted(holder, claims) == SumFunctionOnSet(claims, DOMAIN claims \ {holder})

\* wallets.split for a shared mint with a holder: claims when the wallet
\* covers them, the rest to the holder; else the claims scaled down pro rata
\* and nothing to the holder.
Split(total, holder, claims) ==
  LET want == Wanted(holder, claims)
      share(p) == IF want <= total THEN claims[p] ELSE (claims[p] * total) \div want
      rest == IF want <= total THEN total - want ELSE 0
  IN  [p \in DOMAIN claims |-> IF p = holder THEN rest ELSE share(p)]
=============================================================================
