---------------------------- MODULE SleeveLedger ----------------------------
(***************************************************************************)
(* What a shared wallet promises its profiles (the head of wallets.py):    *)
(* each has funds of its own, a write moves its own profile's and nobody   *)
(* else's, and what arrives from outside is the residual holder's.         *)
(***************************************************************************)
EXTENDS Integers

CONSTANTS Profiles, Residual, Amounts, Donations, InitFunds

VARIABLE funds
vars == <<funds>>

Init == funds = InitFunds

Write(p) == \E d \in Amounts : funds' = [funds EXCEPT ![p] = @ + d]
Receive == \E d \in Donations : funds' = [funds EXCEPT ![Residual] = @ + d]

Next == Receive \/ \E p \in Profiles : Write(p)

Spec == Init /\ [][Next]_vars
=============================================================================
