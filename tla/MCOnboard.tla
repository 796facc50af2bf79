----------------------------- MODULE MCOnboard -----------------------------
(***************************************************************************)
(* Two pages of one owner; then the vault's life, with a venue the bot had *)
(* at its set-up and one added later.                                      *)
(***************************************************************************)
EXTENDS VaultSystem

MCBudgets == {[faults |-> 3, visits |-> 0], [faults |-> 0, visits |-> 1], [faults |-> 0, visits |-> 0]}
MCSpares == {[faults |-> 0, flows |-> 0], [faults |-> 1, flows |-> 2], [faults |-> 2, flows |-> 1]}
=============================================================================
