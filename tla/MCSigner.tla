----------------------------- MODULE MCSigner -----------------------------
(***************************************************************************)
(* Instances of Signer for TLC.                                            *)
(***************************************************************************)
EXTENDS Signer

MCPrograms == AllPrograms
MCPayouts  == {PayoutSend, PayoutVault}
=============================================================================
