------------------------------ MODULE MCLedger ------------------------------
(***************************************************************************)
(* Small instances of Ledger for TLC.  Requests are interchangeable; no    *)
(* definition picks one by CHOOSE.                                         *)
(***************************************************************************)
EXTENDS Ledger, TLC

MCAmounts == {1}

RequestSymmetry == Permutations(Requests)
=============================================================================
