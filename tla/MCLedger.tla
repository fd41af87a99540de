------------------------------ MODULE MCLedger ------------------------------
(***************************************************************************)
(* A small instance of Ledger.                                             *)
(***************************************************************************)
EXTENDS Ledger
============================================================================
