-------------------------- MODULE MCOperationLedger --------------------------
(* The instance of OperationLedger for TLC.                                *)
EXTENDS OperationLedger
=============================================================================
