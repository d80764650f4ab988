-------------------------- MODULE MCTransactionGate --------------------------
(***************************************************************************)
(* TransactionGate on three tasks and one slot: one that holds it, one     *)
(* that is woken, and one that arrives in between.                         *)
(***************************************************************************)
EXTENDS TransactionGate
=============================================================================
