------------------------------- MODULE MCHealth -------------------------------
(***************************************************************************)
(* Health on two slots: four callers and no monitor, which is the gate by  *)
(* itself with a line of two whose head and tail can each be cancelled     *)
(* before or after it is woken; and two callers with a monitor.            *)
(***************************************************************************)
EXTENDS Health
=============================================================================
