--------------------------- MODULE MCFilingMonitor ---------------------------
(* Bounded instance of FilingMonitor. *)
EXTENDS FilingMonitor
=============================================================================
