------------------------------ MODULE MCGraphLoad ------------------------------
(* Two openings: one that is aborted, and one that could come after it.       *)
EXTENDS GraphLoad
=============================================================================
