--------------------------- MODULE MCProcessPages ---------------------------
(* Model-checking instance of ProcessPages.                                *)
EXTENDS ProcessPages
CONSTANTS c1, c2
=============================================================================
