-------------------------- MODULE MCProgressStream --------------------------
(* Model-checking instance of ProgressStream.                              *)
EXTENDS ProgressStream
CONSTANTS u1, u2
=============================================================================
