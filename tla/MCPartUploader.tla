--------------------------- MODULE MCPartUploader ---------------------------
(* Model-checking instance of PartUploader: seven bytes in parts of two,   *)
(* so four parts with a short last one, two slots.                         *)
EXTENDS PartUploader
=============================================================================
