-------------------------- MODULE MCUploadService --------------------------
(* Model-checking instances of UploadService.                              *)
EXTENDS UploadServiceProperties, TLC

CONSTANTS f1, f2, r0, r1, r2, c1, c2

\* Files differ in nothing, nor do controls, nor do the runs that resume.
Symmetry == Permutations(Files) \cup Permutations(Controls)
              \cup Permutations(Runs \ {First})
=============================================================================
