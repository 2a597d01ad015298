------------------------------ MODULE PartBatch ------------------------------
(***************************************************************************)
(* What one call of uploadParts promises its caller, without goroutines,   *)
(* channels or semaphores: parts are recorded in the database and never    *)
(* forgotten, the call answers once, and the answer nil means that every   *)
(* part of the file is recorded.  PartUploader is shown to implement it.   *)
(***************************************************************************)
CONSTANT Parts

VARIABLES
  saved,     \* the parts in the upload's database row
  outcome    \* "none" while the call runs, then "nil" or "error"

batchVars == <<saved, outcome>>

Init == /\ saved \in SUBSET Parts
        /\ outcome = "none"

\* One database write may record several parts: those of an earlier write that
\* failed are still in the upload the collector holds.
Save == /\ outcome = "none"
        /\ saved' \in SUBSET Parts
        /\ saved \subseteq saved'
        /\ UNCHANGED outcome

Succeed == /\ outcome = "none"
           /\ saved = Parts
           /\ outcome' = "nil"
           /\ UNCHANGED saved

\* The write that records the failure carries the parts collected so far.
GiveUp == /\ outcome = "none"
          /\ outcome' = "error"
          /\ saved' \in SUBSET Parts
          /\ saved \subseteq saved'

Next == Save \/ Succeed \/ GiveUp

Spec == Init /\ [][Next]_batchVars

=============================================================================
