---------------------------- MODULE UploadDomain ----------------------------
(***************************************************************************)
(* The pure part of FileGuardian's domain layer: the statuses of an upload *)
(* and of a process, the transitions between them (valueobject/status.go), *)
(* the status a process derives from its uploads (entity/process.go) and   *)
(* the helpers of an upload's multipart state (entity/upload.go).          *)
(*                                                                         *)
(* Operators only, none of them recursive: the modules with state EXTEND   *)
(* this one and their proofs expand its definitions.                       *)
(***************************************************************************)
EXTENDS Integers, FiniteSets

Status ==
  {"PENDING", "IN_PROGRESS", "PAUSED", "COMPLETED", "FAILED", "CANCELLED"}

\* Nothing leaves FAILED, COMPLETED and CANCELLED.
validTransitions ==
  [s \in Status |->
     CASE s = "PENDING"     -> {"IN_PROGRESS", "CANCELLED"}
       [] s = "IN_PROGRESS" -> {"COMPLETED", "FAILED", "PAUSED", "CANCELLED"}
       [] s = "PAUSED"      -> {"IN_PROGRESS", "CANCELLED"}
       [] OTHER             -> {}]

CanTransitionTo(s, next) == next \in validTransitions[s]

IsTerminal(s) == s \in {"COMPLETED", "FAILED", "CANCELLED"}

IsPausable(s)    == s = "IN_PROGRESS"
IsResumable(s)   == s = "PAUSED"
IsCancellable(s) == s \in {"IN_PROGRESS", "PAUSED", "PENDING"}

\* Mistake: StatusPaused and StatusPending do not clear allCompleted.
DeriveIgnoringUnfinished(S) ==
  IF S = {}                     THEN "PENDING"
  ELSE IF "IN_PROGRESS" \in S    THEN "IN_PROGRESS"
  ELSE IF "COMPLETED" \in S      THEN "COMPLETED"
  ELSE IF S = {"CANCELLED"}       THEN "CANCELLED"
  ELSE IF "PAUSED" \in S         THEN "PAUSED"
  ELSE IF "FAILED" \in S /\ "PENDING" \notin S THEN "FAILED"
  ELSE "IN_PROGRESS"

\* The status of a process whose uploads have the statuses in the set S.  The
\* Go code folds the list into flags: each of them depends on S alone.
DeriveProcessStatus(S) ==
  IF S = {}                 THEN "PENDING"
  ELSE IF "IN_PROGRESS" \in S THEN "IN_PROGRESS"
  ELSE IF S = {"COMPLETED"}   THEN "COMPLETED"
  ELSE IF S = {"CANCELLED"}   THEN "CANCELLED"
  ELSE IF "PAUSED" \in S      THEN "PAUSED"
  ELSE IF "FAILED" \in S /\ "PENDING" \notin S THEN "FAILED"
  ELSE "IN_PROGRESS"

\* The parts among 1..totalParts that an upload has not completed yet.
PendingPartNumbers(completed, totalParts) == (1 .. totalParts) \ completed

=============================================================================
