---------------------- MODULE UploadServiceProperties ----------------------
(***************************************************************************)
(* What is asked of UploadService: the type invariant, the invariants that *)
(* hold whatever clients do, the properties that hold for a careful client, *)
(* and the promises of the documentation that the code does not keep.      *)
(***************************************************************************)
EXTENDS UploadService

Worker  == [pc : WorkPc, mpu : RunIds, parts : SUBSET Parts, out : SUBSET Parts,
            got : SUBSET Parts, err : BOOLEAN]
RunRec  == [pc : RunPc, stream : BOOLEAN, ctx : BOOLEAN, status : Status]
Control == [kind : {"pause", "cancel"}, pc : CtlPc, todo : SUBSET Files,
            cur : Files \cup {None}, snap : [Files -> Row]]

TypeOK == /\ proc \in Status \cup {"ABSENT"}
          /\ row \in [Files -> Row]
          /\ mpu \in [Runs -> [Files -> MpuState]]
          /\ run \in [Runs -> RunRec]
          /\ work \in [Runs -> [Files -> Worker]]
          /\ cancelFn \in RunIds
          /\ ctl \in [Controls -> Control]
          /\ crashes \in Nat

-----------------------------------------------------------------------------
(* Whatever clients do.                                                    *)

\* A row names a multipart upload only with parts that it received, whoever
\* wrote the row last and from however old a copy: a resume, after a pause or a
\* crash, skips no part that was not uploaded (whole-record updates of the
\* workers, of PauseProcess and of CancelProcess).
RecordedPartsAreStored ==
  \A f \in Files : row[f].mpu # None =>
    /\ Created(row[f].mpu, f)
    /\ row[f].parts \subseteq mpu[row[f].mpu][f].parts

\* An upload is COMPLETED in the database only when the storage assembled it
\* from all its parts, also after crashes, retries and overlapping calls
\* (executeUpload: complete, verify, then write).
CompletedIsAssembled ==
  \A f \in Files : row[f].status = "COMPLETED" =>
    /\ row[f].mpu # None /\ row[f].parts = Parts
    /\ mpu[row[f].mpu][f].state = "completed"
    /\ mpu[row[f].mpu][f].parts = Parts

\* cancelFuncs never holds the function of a call that has returned, however
\* calls for the same process overlap (registerCancel, unregisterCancel).
RegisteredRunIsActive == cancelFn # None => RunActive(cancelFn)

\* Every upload and every resume returns while the storage and the database
\* answer: also when a pause or a cancel stops its workers while the launching loop
\* waits for one of their slots (UploadFolder, the semaphore given back by a
\* deferred receive).
RunsReturn == \A r \in Runs : RunActive(r) ~> ~RunActive(r)

\* The inductive invariant behind the three invariants above.  Every copy of an
\* upload, in the table, in a worker or in the list a control has read, names a
\* multipart upload that exists and holds the copy's parts; a worker past
\* uploadParts has every part, and one past CompleteMultipartUpload has them
\* assembled.
Holds(store, m, f, parts) ==
  IF m = None THEN parts = {}
  ELSE store[m][f].state # "none" /\ parts \subseteq store[m][f].parts

Assembled(store, m, f) == m # None /\ store[m][f].state = "completed"

RowOK(store, f, u) ==
  /\ Holds(store, u.mpu, f, u.parts)
  /\ u.status = "COMPLETED" => Assembled(store, u.mpu, f) /\ u.parts = Parts

WorkerOK(store, f, w) ==
  /\ Holds(store, w.mpu, f, w.parts \cup w.got)
  /\ w.pc = "init" => w.mpu = None
  /\ w.pc \in {"saveMpu", "open", "parts", "complete", "head", "finish"}
       => w.mpu # None
  /\ w.pc = "parts" /\ ~w.err => w.parts \cup w.out \cup w.got = Parts
  /\ w.pc \in {"complete", "head", "finish"} => w.parts = Parts
  /\ w.pc \in {"head", "finish"} => Assembled(store, w.mpu, f)

RegistrationOK ==
  cancelFn # None =>
    run[cancelFn].pc \in {"marking", "working", "deriving", "writing", "leaving"}

IInv == /\ TypeOK
        /\ RegistrationOK
        /\ \A f \in Files : RowOK(mpu, f, row[f])
        /\ \A r \in Runs, f \in Files : WorkerOK(mpu, f, work[r][f])
        /\ \A c \in Controls, f \in Files :
             Holds(mpu, ctl[c].snap[f].mpu, f, ctl[c].snap[f].parts)

-----------------------------------------------------------------------------
(* For a careful client.                                                   *)

\* A process shown as PAUSED, with no call about to change it, has no worker
\* whose context lives: the pause reached every worker, also one that was
\* waiting for its slot, and no answer of the storage restarts one.
PausedMeansStopped ==
  /\ proc = "PAUSED"
  /\ \A c \in Controls : ~CtlActive(c)
  /\ \A r \in Runs : run[r].pc \notin {"resuming", "listing", "registering"}
  => \A r \in Runs : RunActive(r) /\ run[r].pc = "working" => ~run[r].ctx

\* A COMPLETED process has every upload it created COMPLETED, hence assembled:
\* no call changes an upload after the process's status was derived from it.
CompletedProcessIsComplete ==
  proc = "COMPLETED" => Statuses = {"COMPLETED"}

\* A CANCELLED process has nothing left to do: every upload of it is terminal
\* and no late write of a worker brings one back.
CancelledProcessIsOver ==
  proc = "CANCELLED" => \A s \in Statuses : IsTerminal(s)

\* The rows of the uploads keep the promise of the abstract lifecycle.
Lifecycle == INSTANCE UploadLifecycle WITH
               status <- [f \in Files |-> row[f].status],
               saved  <- [f \in Files |-> row[f].parts]
ImplementsLifecycle == Lifecycle!Spec

\* The inductive invariant behind the four properties above.  One call at a time
\* works on the process: a resume only follows a run that has returned, and a
\* pause or a cancel, once it has called the cancel function, finds no worker
\* whose context lives.  So the copies agree with the table where it matters: a
\* worker's while its context lives, and a control's of the rows it has still to
\* write.
OneAtATime ==
  /\ \A r, q \in Runs : RunActive(r) /\ RunActive(q) => r = q
  /\ \A c, d \in Controls : CtlActive(c) /\ CtlActive(d) => c = d
  /\ \A c \in Controls, r \in Runs : CtlActive(c) /\ RunActive(r) =>
       run[r].pc \in {"working", "deriving", "writing", "leaving"}

\* Where a run is, and what that says of the process and of cancelFuncs.
Works(r) == run[r].pc = "working" /\ run[r].ctx

RunOK(r) ==
  /\ run[r].pc \in {"creating", "marking"} => r = First /\ proc = "PENDING"
  /\ run[r].pc \in {"resuming", "listing", "registering"} => r # First
  /\ run[r].pc \in {"listing", "registering"} \/ Works(r) => proc = "IN_PROGRESS"
  /\ run[r].pc \in {"marking", "working", "deriving", "writing", "leaving"}
       => cancelFn = r
  /\ run[r].pc = "writing" /\ run[r].status = "COMPLETED"
       => Statuses = {"COMPLETED"}
  /\ run[r].pc = "writing" /\ run[r].status = "CANCELLED"
       => \A s \in Statuses : IsTerminal(s)
  /\ \A f \in Files : Busy(r, f) => run[r].pc = "working"

\* The uploads of a process that has not got its rows yet.
UncreatedOK ==
  /\ proc = "ABSENT" => Quiet
  /\ run[First].pc = "idle" =>
       proc = "ABSENT" /\ \A f \in Files : work[First][f].pc = "off"
  /\ run[First].pc \in {"idle", "creating"} =>
       \A f \in Files : work[First][f].pc = "off" => row[f] = AbsentRow

\* The row u of an upload whose worker, with the copy w, may still write it.
SyncRow(u, w) ==
  /\ w.pc \in {"queued", "begin"} =>
       u.status \in {"PENDING", "PAUSED"} /\ u.parts \subseteq w.parts
  /\ w.pc \notin {"off", "queued", "begin", "ok", "err"} =>
       u.status = "IN_PROGRESS" /\ u.parts \subseteq w.parts

MayWrite(r) == run[r].pc \in {"creating", "marking", "registering"} \/ Works(r)

SyncOK ==
  \A r \in Runs, f \in Files : MayWrite(r) => SyncRow(row[f], work[r][f])

ControlOK(c) ==
  /\ ctl[c].pc \in {"listing", "updating"} => \A r \in Runs : ~Works(r)
  /\ ctl[c].pc = "updating" =>
       /\ \A f \in ctl[c].todo : /\ row[f] = ctl[c].snap[f]
                                 /\ f \in Affected(ctl[c].kind)
       /\ ctl[c].kind = "cancel" => Affected("cancel") \subseteq ctl[c].todo

CarefulIInv == /\ IInv
               /\ OneAtATime
               /\ \A r \in Runs : RunOK(r)
               /\ UncreatedOK
               /\ SyncOK
               /\ \A c \in Controls : ControlOK(c)
               /\ CompletedProcessIsComplete /\ CancelledProcessIsOver

-----------------------------------------------------------------------------
(* Promises the code does not keep.                                        *)

\* proto, CancelProcess: cancels a process and aborts all associated multipart
\* uploads on the storage provider.
CancelAbortsAll ==
  proc = "CANCELLED" /\ Quiet => \A r \in Runs, f \in Files : ~Open(r, f)

\* ADR-004: pause and resume work reliably via persisted state.  Nothing fails
\* here, so a process that is only paused and resumed has no FAILED upload.
PauseResumeNeverFails == \A f \in Files : row[f].status # "FAILED"

\* status.go: FAILED, COMPLETED and CANCELLED have no valid next status.
TerminalProcessStays == [][IsTerminal(proc) => proc' = proc]_vars

=============================================================================
