---------------------------- MODULE UploadService ----------------------------
(***************************************************************************)
(* One process of FileGuardian from its creation to its end: the calls of  *)
(* UploadFile, UploadFolder and ResumeProcess (the runs), their workers    *)
(* (executeUpload), the calls of PauseProcess and CancelProcess (the       *)
(* controls), the two tables, the map cancelFuncs and the storage provider. *)
(*                                                                         *)
(* A step is one access to something shared: a statement of the database,  *)
(* a request to the storage, a critical section of UploadService.mu.  The  *)
(* database has a single connection, so statements are atomic, and         *)
(* database/sql refuses a statement whose context is cancelled.  What a    *)
(* call computes between two accesses is part of the step that follows or  *)
(* precedes.  Processes share no row and no entry of cancelFuncs, so one   *)
(* process is enough.                                                      *)
(***************************************************************************)
EXTENDS UploadDomain, MultipartStore

CONSTANTS
  First,         \* the run that is UploadFile or UploadFolder; the others resume
  Folder,        \* TRUE: UploadFolder, FALSE: UploadFile of a single file
  Controls,      \* the calls of PauseProcess and CancelProcess
  MaxWorkers,    \* capacity of the workers' semaphore: s.maxWorkers
  None,          \* no run: an empty MultipartUploadID, no entry in cancelFuncs
  Faults,        \* whether storage, files and database may fail
  Disconnects,   \* whether a client may drop its stream
  MaxCrashes,    \* bound on the crashes of the server
  Careful        \* see CarefulResume, CarefulControl

ASSUME RunsAssumption    == First \in Runs /\ None \notin Runs
ASSUME FilesAssumption   == IsFiniteSet(Files) /\ (~Folder => Cardinality(Files) = 1)
ASSUME WorkersAssumption == MaxWorkers \in Nat \ {0}
ASSUME FlagsAssumption   == {Folder, Faults, Disconnects, Careful} \subseteq BOOLEAN
ASSUME CrashesAssumption == MaxCrashes \in Nat

VARIABLES
  proc,      \* status in the process's row, "ABSENT" before it is inserted
  row,       \* the uploads table: status, multipart upload ID, completed parts
  run,       \* per run: where it is, whether its stream and its uploadCtx live,
             \* and the status it is about to write
  work,      \* per run and file: its worker and the worker's copy of the upload
  cancelFn,  \* the run whose cancel function cancelFuncs holds
  ctl,       \* per control: its kind, where it is, and the list it has read
  crashes

vars == <<proc, row, mpu, run, work, cancelFn, ctl, crashes>>

RunIds == Runs \cup {None}
Row    == [status : Status \cup {"ABSENT"}, mpu : RunIds, parts : SUBSET Parts]

RunPc  == {"idle", "creating", "resuming", "listing", "registering", "marking",
           "working", "deriving", "writing", "leaving", "returned"}
WorkPc == {"off", "queued", "begin", "init", "saveMpu", "open", "parts",
           "complete", "head", "finish", "fail", "ok", "err"}
CtlPc  == {"idle", "signal", "listing", "updating", "returned", "failed"}

Idle      == [pc |-> "off", mpu |-> None, parts |-> {}, out |-> {}, got |-> {},
              err |-> FALSE]
AbsentRow == [status |-> "ABSENT", mpu |-> None, parts |-> {}]

Init ==
  /\ proc = "ABSENT"
  /\ row = [f \in Files |-> AbsentRow]
  /\ MpuInit
  /\ run = [r \in Runs |-> [pc |-> "idle", stream |-> TRUE, ctx |-> FALSE,
                            status |-> "PENDING"]]
  /\ work = [r \in Runs |-> [f \in Files |-> Idle]]
  /\ cancelFn = None
  /\ ctl = [c \in Controls |->
              [kind |-> "pause", pc |-> "idle", todo |-> {}, cur |-> None,
               snap |-> [f \in Files |-> AbsentRow]]]
  /\ crashes = 0

-----------------------------------------------------------------------------
(* Who is doing what.                                                      *)

RunActive(r) == run[r].pc \notin {"idle", "returned"}
CtlActive(c) == ctl[c].pc \in {"signal", "listing", "updating"}
Quiet        == (\A r \in Runs : ~RunActive(r)) /\ (\A c \in Controls : ~CtlActive(c))

Waiting(r, f) == work[r][f].pc = "queued"
Busy(r, f)    == work[r][f].pc \notin {"off", "queued", "ok", "err"}
Statuses      == {row[f].status : f \in Files} \ {"ABSENT"}

\* A statement through a live context succeeds, unless the database fails.
DbOutcomes(live) == IF ~live THEN {FALSE} ELSE IF Faults THEN BOOLEAN ELSE {TRUE}

\* A request to the storage may fail: the provider fails, or the context is
\* cancelled; it may have taken effect all the same.
MayFail(r) == Faults \/ ~run[r].ctx

\* A careful client does one thing at a time: no request while a pause or a
\* cancel runs, no resume while an earlier call still streams, and no pause or
\* cancel before the call it is about has sent its first progress message.
Begun(r) == \/ run[r].pc \in {"deriving", "writing", "leaving"}
            \/ /\ run[r].pc = "working"
               /\ \E f \in Files : work[r][f].pc \notin {"off", "queued", "begin"}
CarefulResume  == Careful => Quiet
CarefulControl == Careful => /\ \A c \in Controls : ~CtlActive(c)
                             /\ \A r \in Runs : RunActive(r) => Begun(r)

-----------------------------------------------------------------------------
(* UploadFile and UploadFolder up to their workers.                        *)

GoTo(r, pc) == run' = [run EXCEPT ![r].pc = pc]

CreateProcess ==
  /\ run[First].pc = "idle" /\ proc = "ABSENT"
  /\ proc' = "PENDING"
  /\ GoTo(First, "creating")
  /\ UNCHANGED <<row, mpu, work, cancelFn, ctl, crashes>>

Uncreated == {f \in Files : work[First][f].pc = "off"}

CreateUpload(f) ==
  /\ run[First].pc = "creating" /\ run[First].stream /\ f \in Uncreated
  /\ row' = [row EXCEPT ![f].status = "PENDING"]
  /\ work' = [work EXCEPT ![First][f].pc = "queued"]
  /\ UNCHANGED <<proc, mpu, run, cancelFn, ctl, crashes>>

\* UploadFolder leaves out a file it cannot stat or read.
SkipFile(f) ==
  /\ run[First].pc = "creating" /\ Folder /\ Faults /\ f \in Uncreated
  /\ work' = [work EXCEPT ![First][f].pc = "err"]
  /\ UNCHANGED <<proc, row, mpu, run, cancelFn, ctl, crashes>>

\* The insertion fails: the call returns with the uploads created so far.
CreateFails ==
  /\ run[First].pc = "creating" /\ Uncreated # {}
  /\ FALSE \in DbOutcomes(run[First].stream)
  /\ GoTo(First, "returned")
  /\ UNCHANGED <<proc, row, mpu, work, cancelFn, ctl, crashes>>

\* Mistake: ResumeProcess does not register its cancel function.
RegisterUploadOnly(r) ==
  /\ \/ run[r].pc = "creating" /\ Uncreated = {}
     \/ run[r].pc = "registering"
  /\ cancelFn' = IF r = First THEN r ELSE cancelFn
  /\ run' = [run EXCEPT ![r].ctx = run[r].stream,
                        ![r].pc = IF r = First THEN "marking" ELSE "working"]
  /\ UNCHANGED <<proc, row, mpu, work, ctl, crashes>>

\* registerCancel: uploadCtx is a child of the stream's context.
RegisterCancel(r) ==
  /\ \/ run[r].pc = "creating" /\ Uncreated = {}
     \/ run[r].pc = "registering"
  /\ cancelFn' = r
  /\ run' = [run EXCEPT ![r].ctx = run[r].stream,
                        ![r].pc = IF r = First THEN "marking" ELSE "working"]
  /\ UNCHANGED <<proc, row, mpu, work, ctl, crashes>>

MarkInProgress ==
  /\ run[First].pc = "marking"
  /\ \E ok \in DbOutcomes(run[First].stream) :
       /\ proc' = IF ok THEN "IN_PROGRESS" ELSE proc
       /\ GoTo(First, IF ok THEN "working" ELSE "leaving")
  /\ UNCHANGED <<row, mpu, work, cancelFn, ctl, crashes>>

-----------------------------------------------------------------------------
(* ResumeProcess up to its workers.  A call that is refused changes nothing. *)

StartResume(r) ==
  /\ r # First /\ run[r].pc = "idle" /\ IsResumable(proc)
  /\ CarefulResume
  /\ GoTo(r, "resuming")
  /\ UNCHANGED <<proc, row, mpu, work, cancelFn, ctl, crashes>>

WriteResumed(r) ==
  /\ run[r].pc = "resuming"
  /\ \E ok \in DbOutcomes(run[r].stream) :
       /\ proc' = IF ok THEN "IN_PROGRESS" ELSE proc
       /\ GoTo(r, IF ok THEN "listing" ELSE "returned")
  /\ UNCHANGED <<row, mpu, work, cancelFn, ctl, crashes>>

ListForResume(r) ==
  /\ run[r].pc = "listing"
  /\ \E ok \in DbOutcomes(run[r].stream) :
       /\ GoTo(r, IF ok THEN "registering" ELSE "returned")
       /\ work' = IF ~ok THEN work ELSE
            [work EXCEPT ![r] = [f \in Files |->
               IF row[f].status \in {"PAUSED", "PENDING"}
               THEN [Idle EXCEPT !.pc = "queued", !.mpu = row[f].mpu,
                                 !.parts = row[f].parts]
               ELSE Idle]]
  /\ UNCHANGED <<proc, row, mpu, cancelFn, ctl, crashes>>

-----------------------------------------------------------------------------
(* The workers.                                                            *)

\* Mistake: a worker that ends with an error does not give its slot back.
LaunchBehindFailed(r, f) ==
  /\ run[r].pc = "working" /\ Waiting(r, f)
  /\ Cardinality({e \in Files : Busy(r, e) \/ work[r][e].pc = "err"}) < MaxWorkers
  /\ work' = [work EXCEPT ![r][f].pc = "begin"]
  /\ UNCHANGED <<proc, row, mpu, run, cancelFn, ctl, crashes>>

\* The launching loop blocks while MaxWorkers workers run, cancelled or not.
Launch(r, f) ==
  /\ run[r].pc = "working" /\ Waiting(r, f)
  /\ Cardinality({e \in Files : Busy(r, e)}) < MaxWorkers
  /\ work' = [work EXCEPT ![r][f].pc = "begin"]
  /\ UNCHANGED <<proc, row, mpu, run, cancelFn, ctl, crashes>>

\* uploadRepo.Update: the whole record, as the worker holds it in w.
Record(f, ok, st, w) ==
  row' = IF ok THEN [row EXCEPT ![f] = [status |-> st, mpu |-> w.mpu,
                                        parts |-> w.parts]]
               ELSE row
Become(r, f, w) == work' = [work EXCEPT ![r][f] = w]
At(r, f, pc)    == work[r][f].pc = pc

\* Mistake: a resumed upload gets a new multipart upload, and keeps its parts.
BeginAnew(r, f) ==
  /\ At(r, f, "begin")
  /\ \E ok \in DbOutcomes(run[r].ctx) :
       /\ Record(f, ok, "IN_PROGRESS", work[r][f])
       /\ Become(r, f, [work[r][f] EXCEPT !.pc = IF ok THEN "init" ELSE "err"])
  /\ UNCHANGED <<proc, mpu, run, cancelFn, ctl, crashes>>

\* Mistake: a resumed upload starts again from its first part.
BeginFromFirstPart(r, f) ==
  /\ At(r, f, "begin")
  /\ \E ok \in DbOutcomes(run[r].ctx) :
       LET w == [work[r][f] EXCEPT !.parts = {}] IN
       /\ Record(f, ok, "IN_PROGRESS", w)
       /\ Become(r, f, [w EXCEPT !.pc = IF ~ok THEN "err"
                                        ELSE IF w.mpu = None THEN "init" ELSE "open"])
  /\ UNCHANGED <<proc, mpu, run, cancelFn, ctl, crashes>>

Begin(r, f) ==
  /\ At(r, f, "begin")
  /\ \E ok \in DbOutcomes(run[r].ctx) :
       LET w == work[r][f] IN
       /\ Record(f, ok, "IN_PROGRESS", w)
       /\ Become(r, f, [w EXCEPT !.pc = IF ~ok THEN "err"
                                        ELSE IF w.mpu = None THEN "init" ELSE "open"])
  /\ UNCHANGED <<proc, mpu, run, cancelFn, ctl, crashes>>

InitMultipart(r, f) ==
  /\ At(r, f, "init") /\ run[r].ctx
  /\ CreateMpu(r, f)
  /\ Become(r, f, [work[r][f] EXCEPT !.pc = "saveMpu", !.mpu = r])
  /\ UNCHANGED <<proc, row, run, cancelFn, ctl, crashes>>

InitFails(r, f) ==
  /\ At(r, f, "init") /\ MayFail(r)
  /\ CreateMpu(r, f) \/ UNCHANGED mpu
  /\ Become(r, f, [work[r][f] EXCEPT !.pc = "fail"])
  /\ UNCHANGED <<proc, row, run, cancelFn, ctl, crashes>>

SaveMultipartID(r, f) ==
  /\ At(r, f, "saveMpu")
  /\ \E ok \in DbOutcomes(run[r].ctx) :
       LET w == work[r][f] IN
       /\ Record(f, ok, "IN_PROGRESS", w)
       /\ Become(r, f, [w EXCEPT !.pc = IF ok THEN "open" ELSE "err"])
  /\ UNCHANGED <<proc, mpu, run, cancelFn, ctl, crashes>>

OpenFile(r, f) ==
  /\ At(r, f, "open")
  /\ LET w == work[r][f] IN
       \/ Become(r, f, [w EXCEPT !.pc = "parts", !.out = Parts \ w.parts])
       \/ Faults /\ Become(r, f, [w EXCEPT !.pc = "fail"])
  /\ UNCHANGED <<proc, row, mpu, run, cancelFn, ctl, crashes>>

(* uploadParts, whose goroutines PartUploader details: out is the parts no  *)
(* result has come for, got the results the collector has not received.    *)
PartStored(r, f, p) ==
  /\ At(r, f, "parts") /\ p \in work[r][f].out
  /\ run[r].ctx /\ ~work[r][f].err
  /\ StorePart(work[r][f].mpu, f, p)
  /\ Become(r, f, [work[r][f] EXCEPT !.out = @ \ {p}, !.got = @ \cup {p}])
  /\ UNCHANGED <<proc, row, run, cancelFn, ctl, crashes>>

\* Mistake: the error of a part is ignored by the collector.
PartFailsUnnoticed(r, f, p) ==
  /\ At(r, f, "parts") /\ p \in work[r][f].out
  /\ MayFail(r) \/ work[r][f].err \/ ~Open(work[r][f].mpu, f)
  /\ StorePart(work[r][f].mpu, f, p) \/ UNCHANGED mpu
  /\ Become(r, f, [work[r][f] EXCEPT !.out = @ \ {p}, !.got = @ \cup {p}])
  /\ UNCHANGED <<proc, row, run, cancelFn, ctl, crashes>>

PartFails(r, f, p) ==
  /\ At(r, f, "parts") /\ p \in work[r][f].out
  /\ MayFail(r) \/ work[r][f].err \/ ~Open(work[r][f].mpu, f)
  /\ StorePart(work[r][f].mpu, f, p) \/ UNCHANGED mpu
  /\ Become(r, f, [work[r][f] EXCEPT !.out = @ \ {p}, !.err = TRUE])
  /\ UNCHANGED <<proc, row, run, cancelFn, ctl, crashes>>

CollectPart(r, f, p) ==
  /\ At(r, f, "parts") /\ p \in work[r][f].got
  /\ \E ok \in DbOutcomes(run[r].ctx) :
       LET w == [work[r][f] EXCEPT !.got = @ \ {p}, !.parts = @ \cup {p},
                                   !.err = @ \/ ~ok]
       IN  Record(f, ok, "IN_PROGRESS", w) /\ Become(r, f, w)
  /\ UNCHANGED <<proc, mpu, run, cancelFn, ctl, crashes>>

\* Mistake: uploadParts returns nil when every goroutine has answered.
PartsEndAlwaysNil(r, f) ==
  /\ At(r, f, "parts") /\ work[r][f].out = {} /\ work[r][f].got = {}
  /\ Become(r, f, [work[r][f] EXCEPT !.pc = "complete"])
  /\ UNCHANGED <<proc, row, mpu, run, cancelFn, ctl, crashes>>

\* A worker paused by its context writes PAUSED through that context: the
\* database refuses, and uploadParts returns without having changed the row.
PartsEnd(r, f) ==
  /\ At(r, f, "parts") /\ work[r][f].out = {} /\ work[r][f].got = {}
  /\ Become(r, f, [work[r][f] EXCEPT !.pc = IF ~work[r][f].err THEN "complete"
                                            ELSE IF run[r].ctx THEN "fail" ELSE "err"])
  /\ UNCHANGED <<proc, row, mpu, run, cancelFn, ctl, crashes>>

CompleteMultipart(r, f) ==
  /\ At(r, f, "complete") /\ run[r].ctx
  /\ CanComplete(work[r][f].mpu, f, work[r][f].parts)
  /\ CompleteMpu(work[r][f].mpu, f)
  /\ Become(r, f, [work[r][f] EXCEPT !.pc = "head"])
  /\ UNCHANGED <<proc, row, run, cancelFn, ctl, crashes>>

\* Mistake: an error of CompleteMultipartUpload is only logged.
CompleteFailsLogged(r, f) ==
  /\ At(r, f, "complete")
  /\ MayFail(r) \/ ~CanComplete(work[r][f].mpu, f, work[r][f].parts)
  /\ Become(r, f, [work[r][f] EXCEPT !.pc = "head"])
  /\ UNCHANGED <<proc, row, mpu, run, cancelFn, ctl, crashes>>

CompleteFails(r, f) ==
  /\ At(r, f, "complete")
  /\ MayFail(r) \/ ~CanComplete(work[r][f].mpu, f, work[r][f].parts)
  /\ \/ /\ CanComplete(work[r][f].mpu, f, work[r][f].parts)
        /\ CompleteMpu(work[r][f].mpu, f)
     \/ UNCHANGED mpu
  /\ Become(r, f, [work[r][f] EXCEPT !.pc = "fail"])
  /\ UNCHANGED <<proc, row, run, cancelFn, ctl, crashes>>

\* HeadObject: an error is only logged.  The size may differ when another
\* upload of the same storage key has replaced the object.
VerifySize(r, f) ==
  /\ At(r, f, "head")
  /\ \E pc \in {"finish"} \cup (IF Faults /\ run[r].ctx THEN {"fail"} ELSE {}) :
       Become(r, f, [work[r][f] EXCEPT !.pc = pc])
  /\ UNCHANGED <<proc, row, mpu, run, cancelFn, ctl, crashes>>

FinishUpload(r, f) ==
  /\ At(r, f, "finish")
  /\ \E ok \in DbOutcomes(run[r].ctx) :
       /\ Record(f, ok, "COMPLETED", work[r][f])
       /\ Become(r, f, [work[r][f] EXCEPT !.pc = IF ok THEN "ok" ELSE "err"])
  /\ UNCHANGED <<proc, mpu, run, cancelFn, ctl, crashes>>

\* failUpload: an error of the write is only logged.
FailUpload(r, f) ==
  /\ At(r, f, "fail")
  /\ \E ok \in DbOutcomes(run[r].ctx) : Record(f, ok, "FAILED", work[r][f])
  /\ Become(r, f, [work[r][f] EXCEPT !.pc = "err"])
  /\ UNCHANGED <<proc, mpu, run, cancelFn, ctl, crashes>>

-----------------------------------------------------------------------------
(* After the workers.                                                      *)

\* wg.Wait().  UploadFile returns the error of its only worker at once.
WorkersEnd(r) ==
  /\ run[r].pc = "working"
  /\ \A f \in Files : ~Waiting(r, f) /\ ~Busy(r, f)
  /\ GoTo(r, IF r = First /\ ~Folder /\ \E f \in Files : At(r, f, "err")
             THEN "leaving" ELSE "deriving")
  /\ UNCHANGED <<proc, row, mpu, work, cancelFn, ctl, crashes>>

\* The run's own copy of the process is IN_PROGRESS, whatever the row says: a
\* derived status it has no transition to is an error.
DeriveStatus(r) ==
  /\ run[r].pc = "deriving"
  /\ \E ok \in DbOutcomes(run[r].stream) :
       LET derived == DeriveProcessStatus(Statuses) IN
       run' = IF ok /\ CanTransitionTo("IN_PROGRESS", derived)
              THEN [run EXCEPT ![r].pc = "writing", ![r].status = derived]
              ELSE [run EXCEPT ![r].pc = "leaving"]
  /\ UNCHANGED <<proc, row, mpu, work, cancelFn, ctl, crashes>>

WriteDerived(r) ==
  /\ run[r].pc = "writing"
  /\ \E ok \in DbOutcomes(run[r].stream) :
       proc' = IF ok THEN run[r].status ELSE proc
  /\ GoTo(r, "leaving")
  /\ UNCHANGED <<row, mpu, work, cancelFn, ctl, crashes>>

\* Mistake: unregisterCancel is not deferred, and an early return skips it.
LeaveRegistered(r) ==
  /\ run[r].pc = "leaving"
  /\ run' = [run EXCEPT ![r].pc = "returned", ![r].ctx = FALSE]
  /\ UNCHANGED <<proc, row, mpu, work, cancelFn, ctl, crashes>>

\* The deferred unregisterCancel deletes the process's entry, whosever it is.
Leave(r) ==
  /\ run[r].pc = "leaving"
  /\ cancelFn' = None
  /\ run' = [run EXCEPT ![r].pc = "returned", ![r].ctx = FALSE]
  /\ UNCHANGED <<proc, row, mpu, work, ctl, crashes>>

-----------------------------------------------------------------------------
(* PauseProcess and CancelProcess.  A call that is refused changes nothing. *)

StartControl(c, kind) ==
  /\ ctl[c].pc = "idle"
  /\ \/ kind = "pause"  /\ IsPausable(proc)
     \/ kind = "cancel" /\ IsCancellable(proc)
  /\ CarefulControl
  /\ ctl' = [ctl EXCEPT ![c].kind = kind, ![c].pc = "signal"]
  /\ UNCHANGED <<proc, row, mpu, run, work, cancelFn, crashes>>

\* Mistake: only CancelProcess calls the cancel function.
SignalCancelOnly(c) ==
  /\ ctl[c].pc = "signal"
  /\ run' = IF cancelFn = None \/ ctl[c].kind = "pause" THEN run
            ELSE [run EXCEPT ![cancelFn].ctx = FALSE]
  /\ ctl' = [ctl EXCEPT ![c].pc = "listing"]
  /\ UNCHANGED <<proc, row, mpu, work, cancelFn, crashes>>

\* The registered cancel function is called, in the critical section.
Signal(c) ==
  /\ ctl[c].pc = "signal"
  /\ run' = IF cancelFn = None THEN run ELSE [run EXCEPT ![cancelFn].ctx = FALSE]
  /\ ctl' = [ctl EXCEPT ![c].pc = "listing"]
  /\ UNCHANGED <<proc, row, mpu, work, cancelFn, crashes>>

\* Mistake: CancelProcess too looks only at the uploads in progress.
AffectedInProgress(kind) == {f \in Files : row[f].status = "IN_PROGRESS"}

Affected(kind) ==
  {f \in Files : IF kind = "pause" THEN row[f].status = "IN_PROGRESS"
                 ELSE row[f].status # "ABSENT" /\ ~IsTerminal(row[f].status)}

ListUploads(c) ==
  /\ ctl[c].pc = "listing"
  /\ ctl' = [ctl EXCEPT ![c].pc = "updating", ![c].snap = row,
                        ![c].todo = Affected(ctl[c].kind)]
  /\ UNCHANGED <<proc, row, mpu, run, work, cancelFn, crashes>>

PauseUpload(c, f) ==
  /\ ctl[c].pc = "updating" /\ ctl[c].kind = "pause" /\ f \in ctl[c].todo
  /\ row' = [row EXCEPT ![f] = [ctl[c].snap[f] EXCEPT !.status = "PAUSED"]]
  /\ ctl' = [ctl EXCEPT ![c].todo = @ \ {f}]
  /\ UNCHANGED <<proc, mpu, run, work, cancelFn, crashes>>

\* Abort the multipart upload; an error is only logged.
AbortUpload(c, f) ==
  /\ ctl[c].pc = "updating" /\ ctl[c].kind = "cancel" /\ f \in ctl[c].todo
  /\ ctl[c].cur = None /\ ctl[c].snap[f].mpu # None
  /\ \/ AbortMpu(ctl[c].snap[f].mpu, f)
     \/ (Faults \/ ~Open(ctl[c].snap[f].mpu, f)) /\ UNCHANGED mpu
  /\ ctl' = [ctl EXCEPT ![c].cur = f]
  /\ UNCHANGED <<proc, row, run, work, cancelFn, crashes>>

\* Mistake: the multipart state is not cleared.
CancelUploadUncleared(c, f) ==
  /\ ctl[c].pc = "updating" /\ ctl[c].kind = "cancel" /\ f \in ctl[c].todo
  /\ ctl[c].cur = (IF ctl[c].snap[f].mpu = None THEN None ELSE f)
  /\ row' = [row EXCEPT ![f] = [ctl[c].snap[f] EXCEPT !.status = "CANCELLED"]]
  /\ ctl' = [ctl EXCEPT ![c].todo = @ \ {f}, ![c].cur = None]
  /\ UNCHANGED <<proc, mpu, run, work, cancelFn, crashes>>

\* The record is cleared of its multipart state and written.
CancelUpload(c, f) ==
  /\ ctl[c].pc = "updating" /\ ctl[c].kind = "cancel" /\ f \in ctl[c].todo
  /\ ctl[c].cur = (IF ctl[c].snap[f].mpu = None THEN None ELSE f)
  /\ row' = [row EXCEPT ![f] = [AbsentRow EXCEPT !.status = "CANCELLED"]]
  /\ ctl' = [ctl EXCEPT ![c].todo = @ \ {f}, ![c].cur = None]
  /\ UNCHANGED <<proc, mpu, run, work, cancelFn, crashes>>

\* Mistake: the process is written before all of its uploads.
FinishControlEarly(c) ==
  /\ ctl[c].pc = "updating"
  /\ proc' = IF ctl[c].kind = "pause" THEN "PAUSED" ELSE "CANCELLED"
  /\ ctl' = [ctl EXCEPT ![c].pc = "returned"]
  /\ UNCHANGED <<row, mpu, run, work, cancelFn, crashes>>

FinishControl(c) ==
  /\ ctl[c].pc = "updating" /\ ctl[c].todo = {}
  /\ proc' = IF ctl[c].kind = "pause" THEN "PAUSED" ELSE "CANCELLED"
  /\ ctl' = [ctl EXCEPT ![c].pc = "returned"]
  /\ UNCHANGED <<row, mpu, run, work, cancelFn, crashes>>

\* A statement fails, or the client gives the call up: the steps made remain.
ControlFails(c) ==
  /\ Faults /\ ctl[c].pc \in {"listing", "updating"}
  /\ ctl' = [ctl EXCEPT ![c].pc = "failed"]
  /\ UNCHANGED <<proc, row, mpu, run, work, cancelFn, crashes>>

-----------------------------------------------------------------------------
(* The world outside.                                                      *)

\* The client of a run drops its stream: both contexts of the run are cancelled.
Disconnect(r) ==
  /\ Disconnects /\ RunActive(r) /\ run[r].stream
  /\ run' = [run EXCEPT ![r].stream = FALSE, ![r].ctx = FALSE]
  /\ UNCHANGED <<proc, row, mpu, work, cancelFn, ctl, crashes>>

\* The server dies: tables and storage stay, and nothing recovers at a restart.
Crash ==
  /\ crashes < MaxCrashes /\ ~Quiet
  /\ crashes' = crashes + 1
  /\ run' = [r \in Runs |-> IF RunActive(r)
                            THEN [run[r] EXCEPT !.pc = "returned", !.ctx = FALSE]
                            ELSE run[r]]
  /\ ctl' = [c \in Controls |-> IF CtlActive(c) THEN [ctl[c] EXCEPT !.pc = "failed"]
                                                ELSE ctl[c]]
  /\ work' = [r \in Runs |-> [f \in Files |-> Idle]]
  /\ cancelFn' = None
  /\ UNCHANGED <<proc, row, mpu>>

-----------------------------------------------------------------------------
StepParts(r, f) ==
  \E p \in Parts : PartStored(r, f, p) \/ PartFails(r, f, p) \/ CollectPart(r, f, p)

StepWorker(r, f) ==
  \/ Begin(r, f) \/ InitMultipart(r, f) \/ InitFails(r, f) \/ SaveMultipartID(r, f)
  \/ OpenFile(r, f) \/ StepParts(r, f) \/ PartsEnd(r, f)
  \/ CompleteMultipart(r, f) \/ CompleteFails(r, f) \/ VerifySize(r, f)
  \/ FinishUpload(r, f) \/ FailUpload(r, f)

StepFirst == \/ \E f \in Files : CreateUpload(f) \/ SkipFile(f)
             \/ CreateFails \/ MarkInProgress

StepRun(r) == \/ r = First /\ StepFirst
              \/ WriteResumed(r) \/ ListForResume(r) \/ RegisterCancel(r)
              \/ \E f \in Files : Launch(r, f) \/ StepWorker(r, f)
              \/ WorkersEnd(r) \/ DeriveStatus(r) \/ WriteDerived(r) \/ Leave(r)

StepControl(c) ==
  \/ Signal(c) \/ ListUploads(c)
  \/ \E f \in Files : PauseUpload(c, f) \/ AbortUpload(c, f) \/ CancelUpload(c, f)
  \/ FinishControl(c) \/ ControlFails(c)

Client == \/ CreateProcess
          \/ \E r \in Runs : StartResume(r) \/ Disconnect(r)
          \/ \E c \in Controls, kind \in {"pause", "cancel"} : StartControl(c, kind)

Next == \/ Client
        \/ \E r \in Runs : StepRun(r)
        \/ \E c \in Controls : StepControl(c)
        \/ Crash

Spec == Init /\ [][Next]_vars

\* Some goroutine of a run that can do a step does one, and storage and database
\* answer.  Controls, clients and crashes owe nothing.  A run makes finitely
\* many steps, so which of its goroutines comes first need not be fair.
Fairness == \A r \in Runs : WF_vars(StepRun(r))

FairSpec == Spec /\ Fairness

=============================================================================
