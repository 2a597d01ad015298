------------------------- MODULE UploadServiceProofs -------------------------
(***************************************************************************)
(* Proofs about UploadService, for every set of files, parts, runs and     *)
(* controls, careful client or not, with faults, disconnections and        *)
(* crashes: the inductive invariant IInv and the three invariants that     *)
(* follow from it.                                                         *)
(*                                                                         *)
(* The argument has two halves.  The storage only grows (Grows), so what a *)
(* copy of an upload says about it stays true (the frame lemma).  And each *)
(* action writes only copies it holds, or lists it has read, back: its     *)
(* lemma says which one it changes and why the new one is right.           *)
(***************************************************************************)
EXTENDS UploadServiceProperties, TLAPS

-----------------------------------------------------------------------------
(* Records of the calls.                                                   *)

\* A run or a control that only moves keeps its type.
LEMMA RunMoves ==
  ASSUME TypeOK, NEW r \in Runs, NEW pc \in RunPc, GoTo(r, pc)
  PROVE  run' \in [Runs -> RunRec]
<1>1. [run[r] EXCEPT !.pc = pc] \in RunRec
  BY DEF TypeOK, RunRec
<1>2. run' = [run EXCEPT ![r] = [run[r] EXCEPT !.pc = pc]]
  BY DEF GoTo
<1>3. QED
  BY <1>1, <1>2 DEF TypeOK

LEMMA ControlMoves ==
  ASSUME TypeOK, NEW c \in Controls, NEW pc \in CtlPc, ctl' = [ctl EXCEPT ![c].pc = pc]
  PROVE  ctl' \in [Controls -> Control]
<1>1. [ctl[c] EXCEPT !.pc = pc] \in Control
  BY DEF TypeOK, Control
<1>2. ctl' = [ctl EXCEPT ![c] = [ctl[c] EXCEPT !.pc = pc]]
  OBVIOUS
<1>3. QED
  BY <1>1, <1>2 DEF TypeOK

-----------------------------------------------------------------------------
(* The storage.                                                            *)

Store == [Runs -> [Files -> MpuState]]

\* No step takes back a multipart upload, a part of one or a completion.
Grows(s, t) ==
  \A r \in Runs, f \in Files :
    /\ s[r][f].state # "none" => t[r][f].state # "none"
    /\ s[r][f].parts \subseteq t[r][f].parts
    /\ s[r][f].state = "completed" => t[r][f].state = "completed"

LEMMA CreateGrows ==
  ASSUME mpu \in Store, NEW r \in Runs, NEW f \in Files, CreateMpu(r, f)
  PROVE  /\ mpu' \in Store /\ Grows(mpu, mpu')
         /\ mpu'[r][f].state = "open"
  BY DEF CreateMpu, Created, Store, MpuState, Grows

LEMMA StoreGrows ==
  ASSUME mpu \in Store, NEW r \in Runs, NEW f \in Files, NEW p \in Parts,
         StorePart(r, f, p)
  PROVE  /\ mpu' \in Store /\ Grows(mpu, mpu')
         /\ mpu'[r][f].state = mpu[r][f].state
         /\ mpu'[r][f].parts = mpu[r][f].parts \cup {p}
  BY DEF StorePart, Open, Store, MpuState, Grows

LEMMA CompleteGrows ==
  ASSUME mpu \in Store, NEW r \in Runs, NEW f \in Files,
         CompleteMpu(r, f), Open(r, f)
  PROVE  /\ mpu' \in Store /\ Grows(mpu, mpu')
         /\ mpu'[r][f].state = "completed"
  BY DEF CompleteMpu, Open, Store, MpuState, Grows

LEMMA AbortGrows ==
  ASSUME mpu \in Store, NEW r \in Runs, NEW f \in Files, AbortMpu(r, f)
  PROVE  mpu' \in Store /\ Grows(mpu, mpu')
  BY DEF AbortMpu, Open, Store, MpuState, Grows

LEMMA SameGrows == UNCHANGED mpu => Grows(mpu, mpu')
  BY DEF Grows

\* What a copy says of a multipart upload stays true as the storage grows.
LEMMA HoldsStable ==
  ASSUME NEW s, NEW t, Grows(s, t),
         NEW m \in RunIds, NEW f \in Files, NEW parts
  PROVE  /\ Holds(s, m, f, parts) => Holds(t, m, f, parts)
         /\ Assembled(s, m, f) => Assembled(t, m, f)
  BY DEF Grows, Holds, Assembled, RunIds

-----------------------------------------------------------------------------
(* The frame: copies that a step leaves alone stay right, so only the ones *)
(* it changes have to be looked at.                                        *)

LEMMA Frame ==
  ASSUME IInv, TypeOK', RegistrationOK', Grows(mpu, mpu'),
         \A f \in Files : row'[f] = row[f] \/ RowOK(mpu', f, row'[f]),
         \A r \in Runs, f \in Files :
           work'[r][f] = work[r][f] \/ WorkerOK(mpu', f, work'[r][f]),
         \A c \in Controls, f \in Files :
           \/ ctl'[c].snap[f] = ctl[c].snap[f]
           \/ Holds(mpu', ctl'[c].snap[f].mpu, f, ctl'[c].snap[f].parts)
  PROVE  IInv'
<1>1. \A f \in Files : RowOK(mpu', f, row'[f])
  <2> TAKE f \in Files
  <2>1. row[f].mpu \in RunIds /\ RowOK(mpu, f, row[f])
    BY DEF IInv, TypeOK, Row
  <2>2. QED
    BY <2>1, HoldsStable DEF RowOK
<1>2. \A r \in Runs, f \in Files : WorkerOK(mpu', f, work'[r][f])
  <2> TAKE r \in Runs, f \in Files
  <2>1. work[r][f].mpu \in RunIds /\ WorkerOK(mpu, f, work[r][f])
    BY DEF IInv, TypeOK, Worker
  <2>2. QED
    BY <2>1, HoldsStable DEF WorkerOK
<1>3. \A c \in Controls, f \in Files :
        Holds(mpu', ctl'[c].snap[f].mpu, f, ctl'[c].snap[f].parts)
  <2> TAKE c \in Controls, f \in Files
  <2>1. /\ ctl[c].snap[f].mpu \in RunIds
        /\ Holds(mpu, ctl[c].snap[f].mpu, f, ctl[c].snap[f].parts)
    BY DEF IInv, TypeOK, Control, Row
  <2>2. QED
    BY <2>1, HoldsStable
<1>4. QED
  BY <1>1, <1>2, <1>3 DEF IInv

\* A run or a control that moves on without touching an upload or the storage.
LEMMA MoveIInv ==
  ASSUME IInv, TypeOK', RegistrationOK', UNCHANGED <<row, mpu, work>>,
         \A c \in Controls : ctl'[c].snap = ctl[c].snap
  PROVE  IInv'
  BY Frame, SameGrows

\* A worker that writes its own copy w, and maybe the upload's row from it.
LEMMA WorkerIInv ==
  ASSUME IInv, NEW r \in Runs, NEW f \in Files, NEW w \in Worker,
         Become(r, f, w), WorkerOK(mpu', f, w),
         mpu' \in Store, Grows(mpu, mpu'),
         UNCHANGED <<proc, run, cancelFn, ctl, crashes>>,
         \/ UNCHANGED row
         \/ \E u \in Row : row' = [row EXCEPT ![f] = u] /\ RowOK(mpu', f, u)
  PROVE  IInv'
<1>1. TypeOK'
  BY DEF IInv, TypeOK, Become, Store
<1>2. RegistrationOK'
  BY DEF IInv, RegistrationOK
<1>3. \A e \in Files : row'[e] = row[e] \/ RowOK(mpu', e, row'[e])
  BY DEF IInv, TypeOK
<1>4. \A q \in Runs, e \in Files :
        work'[q][e] = work[q][e] \/ WorkerOK(mpu', e, work'[q][e])
  BY DEF IInv, TypeOK, Become
<1>5. QED
  BY <1>1, <1>2, <1>3, <1>4, Frame

-----------------------------------------------------------------------------
(* The initial states.                                                     *)

LEMMA FirstIsRun == First \in Runs /\ None \notin Runs
  BY RunsAssumption

LEMMA InitIInv == Init => IInv
<1> SUFFICES ASSUME Init PROVE IInv
  OBVIOUS
<1>1. TypeOK
  BY DEF Init, TypeOK, MpuInit, MpuState, Row, RunIds, AbsentRow, Idle, Worker,
         WorkPc, RunRec, RunPc, Control, CtlPc, Status
<1>2. RegistrationOK
  BY DEF Init, RegistrationOK
<1>3. \A f \in Files : RowOK(mpu, f, row[f])
  BY DEF Init, AbsentRow, RowOK, Holds
<1>4. \A r \in Runs, f \in Files : WorkerOK(mpu, f, work[r][f])
  BY DEF Init, Idle, WorkerOK, Holds
<1>5. \A c \in Controls, f \in Files :
        Holds(mpu, ctl[c].snap[f].mpu, f, ctl[c].snap[f].parts)
  BY DEF Init, AbsentRow, Holds
<1>6. QED
  BY <1>1, <1>2, <1>3, <1>4, <1>5 DEF IInv

-----------------------------------------------------------------------------
(* The steps of a run outside its workers.                                 *)

LEMMA GoToType ==
  ASSUME TypeOK, NEW r \in Runs, NEW pc \in RunPc, GoTo(r, pc)
  PROVE  run' \in [Runs -> RunRec]
  BY DEF TypeOK, GoTo, RunRec

\* A worker that is not at work yet, or no longer, carries only its copy.
LEMMA RestingWorker ==
  ASSUME TypeOK, NEW r \in Runs, NEW f \in Files, WorkerOK(mpu, f, work[r][f]),
         NEW pc \in {"queued", "begin", "fail", "ok", "err"}
  PROVE  /\ [work[r][f] EXCEPT !.pc = pc] \in Worker
         /\ WorkerOK(mpu, f, [work[r][f] EXCEPT !.pc = pc])
<1> DEFINE w == work[r][f]
           v == [w EXCEPT !.pc = pc]
<1>1. w \in Worker
  BY DEF TypeOK
<1>2. v \in Worker /\ v.pc = pc
  BY <1>1 DEF Worker, WorkPc
<1>3. v.mpu = w.mpu /\ v.parts = w.parts /\ v.got = w.got
  BY <1>1 DEF Worker
<1>4. Holds(mpu, v.mpu, f, v.parts \cup v.got)
  BY <1>3 DEF WorkerOK
<1> HIDE DEF w, v
<1>5. WorkerOK(mpu, f, v)
  BY <1>2, <1>4 DEF WorkerOK
<1>6. QED
  BY <1>2, <1>5 DEF w, v

LEMMA CreateProcessIInv == ASSUME IInv, CreateProcess PROVE IInv'
<1>1. TypeOK'
  <2>1. run' \in [Runs -> RunRec]
    BY FirstIsRun, RunMoves DEF IInv, CreateProcess, RunPc
  <2>2. QED
    BY <2>1 DEF IInv, TypeOK, CreateProcess, Status
<1>2. RegistrationOK'
  BY DEF IInv, TypeOK, RegistrationOK, CreateProcess, GoTo
<1>3. QED
  BY <1>1, <1>2, MoveIInv DEF CreateProcess

LEMMA CreateUploadIInv ==
  ASSUME IInv, NEW f \in Files, CreateUpload(f) PROVE IInv'
<1> DEFINE w == [work[First][f] EXCEPT !.pc = "queued"]
<1>1. w \in Worker /\ WorkerOK(mpu, f, w)
  BY RestingWorker, FirstIsRun DEF IInv
<1>2. work' = [work EXCEPT ![First][f] = w]
  BY FirstIsRun DEF IInv, TypeOK, CreateUpload
<1> HIDE DEF w
<1>3. row' \in [Files -> Row]
  BY DEF IInv, TypeOK, CreateUpload, Row, Status
<1>4. TypeOK'
  <2>1. work' \in [Runs -> [Files -> Worker]]
    BY <1>1, <1>2, FirstIsRun DEF IInv, TypeOK
  <2>2. QED
    BY <1>3, <2>1 DEF IInv, TypeOK, CreateUpload
<1>5. RegistrationOK' /\ Grows(mpu, mpu')
  BY SameGrows DEF IInv, RegistrationOK, CreateUpload
<1>6. RowOK(mpu', f, row'[f])
  BY DEF IInv, TypeOK, CreateUpload, RowOK, Row
<1>7. WorkerOK(mpu', f, work'[First][f])
  <2>1. work'[First][f] = w
    BY <1>2, FirstIsRun DEF IInv, TypeOK
  <2>2. mpu' = mpu
    BY DEF CreateUpload
  <2>3. QED
    BY <1>1, <2>1, <2>2
<1>8. QED
  <2>1. \A e \in Files : row'[e] = row[e] \/ RowOK(mpu', e, row'[e])
    BY <1>6 DEF CreateUpload, IInv, TypeOK
  <2>2. \A r \in Runs, e \in Files :
          work'[r][e] = work[r][e] \/ WorkerOK(mpu', e, work'[r][e])
    BY <1>2, <1>7, FirstIsRun DEF IInv, TypeOK
  <2>3. UNCHANGED ctl
    BY DEF CreateUpload
  <2>4. QED
    BY <1>4, <1>5, <2>1, <2>2, <2>3, Frame

LEMMA SkipFileIInv == ASSUME IInv, NEW f \in Files, SkipFile(f) PROVE IInv'
<1> DEFINE w == [work[First][f] EXCEPT !.pc = "err"]
<1>1. w \in Worker /\ WorkerOK(mpu, f, w)
  BY RestingWorker, FirstIsRun DEF IInv
<1>2. Become(First, f, w)
  BY FirstIsRun DEF IInv, TypeOK, SkipFile, Become
<1> HIDE DEF w
<1>3. mpu' \in Store /\ Grows(mpu, mpu') /\ WorkerOK(mpu', f, w)
  BY <1>1, SameGrows DEF IInv, TypeOK, SkipFile, Store
<1>4. QED
  BY <1>1, <1>2, <1>3, FirstIsRun, WorkerIInv DEF SkipFile

LEMMA CreateFailsIInv == ASSUME IInv, CreateFails PROVE IInv'
<1>1. TypeOK'
  BY DEF IInv, TypeOK, CreateFails, GoTo, RunRec, RunPc
<1>2. RegistrationOK'
  BY DEF IInv, TypeOK, RegistrationOK, CreateFails, GoTo
<1>3. QED
  BY <1>1, <1>2, MoveIInv DEF CreateFails

LEMMA RegisterCancelIInv ==
  ASSUME IInv, NEW r \in Runs, RegisterCancel(r) PROVE IInv'
<1>1. TypeOK'
  <2> DEFINE pc == IF r = First THEN "marking" ELSE "working"
             q  == [run[r] EXCEPT !.ctx = run[r].stream, !.pc = pc]
  <2>1. run[r] \in RunRec /\ pc \in RunPc
    BY DEF IInv, TypeOK, RunPc
  <2>2. run' = [run EXCEPT ![r] = q]
    BY DEF RegisterCancel
  <2> HIDE DEF pc
  <2>3. q \in RunRec
    BY <2>1 DEF RunRec
  <2> HIDE DEF q
  <2>4. run' \in [Runs -> RunRec]
    BY <2>2, <2>3 DEF IInv, TypeOK
  <2>5. QED
    BY <2>4 DEF IInv, TypeOK, RegisterCancel, RunIds
<1>2. RegistrationOK'
  BY DEF IInv, TypeOK, RegistrationOK, RegisterCancel
<1>3. QED
  BY <1>1, <1>2, MoveIInv DEF RegisterCancel

LEMMA MarkInProgressIInv == ASSUME IInv, MarkInProgress PROVE IInv'
<1>1. PICK ok \in BOOLEAN :
        /\ proc' = IF ok THEN "IN_PROGRESS" ELSE proc
        /\ GoTo(First, IF ok THEN "working" ELSE "leaving")
  BY DEF MarkInProgress, DbOutcomes
<1>2. TypeOK'
  <2>1. (IF ok THEN "working" ELSE "leaving") \in RunPc
    BY DEF RunPc
  <2>2. run' \in [Runs -> RunRec]
    BY <1>1, <2>1, FirstIsRun, GoToType DEF IInv
  <2>3. proc' \in Status \cup {"ABSENT"}
    BY <1>1 DEF IInv, TypeOK, Status
  <2>4. QED
    BY <2>2, <2>3 DEF IInv, TypeOK, MarkInProgress
<1>3. RegistrationOK'
  BY <1>1, FirstIsRun DEF IInv, TypeOK, RegistrationOK, MarkInProgress, GoTo, RunIds
<1>4. QED
  BY <1>2, <1>3, MoveIInv DEF MarkInProgress

LEMMA StartResumeIInv ==
  ASSUME IInv, NEW r \in Runs, StartResume(r) PROVE IInv'
<1>1. TypeOK'
  BY DEF IInv, TypeOK, StartResume, GoTo, RunRec, RunPc
<1>2. RegistrationOK'
  BY DEF IInv, TypeOK, RegistrationOK, StartResume, GoTo
<1>3. QED
  BY <1>1, <1>2, MoveIInv DEF StartResume

LEMMA WriteResumedIInv ==
  ASSUME IInv, NEW r \in Runs, WriteResumed(r) PROVE IInv'
<1>1. PICK ok \in BOOLEAN :
        /\ proc' = IF ok THEN "IN_PROGRESS" ELSE proc
        /\ GoTo(r, IF ok THEN "listing" ELSE "returned")
  BY DEF WriteResumed, DbOutcomes
<1>2. TypeOK'
  <2>1. (IF ok THEN "listing" ELSE "returned") \in RunPc
    BY DEF RunPc
  <2>2. run' \in [Runs -> RunRec]
    BY <1>1, <2>1, FirstIsRun, GoToType DEF IInv
  <2>3. proc' \in Status \cup {"ABSENT"}
    BY <1>1 DEF IInv, TypeOK, Status
  <2>4. QED
    BY <2>2, <2>3 DEF IInv, TypeOK, WriteResumed
<1>3. RegistrationOK'
  BY <1>1 DEF IInv, TypeOK, RegistrationOK, WriteResumed, GoTo
<1>4. QED
  BY <1>2, <1>3, MoveIInv DEF WriteResumed

\* The worker of a resumed upload starts from a copy of the upload's row.
LEMMA ListForResumeIInv ==
  ASSUME IInv, NEW r \in Runs, ListForResume(r) PROVE IInv'
<1> DEFINE Copy(f) == [Idle EXCEPT !.pc = "queued", !.mpu = row[f].mpu,
                                   !.parts = row[f].parts]
<1>1. PICK ok \in BOOLEAN :
        /\ GoTo(r, IF ok THEN "registering" ELSE "returned")
        /\ work' = IF ~ok THEN work ELSE
             [work EXCEPT ![r] = [f \in Files |->
                IF row[f].status \in {"PAUSED", "PENDING"} THEN Copy(f) ELSE Idle]]
  BY DEF ListForResume, DbOutcomes
<1>2. \A f \in Files : /\ Copy(f) \in Worker /\ Idle \in Worker
                       /\ WorkerOK(mpu, f, Copy(f)) /\ WorkerOK(mpu, f, Idle)
  <2> TAKE f \in Files
  <2>1. row[f].mpu \in RunIds /\ row[f].parts \in SUBSET Parts
    BY DEF IInv, TypeOK, Row
  <2>2. Holds(mpu, row[f].mpu, f, row[f].parts)
    BY DEF IInv, RowOK
  <2>3. Idle \in Worker /\ WorkerOK(mpu, f, Idle)
    BY DEF Idle, Worker, WorkPc, RunIds, WorkerOK, Holds
  <2>4. Copy(f) \in Worker
    BY <2>1, <2>3 DEF Worker, WorkPc
  <2>5. /\ Copy(f).pc = "queued" /\ Copy(f).mpu = row[f].mpu
        /\ Copy(f).parts = row[f].parts /\ Copy(f).got = {}
    BY <2>3 DEF Idle, Worker
  <2> HIDE DEF Copy
  <2>6. WorkerOK(mpu, f, Copy(f))
    BY <2>2, <2>5 DEF WorkerOK
  <2>7. QED
    BY <2>3, <2>4, <2>6
<1> HIDE DEF Copy
<1>3. TypeOK'
  <2>1. run' \in [Runs -> RunRec]
    BY <1>1, RunMoves DEF IInv, RunPc
  <2>2. work' \in [Runs -> [Files -> Worker]]
    BY <1>1, <1>2 DEF IInv, TypeOK
  <2>3. QED
    BY <2>1, <2>2 DEF IInv, TypeOK, ListForResume
<1>4. RegistrationOK' /\ Grows(mpu, mpu')
  <2>1. cancelFn # None => cancelFn \in Runs /\ cancelFn # r
    BY DEF IInv, TypeOK, RegistrationOK, ListForResume, RunIds
  <2>2. RegistrationOK'
    BY <1>1, <2>1 DEF IInv, TypeOK, RegistrationOK, ListForResume, GoTo
  <2>3. QED
    BY <2>2, SameGrows DEF ListForResume
<1>5. \A q \in Runs, f \in Files :
        work'[q][f] = work[q][f] \/ WorkerOK(mpu', f, work'[q][f])
  BY <1>1, <1>2 DEF IInv, TypeOK, ListForResume
<1>6. QED
  BY <1>3, <1>4, <1>5, Frame DEF ListForResume

LEMMA WorkersEndIInv ==
  ASSUME IInv, NEW r \in Runs, WorkersEnd(r) PROVE IInv'
<1>1. PICK pc \in {"leaving", "deriving"} : GoTo(r, pc)
  BY DEF WorkersEnd
<1>2. TypeOK'
  <2>1. run' \in [Runs -> RunRec]
    BY <1>1, GoToType DEF IInv, RunPc
  <2>2. QED
    BY <2>1 DEF IInv, TypeOK, WorkersEnd
<1>3. RegistrationOK'
  BY <1>1 DEF IInv, TypeOK, RegistrationOK, WorkersEnd, GoTo, RunIds
<1>4. QED
  BY <1>2, <1>3, MoveIInv DEF WorkersEnd

LEMMA DeriveStatusIInv ==
  ASSUME IInv, NEW r \in Runs, DeriveStatus(r) PROVE IInv'
<1>1. PICK s \in Status :
        \/ run' = [run EXCEPT ![r].pc = "writing", ![r].status = s]
        \/ run' = [run EXCEPT ![r].pc = "leaving"]
  <2>1. DeriveProcessStatus(Statuses) \in Status
    BY DEF DeriveProcessStatus, Status
  <2>2. QED
    BY <2>1 DEF DeriveStatus
<1>2. TypeOK'
  <2>1. run \in [Runs -> RunRec]
    BY DEF IInv, TypeOK
  <2>2. CASE run' = [run EXCEPT ![r].pc = "writing", ![r].status = s]
    <3>1. [run[r] EXCEPT !.pc = "writing", !.status = s] \in RunRec
      BY <2>1 DEF RunRec, RunPc
    <3>2. run' \in [Runs -> RunRec]
      BY <2>1, <2>2, <3>1
    <3>3. QED
      BY <3>2 DEF IInv, TypeOK, DeriveStatus
  <2>3. CASE run' = [run EXCEPT ![r].pc = "leaving"]
    <3>1. run' \in [Runs -> RunRec]
      BY <2>1, <2>3 DEF RunRec, RunPc
    <3>2. QED
      BY <3>1 DEF IInv, TypeOK, DeriveStatus
  <2>4. QED
    BY <1>1, <2>2, <2>3
<1>3. RegistrationOK'
  BY <1>1 DEF IInv, TypeOK, RegistrationOK, DeriveStatus, RunIds
<1>4. QED
  BY <1>2, <1>3, MoveIInv DEF DeriveStatus

LEMMA WriteDerivedIInv ==
  ASSUME IInv, NEW r \in Runs, WriteDerived(r) PROVE IInv'
<1>1. proc' \in Status \cup {"ABSENT"}
  BY DEF IInv, TypeOK, WriteDerived, RunRec
<1>2. TypeOK'
  BY <1>1 DEF IInv, TypeOK, WriteDerived, GoTo, RunRec, RunPc
<1>3. RegistrationOK'
  BY DEF IInv, TypeOK, RegistrationOK, WriteDerived, GoTo, RunIds
<1>4. QED
  BY <1>2, <1>3, MoveIInv DEF WriteDerived

LEMMA LeaveIInv == ASSUME IInv, NEW r \in Runs, Leave(r) PROVE IInv'
<1>1. TypeOK'
  <2> DEFINE q == [run[r] EXCEPT !.pc = "returned", !.ctx = FALSE]
  <2>1. q \in RunRec
    BY DEF IInv, TypeOK, RunRec, RunPc
  <2>2. run' = [run EXCEPT ![r] = q]
    BY DEF Leave
  <2> HIDE DEF q
  <2>3. run' \in [Runs -> RunRec]
    BY <2>1, <2>2 DEF IInv, TypeOK
  <2>4. QED
    BY <2>3 DEF IInv, TypeOK, Leave, RunIds
<1>2. RegistrationOK'
  BY DEF RegistrationOK, Leave
<1>3. QED
  BY <1>1, <1>2, MoveIInv DEF Leave

LEMMA DisconnectIInv == ASSUME IInv, NEW r \in Runs, Disconnect(r) PROVE IInv'
<1>1. TypeOK'
  BY DEF IInv, TypeOK, Disconnect, RunRec
<1>2. RegistrationOK'
  BY DEF IInv, TypeOK, RegistrationOK, Disconnect, RunIds
<1>3. QED
  BY <1>1, <1>2, MoveIInv DEF Disconnect

-----------------------------------------------------------------------------
(* The workers.                                                            *)

\* A worker's copy, moved to another place of the code.
LEMMA MovedWorker ==
  ASSUME NEW w \in Worker, NEW pc \in WorkPc
  PROVE  LET v == [w EXCEPT !.pc = pc]
         IN  /\ v \in Worker /\ v.pc = pc
             /\ v.mpu = w.mpu /\ v.parts = w.parts /\ v.out = w.out
             /\ v.got = w.got /\ v.err = w.err
  BY DEF Worker

LEMMA CopyOfWorker ==
  ASSUME IInv, NEW r \in Runs, NEW f \in Files
  PROVE  /\ work[r][f] \in Worker /\ WorkerOK(mpu, f, work[r][f])
         /\ mpu \in Store
  BY DEF IInv, TypeOK, Store

\* A row written from a worker's copy is as right as the copy.
LEMMA RecordedRow ==
  ASSUME NEW f \in Files, NEW ok \in BOOLEAN, NEW st \in Status, NEW w \in Worker,
         Record(f, ok, st, w),
         Holds(mpu', w.mpu, f, w.parts \cup w.got),
         st = "COMPLETED" => Assembled(mpu', w.mpu, f) /\ w.parts = Parts
  PROVE  \/ UNCHANGED row
         \/ \E u \in Row : row' = [row EXCEPT ![f] = u] /\ RowOK(mpu', f, u)
<1> DEFINE u == [status |-> st, mpu |-> w.mpu, parts |-> w.parts]
<1>1. u \in Row
  BY DEF Row, Worker
<1>2. RowOK(mpu', f, u)
  BY DEF RowOK, Holds
<1>3. row' = row \/ row' = [row EXCEPT ![f] = u]
  BY DEF Record
<1>4. QED
  BY <1>1, <1>2, <1>3

LEMMA LaunchIInv ==
  ASSUME IInv, NEW r \in Runs, NEW f \in Files, Launch(r, f) PROVE IInv'
<1> DEFINE w == [work[r][f] EXCEPT !.pc = "begin"]
<1>1. w \in Worker /\ WorkerOK(mpu, f, w)
  BY RestingWorker DEF IInv
<1>2. Become(r, f, w)
  BY DEF IInv, TypeOK, Launch, Become
<1> HIDE DEF w
<1>3. mpu' \in Store /\ Grows(mpu, mpu') /\ WorkerOK(mpu', f, w)
  <2>1. mpu' = mpu
    BY DEF Launch
  <2>2. QED
    BY <1>1, <2>1, SameGrows, CopyOfWorker
<1>4. QED
  BY <1>1, <1>2, <1>3, WorkerIInv DEF Launch

\* A worker that moves on with its copy unchanged, and maybe writes it.
LEMMA MovingWorkerIInv ==
  ASSUME IInv, NEW r \in Runs, NEW f \in Files, NEW pc \in WorkPc,
         Become(r, f, [work[r][f] EXCEPT !.pc = pc]),
         mpu' \in Store, Grows(mpu, mpu'),
         UNCHANGED <<proc, run, cancelFn, ctl, crashes>>,
         \/ UNCHANGED row
         \/ \E ok \in BOOLEAN, st \in Status \ {"COMPLETED"} :
              Record(f, ok, st, work[r][f]),
         LET w == work[r][f]
         IN  /\ pc = "init" => w.mpu = None
             /\ pc \in {"saveMpu", "open", "complete", "head", "finish"}
                  => w.mpu # None
             /\ pc # "parts"
             /\ pc \in {"complete", "head", "finish"} => w.parts = Parts
             /\ pc \in {"head", "finish"} => Assembled(mpu', w.mpu, f)
  PROVE  IInv'
<1> DEFINE w == work[r][f]
           v == [w EXCEPT !.pc = pc]
<1>1. w \in Worker /\ Holds(mpu', w.mpu, f, w.parts \cup w.got)
  BY CopyOfWorker, HoldsStable DEF WorkerOK, Worker
<1>2. /\ v \in Worker /\ v.pc = pc /\ v.mpu = w.mpu
      /\ v.parts = w.parts /\ v.got = w.got
  BY <1>1, MovedWorker
<1>3. Become(r, f, v)
  OBVIOUS
<1>4. \/ UNCHANGED row
      \/ \E u \in Row : row' = [row EXCEPT ![f] = u] /\ RowOK(mpu', f, u)
  BY <1>1, RecordedRow
<1> HIDE DEF v
<1>5. WorkerOK(mpu', f, v)
  BY <1>1, <1>2 DEF WorkerOK
<1>6. QED
  BY <1>2, <1>3, <1>4, <1>5, WorkerIInv

LEMMA BeginIInv ==
  ASSUME IInv, NEW r \in Runs, NEW f \in Files, Begin(r, f) PROVE IInv'
<1> DEFINE Pc(ok) == IF ~ok THEN "err"
                     ELSE IF work[r][f].mpu = None THEN "init" ELSE "open"
<1>1. PICK ok \in BOOLEAN :
        /\ Record(f, ok, "IN_PROGRESS", work[r][f])
        /\ Become(r, f, [work[r][f] EXCEPT !.pc = Pc(ok)])
  BY DEF Begin, DbOutcomes
<1>2. Pc(ok) \in WorkPc
  BY DEF WorkPc
<1>3. mpu' \in Store /\ Grows(mpu, mpu')
  BY SameGrows, CopyOfWorker DEF Begin
<1>4. "IN_PROGRESS" \in Status \ {"COMPLETED"}
  BY DEF Status
<1>5. UNCHANGED <<proc, run, cancelFn, ctl, crashes>>
  BY DEF Begin
<1>6. /\ Pc(ok) = "init" => work[r][f].mpu = None
      /\ Pc(ok) = "open" => work[r][f].mpu # None
      /\ Pc(ok) \in {"err", "init", "open"}
  OBVIOUS
<1> HIDE DEF Pc
<1>7. QED
  BY <1>1, <1>2, <1>3, <1>4, <1>5, <1>6, MovingWorkerIInv

\* The new multipart upload is empty, and so is the worker's list of parts.
LEMMA InitMultipartIInv ==
  ASSUME IInv, NEW r \in Runs, NEW f \in Files, InitMultipart(r, f) PROVE IInv'
<1> DEFINE w == work[r][f]
           v == [w EXCEPT !.pc = "saveMpu", !.mpu = r]
<1>1. /\ w \in Worker /\ w.parts \cup w.got = {}
  BY CopyOfWorker DEF InitMultipart, At, WorkerOK, Holds
<1>2. /\ v \in Worker /\ v.pc = "saveMpu" /\ v.mpu = r
      /\ v.parts \cup v.got = {}
  BY <1>1 DEF Worker, WorkPc, RunIds
<1>3. mpu' \in Store /\ Grows(mpu, mpu') /\ mpu'[r][f].state = "open"
  BY CreateGrows, CopyOfWorker DEF InitMultipart
<1>4. Become(r, f, v)
  BY DEF InitMultipart
<1> HIDE DEF v
<1>5. WorkerOK(mpu', f, v)
  BY <1>2, <1>3, FirstIsRun DEF WorkerOK, Holds
<1>6. QED
  BY <1>2, <1>3, <1>4, <1>5, WorkerIInv DEF InitMultipart

LEMMA InitFailsIInv ==
  ASSUME IInv, NEW r \in Runs, NEW f \in Files, InitFails(r, f) PROVE IInv'
<1>1. mpu' \in Store /\ Grows(mpu, mpu')
  BY CreateGrows, SameGrows, CopyOfWorker DEF InitFails
<1>2. /\ "fail" \in WorkPc /\ Become(r, f, [work[r][f] EXCEPT !.pc = "fail"])
      /\ UNCHANGED <<proc, row, run, cancelFn, ctl, crashes>>
  BY DEF InitFails, WorkPc
<1>3. QED
  BY <1>1, <1>2, MovingWorkerIInv

LEMMA SaveMultipartIDIInv ==
  ASSUME IInv, NEW r \in Runs, NEW f \in Files, SaveMultipartID(r, f) PROVE IInv'
<1> DEFINE Pc(ok) == IF ok THEN "open" ELSE "err"
<1>1. PICK ok \in BOOLEAN :
        /\ Record(f, ok, "IN_PROGRESS", work[r][f])
        /\ Become(r, f, [work[r][f] EXCEPT !.pc = Pc(ok)])
  BY DEF SaveMultipartID, DbOutcomes
<1>2. Pc(ok) \in WorkPc /\ Pc(ok) \in {"open", "err"}
  BY DEF WorkPc
<1>3. mpu' \in Store /\ Grows(mpu, mpu')
  BY SameGrows, CopyOfWorker DEF SaveMultipartID
<1>4. "IN_PROGRESS" \in Status \ {"COMPLETED"}
  BY DEF Status
<1>5. /\ UNCHANGED <<proc, run, cancelFn, ctl, crashes>>
      /\ work[r][f].mpu # None
  BY CopyOfWorker DEF SaveMultipartID, At, WorkerOK
<1> HIDE DEF Pc
<1>6. QED
  BY <1>1, <1>2, <1>3, <1>4, <1>5, MovingWorkerIInv

LEMMA OpenFileIInv ==
  ASSUME IInv, NEW r \in Runs, NEW f \in Files, OpenFile(r, f) PROVE IInv'
<1> DEFINE w == work[r][f]
           v == [w EXCEPT !.pc = "parts", !.out = Parts \ w.parts]
<1>1. mpu' \in Store /\ Grows(mpu, mpu') /\ mpu' = mpu
  BY SameGrows, CopyOfWorker DEF OpenFile
<1>2. UNCHANGED <<proc, row, run, cancelFn, ctl, crashes>>
  BY DEF OpenFile
<1>3. /\ w \in Worker /\ w.mpu # None
      /\ Holds(mpu, w.mpu, f, w.parts \cup w.got)
  BY CopyOfWorker DEF OpenFile, At, WorkerOK
<1>4. CASE Become(r, f, [w EXCEPT !.pc = "fail"])
  <2>1. "fail" \in WorkPc
    BY DEF WorkPc
  <2>2. QED
    BY <1>1, <1>2, <1>4, <2>1, MovingWorkerIInv
<1>5. CASE Become(r, f, v)
  <2>1. /\ v \in Worker /\ v.pc = "parts" /\ v.mpu = w.mpu
        /\ v.parts = w.parts /\ v.got = w.got /\ v.out = Parts \ w.parts
    BY <1>3 DEF Worker, WorkPc
  <2>2. v.parts \cup v.out \cup v.got = Parts
    BY <1>3, <2>1 DEF Worker
  <2> HIDE DEF v
  <2>3. WorkerOK(mpu', f, v)
    BY <1>1, <1>3, <2>1, <2>2 DEF WorkerOK
  <2>4. QED
    BY <1>1, <1>2, <1>5, <2>1, <2>3, WorkerIInv
<1>6. QED
  BY <1>4, <1>5 DEF OpenFile

LEMMA PartStoredIInv ==
  ASSUME IInv, NEW r \in Runs, NEW f \in Files, NEW p \in Parts,
         PartStored(r, f, p)
  PROVE  IInv'
<1> DEFINE w == work[r][f]
           v == [w EXCEPT !.out = @ \ {p}, !.got = @ \cup {p}]
<1>1. /\ w \in Worker /\ w.pc = "parts" /\ w.mpu # None /\ ~w.err
      /\ Holds(mpu, w.mpu, f, w.parts \cup w.got)
      /\ w.parts \cup w.out \cup w.got = Parts
  BY CopyOfWorker DEF PartStored, At, WorkerOK
<1>2. w.mpu \in Runs
  BY <1>1 DEF Worker, RunIds
<1>3. /\ mpu' \in Store /\ Grows(mpu, mpu')
      /\ mpu'[w.mpu][f].state = mpu[w.mpu][f].state
      /\ mpu'[w.mpu][f].parts = mpu[w.mpu][f].parts \cup {p}
  BY <1>2, StoreGrows, CopyOfWorker DEF PartStored
<1>4. /\ v \in Worker /\ v.pc = "parts" /\ v.mpu = w.mpu /\ v.err = w.err
      /\ v.parts = w.parts /\ v.got = w.got \cup {p} /\ v.out = w.out \ {p}
  BY <1>1 DEF Worker
<1>5. Become(r, f, v)
  BY DEF PartStored
<1> HIDE DEF v
<1>6. Holds(mpu', v.mpu, f, v.parts \cup v.got)
  BY <1>1, <1>3, <1>4 DEF Holds
<1>7. WorkerOK(mpu', f, v)
  BY <1>1, <1>4, <1>6 DEF WorkerOK
<1>8. QED
  BY <1>3, <1>4, <1>5, <1>7, WorkerIInv DEF PartStored

LEMMA PartFailsIInv ==
  ASSUME IInv, NEW r \in Runs, NEW f \in Files, NEW p \in Parts,
         PartFails(r, f, p)
  PROVE  IInv'
<1> DEFINE w == work[r][f]
           v == [w EXCEPT !.out = @ \ {p}, !.err = TRUE]
<1>1. /\ w \in Worker /\ w.pc = "parts" /\ w.mpu # None
      /\ Holds(mpu, w.mpu, f, w.parts \cup w.got)
  BY CopyOfWorker DEF PartFails, At, WorkerOK
<1>2. w.mpu \in RunIds /\ w.mpu \in Runs
  BY <1>1 DEF Worker, RunIds
<1>3. mpu' \in Store /\ Grows(mpu, mpu')
  BY <1>2, StoreGrows, SameGrows, CopyOfWorker DEF PartFails
<1>4. /\ v \in Worker /\ v.pc = "parts" /\ v.mpu = w.mpu /\ v.err
      /\ v.parts = w.parts /\ v.got = w.got
  BY <1>1 DEF Worker
<1>5. Become(r, f, v)
  BY DEF PartFails
<1> HIDE DEF v
<1>6. Holds(mpu', v.mpu, f, v.parts \cup v.got)
  BY <1>1, <1>2, <1>3, <1>4, HoldsStable
<1>7. WorkerOK(mpu', f, v)
  BY <1>1, <1>4, <1>6 DEF WorkerOK
<1>8. QED
  BY <1>3, <1>4, <1>5, <1>7, WorkerIInv DEF PartFails

LEMMA CollectPartIInv ==
  ASSUME IInv, NEW r \in Runs, NEW f \in Files, NEW p \in Parts,
         CollectPart(r, f, p)
  PROVE  IInv'
<1> DEFINE w == work[r][f]
           v(ok) == [w EXCEPT !.got = @ \ {p}, !.parts = @ \cup {p},
                              !.err = @ \/ ~ok]
<1>1. PICK ok \in BOOLEAN :
        Record(f, ok, "IN_PROGRESS", v(ok)) /\ Become(r, f, v(ok))
  BY DEF CollectPart, DbOutcomes
<1>2. /\ w \in Worker /\ w.pc = "parts" /\ w.mpu # None /\ p \in w.got
      /\ Holds(mpu, w.mpu, f, w.parts \cup w.got)
      /\ ~w.err => w.parts \cup w.out \cup w.got = Parts
  BY CopyOfWorker DEF CollectPart, At, WorkerOK
<1>3. mpu' \in Store /\ Grows(mpu, mpu') /\ mpu' = mpu
  BY SameGrows, CopyOfWorker DEF CollectPart
<1> DEFINE u == v(ok)
<1>4. /\ u.pc = "parts" /\ u.mpu = w.mpu /\ u.out = w.out
      /\ u.parts = w.parts \cup {p} /\ u.got = w.got \ {p}
  BY <1>2 DEF Worker
<1>5. ~u.err => ~w.err
  BY <1>2 DEF Worker
<1>6. u \in Worker
  <2>1. (w.err \/ ~ok) \in BOOLEAN
    BY <1>2 DEF Worker
  <2>2. QED
    BY <1>2, <2>1 DEF Worker
<1>7. Record(f, ok, "IN_PROGRESS", u) /\ Become(r, f, u)
  BY <1>1
<1> HIDE DEF u
<1>8. u.parts \cup u.got = w.parts \cup w.got
  BY <1>2, <1>4
<1>9. WorkerOK(mpu', f, u)
  BY <1>2, <1>3, <1>4, <1>5, <1>8 DEF WorkerOK
<1>10. \/ UNCHANGED row
       \/ \E x \in Row : row' = [row EXCEPT ![f] = x] /\ RowOK(mpu', f, x)
  <2>1. "IN_PROGRESS" \in Status
    BY DEF Status
  <2>2. Holds(mpu', u.mpu, f, u.parts \cup u.got)
    BY <1>9 DEF WorkerOK
  <2>3. QED
    BY <1>6, <1>7, <2>1, <2>2, RecordedRow
<1>11. QED
  BY <1>3, <1>6, <1>7, <1>9, <1>10, WorkerIInv DEF CollectPart

\* uploadParts returns nil with every part only if no part failed.
LEMMA PartsEndIInv ==
  ASSUME IInv, NEW r \in Runs, NEW f \in Files, PartsEnd(r, f) PROVE IInv'
<1> DEFINE w == work[r][f]
<1>1. /\ w \in Worker /\ w.mpu # None /\ w.out = {} /\ w.got = {}
      /\ ~w.err => w.parts = Parts
  BY CopyOfWorker DEF PartsEnd, At, WorkerOK
<1>2. PICK pc \in {"complete", "fail", "err"} :
        Become(r, f, [w EXCEPT !.pc = pc]) /\ (pc = "complete" => ~w.err)
  BY DEF PartsEnd
<1>3. pc \in WorkPc
  BY DEF WorkPc
<1>4. mpu' \in Store /\ Grows(mpu, mpu')
  BY SameGrows, CopyOfWorker DEF PartsEnd
<1>5. UNCHANGED <<proc, row, run, cancelFn, ctl, crashes>>
  BY DEF PartsEnd
<1>6. QED
  BY <1>1, <1>2, <1>3, <1>4, <1>5, MovingWorkerIInv

LEMMA CompleteMultipartIInv ==
  ASSUME IInv, NEW r \in Runs, NEW f \in Files, CompleteMultipart(r, f)
  PROVE  IInv'
<1> DEFINE w == work[r][f]
<1>1. w \in Worker /\ w.mpu # None /\ w.parts = Parts
  BY CopyOfWorker DEF CompleteMultipart, At, WorkerOK
<1>2. w.mpu \in Runs /\ Open(w.mpu, f) /\ CompleteMpu(w.mpu, f)
  BY <1>1 DEF Worker, RunIds, CompleteMultipart, CanComplete
<1>3. mpu' \in Store /\ Grows(mpu, mpu') /\ mpu'[w.mpu][f].state = "completed"
  BY <1>2, CompleteGrows, CopyOfWorker
<1>4. /\ "head" \in WorkPc /\ Become(r, f, [w EXCEPT !.pc = "head"])
      /\ UNCHANGED <<proc, row, run, cancelFn, ctl, crashes>>
  BY DEF CompleteMultipart, WorkPc
<1>5. Assembled(mpu', w.mpu, f)
  BY <1>1, <1>3 DEF Assembled
<1>6. QED
  BY <1>1, <1>3, <1>4, <1>5, MovingWorkerIInv

LEMMA CompleteFailsIInv ==
  ASSUME IInv, NEW r \in Runs, NEW f \in Files, CompleteFails(r, f) PROVE IInv'
<1> DEFINE w == work[r][f]
<1>1. w \in Worker /\ w.mpu # None
  BY CopyOfWorker DEF CompleteFails, At, WorkerOK
<1>2. w.mpu \in Runs
  BY <1>1 DEF Worker, RunIds
<1>3. mpu' \in Store /\ Grows(mpu, mpu')
  BY <1>2, CompleteGrows, SameGrows, CopyOfWorker DEF CompleteFails, CanComplete
<1>4. /\ "fail" \in WorkPc /\ Become(r, f, [w EXCEPT !.pc = "fail"])
      /\ UNCHANGED <<proc, row, run, cancelFn, ctl, crashes>>
  BY DEF CompleteFails, WorkPc
<1>5. QED
  BY <1>3, <1>4, MovingWorkerIInv

LEMMA VerifySizeIInv ==
  ASSUME IInv, NEW r \in Runs, NEW f \in Files, VerifySize(r, f) PROVE IInv'
<1> DEFINE w == work[r][f]
<1>1. PICK pc \in {"finish", "fail"} : Become(r, f, [w EXCEPT !.pc = pc])
  BY DEF VerifySize
<1>2. /\ w \in Worker /\ w.mpu # None /\ w.parts = Parts
      /\ Assembled(mpu, w.mpu, f)
  BY CopyOfWorker DEF VerifySize, At, WorkerOK
<1>3. pc \in WorkPc
  BY DEF WorkPc
<1>4. mpu' \in Store /\ Grows(mpu, mpu') /\ mpu' = mpu
  BY SameGrows, CopyOfWorker DEF VerifySize
<1>5. UNCHANGED <<proc, row, run, cancelFn, ctl, crashes>>
  BY DEF VerifySize
<1>6. QED
  BY <1>1, <1>2, <1>3, <1>4, <1>5, MovingWorkerIInv

\* The row becomes COMPLETED: the worker has every part, and has them assembled.
LEMMA FinishUploadIInv ==
  ASSUME IInv, NEW r \in Runs, NEW f \in Files, FinishUpload(r, f) PROVE IInv'
<1> DEFINE w == work[r][f]
           v(ok) == [w EXCEPT !.pc = IF ok THEN "ok" ELSE "err"]
<1>1. PICK ok \in BOOLEAN :
        Record(f, ok, "COMPLETED", w) /\ Become(r, f, v(ok))
  BY DEF FinishUpload, DbOutcomes
<1>2. /\ w \in Worker /\ w.parts = Parts /\ Assembled(mpu, w.mpu, f)
      /\ Holds(mpu, w.mpu, f, w.parts \cup w.got)
  BY CopyOfWorker DEF FinishUpload, At, WorkerOK
<1>3. mpu' \in Store /\ Grows(mpu, mpu') /\ mpu' = mpu
  BY SameGrows, CopyOfWorker DEF FinishUpload
<1>4. "COMPLETED" \in Status
  BY DEF Status
<1>5. v(ok) \in Worker /\ WorkerOK(mpu, f, v(ok))
  BY RestingWorker DEF IInv
<1> HIDE DEF v
<1>6. \/ UNCHANGED row
      \/ \E x \in Row : row' = [row EXCEPT ![f] = x] /\ RowOK(mpu', f, x)
  BY <1>1, <1>2, <1>3, <1>4, RecordedRow
<1>7. QED
  BY <1>1, <1>3, <1>5, <1>6, WorkerIInv DEF FinishUpload

LEMMA FailUploadIInv ==
  ASSUME IInv, NEW r \in Runs, NEW f \in Files, FailUpload(r, f) PROVE IInv'
<1>1. PICK ok \in BOOLEAN : Record(f, ok, "FAILED", work[r][f])
  BY DEF FailUpload, DbOutcomes
<1>2. mpu' \in Store /\ Grows(mpu, mpu')
  BY SameGrows, CopyOfWorker DEF FailUpload
<1>3. /\ "FAILED" \in Status \ {"COMPLETED"} /\ "err" \in WorkPc
      /\ Become(r, f, [work[r][f] EXCEPT !.pc = "err"])
      /\ UNCHANGED <<proc, run, cancelFn, ctl, crashes>>
  BY DEF FailUpload, Status, WorkPc
<1>4. QED
  BY <1>1, <1>2, <1>3, MovingWorkerIInv

-----------------------------------------------------------------------------
(* PauseProcess and CancelProcess.                                         *)

LEMMA StartControlIInv ==
  ASSUME IInv, NEW c \in Controls, NEW kind \in {"pause", "cancel"},
         StartControl(c, kind)
  PROVE  IInv'
<1>1. TypeOK'
  <2>1. [ctl[c] EXCEPT !.kind = kind, !.pc = "signal"] \in Control
    <3>1. ctl[c] \in Control /\ "signal" \in CtlPc
      BY DEF IInv, TypeOK, CtlPc
    <3>2. QED
      BY <3>1 DEF Control
  <2> DEFINE d == [ctl[c] EXCEPT !.kind = kind, !.pc = "signal"]
  <2>2. ctl' = [ctl EXCEPT ![c] = d]
    BY DEF IInv, TypeOK, StartControl
  <2> HIDE DEF d
  <2>3. ctl' \in [Controls -> Control]
    BY <2>1, <2>2 DEF IInv, TypeOK, d
  <2>4. QED
    BY <2>3 DEF IInv, TypeOK, StartControl
<1>2. RegistrationOK'
  BY DEF IInv, RegistrationOK, StartControl
<1>3. \A d \in Controls : ctl'[d].snap = ctl[d].snap
  BY DEF IInv, TypeOK, StartControl, Control
<1>4. QED
  BY <1>1, <1>2, <1>3, MoveIInv DEF StartControl

LEMMA SignalIInv == ASSUME IInv, NEW c \in Controls, Signal(c) PROVE IInv'
<1>1. ctl' \in [Controls -> Control]
  BY ControlMoves DEF IInv, Signal, CtlPc
<1>2. run' \in [Runs -> RunRec]
  BY DEF IInv, TypeOK, Signal, RunRec, RunIds
<1>3. TypeOK'
  BY <1>1, <1>2 DEF IInv, TypeOK, Signal
<1>4. RegistrationOK'
  BY DEF IInv, TypeOK, RegistrationOK, Signal, RunIds
<1>5. \A d \in Controls : ctl'[d].snap = ctl[d].snap
  BY DEF IInv, TypeOK, Signal, Control
<1>6. QED
  BY <1>3, <1>4, <1>5, MoveIInv DEF Signal

\* The list a control reads is a copy of the table.
LEMMA ListUploadsIInv ==
  ASSUME IInv, NEW c \in Controls, ListUploads(c) PROVE IInv'
<1>1. ctl' = [ctl EXCEPT ![c] =
                [ctl[c] EXCEPT !.pc = "updating", !.snap = row,
                               !.todo = Affected(ctl[c].kind)]]
  BY DEF ListUploads, IInv, TypeOK
<1>2. [ctl[c] EXCEPT !.pc = "updating", !.snap = row,
                     !.todo = Affected(ctl[c].kind)] \in Control
  <2>1. Affected(ctl[c].kind) \in SUBSET Files
    BY DEF Affected
  <2>2. "updating" \in CtlPc
    BY DEF CtlPc
  <2>3. ctl[c] \in Control /\ row \in [Files -> Row]
    BY DEF IInv, TypeOK
  <2>4. QED
    BY <2>1, <2>2, <2>3 DEF Control
<1>3. TypeOK'
  BY <1>1, <1>2 DEF IInv, TypeOK, ListUploads
<1>4. RegistrationOK' /\ Grows(mpu, mpu')
  BY SameGrows DEF IInv, RegistrationOK, ListUploads
<1>5. \A d \in Controls : ctl'[d].snap = ctl[d].snap \/ ctl'[d].snap = row
  BY <1>1 DEF IInv, TypeOK, Control
<1>6. \A f \in Files : Holds(mpu', row[f].mpu, f, row[f].parts)
  BY DEF IInv, RowOK, ListUploads
<1>7. QED
  BY <1>3, <1>4, <1>5, <1>6, Frame DEF ListUploads

\* A control writes back a copy it has read, with a status of its own.
LEMMA PauseUploadIInv ==
  ASSUME IInv, NEW c \in Controls, NEW f \in Files, PauseUpload(c, f) PROVE IInv'
<1> DEFINE u == [ctl[c].snap[f] EXCEPT !.status = "PAUSED"]
<1>1. /\ ctl[c] \in Control /\ ctl[c].snap[f] \in Row
      /\ Holds(mpu, ctl[c].snap[f].mpu, f, ctl[c].snap[f].parts)
  BY DEF IInv, TypeOK, Control
<1>2. u \in Row /\ RowOK(mpu, f, u)
  BY <1>1 DEF Row, Status, RowOK
<1>3. row' = [row EXCEPT ![f] = u] /\ mpu' = mpu
  BY DEF PauseUpload
<1> HIDE DEF u
<1>4. TypeOK'
  <2>1. ctl' \in [Controls -> Control]
    <3>1. [ctl[c] EXCEPT !.todo = @ \ {f}] \in Control
      BY DEF IInv, TypeOK, Control
    <3>2. ctl' = [ctl EXCEPT ![c] = [ctl[c] EXCEPT !.todo = @ \ {f}]]
      BY DEF IInv, TypeOK, PauseUpload
    <3>3. QED
      BY <3>1, <3>2 DEF IInv, TypeOK
  <2>2. QED
    BY <1>2, <1>3, <2>1 DEF IInv, TypeOK, PauseUpload
<1>5. RegistrationOK' /\ Grows(mpu, mpu')
  BY SameGrows DEF IInv, RegistrationOK, PauseUpload
<1>6. \A e \in Files : row'[e] = row[e] \/ RowOK(mpu', e, row'[e])
  BY <1>2, <1>3 DEF IInv, TypeOK
<1>7. /\ \A d \in Controls : ctl'[d].snap = ctl[d].snap
      /\ UNCHANGED work
  BY DEF IInv, TypeOK, PauseUpload, Control
<1>8. QED
  BY <1>4, <1>5, <1>6, <1>7, Frame

LEMMA AbortUploadIInv ==
  ASSUME IInv, NEW c \in Controls, NEW f \in Files, AbortUpload(c, f) PROVE IInv'
<1>1. ctl[c].snap[f].mpu \in Runs /\ mpu \in Store
  BY DEF IInv, TypeOK, Control, Row, RunIds, AbortUpload, Store
<1>2. mpu' \in Store /\ Grows(mpu, mpu')
  BY <1>1, AbortGrows, SameGrows DEF AbortUpload
<1>3. TypeOK'
  <2>1. ctl' \in [Controls -> Control]
    <3>1. [ctl[c] EXCEPT !.cur = f] \in Control
      BY DEF IInv, TypeOK, Control
    <3>2. ctl' = [ctl EXCEPT ![c] = [ctl[c] EXCEPT !.cur = f]]
      BY DEF IInv, TypeOK, AbortUpload
    <3>3. QED
      BY <3>1, <3>2 DEF IInv, TypeOK
  <2>2. QED
    BY <1>2, <2>1 DEF IInv, TypeOK, AbortUpload, Store
<1>4. RegistrationOK'
  BY DEF IInv, RegistrationOK, AbortUpload
<1>5. /\ \A d \in Controls : ctl'[d].snap = ctl[d].snap
      /\ UNCHANGED <<row, work>>
  BY DEF IInv, TypeOK, AbortUpload, Control
<1>6. QED
  BY <1>2, <1>3, <1>4, <1>5, Frame

LEMMA CancelUploadIInv ==
  ASSUME IInv, NEW c \in Controls, NEW f \in Files, CancelUpload(c, f)
  PROVE  IInv'
<1> DEFINE u == [AbsentRow EXCEPT !.status = "CANCELLED"]
<1>1. u \in Row /\ RowOK(mpu, f, u)
  BY DEF AbsentRow, Row, RunIds, Status, RowOK, Holds
<1>2. row' = [row EXCEPT ![f] = u] /\ mpu' = mpu
  BY DEF CancelUpload
<1> HIDE DEF u
<1>3. TypeOK'
  <2>1. ctl' \in [Controls -> Control]
    <3>1. [ctl[c] EXCEPT !.todo = @ \ {f}, !.cur = None] \in Control
      <4>1. ctl[c] \in Control
        BY DEF IInv, TypeOK
      <4>2. QED
        BY <4>1 DEF Control
    <3>2. ctl' = [ctl EXCEPT ![c] = [ctl[c] EXCEPT !.todo = @ \ {f}, !.cur = None]]
      BY DEF CancelUpload
    <3>3. QED
      BY <3>1, <3>2 DEF IInv, TypeOK
  <2>2. row' \in [Files -> Row]
    BY <1>1, <1>2 DEF IInv, TypeOK
  <2>3. QED
    BY <1>2, <2>1, <2>2 DEF IInv, TypeOK, CancelUpload
<1>4. RegistrationOK' /\ Grows(mpu, mpu')
  BY SameGrows DEF IInv, RegistrationOK, CancelUpload
<1>5. \A e \in Files : row'[e] = row[e] \/ RowOK(mpu', e, row'[e])
  BY <1>1, <1>2 DEF IInv, TypeOK
<1>6. /\ \A d \in Controls : ctl'[d].snap = ctl[d].snap
      /\ UNCHANGED work
  BY DEF IInv, TypeOK, CancelUpload, Control
<1>7. QED
  BY <1>3, <1>4, <1>5, <1>6, Frame

LEMMA FinishControlIInv ==
  ASSUME IInv, NEW c \in Controls, FinishControl(c) PROVE IInv'
<1>1. ctl' \in [Controls -> Control]
  BY ControlMoves DEF IInv, FinishControl, CtlPc
<1>2. TypeOK'
  BY <1>1 DEF IInv, TypeOK, FinishControl, Status
<1>3. RegistrationOK'
  BY DEF IInv, RegistrationOK, FinishControl
<1>4. \A d \in Controls : ctl'[d].snap = ctl[d].snap
  BY DEF IInv, TypeOK, FinishControl, Control
<1>5. QED
  BY <1>2, <1>3, <1>4, MoveIInv DEF FinishControl

LEMMA ControlFailsIInv ==
  ASSUME IInv, NEW c \in Controls, ControlFails(c) PROVE IInv'
<1>1. ctl' \in [Controls -> Control]
  BY ControlMoves DEF IInv, ControlFails, CtlPc
<1>2. TypeOK'
  BY <1>1 DEF IInv, TypeOK, ControlFails
<1>3. RegistrationOK'
  BY DEF IInv, RegistrationOK, ControlFails
<1>4. \A d \in Controls : ctl'[d].snap = ctl[d].snap
  BY DEF IInv, TypeOK, ControlFails, Control
<1>5. QED
  BY <1>2, <1>3, <1>4, MoveIInv DEF ControlFails

\* A crash forgets every copy that is not in the table.
LEMMA CrashIInv == ASSUME IInv, Crash PROVE IInv'
<1>1. /\ work' \in [Runs -> [Files -> Worker]]
      /\ \A r \in Runs, f \in Files : WorkerOK(mpu', f, work'[r][f])
  <2>1. Idle \in Worker /\ \A f \in Files : WorkerOK(mpu', f, Idle)
    BY DEF Idle, Worker, WorkPc, RunIds, WorkerOK, Holds
  <2>2. work' = [r \in Runs |-> [f \in Files |-> Idle]]
    BY DEF Crash
  <2>3. QED
    BY <2>1, <2>2
<1>2. run' \in [Runs -> RunRec]
  <2>1. \A r \in Runs : run[r] \in RunRec
    BY DEF IInv, TypeOK
  <2>2. \A r \in Runs : [run[r] EXCEPT !.pc = "returned", !.ctx = FALSE] \in RunRec
    BY <2>1 DEF RunRec, RunPc
  <2>3. run' = [r \in Runs |-> IF RunActive(r)
                              THEN [run[r] EXCEPT !.pc = "returned", !.ctx = FALSE]
                              ELSE run[r]]
    BY DEF Crash
  <2>4. QED
    BY <2>1, <2>2, <2>3
<1>3. /\ ctl' \in [Controls -> Control]
      /\ \A c \in Controls : ctl'[c].snap = ctl[c].snap
  <2>1. \A c \in Controls : /\ [ctl[c] EXCEPT !.pc = "failed"] \in Control
                            /\ [ctl[c] EXCEPT !.pc = "failed"].snap = ctl[c].snap
    BY DEF IInv, TypeOK, Control, CtlPc
  <2>2. \A c \in Controls : ctl[c] \in Control
    BY DEF IInv, TypeOK
  <2>3. ctl' = [c \in Controls |-> IF CtlActive(c) THEN [ctl[c] EXCEPT !.pc = "failed"]
                                                  ELSE ctl[c]]
    BY DEF Crash
  <2>4. QED
    BY <2>1, <2>2, <2>3
<1>4. cancelFn' = None /\ crashes' \in Nat /\ UNCHANGED <<proc, row, mpu>>
  <2>1. crashes' = crashes + 1 /\ crashes \in Nat
    BY DEF IInv, TypeOK, Crash
  <2>2. cancelFn' = None /\ UNCHANGED <<proc, row, mpu>>
    BY DEF Crash
  <2>3. QED
    BY <2>1, <2>2
<1>5. TypeOK'
  BY <1>1, <1>2, <1>3, <1>4 DEF IInv, TypeOK, RunIds
<1>6. RegistrationOK' /\ Grows(mpu, mpu')
  BY <1>4, SameGrows DEF RegistrationOK
<1>7. QED
  BY <1>1, <1>3, <1>4, <1>5, <1>6, Frame

-----------------------------------------------------------------------------
(* Every step.                                                             *)

LEMMA WorkerStepIInv ==
  ASSUME IInv, NEW r \in Runs, NEW f \in Files, StepWorker(r, f) PROVE IInv'
<1>1. CASE Begin(r, f)
  BY <1>1, BeginIInv
<1>2. CASE InitMultipart(r, f)
  BY <1>2, InitMultipartIInv
<1>3. CASE InitFails(r, f)
  BY <1>3, InitFailsIInv
<1>4. CASE SaveMultipartID(r, f)
  BY <1>4, SaveMultipartIDIInv
<1>5. CASE OpenFile(r, f)
  BY <1>5, OpenFileIInv
<1>6. CASE StepParts(r, f)
  BY <1>6, PartStoredIInv, PartFailsIInv, CollectPartIInv DEF StepParts
<1>7. CASE PartsEnd(r, f)
  BY <1>7, PartsEndIInv
<1>8. CASE CompleteMultipart(r, f)
  BY <1>8, CompleteMultipartIInv
<1>9. CASE CompleteFails(r, f)
  BY <1>9, CompleteFailsIInv
<1>10. CASE VerifySize(r, f)
  BY <1>10, VerifySizeIInv
<1>11. CASE FinishUpload(r, f)
  BY <1>11, FinishUploadIInv
<1>12. CASE FailUpload(r, f)
  BY <1>12, FailUploadIInv
<1>13. QED
  BY <1>1, <1>2, <1>3, <1>4, <1>5, <1>6, <1>7, <1>8, <1>9, <1>10, <1>11, <1>12
     DEF StepWorker

LEMMA RunStepIInv == ASSUME IInv, NEW r \in Runs, StepRun(r) PROVE IInv'
<1>1. CASE StepFirst
  BY <1>1, CreateUploadIInv, SkipFileIInv, CreateFailsIInv, MarkInProgressIInv
     DEF StepFirst
<1>2. CASE WriteResumed(r) \/ ListForResume(r) \/ RegisterCancel(r)
  BY <1>2, WriteResumedIInv, ListForResumeIInv, RegisterCancelIInv
<1>3. CASE \E f \in Files : Launch(r, f) \/ StepWorker(r, f)
  BY <1>3, LaunchIInv, WorkerStepIInv
<1>4. CASE WorkersEnd(r) \/ DeriveStatus(r) \/ WriteDerived(r) \/ Leave(r)
  BY <1>4, WorkersEndIInv, DeriveStatusIInv, WriteDerivedIInv, LeaveIInv
<1>5. QED
  BY <1>1, <1>2, <1>3, <1>4 DEF StepRun

LEMMA ControlStepIInv ==
  ASSUME IInv, NEW c \in Controls, StepControl(c) PROVE IInv'
<1>1. CASE Signal(c) \/ ListUploads(c)
  BY <1>1, SignalIInv, ListUploadsIInv
<1>2. CASE \E f \in Files : PauseUpload(c, f) \/ AbortUpload(c, f) \/ CancelUpload(c, f)
  BY <1>2, PauseUploadIInv, AbortUploadIInv, CancelUploadIInv
<1>3. CASE FinishControl(c) \/ ControlFails(c)
  BY <1>3, FinishControlIInv, ControlFailsIInv
<1>4. QED
  BY <1>1, <1>2, <1>3 DEF StepControl

LEMMA NextIInv == IInv /\ [Next]_vars => IInv'
<1> SUFFICES ASSUME IInv, [Next]_vars PROVE IInv'
  OBVIOUS
<1>1. CASE Client
  BY <1>1, CreateProcessIInv, StartResumeIInv, DisconnectIInv, StartControlIInv
     DEF Client
<1>2. CASE \E r \in Runs : StepRun(r)
  BY <1>2, RunStepIInv
<1>3. CASE \E c \in Controls : StepControl(c)
  BY <1>3, ControlStepIInv
<1>4. CASE Crash
  BY <1>4, CrashIInv
<1>5. CASE UNCHANGED vars
  <2>1. TypeOK'
    BY <1>5 DEF vars, IInv, TypeOK
  <2>2. RegistrationOK'
    BY <1>5 DEF vars, IInv, RegistrationOK
  <2>3. QED
    BY <1>5, <2>1, <2>2, MoveIInv DEF vars
<1>6. QED
  BY <1>1, <1>2, <1>3, <1>4, <1>5 DEF Next

-----------------------------------------------------------------------------
(* The theorems.                                                           *)

\* The inductive invariant: every copy of an upload is backed by the storage.
THEOREM UploadServiceInvariant == Spec => []IInv
  BY InitIInv, NextIInv, PTL DEF Spec

\* Type correctness of the service, its tables and the storage.
THEOREM UploadServiceTypes == Spec => []TypeOK
<1>1. IInv => TypeOK
  BY DEF IInv
<1>2. QED
  BY <1>1, UploadServiceInvariant, PTL

\* A row never claims a part that its multipart upload did not receive
\* (the updates of executeUpload, uploadParts, PauseProcess, CancelProcess).
THEOREM RecordedPartsAreBacked == Spec => []RecordedPartsAreStored
<1>1. IInv => RecordedPartsAreStored
  BY DEF IInv, RowOK, Holds, RecordedPartsAreStored, Created
<1>2. QED
  BY <1>1, UploadServiceInvariant, PTL

\* A row is COMPLETED only if the storage has assembled all of its parts
\* (the end of executeUpload), whatever pauses, cancels and crashes come.
THEOREM CompletedIsEarned == Spec => []CompletedIsAssembled
<1>1. IInv => CompletedIsAssembled
  <2> SUFFICES ASSUME IInv, NEW f \in Files, row[f].status = "COMPLETED"
               PROVE  /\ row[f].mpu # None /\ row[f].parts = Parts
                      /\ mpu[row[f].mpu][f].state = "completed"
                      /\ mpu[row[f].mpu][f].parts = Parts
    BY DEF CompletedIsAssembled
  <2>1. /\ row[f].mpu # None /\ row[f].parts = Parts
        /\ mpu[row[f].mpu][f].state = "completed"
        /\ Parts \subseteq mpu[row[f].mpu][f].parts
    BY DEF IInv, RowOK, Assembled, Holds
  <2>2. row[f].mpu \in Runs
    BY <2>1 DEF IInv, TypeOK, Row, RunIds
  <2>3. mpu[row[f].mpu][f].parts \subseteq Parts
    BY <2>2 DEF IInv, TypeOK, MpuState
  <2>4. QED
    BY <2>1, <2>3
<1>2. QED
  BY <1>1, UploadServiceInvariant, PTL

\* cancelFuncs holds no function of a call that has returned (registerCancel
\* and the deferred unregisterCancel).
THEOREM RegistrationIsLive == Spec => []RegisteredRunIsActive
<1>1. IInv => RegisteredRunIsActive
  BY DEF IInv, RegistrationOK, RegisteredRunIsActive, RunActive
<1>2. QED
  BY <1>1, UploadServiceInvariant, PTL

=============================================================================
