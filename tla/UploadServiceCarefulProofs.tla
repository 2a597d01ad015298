---------------------- MODULE UploadServiceCarefulProofs ----------------------
(***************************************************************************)
(* Proofs about UploadService with a careful client, for every set of      *)
(* files, parts, runs and controls, with faults, disconnections and        *)
(* crashes: the inductive invariant CarefulIInv, what it says of PAUSED,   *)
(* COMPLETED and CANCELLED processes, and the refinement of the lifecycle   *)
(* that the rows of the uploads promise.                                   *)
(*                                                                         *)
(* One run and one control are active at most, so a step of either is      *)
(* looked at alone: each kind of step (a run that moves, a worker, a       *)
(* control) has a lemma that says which parts of the invariant it has to   *)
(* restore, and each action one that shows that it does.                   *)
(***************************************************************************)
EXTENDS UploadServiceProofs

-----------------------------------------------------------------------------
(* What follows at once from the invariant.                                *)

LEMMA CarefulTypes == CarefulIInv => TypeOK /\ IInv
  BY DEF CarefulIInv, IInv

OthersRest(r) == \A q \in Runs : q # r => ~RunActive(q)

LEMMA ActiveAlone ==
  ASSUME CarefulIInv, NEW r \in Runs, RunActive(r)
  PROVE  /\ OthersRest(r) /\ proc # "ABSENT"
         /\ run[First].pc # "idle"
         /\ \A c \in Controls : CtlActive(c) =>
              run[r].pc \in {"working", "deriving", "writing", "leaving"}
  BY DEF CarefulIInv, OthersRest, OneAtATime, UncreatedOK, Quiet

\* A run at rest asks nothing of the process, and owes nothing.
LEMMA RestingRun ==
  ASSUME NEW r \in Runs, ~RunActive(r),
         \A f \in Files : ~Busy(r, f)
  PROVE  RunOK(r) /\ ~MayWrite(r) /\ ~Works(r)
  BY DEF RunActive, RunOK, MayWrite, Works

\* A run that goes to another place of the code, and nothing else.
LEMMA GoesTo ==
  ASSUME TypeOK, NEW r \in Runs, NEW pc, GoTo(r, pc)
  PROVE  /\ run'[r].pc = pc /\ run'[r].ctx = run[r].ctx
         /\ run'[r].status = run[r].status
         /\ \A q \in Runs : q # r => run'[q] = run[q]
  BY DEF TypeOK, GoTo, RunRec

\* While a row is left to a pause or a cancel, nobody else may write one, and
\* no status says that the uploads are over.
LEMMA TodoRow ==
  ASSUME CarefulIInv, NEW c \in Controls, ctl[c].pc = "updating",
         NEW f \in ctl[c].todo
  PROVE  /\ f \in Files /\ row[f] = ctl[c].snap[f]
         /\ row[f].status \in {"PENDING", "IN_PROGRESS", "PAUSED"}
         /\ ctl[c].kind = "pause" => row[f].status = "IN_PROGRESS"
         /\ row[f].status \in Statuses
         /\ proc \notin {"COMPLETED", "CANCELLED"}
         /\ \A r \in Runs : /\ ~MayWrite(r)
                            /\ run[r].pc = "writing" =>
                                 run[r].status \notin {"COMPLETED", "CANCELLED"}
<1>1. ctl[c] \in Control
  BY CarefulTypes DEF TypeOK
<1>2. f \in Files /\ ctl[c].kind \in {"pause", "cancel"}
  BY <1>1 DEF Control
<1>3. row[f] = ctl[c].snap[f] /\ f \in Affected(ctl[c].kind)
  BY DEF CarefulIInv, ControlOK
<1>4. row[f].status \in Status \cup {"ABSENT"}
  BY <1>2, CarefulTypes DEF TypeOK, Row
<1>5. /\ row[f].status \in {"PENDING", "IN_PROGRESS", "PAUSED"}
      /\ ctl[c].kind = "pause" => row[f].status = "IN_PROGRESS"
  BY <1>2, <1>3, <1>4 DEF Affected, IsTerminal, Status
<1>6. row[f].status \in Statuses
  BY <1>2, <1>5 DEF Statuses
<1>7. ~(Statuses = {"COMPLETED"}) /\ ~(\A s \in Statuses : IsTerminal(s))
  BY <1>5, <1>6 DEF IsTerminal
<1>8. proc \notin {"COMPLETED", "CANCELLED"}
  BY <1>7 DEF CarefulIInv, CompletedProcessIsComplete, CancelledProcessIsOver
<1>9. ASSUME NEW r \in Runs
      PROVE  /\ ~MayWrite(r)
             /\ run[r].pc = "writing" =>
                  run[r].status \notin {"COMPLETED", "CANCELLED"}
  <2>1. CtlActive(c) /\ ~Works(r)
    BY DEF CarefulIInv, ControlOK, CtlActive
  <2>2. run[r].pc \notin {"creating", "marking", "registering"}
    BY <2>1 DEF CarefulIInv, OneAtATime, RunActive
  <2>3. QED
    BY <1>7, <2>1, <2>2 DEF CarefulIInv, RunOK, MayWrite
<1>10. QED
  BY <1>2, <1>3, <1>5, <1>6, <1>8, <1>9

-----------------------------------------------------------------------------
(* Three kinds of steps.                                                   *)

\* A run moves; the uploads, their workers and the controls stay as they are.
LEMMA RunMoveCareful ==
  ASSUME CarefulIInv, IInv', NEW r \in Runs, OthersRest(r),
         UNCHANGED <<row, work, ctl>>,
         \A q \in Runs : q # r => run'[q] = run[q],
         proc' # "ABSENT", run'[First].pc # "idle",
         run'[First].pc = "creating" => run[First].pc \in {"idle", "creating"},
         RunOK(r)',
         \A f \in Files : MayWrite(r)' => SyncRow(row[f], work[r][f]),
         \A c \in Controls : CtlActive(c) =>
           /\ RunActive(r)' =>
                run'[r].pc \in {"working", "deriving", "writing", "leaving"}
           /\ Works(r)' => Works(r),
         proc' = "COMPLETED" => Statuses = {"COMPLETED"},
         proc' = "CANCELLED" => \A s \in Statuses : IsTerminal(s)
  PROVE  CarefulIInv'
<1>1. \A q \in Runs : q # r => /\ ~RunActive(q)' /\ RunOK(q)'
                               /\ ~MayWrite(q)' /\ ~Works(q)'
  <2> SUFFICES ASSUME NEW q \in Runs, q # r
               PROVE  ~RunActive(q)' /\ RunOK(q)' /\ ~MayWrite(q)' /\ ~Works(q)'
    OBVIOUS
  <2>1. ~RunActive(q) /\ ~RunActive(q)'
    BY DEF OthersRest, RunActive
  <2>2. \A f \in Files : ~Busy(q, f)'
    BY <2>1 DEF CarefulIInv, RunOK, RunActive, Busy
  <2>3. QED
    BY <2>1, <2>2 DEF RunActive, RunOK, MayWrite, Works, Busy
<1>2. OneAtATime'
  BY <1>1 DEF CarefulIInv, OneAtATime, CtlActive
<1>3. UncreatedOK'
  BY DEF CarefulIInv, UncreatedOK
<1>4. SyncOK'
  BY <1>1 DEF SyncOK
<1>5. \A c \in Controls : ControlOK(c)'
  BY <1>1 DEF CarefulIInv, ControlOK, CtlActive, Affected
<1>6. CompletedProcessIsComplete' /\ CancelledProcessIsOver'
  BY DEF CompletedProcessIsComplete, CancelledProcessIsOver, Statuses
<1>7. QED
  BY <1>1, <1>2, <1>3, <1>4, <1>5, <1>6 DEF CarefulIInv

\* A worker moves, and maybe writes its row, which it may only do while its
\* context lives.
LEMMA WorkerCareful ==
  ASSUME CarefulIInv, IInv', NEW r \in Runs, NEW f \in Files, NEW w,
         run[r].pc = "working", Become(r, f, w),
         UNCHANGED <<proc, run, cancelFn, ctl>>,
         UNCHANGED row \/ (run[r].ctx /\ \E u : row' = [row EXCEPT ![f] = u]),
         run[r].ctx => SyncRow(row'[f], w)
  PROVE  CarefulIInv'
<1>1. RunActive(r)
  BY DEF RunActive
<1>2. OthersRest(r) /\ proc # "ABSENT" /\ run[First].pc # "idle"
  BY <1>1, ActiveAlone
<1>3. /\ \A q \in Runs, e \in Files :
           work'[q][e] = IF q = r /\ e = f THEN w ELSE work[q][e]
      /\ \A e \in Files : e # f => row'[e] = row[e]
  BY CarefulTypes DEF TypeOK, Become
<1>4. UNCHANGED row \/ (proc = "IN_PROGRESS" /\ Works(r))
  BY <1>1 DEF CarefulIInv, RunOK, Works
<1>5. OneAtATime'
  BY DEF CarefulIInv, OneAtATime, RunActive, CtlActive
<1>6. \A q \in Runs : RunOK(q)'
  <2> TAKE q \in Runs
  <2>1. \A e \in Files : Busy(q, e)' => run'[q].pc = "working"
    BY <1>1, <1>3 DEF CarefulIInv, RunOK, Busy
  <2>2. run'[q].pc = "writing" => UNCHANGED row \/ (q # r /\ RunActive(q))
    BY <1>1 DEF RunActive
  <2>3. run'[q].pc = "writing" => Statuses' = Statuses
    BY <1>2, <2>2 DEF OthersRest, Statuses
  <2>4. QED
    BY <2>1, <2>3 DEF CarefulIInv, RunOK, Works
<1>7. UncreatedOK'
  <2>1. run[First].pc # "creating"
    BY <1>1, <1>2, FirstIsRun DEF OthersRest, RunActive
  <2>2. QED
    BY <1>2, <2>1 DEF UncreatedOK
<1>8. SyncOK'
  <2> SUFFICES ASSUME NEW q \in Runs, NEW e \in Files, MayWrite(q)
               PROVE  SyncRow(row'[e], work'[q][e])
    BY DEF SyncOK, MayWrite, Works
  <2>1. q = r /\ run[r].ctx
    BY <1>1, <1>2 DEF OthersRest, RunActive, MayWrite, Works
  <2>2. SyncRow(row[e], work[q][e])
    BY DEF CarefulIInv, SyncOK
  <2>3. QED
    BY <1>3, <2>1, <2>2
<1>9. \A c \in Controls : ControlOK(c)'
  <2> TAKE c \in Controls
  <2>1. CASE UNCHANGED row
    BY <2>1 DEF CarefulIInv, ControlOK, Works, Affected
  <2>2. CASE Works(r)
    BY <2>2 DEF CarefulIInv, ControlOK
  <2>3. QED
    BY <1>4, <2>1, <2>2
<1>10. CompletedProcessIsComplete' /\ CancelledProcessIsOver'
  <2>1. CASE UNCHANGED row
    BY <2>1 DEF CarefulIInv, CompletedProcessIsComplete, CancelledProcessIsOver,
                Statuses
  <2>2. CASE proc = "IN_PROGRESS"
    BY <2>2 DEF CompletedProcessIsComplete, CancelledProcessIsOver
  <2>3. QED
    BY <1>4, <2>1, <2>2
<1>11. QED
  BY <1>5, <1>6, <1>7, <1>8, <1>9, <1>10 DEF CarefulIInv

-----------------------------------------------------------------------------
(* The initial states.                                                     *)

LEMMA InitCareful == Init => CarefulIInv
<1> SUFFICES ASSUME Init PROVE CarefulIInv
  OBVIOUS
<1>1. /\ \A r \in Runs : /\ run[r].pc = "idle"
                         /\ \A f \in Files : work[r][f].pc = "off"
      /\ \A c \in Controls : ctl[c].pc = "idle"
      /\ \A f \in Files : row[f] = AbsentRow
      /\ proc = "ABSENT"
  BY DEF Init, Idle
<1>2. /\ \A r \in Runs : ~RunActive(r) /\ \A f \in Files : ~Busy(r, f)
      /\ \A c \in Controls : ~CtlActive(c)
  BY <1>1 DEF RunActive, CtlActive, Busy
<1>3. \A r \in Runs : RunOK(r) /\ ~MayWrite(r)
  BY <1>2, RestingRun
<1>4. OneAtATime /\ UncreatedOK /\ SyncOK
  BY <1>1, <1>2, <1>3, FirstIsRun DEF OneAtATime, UncreatedOK, Quiet, SyncOK
<1>5. \A c \in Controls : ControlOK(c)
  BY <1>1 DEF ControlOK
<1>6. CompletedProcessIsComplete /\ CancelledProcessIsOver
  BY <1>1 DEF CompletedProcessIsComplete, CancelledProcessIsOver
<1>7. QED
  BY <1>3, <1>4, <1>5, <1>6, InitIInv DEF CarefulIInv

-----------------------------------------------------------------------------
(* The steps of a run that leave the uploads alone.                        *)

LEMMA NoWorker ==
  ASSUME CarefulIInv, NEW r \in Runs, run[r].pc # "working", NEW f \in Files
  PROVE  ~Busy(r, f)
  BY DEF CarefulIInv, RunOK

LEMMA CreateProcessCareful == ASSUME CarefulIInv, CreateProcess PROVE CarefulIInv'
<1>1. IInv'
  BY CarefulTypes, CreateProcessIInv
<1>2. /\ run[First].pc = "idle" /\ proc = "ABSENT" /\ proc' = "PENDING"
      /\ run'[First].pc = "creating"
      /\ \A q \in Runs : q # First => run'[q] = run[q]
      /\ UNCHANGED <<row, work, ctl>>
  BY CarefulTypes, FirstIsRun, GoesTo DEF CreateProcess
<1>3. OthersRest(First) /\ \A c \in Controls : ~CtlActive(c)
  BY <1>2 DEF CarefulIInv, UncreatedOK, Quiet, OthersRest
<1>4. \A f \in Files : work[First][f].pc = "off"
  BY <1>2 DEF CarefulIInv, UncreatedOK
<1>5. RunOK(First)'
  BY <1>2, <1>4 DEF RunOK, Works, Busy
<1>6. \A f \in Files : SyncRow(row[f], work[First][f])
  BY <1>4 DEF SyncRow
<1>7. QED
  BY <1>1, <1>2, <1>3, <1>5, <1>6, FirstIsRun, RunMoveCareful

LEMMA CreateFailsCareful == ASSUME CarefulIInv, CreateFails PROVE CarefulIInv'
<1>1. IInv'
  BY CarefulTypes, CreateFailsIInv
<1>2. /\ run[First].pc = "creating" /\ run'[First].pc = "returned"
      /\ \A q \in Runs : q # First => run'[q] = run[q]
      /\ UNCHANGED <<proc, row, work, ctl>>
  BY CarefulTypes, FirstIsRun, GoesTo DEF CreateFails
<1>3. OthersRest(First) /\ proc = "PENDING"
  BY <1>2, FirstIsRun, ActiveAlone DEF RunActive, CarefulIInv, RunOK
<1>4. RunOK(First)' /\ ~MayWrite(First)' /\ ~Works(First)' /\ ~RunActive(First)'
  BY <1>2, FirstIsRun, NoWorker DEF RunOK, MayWrite, Works, RunActive, Busy
<1>5. QED
  BY <1>1, <1>2, <1>3, <1>4, FirstIsRun, RunMoveCareful

\* Nobody can pause or cancel a run that has not registered yet.
LEMMA RegisterCancelCareful ==
  ASSUME CarefulIInv, NEW r \in Runs, RegisterCancel(r) PROVE CarefulIInv'
<1>1. IInv'
  BY CarefulTypes, RegisterCancelIInv
<1>2. /\ run[r].pc \in {"creating", "registering"} /\ cancelFn' = r
      /\ run'[r].pc = IF r = First THEN "marking" ELSE "working"
      /\ \A q \in Runs : q # r => run'[q] = run[q]
      /\ UNCHANGED <<proc, row, work, ctl>>
  BY CarefulTypes DEF RegisterCancel, TypeOK, RunRec
<1>3. /\ OthersRest(r) /\ proc # "ABSENT" /\ run[First].pc # "idle"
      /\ \A c \in Controls : ~CtlActive(c)
  BY <1>2, ActiveAlone DEF RunActive
<1>4. /\ r = First => proc = "PENDING"
      /\ r # First => proc = "IN_PROGRESS"
  BY <1>2 DEF CarefulIInv, RunOK
<1>5. RunOK(r)'
  BY <1>2, <1>4, NoWorker DEF RunOK, Works, Busy
<1>6. \A f \in Files : SyncRow(row[f], work[r][f])
  BY <1>2 DEF CarefulIInv, SyncOK, MayWrite
<1>7. run'[First].pc \notin {"idle", "creating"}
  BY <1>2, <1>3, FirstIsRun DEF OthersRest, RunActive
<1>8. QED
  BY <1>1, <1>2, <1>3, <1>4, <1>5, <1>6, <1>7, RunMoveCareful

LEMMA MarkInProgressCareful == ASSUME CarefulIInv, MarkInProgress PROVE CarefulIInv'
<1>1. IInv'
  BY CarefulTypes, MarkInProgressIInv
<1>2. PICK ok \in BOOLEAN :
        /\ proc' = IF ok THEN "IN_PROGRESS" ELSE proc
        /\ GoTo(First, IF ok THEN "working" ELSE "leaving")
  BY DEF MarkInProgress, DbOutcomes
<1>3. /\ run[First].pc = "marking"
      /\ run'[First].pc = IF ok THEN "working" ELSE "leaving"
      /\ \A q \in Runs : q # First => run'[q] = run[q]
      /\ UNCHANGED <<row, work, cancelFn, ctl>>
  BY <1>2, CarefulTypes, FirstIsRun, GoesTo DEF MarkInProgress
<1>4. OthersRest(First) /\ \A c \in Controls : ~CtlActive(c)
  BY <1>3, FirstIsRun, ActiveAlone DEF RunActive
<1>5. proc = "PENDING" /\ cancelFn = First
  BY <1>3, FirstIsRun DEF CarefulIInv, RunOK
<1>6. RunOK(First)'
  BY <1>2, <1>3, <1>5, FirstIsRun, NoWorker DEF RunOK, Works, Busy
<1>7. \A f \in Files : SyncRow(row[f], work[First][f])
  BY <1>3, FirstIsRun DEF CarefulIInv, SyncOK, MayWrite
<1>8. QED
  BY <1>1, <1>2, <1>3, <1>4, <1>5, <1>6, <1>7, FirstIsRun, RunMoveCareful

\* A careful resume starts when nothing else does anything.
LEMMA StartResumeCareful ==
  ASSUME Careful, CarefulIInv, NEW r \in Runs, StartResume(r) PROVE CarefulIInv'
<1>1. IInv'
  BY CarefulTypes, StartResumeIInv
<1>2. /\ r # First /\ run[r].pc = "idle" /\ proc = "PAUSED" /\ Quiet
      /\ run'[r].pc = "resuming"
      /\ \A q \in Runs : q # r => run'[q] = run[q]
      /\ UNCHANGED <<proc, row, work, ctl>>
  BY CarefulTypes, GoesTo DEF StartResume, CarefulResume, IsResumable
<1>3. OthersRest(r) /\ \A c \in Controls : ~CtlActive(c)
  BY <1>2 DEF Quiet, OthersRest
<1>4. /\ RunOK(r)' /\ ~MayWrite(r)'
      /\ run'[First].pc \notin {"idle", "creating"}
  <2>1. run'[First].pc = run[First].pc
    BY <1>2, FirstIsRun
  <2>2. run[First].pc \notin {"idle", "creating"}
    BY <1>2, FirstIsRun DEF CarefulIInv, UncreatedOK, Quiet, RunActive
  <2>3. \A f \in Files : ~Busy(r, f)
    BY <1>2, NoWorker
  <2>4. QED
    BY <1>2, <2>1, <2>2, <2>3 DEF RunOK, MayWrite, Works, Busy
<1>5. QED
  BY <1>1, <1>2, <1>3, <1>4, RunMoveCareful

LEMMA WriteResumedCareful ==
  ASSUME CarefulIInv, NEW r \in Runs, WriteResumed(r) PROVE CarefulIInv'
<1>1. IInv'
  BY CarefulTypes, WriteResumedIInv
<1>2. PICK ok \in BOOLEAN :
        /\ proc' = IF ok THEN "IN_PROGRESS" ELSE proc
        /\ GoTo(r, IF ok THEN "listing" ELSE "returned")
  BY DEF WriteResumed, DbOutcomes
<1>3. /\ run[r].pc = "resuming"
      /\ run'[r].pc = IF ok THEN "listing" ELSE "returned"
      /\ \A q \in Runs : q # r => run'[q] = run[q]
      /\ UNCHANGED <<row, work, cancelFn, ctl>>
  BY <1>2, CarefulTypes, GoesTo DEF WriteResumed
<1>4. /\ OthersRest(r) /\ proc # "ABSENT" /\ r # First
      /\ run[First].pc \notin {"idle", "creating"}
      /\ \A c \in Controls : ~CtlActive(c)
  <2>1. RunActive(r) /\ r # First
    BY <1>3 DEF RunActive, CarefulIInv, RunOK
  <2>2. QED
    BY <1>3, <2>1, FirstIsRun, ActiveAlone DEF OthersRest, RunActive
<1>5. RunOK(r)' /\ ~MayWrite(r)'
  BY <1>2, <1>3, <1>4, NoWorker DEF RunOK, MayWrite, Works, Busy
<1>6. /\ proc' = "COMPLETED" => Statuses = {"COMPLETED"}
      /\ proc' = "CANCELLED" => \A s \in Statuses : IsTerminal(s)
  BY <1>2 DEF CarefulIInv, CompletedProcessIsComplete, CancelledProcessIsOver
<1>7. QED
  BY <1>1, <1>2, <1>3, <1>4, <1>5, <1>6, FirstIsRun, RunMoveCareful

LEMMA WorkersEndCareful ==
  ASSUME CarefulIInv, NEW r \in Runs, WorkersEnd(r) PROVE CarefulIInv'
<1>1. IInv'
  BY CarefulTypes, WorkersEndIInv
<1>2. PICK pc \in {"leaving", "deriving"} : GoTo(r, pc)
  BY DEF WorkersEnd
<1>3. /\ run[r].pc = "working" /\ run'[r].pc = pc
      /\ \A q \in Runs : q # r => run'[q] = run[q]
      /\ \A f \in Files : ~Busy(r, f)
      /\ UNCHANGED <<proc, row, work, cancelFn, ctl>>
  BY <1>2, CarefulTypes, GoesTo DEF WorkersEnd
<1>4. /\ OthersRest(r) /\ proc # "ABSENT"
      /\ run'[First].pc \notin {"idle", "creating"}
  <2>1. OthersRest(r) /\ proc # "ABSENT" /\ run[First].pc # "idle"
    BY <1>3, ActiveAlone DEF RunActive
  <2>2. QED
    BY <1>3, <2>1, FirstIsRun DEF OthersRest, RunActive
<1>5. RunOK(r)' /\ ~MayWrite(r)' /\ ~Works(r)'
  BY <1>3 DEF CarefulIInv, RunOK, MayWrite, Works, Busy
<1>6. /\ proc' = "COMPLETED" => Statuses = {"COMPLETED"}
      /\ proc' = "CANCELLED" => \A s \in Statuses : IsTerminal(s)
  BY <1>3 DEF CarefulIInv, CompletedProcessIsComplete, CancelledProcessIsOver
<1>7. QED
  BY <1>1, <1>3, <1>4, <1>5, <1>6, RunMoveCareful

\* COMPLETED and CANCELLED are derived from uploads that are all over.
LEMMA Derived ==
  /\ DeriveProcessStatus(Statuses) = "COMPLETED" => Statuses = {"COMPLETED"}
  /\ DeriveProcessStatus(Statuses) = "CANCELLED" => \A s \in Statuses : IsTerminal(s)
  BY DEF DeriveProcessStatus, IsTerminal

LEMMA DeriveStatusCareful ==
  ASSUME CarefulIInv, NEW r \in Runs, DeriveStatus(r) PROVE CarefulIInv'
<1>1. IInv'
  BY CarefulTypes, DeriveStatusIInv
<1>2. \/ run' = [run EXCEPT ![r].pc = "writing",
                          ![r].status = DeriveProcessStatus(Statuses)]
      \/ run' = [run EXCEPT ![r].pc = "leaving"]
  BY DEF DeriveStatus
<1>3. /\ run[r].pc = "deriving"
      /\ \/ run'[r].pc = "leaving"
         \/ /\ run'[r].pc = "writing"
            /\ run'[r].status = DeriveProcessStatus(Statuses)
      /\ \A q \in Runs : q # r => run'[q] = run[q]
      /\ UNCHANGED <<proc, row, work, cancelFn, ctl>>
  BY <1>2, CarefulTypes DEF DeriveStatus, TypeOK, RunRec
<1>4. /\ OthersRest(r) /\ proc # "ABSENT"
      /\ run'[First].pc \notin {"idle", "creating"}
  <2>1. OthersRest(r) /\ proc # "ABSENT" /\ run[First].pc # "idle"
    BY <1>3, ActiveAlone DEF RunActive
  <2>2. QED
    BY <1>3, <2>1, FirstIsRun DEF OthersRest, RunActive
<1>5. RunOK(r)' /\ ~MayWrite(r)' /\ ~Works(r)'
  <2>1. cancelFn' = r /\ \A f \in Files : ~Busy(r, f)'
    BY <1>3, NoWorker DEF CarefulIInv, RunOK, Busy
  <2>2. Statuses' = Statuses
    BY <1>3 DEF Statuses
  <2>3. QED
    BY <1>3, <2>1, <2>2, Derived DEF RunOK, MayWrite, Works
<1>6. /\ proc' = "COMPLETED" => Statuses = {"COMPLETED"}
      /\ proc' = "CANCELLED" => \A s \in Statuses : IsTerminal(s)
  BY <1>3 DEF CarefulIInv, CompletedProcessIsComplete, CancelledProcessIsOver
<1>7. QED
  BY <1>1, <1>3, <1>4, <1>5, <1>6, RunMoveCareful

LEMMA WriteDerivedCareful ==
  ASSUME CarefulIInv, NEW r \in Runs, WriteDerived(r) PROVE CarefulIInv'
<1>1. IInv'
  BY CarefulTypes, WriteDerivedIInv
<1>2. /\ run[r].pc = "writing" /\ run'[r].pc = "leaving"
      /\ \A q \in Runs : q # r => run'[q] = run[q]
      /\ proc' = proc \/ proc' = run[r].status
      /\ UNCHANGED <<row, work, cancelFn, ctl>>
  BY CarefulTypes, GoesTo DEF WriteDerived
<1>3. /\ OthersRest(r) /\ proc' # "ABSENT"
      /\ run'[First].pc \notin {"idle", "creating"}
  <2>1. OthersRest(r) /\ proc # "ABSENT" /\ run[First].pc # "idle"
    BY <1>2, ActiveAlone DEF RunActive
  <2>2. run[r].status # "ABSENT"
    BY CarefulTypes DEF TypeOK, RunRec, Status
  <2>3. QED
    BY <1>2, <2>1, <2>2, FirstIsRun DEF OthersRest, RunActive
<1>4. RunOK(r)' /\ ~MayWrite(r)' /\ ~Works(r)'
  BY <1>2, NoWorker DEF CarefulIInv, RunOK, MayWrite, Works, Busy
<1>5. /\ proc' = "COMPLETED" => Statuses = {"COMPLETED"}
      /\ proc' = "CANCELLED" => \A s \in Statuses : IsTerminal(s)
  BY <1>2 DEF CarefulIInv, RunOK, CompletedProcessIsComplete, CancelledProcessIsOver
<1>6. QED
  BY <1>1, <1>2, <1>3, <1>4, <1>5, RunMoveCareful

LEMMA LeaveCareful ==
  ASSUME CarefulIInv, NEW r \in Runs, Leave(r) PROVE CarefulIInv'
<1>1. IInv'
  BY CarefulTypes, LeaveIInv
<1>2. /\ run[r].pc = "leaving" /\ run'[r].pc = "returned"
      /\ \A q \in Runs : q # r => run'[q] = run[q]
      /\ UNCHANGED <<proc, row, work, ctl>>
  BY CarefulTypes DEF Leave, TypeOK, RunRec
<1>3. /\ OthersRest(r) /\ proc # "ABSENT"
      /\ run'[First].pc \notin {"idle", "creating"}
  <2>1. OthersRest(r) /\ proc # "ABSENT" /\ run[First].pc # "idle"
    BY <1>2, ActiveAlone DEF RunActive
  <2>2. QED
    BY <1>2, <2>1, FirstIsRun DEF OthersRest, RunActive
<1>4. RunOK(r)' /\ ~MayWrite(r)' /\ ~Works(r)' /\ ~RunActive(r)'
  BY <1>2, NoWorker DEF RunOK, MayWrite, Works, RunActive, Busy
<1>5. /\ proc' = "COMPLETED" => Statuses = {"COMPLETED"}
      /\ proc' = "CANCELLED" => \A s \in Statuses : IsTerminal(s)
  BY <1>2 DEF CarefulIInv, CompletedProcessIsComplete, CancelledProcessIsOver
<1>6. QED
  BY <1>1, <1>2, <1>3, <1>4, <1>5, RunMoveCareful

LEMMA DisconnectCareful ==
  ASSUME CarefulIInv, NEW r \in Runs, Disconnect(r) PROVE CarefulIInv'
<1>1. IInv'
  BY CarefulTypes, DisconnectIInv
<1>2. /\ RunActive(r) /\ run'[r].pc = run[r].pc /\ ~run'[r].ctx
      /\ run'[r].status = run[r].status
      /\ \A q \in Runs : q # r => run'[q] = run[q]
      /\ UNCHANGED <<proc, row, work, cancelFn, ctl>>
  BY CarefulTypes DEF Disconnect, TypeOK, RunRec
<1>3. /\ OthersRest(r) /\ proc # "ABSENT" /\ run[First].pc # "idle"
      /\ run'[First].pc = run[First].pc
  BY <1>2, ActiveAlone, FirstIsRun
<1>4. RunOK(r)' /\ ~Works(r)' /\ (MayWrite(r)' => MayWrite(r))
  BY <1>2 DEF CarefulIInv, RunOK, MayWrite, Works, Busy, Statuses
<1>5. \A f \in Files : MayWrite(r)' => SyncRow(row[f], work[r][f])
  BY <1>4 DEF CarefulIInv, SyncOK
<1>6. \A c \in Controls : CtlActive(c) =>
        run'[r].pc \in {"working", "deriving", "writing", "leaving"}
  BY <1>2, ActiveAlone
<1>7. /\ proc' = "COMPLETED" => Statuses = {"COMPLETED"}
      /\ proc' = "CANCELLED" => \A s \in Statuses : IsTerminal(s)
  BY <1>2 DEF CarefulIInv, CompletedProcessIsComplete, CancelledProcessIsOver
<1>8. QED
  BY <1>1, <1>2, <1>3, <1>4, <1>5, <1>6, <1>7, RunMoveCareful

-----------------------------------------------------------------------------
(* The steps of a run that create its uploads, or list and launch them.    *)

\* UploadFile and UploadFolder, while they create or leave out one upload.
LEMMA CreatingCareful ==
  ASSUME CarefulIInv, IInv', run[First].pc = "creating",
         NEW f \in Files, NEW w, Become(First, f, w), w.pc \in {"queued", "err"},
         UNCHANGED <<proc, run, cancelFn, ctl>>,
         UNCHANGED row \/ (\E u : row' = [row EXCEPT ![f] = u]),
         SyncRow(row'[f], w)
  PROVE  CarefulIInv'
<1>1. /\ OthersRest(First) /\ proc = "PENDING"
      /\ \A c \in Controls : ~CtlActive(c)
  BY FirstIsRun, ActiveAlone DEF RunActive, CarefulIInv, RunOK
<1>2. /\ \A q \in Runs, e \in Files :
           work'[q][e] = IF q = First /\ e = f THEN w ELSE work[q][e]
      /\ \A e \in Files : e # f => row'[e] = row[e]
  BY CarefulTypes, FirstIsRun DEF TypeOK, Become
<1>3. OneAtATime'
  BY DEF CarefulIInv, OneAtATime, RunActive, CtlActive
<1>4. \A q \in Runs : RunOK(q)'
  <2> TAKE q \in Runs
  <2>1. run'[q].pc # "writing"
    BY <1>1 DEF OthersRest, RunActive
  <2>2. \A e \in Files : Busy(q, e)' => run'[q].pc = "working"
    BY <1>2 DEF CarefulIInv, RunOK, Busy
  <2>3. QED
    BY <2>1, <2>2 DEF CarefulIInv, RunOK, Works
<1>5. UncreatedOK'
  BY <1>1, <1>2, FirstIsRun DEF CarefulIInv, UncreatedOK
<1>6. SyncOK'
  <2> SUFFICES ASSUME NEW q \in Runs, NEW e \in Files, MayWrite(q)
               PROVE  SyncRow(row'[e], work'[q][e])
    BY DEF SyncOK, MayWrite, Works
  <2>1. q = First /\ SyncRow(row[e], work[q][e])
    BY <1>1 DEF CarefulIInv, SyncOK, OthersRest, RunActive, MayWrite, Works
  <2>2. QED
    BY <1>2, <2>1
<1>7. \A c \in Controls : ControlOK(c)'
  BY <1>1 DEF ControlOK, CtlActive
<1>8. CompletedProcessIsComplete' /\ CancelledProcessIsOver'
  BY <1>1 DEF CompletedProcessIsComplete, CancelledProcessIsOver
<1>9. QED
  BY <1>3, <1>4, <1>5, <1>6, <1>7, <1>8 DEF CarefulIInv

LEMMA CreateUploadCareful ==
  ASSUME CarefulIInv, NEW f \in Files, CreateUpload(f) PROVE CarefulIInv'
<1> DEFINE w == [work[First][f] EXCEPT !.pc = "queued"]
<1>1. IInv'
  BY CarefulTypes, CreateUploadIInv
<1>2. work[First][f] \in Worker
  BY CarefulTypes, FirstIsRun DEF TypeOK
<1>3. Become(First, f, w) /\ w.pc = "queued"
  BY <1>2, FirstIsRun DEF CreateUpload, Become, Worker
<1>4. row[f] = AbsentRow
  BY DEF CarefulIInv, UncreatedOK, CreateUpload, Uncreated
<1>5. row' = [row EXCEPT ![f] = [AbsentRow EXCEPT !.status = "PENDING"]]
  BY <1>4 DEF CreateUpload
<1>6. SyncRow(row'[f], w)
  <2>1. row'[f].status = "PENDING" /\ row'[f].parts = {}
    BY <1>5, CarefulTypes DEF TypeOK, AbsentRow
  <2>2. QED
    BY <1>3, <2>1 DEF SyncRow
<1> HIDE DEF w
<1>7. QED
  BY <1>1, <1>3, <1>5, <1>6, CreatingCareful DEF CreateUpload

LEMMA SkipFileCareful ==
  ASSUME CarefulIInv, NEW f \in Files, SkipFile(f) PROVE CarefulIInv'
<1> DEFINE w == [work[First][f] EXCEPT !.pc = "err"]
<1>1. IInv'
  BY CarefulTypes, SkipFileIInv
<1>2. work[First][f] \in Worker
  BY CarefulTypes, FirstIsRun DEF TypeOK
<1>3. Become(First, f, w) /\ w.pc = "err"
  BY <1>2, FirstIsRun DEF SkipFile, Become, Worker
<1>4. SyncRow(row'[f], w)
  BY <1>3 DEF SyncRow
<1> HIDE DEF w
<1>5. QED
  BY <1>1, <1>3, <1>4, CreatingCareful DEF SkipFile

LEMMA LaunchCareful ==
  ASSUME CarefulIInv, NEW r \in Runs, NEW f \in Files, Launch(r, f)
  PROVE  CarefulIInv'
<1> DEFINE w == [work[r][f] EXCEPT !.pc = "begin"]
<1>1. IInv'
  BY CarefulTypes, LaunchIInv
<1>2. work[r][f] \in Worker
  BY CarefulTypes DEF TypeOK
<1>3. /\ Become(r, f, w) /\ w.pc = "begin" /\ w.parts = work[r][f].parts
      /\ work[r][f].pc = "queued" /\ run[r].pc = "working"
  BY <1>2 DEF Launch, Become, Worker, Waiting
<1> HIDE DEF w
<1>4. run[r].ctx => SyncRow(row'[f], w)
  BY <1>3 DEF CarefulIInv, SyncOK, MayWrite, Works, SyncRow, Launch
<1>5. QED
  BY <1>1, <1>3, <1>4, WorkerCareful DEF Launch

\* A resume works on the uploads it has just listed as paused or pending.
LEMMA ListForResumeCareful ==
  ASSUME CarefulIInv, NEW r \in Runs, ListForResume(r) PROVE CarefulIInv'
<1> DEFINE Copy(f) == [Idle EXCEPT !.pc = "queued", !.mpu = row[f].mpu,
                                   !.parts = row[f].parts]
<1>1. IInv'
  BY CarefulTypes, ListForResumeIInv
<1>2. PICK ok \in BOOLEAN :
        /\ GoTo(r, IF ok THEN "registering" ELSE "returned")
        /\ work' = IF ~ok THEN work ELSE
             [work EXCEPT ![r] = [f \in Files |->
                IF row[f].status \in {"PAUSED", "PENDING"} THEN Copy(f) ELSE Idle]]
  BY DEF ListForResume, DbOutcomes
<1>3. /\ run[r].pc = "listing"
      /\ run'[r].pc = IF ok THEN "registering" ELSE "returned"
      /\ \A q \in Runs : q # r => run'[q] = run[q]
      /\ UNCHANGED <<proc, row, cancelFn, ctl>>
  BY <1>2, CarefulTypes, GoesTo DEF ListForResume
<1>4. /\ OthersRest(r) /\ proc = "IN_PROGRESS" /\ r # First
      /\ run'[First].pc \notin {"idle", "creating"}
      /\ \A c \in Controls : ~CtlActive(c)
  <2>1. RunActive(r) /\ r # First /\ proc = "IN_PROGRESS"
    BY <1>3 DEF RunActive, CarefulIInv, RunOK
  <2>2. QED
    BY <1>3, <2>1, FirstIsRun, ActiveAlone DEF OthersRest, RunActive
<1>5. CASE ~ok
  <2>1. RunOK(r)' /\ ~MayWrite(r)' /\ ~Works(r)' /\ ~RunActive(r)'
    BY <1>2, <1>3, <1>5, NoWorker DEF RunOK, MayWrite, Works, RunActive, Busy
  <2>2. QED
    BY <1>1, <1>2, <1>3, <1>4, <1>5, <2>1, RunMoveCareful
<1>6. CASE ok
  <2>1. \A f \in Files : /\ Copy(f).pc = "queued" /\ Copy(f).parts = row[f].parts
                         /\ Idle.pc = "off"
    BY DEF Idle
  <2> HIDE DEF Copy
  <2>2. /\ \A f \in Files :
             work'[r][f] = IF row[f].status \in {"PAUSED", "PENDING"}
                           THEN Copy(f) ELSE Idle
        /\ \A q \in Runs : q # r => work'[q] = work[q]
    BY <1>2, <1>6, CarefulTypes DEF TypeOK
  <2>3. \A f \in Files : SyncRow(row[f], work'[r][f]) /\ ~Busy(r, f)'
    BY <2>1, <2>2 DEF SyncRow, Busy
  <2>4. \A q \in Runs : RunOK(q)' /\ (MayWrite(q)' => q = r) /\ ~Works(q)'
    <3> TAKE q \in Runs
    <3>1. CASE q = r
      BY <1>3, <1>4, <1>6, <2>3, <3>1 DEF RunOK, MayWrite, Works
    <3>2. CASE q # r
      <4>1. ~RunActive(q)' /\ ~RunActive(q)
        BY <1>3, <1>4, <3>2 DEF OthersRest, RunActive
      <4>2. \A f \in Files : ~Busy(q, f)'
        BY <2>2, <3>2, <4>1, NoWorker DEF Busy, RunActive
      <4>3. QED
        BY <4>1, <4>2 DEF RunOK, RunActive, MayWrite, Works
    <3>3. QED
      BY <3>1, <3>2
  <2>5. OneAtATime'
    BY <1>3, <1>4 DEF OneAtATime, OthersRest, RunActive, CtlActive
  <2>6. UncreatedOK'
    BY <1>3, <1>4 DEF UncreatedOK
  <2>7. SyncOK'
    BY <1>3, <2>3, <2>4 DEF SyncOK
  <2>8. \A c \in Controls : ControlOK(c)'
    BY <1>3, <1>4 DEF ControlOK, CtlActive
  <2>9. CompletedProcessIsComplete' /\ CancelledProcessIsOver'
    BY <1>3, <1>4 DEF CompletedProcessIsComplete, CancelledProcessIsOver
  <2>10. QED
    BY <1>1, <2>4, <2>5, <2>6, <2>7, <2>8, <2>9 DEF CarefulIInv
<1>7. QED
  BY <1>5, <1>6

-----------------------------------------------------------------------------
(* The workers.                                                            *)

\* A worker that leaves its row alone keeps, or adds to, what it has collected.
LEMMA WorkerKeepsRow ==
  ASSUME CarefulIInv, IInv', NEW r \in Runs, NEW f \in Files, NEW w,
         work[r][f].pc \notin {"off", "queued", "ok", "err"}, Become(r, f, w),
         \/ w.pc = "err"
         \/ /\ work[r][f].pc # "begin" /\ w.pc \notin {"queued", "begin"}
            /\ work[r][f].parts \subseteq w.parts,
         UNCHANGED <<proc, row, run, cancelFn, ctl>>
  PROVE  CarefulIInv'
<1>1. Busy(r, f)
  BY DEF Busy
<1>2. run[r].pc = "working"
  BY <1>1 DEF CarefulIInv, RunOK
<1>3. run[r].ctx => SyncRow(row[f], work[r][f])
  BY <1>2 DEF CarefulIInv, SyncOK, MayWrite, Works
<1>4. run[r].ctx => SyncRow(row'[f], w)
  BY <1>3 DEF SyncRow
<1>5. QED
  BY <1>2, <1>4, WorkerCareful

\* A worker that writes its copy is in progress, or done with it.
LEMMA WorkerWritesRow ==
  ASSUME CarefulIInv, IInv', NEW r \in Runs, NEW f \in Files, NEW w,
         work[r][f].pc \notin {"off", "queued", "ok", "err"}, Become(r, f, w),
         NEW st, NEW v, Record(f, TRUE, st, v), run[r].ctx,
         \/ w.pc \in {"ok", "err"}
         \/ /\ w.pc \notin {"queued", "begin"} /\ st = "IN_PROGRESS"
            /\ v.parts = w.parts,
         UNCHANGED <<proc, run, cancelFn, ctl>>
  PROVE  CarefulIInv'
<1>1. Busy(r, f)
  BY DEF Busy
<1>2. run[r].pc = "working"
  BY <1>1 DEF CarefulIInv, RunOK
<1>3. row' = [row EXCEPT ![f] = [status |-> st, mpu |-> v.mpu, parts |-> v.parts]]
  BY DEF Record
<1>4. row'[f].status = st /\ row'[f].parts = v.parts
  BY <1>3, CarefulTypes DEF TypeOK
<1>5. SyncRow(row'[f], w)
  BY <1>4 DEF SyncRow
<1>6. QED
  BY <1>2, <1>3, <1>5, WorkerCareful

\* What a database statement of a worker may do.
LEMMA WorkerRecords ==
  ASSUME CarefulIInv, IInv', NEW r \in Runs, NEW f \in Files, NEW w,
         work[r][f].pc \notin {"off", "queued", "ok", "err"}, Become(r, f, w),
         NEW ok \in DbOutcomes(run[r].ctx), NEW st, NEW v, Record(f, ok, st, v),
         ok => \/ w.pc \in {"ok", "err"}
               \/ /\ w.pc \notin {"queued", "begin"} /\ st = "IN_PROGRESS"
                  /\ v.parts = w.parts,
         ~ok => \/ w.pc = "err"
                \/ /\ work[r][f].pc # "begin" /\ w.pc \notin {"queued", "begin"}
                   /\ work[r][f].parts \subseteq w.parts,
         UNCHANGED <<proc, run, cancelFn, ctl>>
  PROVE  CarefulIInv'
<1>1. ok \in BOOLEAN /\ (ok => run[r].ctx)
  <2>1. ~run[r].ctx => ok \in {FALSE}
    BY DEF DbOutcomes
  <2>2. ok \in BOOLEAN
    BY DEF DbOutcomes
  <2>3. QED
    BY <2>1, <2>2
<1>2. CASE ok
  <2>1. Record(f, TRUE, st, v)
    BY <1>2 DEF Record
  <2>2. QED
    BY <1>1, <1>2, <2>1, WorkerWritesRow
<1>3. CASE ~ok
  <2>1. UNCHANGED row
    BY <1>3 DEF Record
  <2>2. QED
    BY <1>3, <2>1, WorkerKeepsRow
<1>4. QED
  BY <1>1, <1>2, <1>3

LEMMA BeginCareful ==
  ASSUME CarefulIInv, NEW r \in Runs, NEW f \in Files, Begin(r, f)
  PROVE  CarefulIInv'
<1> DEFINE w(ok) == [work[r][f] EXCEPT !.pc =
                       IF ~ok THEN "err"
                       ELSE IF work[r][f].mpu = None THEN "init" ELSE "open"]
<1>1. PICK ok \in DbOutcomes(run[r].ctx) :
        /\ Record(f, ok, "IN_PROGRESS", work[r][f])
        /\ Become(r, f, w(ok))
  BY DEF Begin
<1>2. IInv' /\ work[r][f] \in Worker /\ work[r][f].pc = "begin"
  BY CarefulTypes, BeginIInv DEF TypeOK, Begin, At
<1>3. /\ w(ok).parts = work[r][f].parts
      /\ w(ok).pc \in {"err", "init", "open"} /\ (~ok => w(ok).pc = "err")
  BY <1>2 DEF Worker
<1>4. UNCHANGED <<proc, run, cancelFn, ctl>>
  BY DEF Begin
<1> HIDE DEF w
<1>5. QED
  BY <1>1, <1>2, <1>3, <1>4, WorkerRecords

LEMMA SaveMultipartIDCareful ==
  ASSUME CarefulIInv, NEW r \in Runs, NEW f \in Files, SaveMultipartID(r, f)
  PROVE  CarefulIInv'
<1> DEFINE w(ok) == [work[r][f] EXCEPT !.pc = IF ok THEN "open" ELSE "err"]
<1>1. PICK ok \in DbOutcomes(run[r].ctx) :
        /\ Record(f, ok, "IN_PROGRESS", work[r][f])
        /\ Become(r, f, w(ok))
  BY DEF SaveMultipartID
<1>2. IInv' /\ work[r][f] \in Worker /\ work[r][f].pc = "saveMpu"
  BY CarefulTypes, SaveMultipartIDIInv DEF TypeOK, SaveMultipartID, At
<1>3. /\ w(ok).parts = work[r][f].parts
      /\ w(ok).pc \in {"err", "open"} /\ (~ok => w(ok).pc = "err")
  BY <1>2 DEF Worker
<1>4. UNCHANGED <<proc, run, cancelFn, ctl>>
  BY DEF SaveMultipartID
<1> HIDE DEF w
<1>5. QED
  BY <1>1, <1>2, <1>3, <1>4, WorkerRecords

LEMMA CollectPartCareful ==
  ASSUME CarefulIInv, NEW r \in Runs, NEW f \in Files, NEW p \in Parts,
         CollectPart(r, f, p)
  PROVE  CarefulIInv'
<1> DEFINE w(ok) == [work[r][f] EXCEPT !.got = @ \ {p}, !.parts = @ \cup {p},
                                       !.err = @ \/ ~ok]
<1>1. PICK ok \in DbOutcomes(run[r].ctx) :
        /\ Record(f, ok, "IN_PROGRESS", w(ok))
        /\ Become(r, f, w(ok))
  BY DEF CollectPart
<1>2. IInv' /\ work[r][f] \in Worker /\ work[r][f].pc = "parts"
  BY CarefulTypes, CollectPartIInv DEF TypeOK, CollectPart, At
<1>3. w(ok).parts = work[r][f].parts \cup {p} /\ w(ok).pc = "parts"
  BY <1>2 DEF Worker
<1>4. UNCHANGED <<proc, run, cancelFn, ctl>>
  BY DEF CollectPart
<1> HIDE DEF w
<1>5. QED
  BY <1>1, <1>2, <1>3, <1>4, WorkerRecords

LEMMA FinishUploadCareful ==
  ASSUME CarefulIInv, NEW r \in Runs, NEW f \in Files, FinishUpload(r, f)
  PROVE  CarefulIInv'
<1> DEFINE w(ok) == [work[r][f] EXCEPT !.pc = IF ok THEN "ok" ELSE "err"]
<1>1. PICK ok \in DbOutcomes(run[r].ctx) :
        /\ Record(f, ok, "COMPLETED", work[r][f])
        /\ Become(r, f, w(ok))
  BY DEF FinishUpload
<1>2. IInv' /\ work[r][f] \in Worker /\ work[r][f].pc = "finish"
  BY CarefulTypes, FinishUploadIInv DEF TypeOK, FinishUpload, At
<1>3. w(ok).pc \in {"ok", "err"} /\ (~ok => w(ok).pc = "err")
  BY <1>2 DEF Worker
<1>4. UNCHANGED <<proc, run, cancelFn, ctl>>
  BY DEF FinishUpload
<1> HIDE DEF w
<1>5. QED
  BY <1>1, <1>2, <1>3, <1>4, WorkerRecords

LEMMA FailUploadCareful ==
  ASSUME CarefulIInv, NEW r \in Runs, NEW f \in Files, FailUpload(r, f)
  PROVE  CarefulIInv'
<1> DEFINE w == [work[r][f] EXCEPT !.pc = "err"]
<1>1. PICK ok \in DbOutcomes(run[r].ctx) : Record(f, ok, "FAILED", work[r][f])
  BY DEF FailUpload
<1>2. IInv' /\ work[r][f] \in Worker /\ work[r][f].pc = "fail"
  BY CarefulTypes, FailUploadIInv DEF TypeOK, FailUpload, At
<1>3. w.pc = "err" /\ Become(r, f, w)
  BY <1>2 DEF Worker, FailUpload
<1>4. UNCHANGED <<proc, run, cancelFn, ctl>>
  BY DEF FailUpload
<1> HIDE DEF w
<1>5. QED
  BY <1>1, <1>2, <1>3, <1>4, WorkerRecords

\* The other steps of a worker: requests to the storage and the goroutines of
\* uploadParts, which only move it.
Moves(r, f) ==
  \/ InitMultipart(r, f) \/ InitFails(r, f) \/ OpenFile(r, f) \/ PartsEnd(r, f)
  \/ CompleteMultipart(r, f) \/ CompleteFails(r, f) \/ VerifySize(r, f)
  \/ \E p \in Parts : PartStored(r, f, p) \/ PartFails(r, f, p)

LEMMA MovesTo ==
  ASSUME TypeOK, NEW r \in Runs, NEW f \in Files,
         NEW pc \in WorkPc \ {"off", "queued", "begin"},
         Become(r, f, [work[r][f] EXCEPT !.pc = pc])
  PROVE  \E w : /\ Become(r, f, w) /\ w.parts = work[r][f].parts
               /\ w.pc \in WorkPc \ {"off", "queued", "begin"}
<1> DEFINE w == [work[r][f] EXCEPT !.pc = pc]
<1>1. w.pc = pc /\ w.parts = work[r][f].parts /\ Become(r, f, w)
  BY DEF TypeOK, Worker
<1> HIDE DEF w
<1>2. QED
  BY <1>1

LEMMA MovesWorker ==
  ASSUME TypeOK, NEW r \in Runs, NEW f \in Files, Moves(r, f)
  PROVE  /\ work[r][f].pc \in {"init", "open", "parts", "complete", "head"}
         /\ UNCHANGED <<proc, row, run, cancelFn, ctl, crashes>>
         /\ \E w : /\ Become(r, f, w) /\ w.parts = work[r][f].parts
                   /\ w.pc \in WorkPc \ {"off", "queued", "begin"}
<1> DEFINE Goal == \E w : /\ Become(r, f, w) /\ w.parts = work[r][f].parts
                         /\ w.pc \in WorkPc \ {"off", "queued", "begin"}
           To(pc) == Become(r, f, [work[r][f] EXCEPT !.pc = pc])
<1>1. work[r][f] \in Worker
  BY DEF TypeOK
<1>2. ASSUME NEW pc \in WorkPc \ {"off", "queued", "begin"}, To(pc)
      PROVE  Goal
  BY <1>2, MovesTo
<1>3. ASSUME NEW w, Become(r, f, w), w.parts = work[r][f].parts,
             w.pc \in WorkPc \ {"off", "queued", "begin"}
      PROVE  Goal
  BY <1>3
<1> HIDE DEF Goal
<1>4. CASE InitMultipart(r, f)
  <2> DEFINE w == [work[r][f] EXCEPT !.pc = "saveMpu", !.mpu = r]
  <2>1. Become(r, f, w) /\ w.pc = "saveMpu" /\ w.parts = work[r][f].parts
    BY <1>1, <1>4 DEF Worker, InitMultipart
  <2> HIDE DEF w
  <2>2. Goal
    BY <1>3, <2>1 DEF WorkPc
  <2>3. QED
    BY <1>4, <2>2 DEF InitMultipart, At, Goal
<1>5. CASE InitFails(r, f)
  <2>1. To("fail")
    BY <1>5 DEF InitFails
  <2>2. Goal
    BY <1>2, <2>1 DEF WorkPc
  <2>3. QED
    BY <1>5, <2>2 DEF InitFails, At, Goal
<1>6. CASE OpenFile(r, f)
  <2> DEFINE w == [work[r][f] EXCEPT !.pc = "parts", !.out = Parts \ work[r][f].parts]
  <2>1. w.pc = "parts" /\ w.parts = work[r][f].parts
    BY <1>1 DEF Worker
  <2>2. Become(r, f, w) \/ To("fail")
    BY <1>6 DEF OpenFile
  <2> HIDE DEF w, To
  <2>3. Goal
    <3>1. CASE Become(r, f, w)
      BY <1>3, <2>1, <3>1 DEF WorkPc
    <3>2. CASE To("fail")
      BY <1>2, <3>2 DEF WorkPc
    <3>3. QED
      BY <2>2, <3>1, <3>2
  <2>4. QED
    BY <1>6, <2>3 DEF OpenFile, At, Goal
<1>7. CASE PartsEnd(r, f)
  <2>1. PICK pc \in {"complete", "fail", "err"} : To(pc)
    BY <1>7 DEF PartsEnd
  <2>2. Goal
    BY <1>2, <2>1 DEF WorkPc
  <2>3. QED
    BY <1>7, <2>2 DEF PartsEnd, At, Goal
<1>8. CASE CompleteMultipart(r, f)
  <2>1. To("head")
    BY <1>8 DEF CompleteMultipart
  <2>2. Goal
    BY <1>2, <2>1 DEF WorkPc
  <2>3. QED
    BY <1>8, <2>2 DEF CompleteMultipart, At, Goal
<1>9. CASE CompleteFails(r, f)
  <2>1. To("fail")
    BY <1>9 DEF CompleteFails
  <2>2. Goal
    BY <1>2, <2>1 DEF WorkPc
  <2>3. QED
    BY <1>9, <2>2 DEF CompleteFails, At, Goal
<1>10. CASE VerifySize(r, f)
  <2>1. PICK pc \in {"finish", "fail"} : To(pc)
    BY <1>10 DEF VerifySize
  <2>2. Goal
    BY <1>2, <2>1 DEF WorkPc
  <2>3. QED
    BY <1>10, <2>2 DEF VerifySize, At, Goal
<1>11. CASE \E p \in Parts : PartStored(r, f, p)
  <2>1. PICK p \in Parts : PartStored(r, f, p)
    BY <1>11
  <2> DEFINE w == [work[r][f] EXCEPT !.out = @ \ {p}, !.got = @ \cup {p}]
  <2>2. w.pc = "parts" /\ w.parts = work[r][f].parts /\ Become(r, f, w)
    BY <1>1, <2>1 DEF Worker, PartStored, At
  <2> HIDE DEF w
  <2>3. Goal
    BY <1>3, <2>2 DEF WorkPc
  <2>4. QED
    BY <2>1, <2>3 DEF PartStored, At, Goal
<1>12. CASE \E p \in Parts : PartFails(r, f, p)
  <2>1. PICK p \in Parts : PartFails(r, f, p)
    BY <1>12
  <2> DEFINE w == [work[r][f] EXCEPT !.out = @ \ {p}, !.err = TRUE]
  <2>2. w.pc = "parts" /\ w.parts = work[r][f].parts /\ Become(r, f, w)
    BY <1>1, <2>1 DEF Worker, PartFails, At
  <2> HIDE DEF w
  <2>3. Goal
    BY <1>3, <2>2 DEF WorkPc
  <2>4. QED
    BY <2>1, <2>3 DEF PartFails, At, Goal
<1>13. QED
  BY <1>4, <1>5, <1>6, <1>7, <1>8, <1>9, <1>10, <1>11, <1>12 DEF Moves, Goal

LEMMA StepWorkerCareful ==
  ASSUME CarefulIInv, NEW r \in Runs, NEW f \in Files, StepWorker(r, f)
  PROVE  CarefulIInv'
<1>1. CASE Moves(r, f)
  <2>1. IInv'
    BY CarefulTypes, WorkerStepIInv
  <2>2. QED
    BY <1>1, <2>1, CarefulTypes, MovesWorker, WorkerKeepsRow
<1>2. CASE Begin(r, f) \/ SaveMultipartID(r, f) \/ \E p \in Parts : CollectPart(r, f, p)
  BY <1>2, BeginCareful, SaveMultipartIDCareful, CollectPartCareful
<1>3. CASE FinishUpload(r, f) \/ FailUpload(r, f)
  BY <1>3, FinishUploadCareful, FailUploadCareful
<1>4. QED
  BY <1>1, <1>2, <1>3 DEF StepWorker, StepParts, Moves

-----------------------------------------------------------------------------
(* The controls.                                                           *)

\* A control moves, and maybe ends with a status of the process.
LEMMA ControlMoveCareful ==
  ASSUME CarefulIInv, IInv', NEW c \in Controls,
         UNCHANGED <<row, work, cancelFn>>,
         \A r \in Runs : /\ run'[r].pc = run[r].pc
                         /\ run'[r].status = run[r].status
                         /\ run'[r].ctx => run[r].ctx,
         \A d \in Controls : d # c => ctl'[d] = ctl[d],
         CtlActive(c)' =>
           /\ \A d \in Controls : CtlActive(d) => d = c
           /\ \A r \in Runs : RunActive(r) =>
                run[r].pc \in {"working", "deriving", "writing", "leaving"},
         ControlOK(c)',
         proc # "ABSENT" /\ proc' # "ABSENT",
         UNCHANGED proc \/ (CtlActive(c) /\ \A r \in Runs : ~Works(r)),
         proc' = "COMPLETED" => Statuses = {"COMPLETED"},
         proc' = "CANCELLED" => \A s \in Statuses : IsTerminal(s)
  PROVE  CarefulIInv'
<1>1. Statuses' = Statuses
  BY DEF Statuses
<1>2. \A r \in Runs : /\ Works(r)' => Works(r)
                      /\ MayWrite(r)' => MayWrite(r)
                      /\ RunActive(r)' <=> RunActive(r)
  BY DEF Works, MayWrite, RunActive
<1>3. OneAtATime'
  BY <1>2 DEF CarefulIInv, OneAtATime, CtlActive
<1>4. \A r \in Runs : RunOK(r)'
  <2> TAKE r \in Runs
  <2>1. UNCHANGED proc \/ (/\ run[r].pc \notin {"creating", "marking", "resuming",
                                                "listing", "registering"}
                           /\ ~Works(r)')
    BY <1>2 DEF CarefulIInv, OneAtATime, RunActive
  <2>2. \A f \in Files : Busy(r, f)' => run'[r].pc = "working"
    BY DEF CarefulIInv, RunOK, Busy
  <2>3. QED
    BY <1>1, <1>2, <2>1, <2>2 DEF CarefulIInv, RunOK
<1>5. UncreatedOK'
  BY FirstIsRun DEF CarefulIInv, UncreatedOK
<1>6. SyncOK'
  BY <1>2 DEF CarefulIInv, SyncOK
<1>7. \A d \in Controls : ControlOK(d)'
  BY <1>2 DEF CarefulIInv, ControlOK, Affected
<1>8. CompletedProcessIsComplete' /\ CancelledProcessIsOver'
  BY <1>1 DEF CompletedProcessIsComplete, CancelledProcessIsOver
<1>9. QED
  BY <1>3, <1>4, <1>5, <1>6, <1>7, <1>8 DEF CarefulIInv

\* What the invariant says of the process and the runs while a control works.
LEMMA ControlAlone ==
  ASSUME CarefulIInv, NEW c \in Controls, CtlActive(c)
  PROVE  /\ \A d \in Controls : CtlActive(d) => d = c
         /\ \A r \in Runs : RunActive(r) =>
              run[r].pc \in {"working", "deriving", "writing", "leaving"}
         /\ proc # "ABSENT"
         /\ run[First].pc \notin {"idle", "creating"}
<1>1. proc # "ABSENT" /\ run[First].pc # "idle"
  BY DEF CarefulIInv, UncreatedOK, Quiet
<1>2. \A r \in Runs : RunActive(r) =>
        run[r].pc \in {"working", "deriving", "writing", "leaving"}
  BY DEF CarefulIInv, OneAtATime
<1>3. run[First].pc # "creating"
  BY <1>2, FirstIsRun DEF RunActive
<1>4. QED
  BY <1>1, <1>2, <1>3 DEF CarefulIInv, OneAtATime

\* A control that leaves the runs and the process alone.
LEMMA ControlStepsCareful ==
  ASSUME CarefulIInv, IInv', NEW c \in Controls, CtlActive(c),
         UNCHANGED <<proc, row, run, work, cancelFn>>,
         \A d \in Controls : d # c => ctl'[d] = ctl[d],
         ControlOK(c)'
  PROVE  CarefulIInv'
<1>1. /\ proc' = "COMPLETED" => Statuses = {"COMPLETED"}
      /\ proc' = "CANCELLED" => \A s \in Statuses : IsTerminal(s)
  BY DEF CarefulIInv, CompletedProcessIsComplete, CancelledProcessIsOver
<1>2. QED
  BY <1>1, ControlAlone, ControlMoveCareful

LEMMA StartControlCareful ==
  ASSUME Careful, CarefulIInv, NEW c \in Controls, NEW kind \in {"pause", "cancel"},
         StartControl(c, kind)
  PROVE  CarefulIInv'
<1>1. IInv'
  BY CarefulTypes, StartControlIInv
<1>2. /\ ctl'[c].pc = "signal"
      /\ \A d \in Controls : d # c => ctl'[d] = ctl[d]
      /\ \A d \in Controls : ~CtlActive(d)
      /\ \A r \in Runs : RunActive(r) => Begun(r)
      /\ UNCHANGED <<proc, row, run, work, cancelFn>>
  BY CarefulTypes DEF StartControl, CarefulControl, TypeOK, Control
<1>3. proc # "ABSENT"
  BY DEF StartControl, IsPausable, IsCancellable
<1>4. \A r \in Runs : RunActive(r) =>
        run[r].pc \in {"working", "deriving", "writing", "leaving"}
  BY <1>2 DEF Begun
<1>5. ControlOK(c)'
  BY <1>2 DEF ControlOK
<1>6. /\ proc' = "COMPLETED" => Statuses = {"COMPLETED"}
      /\ proc' = "CANCELLED" => \A s \in Statuses : IsTerminal(s)
  BY <1>2 DEF CarefulIInv, CompletedProcessIsComplete, CancelledProcessIsOver
<1>7. QED
  BY <1>1, <1>2, <1>3, <1>4, <1>5, <1>6, ControlMoveCareful

\* The run that works is the one whose function is registered: no worker of it
\* may write once the function is called.
LEMMA SignalCareful ==
  ASSUME CarefulIInv, NEW c \in Controls, Signal(c) PROVE CarefulIInv'
<1>1. IInv'
  BY CarefulTypes, SignalIInv
<1>2. /\ ctl[c].pc = "signal" /\ ctl'[c].pc = "listing"
      /\ \A d \in Controls : d # c => ctl'[d] = ctl[d]
      /\ UNCHANGED <<proc, row, work, cancelFn>>
  BY CarefulTypes DEF Signal, TypeOK, Control
<1>3. \A r \in Runs : /\ run'[r].pc = run[r].pc
                      /\ run'[r].status = run[r].status
                      /\ run'[r].ctx => run[r].ctx /\ cancelFn # r
  BY CarefulTypes, FirstIsRun DEF Signal, TypeOK, RunRec
<1>4. \A r \in Runs : ~Works(r)'
  BY <1>3 DEF CarefulIInv, RunOK, Works
<1>5. ControlOK(c)'
  BY <1>2, <1>4 DEF ControlOK
<1>6. CtlActive(c)
  BY <1>2 DEF CtlActive
<1>7. /\ proc' = "COMPLETED" => Statuses = {"COMPLETED"}
      /\ proc' = "CANCELLED" => \A s \in Statuses : IsTerminal(s)
  BY <1>2 DEF CarefulIInv, CompletedProcessIsComplete, CancelledProcessIsOver
<1>8. QED
  BY <1>1, <1>2, <1>3, <1>5, <1>6, <1>7, ControlAlone, ControlMoveCareful

LEMMA ListUploadsCareful ==
  ASSUME CarefulIInv, NEW c \in Controls, ListUploads(c) PROVE CarefulIInv'
<1>1. IInv'
  BY CarefulTypes, ListUploadsIInv
<1>2. /\ ctl[c].pc = "listing" /\ ctl'[c].pc = "updating"
      /\ ctl'[c].kind = ctl[c].kind /\ ctl'[c].snap = row
      /\ ctl'[c].todo = Affected(ctl[c].kind)
      /\ \A d \in Controls : d # c => ctl'[d] = ctl[d]
      /\ UNCHANGED <<proc, row, run, work, cancelFn>>
  BY CarefulTypes DEF ListUploads, TypeOK, Control
<1>3. CtlActive(c) /\ \A r \in Runs : ~Works(r)'
  BY <1>2 DEF CtlActive, CarefulIInv, ControlOK, Works
<1>4. \A kind : Affected(kind)' = Affected(kind)
  BY <1>2 DEF Affected
<1>5. ControlOK(c)'
  BY <1>2, <1>3, <1>4 DEF ControlOK
<1>6. QED
  BY <1>1, <1>2, <1>3, <1>5, ControlStepsCareful

LEMMA AbortUploadCareful ==
  ASSUME CarefulIInv, NEW c \in Controls, NEW f \in Files, AbortUpload(c, f)
  PROVE  CarefulIInv'
<1>1. IInv'
  BY CarefulTypes, AbortUploadIInv
<1>2. /\ ctl[c].pc = "updating" /\ ctl'[c].pc = "updating"
      /\ ctl'[c].kind = ctl[c].kind /\ ctl'[c].snap = ctl[c].snap
      /\ ctl'[c].todo = ctl[c].todo
      /\ \A d \in Controls : d # c => ctl'[d] = ctl[d]
      /\ UNCHANGED <<proc, row, run, work, cancelFn>>
  BY CarefulTypes DEF AbortUpload, TypeOK, Control
<1>3. CtlActive(c) /\ ControlOK(c)
  BY <1>2 DEF CtlActive, CarefulIInv
<1>4. ControlOK(c)'
  BY <1>2, <1>3 DEF ControlOK, Works, Affected
<1>5. QED
  BY <1>1, <1>2, <1>3, <1>4, ControlStepsCareful

LEMMA ControlFailsCareful ==
  ASSUME CarefulIInv, NEW c \in Controls, ControlFails(c) PROVE CarefulIInv'
<1>1. IInv'
  BY CarefulTypes, ControlFailsIInv
<1>2. /\ CtlActive(c) /\ ctl'[c].pc = "failed"
      /\ \A d \in Controls : d # c => ctl'[d] = ctl[d]
      /\ UNCHANGED <<proc, row, run, work, cancelFn>>
  BY CarefulTypes DEF ControlFails, TypeOK, Control, CtlActive
<1>3. ControlOK(c)'
  BY <1>2 DEF ControlOK
<1>4. QED
  BY <1>1, <1>2, <1>3, ControlStepsCareful

\* The process is CANCELLED once no upload is left that a cancel could cancel.
LEMMA FinishControlCareful ==
  ASSUME CarefulIInv, NEW c \in Controls, FinishControl(c) PROVE CarefulIInv'
<1>1. IInv'
  BY CarefulTypes, FinishControlIInv
<1>2. /\ ctl[c].pc = "updating" /\ ctl[c].todo = {} /\ ctl'[c].pc = "returned"
      /\ \A d \in Controls : d # c => ctl'[d] = ctl[d]
      /\ UNCHANGED <<row, run, work, cancelFn>>
      /\ proc' = IF ctl[c].kind = "pause" THEN "PAUSED" ELSE "CANCELLED"
      /\ ctl[c].kind \in {"pause", "cancel"}
  BY CarefulTypes DEF FinishControl, TypeOK, Control
<1>3. /\ CtlActive(c) /\ ControlOK(c)' /\ ~CtlActive(c)'
      /\ \A r \in Runs : ~Works(r)
  BY <1>2 DEF CtlActive, CarefulIInv, ControlOK
<1>4. ctl[c].kind = "cancel" => \A s \in Statuses : IsTerminal(s)
  <2>1. ctl[c].kind = "cancel" => Affected("cancel") = {}
    BY <1>2 DEF CarefulIInv, ControlOK
  <2>2. QED
    BY <2>1 DEF Affected, Statuses
<1>5. QED
  BY <1>1, <1>2, <1>3, <1>4, ControlAlone, ControlMoveCareful

\* A control writes one of the rows it has still to write, and nobody else may.
LEMMA ControlWritesCareful ==
  ASSUME CarefulIInv, IInv', NEW c \in Controls, NEW f \in ctl[c].todo, NEW u,
         ctl[c].pc = "updating", ctl'[c].pc = "updating",
         ctl'[c].kind = ctl[c].kind, ctl'[c].snap = ctl[c].snap,
         ctl'[c].todo = ctl[c].todo \ {f},
         \A d \in Controls : d # c => ctl'[d] = ctl[d],
         row' = [row EXCEPT ![f] = u],
         ctl[c].kind = "cancel" => u.status = "CANCELLED",
         UNCHANGED <<proc, run, work, cancelFn>>
  PROVE  CarefulIInv'
<1>1. CtlActive(c) /\ CtlActive(c)'
  BY DEF CtlActive
<1>2. /\ \A d \in Controls : CtlActive(d) => d = c
      /\ run[First].pc \notin {"idle", "creating"} /\ proc # "ABSENT"
  BY <1>1, ControlAlone
<1>3. /\ f \in Files /\ proc \notin {"COMPLETED", "CANCELLED"}
      /\ \A r \in Runs : /\ ~MayWrite(r)
                         /\ run[r].pc = "writing" =>
                              run[r].status \notin {"COMPLETED", "CANCELLED"}
  BY TodoRow
<1>4. row'[f] = u /\ \A e \in Files : e # f => row'[e] = row[e]
  BY <1>3, CarefulTypes DEF TypeOK
<1>5. OneAtATime'
  BY <1>1 DEF CarefulIInv, OneAtATime, RunActive, CtlActive
<1>6. \A r \in Runs : RunOK(r)'
  BY <1>3 DEF CarefulIInv, RunOK, Works, Busy
<1>7. UncreatedOK'
  BY <1>2 DEF UncreatedOK
<1>8. SyncOK'
  BY <1>3 DEF SyncOK, MayWrite, Works
<1>9. ControlOK(c)'
  <2>1. ControlOK(c) /\ ctl[c].todo \subseteq Files
    BY CarefulTypes DEF CarefulIInv, TypeOK, Control
  <2>2. \A r \in Runs : ~Works(r)'
    BY <2>1 DEF ControlOK, Works
  <2>3. \A e \in ctl'[c].todo : /\ row'[e] = ctl'[c].snap[e]
                                /\ e \in Affected(ctl[c].kind)'
    BY <1>4, <2>1 DEF ControlOK, Affected
  <2>4. ctl'[c].kind = "cancel" => Affected("cancel")' \subseteq ctl'[c].todo
    <3> SUFFICES ASSUME ctl[c].kind = "cancel", NEW e \in Affected("cancel")'
                 PROVE  e \in ctl[c].todo /\ e # f
      OBVIOUS
    <3>1. e # f
      BY <1>4 DEF Affected, IsTerminal
    <3>2. e \in Affected("cancel")
      BY <1>4, <3>1 DEF Affected
    <3>3. QED
      BY <2>1, <3>1, <3>2 DEF ControlOK
  <2>5. QED
    BY <2>2, <2>3, <2>4 DEF ControlOK
<1>10. \A d \in Controls : ControlOK(d)'
  BY <1>2, <1>9 DEF ControlOK, CtlActive
<1>11. CompletedProcessIsComplete' /\ CancelledProcessIsOver'
  BY <1>3 DEF CompletedProcessIsComplete, CancelledProcessIsOver
<1>12. QED
  BY <1>5, <1>6, <1>7, <1>8, <1>10, <1>11 DEF CarefulIInv

LEMMA PauseUploadCareful ==
  ASSUME CarefulIInv, NEW c \in Controls, NEW f \in Files, PauseUpload(c, f)
  PROVE  CarefulIInv'
<1>1. IInv'
  BY CarefulTypes, PauseUploadIInv
<1>2. /\ ctl[c].pc = "updating" /\ ctl'[c].pc = "updating"
      /\ ctl'[c].kind = ctl[c].kind /\ ctl'[c].snap = ctl[c].snap
      /\ ctl'[c].todo = ctl[c].todo \ {f}
      /\ \A d \in Controls : d # c => ctl'[d] = ctl[d]
  BY CarefulTypes DEF PauseUpload, TypeOK, Control
<1>3. /\ ctl[c].kind = "pause" /\ f \in ctl[c].todo
      /\ row' = [row EXCEPT ![f] = [ctl[c].snap[f] EXCEPT !.status = "PAUSED"]]
      /\ UNCHANGED <<proc, run, work, cancelFn>>
  BY DEF PauseUpload
<1>4. QED
  BY <1>1, <1>2, <1>3, ControlWritesCareful

LEMMA CancelUploadCareful ==
  ASSUME CarefulIInv, NEW c \in Controls, NEW f \in Files, CancelUpload(c, f)
  PROVE  CarefulIInv'
<1>1. IInv'
  BY CarefulTypes, CancelUploadIInv
<1>2. /\ ctl[c].pc = "updating" /\ ctl'[c].pc = "updating"
      /\ ctl'[c].kind = ctl[c].kind /\ ctl'[c].snap = ctl[c].snap
      /\ ctl'[c].todo = ctl[c].todo \ {f}
      /\ \A d \in Controls : d # c => ctl'[d] = ctl[d]
  BY CarefulTypes DEF CancelUpload, TypeOK, Control
<1>3. /\ f \in ctl[c].todo
      /\ row' = [row EXCEPT ![f] = [AbsentRow EXCEPT !.status = "CANCELLED"]]
      /\ UNCHANGED <<proc, run, work, cancelFn>>
  BY DEF CancelUpload
<1>4. [AbsentRow EXCEPT !.status = "CANCELLED"].status = "CANCELLED"
  BY DEF AbsentRow
<1>5. QED
  BY <1>1, <1>2, <1>3, <1>4, ControlWritesCareful

-----------------------------------------------------------------------------
(* Every step.                                                             *)

\* A crash leaves nobody active, and changes no row.
LEMMA CrashCareful == ASSUME CarefulIInv, Crash PROVE CarefulIInv'
<1>1. IInv'
  BY CarefulTypes, CrashIInv
<1>2. /\ \A r \in Runs : /\ run'[r].pc = IF RunActive(r) THEN "returned" ELSE run[r].pc
                         /\ \A f \in Files : work'[r][f] = Idle
      /\ \A c \in Controls : ctl'[c].pc = IF CtlActive(c) THEN "failed" ELSE ctl[c].pc
      /\ UNCHANGED <<proc, row>>
  <2>1. \A r \in Runs :
          [run[r] EXCEPT !.pc = "returned", !.ctx = FALSE].pc = "returned"
    BY CarefulTypes DEF TypeOK, RunRec
  <2>2. \A c \in Controls : [ctl[c] EXCEPT !.pc = "failed"].pc = "failed"
    BY CarefulTypes DEF TypeOK, Control
  <2>3. QED
    BY <2>1, <2>2 DEF Crash
<1>3. /\ \A r \in Runs : ~RunActive(r)' /\ \A f \in Files : ~Busy(r, f)'
      /\ \A c \in Controls : ~CtlActive(c)'
  BY <1>2 DEF RunActive, CtlActive, Busy, Idle
<1>4. \A r \in Runs : RunOK(r)' /\ ~MayWrite(r)' /\ ~Works(r)'
  BY <1>3 DEF RunActive, RunOK, MayWrite, Works
<1>5. OneAtATime' /\ SyncOK'
  BY <1>3, <1>4 DEF OneAtATime, SyncOK
<1>6. UncreatedOK'
  <2>1. run'[First].pc \in {"idle", "creating"} => run[First].pc = "idle"
    BY <1>2, FirstIsRun DEF RunActive
  <2>2. QED
    BY <1>2, <1>3, <2>1, FirstIsRun DEF CarefulIInv, UncreatedOK, Quiet, Idle
<1>7. \A c \in Controls : ControlOK(c)'
  BY <1>3 DEF ControlOK, CtlActive
<1>8. CompletedProcessIsComplete' /\ CancelledProcessIsOver'
  BY <1>2 DEF CarefulIInv, CompletedProcessIsComplete, CancelledProcessIsOver,
              Statuses
<1>9. QED
  BY <1>1, <1>4, <1>5, <1>6, <1>7, <1>8 DEF CarefulIInv

LEMMA StutterCareful == ASSUME CarefulIInv, UNCHANGED vars PROVE CarefulIInv'
<1>1. IInv'
  BY CarefulTypes, NextIInv
<1>2. OneAtATime' /\ UncreatedOK'
  BY DEF vars, CarefulIInv, OneAtATime, UncreatedOK, Quiet, RunActive, CtlActive
<1>3. \A r \in Runs : RunOK(r)'
  BY DEF vars, CarefulIInv, RunOK, Works, Statuses, Busy
<1>4. SyncOK'
  BY DEF vars, CarefulIInv, SyncOK, MayWrite, Works
<1>5. \A c \in Controls : ControlOK(c)'
  BY DEF vars, CarefulIInv, ControlOK, Works, Affected
<1>6. CompletedProcessIsComplete' /\ CancelledProcessIsOver'
  BY DEF vars, CarefulIInv, CompletedProcessIsComplete, CancelledProcessIsOver,
         Statuses
<1>7. QED
  BY <1>1, <1>2, <1>3, <1>4, <1>5, <1>6 DEF CarefulIInv

LEMMA NextCareful == Careful /\ CarefulIInv /\ [Next]_vars => CarefulIInv'
<1> SUFFICES ASSUME Careful, CarefulIInv, [Next]_vars PROVE CarefulIInv'
  OBVIOUS
<1>1. CASE Client
  BY <1>1, CreateProcessCareful, StartResumeCareful, DisconnectCareful,
     StartControlCareful DEF Client
<1>2. ASSUME NEW r \in Runs, StepRun(r) PROVE CarefulIInv'
  <2>1. CASE StepFirst
    BY <2>1, CreateUploadCareful, SkipFileCareful, CreateFailsCareful,
       MarkInProgressCareful DEF StepFirst
  <2>2. CASE WriteResumed(r) \/ ListForResume(r) \/ RegisterCancel(r)
    BY <2>2, WriteResumedCareful, ListForResumeCareful, RegisterCancelCareful
  <2>3. CASE \E f \in Files : Launch(r, f) \/ StepWorker(r, f)
    BY <2>3, LaunchCareful, StepWorkerCareful
  <2>4. CASE WorkersEnd(r) \/ DeriveStatus(r) \/ WriteDerived(r) \/ Leave(r)
    BY <2>4, WorkersEndCareful, DeriveStatusCareful, WriteDerivedCareful, LeaveCareful
  <2>5. QED
    BY <1>2, <2>1, <2>2, <2>3, <2>4 DEF StepRun
<1>3. ASSUME NEW c \in Controls, StepControl(c) PROVE CarefulIInv'
  <2>1. CASE Signal(c) \/ ListUploads(c)
    BY <2>1, SignalCareful, ListUploadsCareful
  <2>2. CASE \E f \in Files : PauseUpload(c, f) \/ AbortUpload(c, f) \/ CancelUpload(c, f)
    BY <2>2, PauseUploadCareful, AbortUploadCareful, CancelUploadCareful
  <2>3. CASE FinishControl(c) \/ ControlFails(c)
    BY <2>3, FinishControlCareful, ControlFailsCareful
  <2>4. QED
    BY <1>3, <2>1, <2>2, <2>3 DEF StepControl
<1>4. CASE Crash
  BY <1>4, CrashCareful
<1>5. CASE UNCHANGED vars
  BY <1>5, StutterCareful
<1>6. QED
  BY <1>1, <1>2, <1>3, <1>4, <1>5 DEF Next

-----------------------------------------------------------------------------
(* The theorems.                                                           *)

\* While the client does one thing at a time, one call at a time works on the
\* process, and its copies agree with the table where it may still write
\* (the calls of UploadService, with their workers).
THEOREM CarefulInvariant == Careful => (Spec => []CarefulIInv)
<1> SUFFICES ASSUME Careful PROVE Spec => []CarefulIInv
  OBVIOUS
<1>1. CarefulIInv /\ [Next]_vars => CarefulIInv'
  BY NextCareful
<1>2. QED
  BY <1>1, InitCareful, PTL DEF Spec

\* A process shown as PAUSED has no worker whose context lives, also after a
\* crash, a failed statement or a dropped stream (PauseProcess and the cancel
\* function it calls).
THEOREM PausedIsStopped == Careful => (Spec => []PausedMeansStopped)
<1> SUFFICES ASSUME Careful PROVE Spec => []PausedMeansStopped
  OBVIOUS
<1>1. CarefulIInv => PausedMeansStopped
  BY DEF CarefulIInv, RunOK, Works, PausedMeansStopped
<1>2. QED
  BY <1>1, CarefulInvariant, PTL

\* A COMPLETED process has only COMPLETED uploads: none changes after the status
\* was derived from them (the ends of UploadFile, UploadFolder, ResumeProcess).
THEOREM CompletedIsComplete == Careful => (Spec => []CompletedProcessIsComplete)
<1> SUFFICES ASSUME Careful PROVE Spec => []CompletedProcessIsComplete
  OBVIOUS
<1>1. CarefulIInv => CompletedProcessIsComplete
  BY DEF CarefulIInv
<1>2. QED
  BY <1>1, CarefulInvariant, PTL

\* A CANCELLED process has only terminal uploads, and no late write of a worker
\* brings one back (CancelProcess, whose writes follow the cancelled contexts).
THEOREM CancelledIsOver == Careful => (Spec => []CancelledProcessIsOver)
<1> SUFFICES ASSUME Careful PROVE Spec => []CancelledProcessIsOver
  OBVIOUS
<1>1. CarefulIInv => CancelledProcessIsOver
  BY DEF CarefulIInv
<1>2. QED
  BY <1>1, CarefulInvariant, PTL

-----------------------------------------------------------------------------
(* The refinement of the lifecycle.                                        *)

\* The writes of a row u over a row v that the lifecycle allows.
RowMoves(v, u) ==
  \/ v.status = "ABSENT" /\ u.status = "PENDING" /\ u.parts = v.parts
  \/ /\ v.status \in Status /\ CanTransitionTo(v.status, u.status)
     /\ u.status \in Status \ {"CANCELLED"} /\ v.parts \subseteq u.parts
     /\ u.status = "COMPLETED" => u.parts = Parts
  \/ v.status = "IN_PROGRESS" /\ u.status = "IN_PROGRESS" /\ v.parts \subseteq u.parts
  \/ /\ v.status \in {"PENDING", "IN_PROGRESS", "PAUSED"}
     /\ u.status = "CANCELLED" /\ u.parts = {}

\* Such a write of one row is a step of the lifecycle.
LEMMA RowWriteRefines ==
  ASSUME TypeOK, TypeOK', NEW f \in Files, NEW u, row' = [row EXCEPT ![f] = u],
         RowMoves(row[f], u)
  PROVE  Lifecycle!Next
<1> DEFINE st(t) == [e \in Files |-> t[e].status]
           sv(t) == [e \in Files |-> t[e].parts]
<1>1. row'[f] = u /\ u.parts \in SUBSET Parts
  BY DEF TypeOK, Row
<1>2. st(row') = [st(row) EXCEPT ![f] = u.status]
  BY <1>1 DEF TypeOK
<1>3. sv(row') = [sv(row) EXCEPT ![f] = u.parts]
  BY <1>1 DEF TypeOK
<1>4. st(row)[f] = row[f].status /\ sv(row)[f] = row[f].parts
  OBVIOUS
<1>5. (u.status = row[f].status => st(row') = st(row))
      /\ (u.parts = row[f].parts => sv(row') = sv(row))
  BY <1>2, <1>3, <1>4
<1>6. CASE row[f].status = "ABSENT" /\ u.status = "PENDING" /\ u.parts = row[f].parts
  <2>1. Lifecycle!Create(f)
    BY <1>2, <1>4, <1>5, <1>6 DEF Lifecycle!Create, Lifecycle!Move
  <2>2. QED
    BY <2>1 DEF Lifecycle!Next
<1>7. CASE /\ row[f].status \in Status /\ CanTransitionTo(row[f].status, u.status)
           /\ u.status \in Status \ {"CANCELLED"} /\ row[f].parts \subseteq u.parts
           /\ u.status = "COMPLETED" => u.parts = Parts
  <2>1. Lifecycle!Transition(f)
    BY <1>1, <1>2, <1>3, <1>4, <1>7
    DEF Lifecycle!Transition, Lifecycle!Move, Lifecycle!CanTransitionTo,
        Lifecycle!Status, Lifecycle!validTransitions, CanTransitionTo, Status,
        validTransitions
  <2>2. QED
    BY <2>1 DEF Lifecycle!Next
<1>8. CASE /\ row[f].status = "IN_PROGRESS" /\ u.status = "IN_PROGRESS"
           /\ row[f].parts \subseteq u.parts
  <2>1. Lifecycle!Record(f)
    BY <1>1, <1>3, <1>4, <1>5, <1>8 DEF Lifecycle!Record
  <2>2. QED
    BY <2>1 DEF Lifecycle!Next
<1>9. CASE /\ row[f].status \in {"PENDING", "IN_PROGRESS", "PAUSED"}
           /\ u.status = "CANCELLED" /\ u.parts = {}
  <2>1. Lifecycle!Cancel(f)
    BY <1>2, <1>3, <1>4, <1>9
    DEF Lifecycle!Cancel, Lifecycle!Move, Lifecycle!CanTransitionTo,
        Lifecycle!Status, Lifecycle!validTransitions
  <2>2. QED
    BY <2>1 DEF Lifecycle!Next
<1>10. QED
  BY <1>6, <1>7, <1>8, <1>9 DEF RowMoves

\* What a step does to the table: nothing, or a write the lifecycle allows.
RowStep == \/ UNCHANGED row
           \/ \E f \in Files : \E u : row' = [row EXCEPT ![f] = u] /\ RowMoves(row[f], u)

\* A worker whose context lives writes over the row it has last seen.
LEMMA WorkerRowStep ==
  ASSUME CarefulIInv, NEW r \in Runs, NEW f \in Files, NEW ok \in DbOutcomes(run[r].ctx),
         NEW st, NEW v, Record(f, ok, st, v),
         work[r][f].pc \notin {"off", "queued", "ok", "err"},
         work[r][f].parts \subseteq v.parts,
         \/ st = "IN_PROGRESS"
         \/ work[r][f].pc # "begin" /\ st = "FAILED"
         \/ work[r][f].pc # "begin" /\ st = "COMPLETED" /\ v.parts = Parts
  PROVE  RowStep
<1> DEFINE u == [status |-> st, mpu |-> v.mpu, parts |-> v.parts]
<1>1. ok => run[r].ctx
  <2>1. ~run[r].ctx => ok \in {FALSE}
    BY DEF DbOutcomes
  <2>2. QED
    BY <2>1
<1>2. CASE ~ok
  BY <1>2 DEF Record, RowStep
<1>3. CASE ok
  <2>1. row' = [row EXCEPT ![f] = u] /\ u.status = st /\ u.parts = v.parts
    BY <1>3 DEF Record
  <2> HIDE DEF u
  <2>2. Busy(r, f)
    BY DEF Busy
  <2>3. SyncRow(row[f], work[r][f])
    BY <1>1, <1>3, <2>2 DEF CarefulIInv, RunOK, SyncOK, MayWrite, Works
  <2>4. CASE work[r][f].pc = "begin"
    <3>1. row[f].status \in {"PENDING", "PAUSED"} /\ row[f].parts \subseteq v.parts
      BY <2>3, <2>4 DEF SyncRow
    <3>2. RowMoves(row[f], u)
      BY <2>1, <2>4, <3>1 DEF RowMoves, CanTransitionTo, validTransitions, Status
    <3>3. QED
      BY <2>1, <3>2 DEF RowStep
  <2>5. CASE work[r][f].pc # "begin"
    <3>1. row[f].status = "IN_PROGRESS" /\ row[f].parts \subseteq v.parts
      BY <2>3, <2>5 DEF SyncRow
    <3>2. RowMoves(row[f], u)
      BY <2>1, <3>1 DEF RowMoves, CanTransitionTo, validTransitions, Status
    <3>3. QED
      BY <2>1, <3>2 DEF RowStep
  <2>6. QED
    BY <2>4, <2>5
<1>4. ok \in BOOLEAN
  BY DEF DbOutcomes
<1>5. QED
  BY <1>2, <1>3, <1>4

LEMMA StepWorkerRow ==
  ASSUME CarefulIInv, NEW r \in Runs, NEW f \in Files, StepWorker(r, f)
  PROVE  RowStep
<1>1. work[r][f] \in Worker /\ WorkerOK(mpu, f, work[r][f])
  BY CarefulTypes DEF TypeOK, CarefulIInv, IInv
<1>2. CASE Moves(r, f)
  BY <1>2, CarefulTypes, MovesWorker DEF RowStep
<1>3. CASE Begin(r, f) \/ SaveMultipartID(r, f)
  BY <1>3, WorkerRowStep DEF Begin, SaveMultipartID, At
<1>4. CASE \E p \in Parts : CollectPart(r, f, p)
  <2>1. PICK p \in Parts : CollectPart(r, f, p)
    BY <1>4
  <2> DEFINE w(ok) == [work[r][f] EXCEPT !.got = @ \ {p}, !.parts = @ \cup {p},
                                         !.err = @ \/ ~ok]
  <2>2. PICK ok \in DbOutcomes(run[r].ctx) : Record(f, ok, "IN_PROGRESS", w(ok))
    BY <2>1 DEF CollectPart
  <2>3. work[r][f].parts \subseteq w(ok).parts
    BY <1>1 DEF Worker
  <2>4. work[r][f].pc = "parts"
    BY <2>1 DEF CollectPart, At
  <2> HIDE DEF w
  <2>5. QED
    BY <2>2, <2>3, <2>4, WorkerRowStep
<1>5. CASE FinishUpload(r, f)
  <2>1. work[r][f].pc = "finish" /\ work[r][f].parts = Parts
    BY <1>1, <1>5 DEF FinishUpload, At, WorkerOK
  <2>2. PICK ok \in DbOutcomes(run[r].ctx) : Record(f, ok, "COMPLETED", work[r][f])
    BY <1>5 DEF FinishUpload
  <2>3. QED
    BY <2>1, <2>2, WorkerRowStep
<1>6. CASE FailUpload(r, f)
  BY <1>6, WorkerRowStep DEF FailUpload, At
<1>7. QED
  BY <1>2, <1>3, <1>4, <1>5, <1>6 DEF StepWorker, StepParts, Moves

LEMMA CreateUploadRow ==
  ASSUME CarefulIInv, NEW f \in Files, CreateUpload(f) PROVE RowStep
<1>1. row[f] = AbsentRow
  BY DEF CarefulIInv, UncreatedOK, CreateUpload, Uncreated
<1>2. row' = [row EXCEPT ![f] = [AbsentRow EXCEPT !.status = "PENDING"]]
  BY <1>1 DEF CreateUpload
<1>3. RowMoves(row[f], [AbsentRow EXCEPT !.status = "PENDING"])
  BY <1>1 DEF RowMoves, AbsentRow
<1>4. QED
  BY <1>2, <1>3 DEF RowStep

\* A control writes over the rows it has listed, which nobody has changed since.
LEMMA PauseUploadRow ==
  ASSUME CarefulIInv, NEW c \in Controls, NEW f \in Files, PauseUpload(c, f)
  PROVE  RowStep
<1> DEFINE u == [ctl[c].snap[f] EXCEPT !.status = "PAUSED"]
<1>1. row[f] = ctl[c].snap[f] /\ row[f].status = "IN_PROGRESS" /\ row[f] \in Row
  BY CarefulTypes, TodoRow DEF PauseUpload, TypeOK
<1>2. u.status = "PAUSED" /\ u.parts = row[f].parts
  BY <1>1 DEF Row
<1>3. row' = [row EXCEPT ![f] = u]
  BY DEF PauseUpload
<1> HIDE DEF u
<1>4. RowMoves(row[f], u)
  BY <1>1, <1>2 DEF RowMoves, CanTransitionTo, validTransitions, Status
<1>5. QED
  BY <1>3, <1>4 DEF RowStep

LEMMA CancelUploadRow ==
  ASSUME CarefulIInv, NEW c \in Controls, NEW f \in Files, CancelUpload(c, f)
  PROVE  RowStep
<1>1. row[f].status \in {"PENDING", "IN_PROGRESS", "PAUSED"}
  BY TodoRow DEF CancelUpload
<1>2. RowMoves(row[f], [AbsentRow EXCEPT !.status = "CANCELLED"])
  BY <1>1 DEF RowMoves, AbsentRow
<1>3. QED
  BY <1>2 DEF CancelUpload, RowStep

LEMMA NextRow == CarefulIInv /\ [Next]_vars => RowStep
<1> SUFFICES ASSUME CarefulIInv, [Next]_vars PROVE RowStep
  OBVIOUS
<1>1. CASE Client
  BY <1>1 DEF Client, CreateProcess, StartResume, Disconnect, StartControl, RowStep
<1>2. ASSUME NEW r \in Runs, StepRun(r) PROVE RowStep
  <2>1. CASE \E f \in Files : CreateUpload(f)
    BY <2>1, CreateUploadRow
  <2>2. CASE \E f \in Files : StepWorker(r, f)
    BY <2>2, StepWorkerRow
  <2>3. CASE \/ \E f \in Files : SkipFile(f) \/ Launch(r, f)
             \/ CreateFails \/ MarkInProgress
             \/ WriteResumed(r) \/ ListForResume(r) \/ RegisterCancel(r)
             \/ WorkersEnd(r) \/ DeriveStatus(r) \/ WriteDerived(r) \/ Leave(r)
    BY <2>3 DEF SkipFile, Launch, CreateFails, MarkInProgress, WriteResumed,
                ListForResume, RegisterCancel, WorkersEnd, DeriveStatus,
                WriteDerived, Leave, RowStep
  <2>4. QED
    BY <1>2, <2>1, <2>2, <2>3 DEF StepRun, StepFirst
<1>3. ASSUME NEW c \in Controls, StepControl(c) PROVE RowStep
  <2>1. CASE \E f \in Files : PauseUpload(c, f) \/ CancelUpload(c, f)
    BY <2>1, PauseUploadRow, CancelUploadRow
  <2>2. CASE \/ Signal(c) \/ ListUploads(c) \/ FinishControl(c) \/ ControlFails(c)
             \/ \E f \in Files : AbortUpload(c, f)
    BY <2>2 DEF Signal, ListUploads, FinishControl, ControlFails, AbortUpload, RowStep
  <2>3. QED
    BY <1>3, <2>1, <2>2 DEF StepControl
<1>4. CASE Crash
  BY <1>4 DEF Crash, RowStep
<1>5. CASE UNCHANGED vars
  BY <1>5 DEF vars, RowStep
<1>6. QED
  BY <1>1, <1>2, <1>3, <1>4, <1>5 DEF Next

\* With a careful client the rows keep the lifecycle's promise: only valid
\* transitions, no recorded part forgotten but by a cancellation, COMPLETED only
\* over every part, whatever copies the calls write (uploadRepo.Update).
THEOREM RowsRefineLifecycle == Careful => (Spec => ImplementsLifecycle)
<1> SUFFICES ASSUME Careful PROVE Spec => ImplementsLifecycle
  OBVIOUS
<1>1. Init => Lifecycle!Init
  BY DEF Init, AbsentRow, Lifecycle!Init
<1>2. CarefulIInv /\ CarefulIInv' /\ [Next]_vars => [Lifecycle!Next]_(Lifecycle!lifeVars)
  <2> SUFFICES ASSUME CarefulIInv, CarefulIInv', [Next]_vars
               PROVE  [Lifecycle!Next]_(Lifecycle!lifeVars)
    OBVIOUS
  <2>1. TypeOK /\ TypeOK' /\ RowStep
    BY NextRow DEF CarefulIInv, IInv
  <2>2. CASE UNCHANGED row
    BY <2>2 DEF Lifecycle!lifeVars
  <2>3. CASE \E f \in Files : \E u : row' = [row EXCEPT ![f] = u] /\ RowMoves(row[f], u)
    BY <2>1, <2>3, RowWriteRefines
  <2>4. QED
    BY <2>1, <2>2, <2>3 DEF RowStep
<1>3. QED
  BY <1>1, <1>2, CarefulInvariant, PTL DEF Spec, ImplementsLifecycle, Lifecycle!Spec

=============================================================================
