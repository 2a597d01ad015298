---------------------------- MODULE PartUploader ----------------------------
(***************************************************************************)
(* One call of UploadService.uploadParts: a goroutine per pending part,    *)
(* the semaphore that lets PartsParallel of them talk to the storage, the  *)
(* buffered result channel, the goroutine that closes it, the collector    *)
(* that alone touches the upload and its database row, and the two         *)
(* contexts (the upload's, cancelled by PauseProcess and CancelProcess, and *)
(* the parts', also cancelled by the first error).                          *)
(*                                                                         *)
(* The result channel is a set: every goroutine sends one result, and the  *)
(* order in which goroutines come to send is arbitrary anyway.  Progress   *)
(* messages are left out: the stream is taken to be drained.               *)
(***************************************************************************)
EXTENDS UploadDomain, FiniteSetsExt

CONSTANTS
  FileSize,        \* bytes of the file, as recorded when the upload was created
  PartSize,        \* bytes of a part: s.partSize
  PartsParallel,   \* capacity of the semaphore: s.partsParallel
  Faults           \* whether storage, file reads and the database may fail

ASSUME SizeAssumption     == FileSize \in Nat /\ PartSize \in Nat \ {0}
ASSUME ParallelAssumption == PartsParallel \in Nat \ {0}
ASSUME FaultsAssumption   == Faults \in BOOLEAN

totalParts == (FileSize + PartSize - 1) \div PartSize
Parts      == 1 .. totalParts

\* Mistake: the last part is taken to be a full one.
LengthFull(pn) == PartSize

\* Bytes the goroutine of part pn reads: the last part may be short.
Length(pn) == LET offset == (pn - 1) * PartSize
              IN  IF offset + PartSize > FileSize THEN FileSize - offset
                                                  ELSE PartSize

VARIABLES
  g,          \* where the goroutine of each part is
  sem,        \* the parts whose goroutine holds a slot of the semaphore
  resultCh,   \* results sent and not yet received
  closed,     \* resultCh is closed
  ctxLive,    \* the upload's context is not cancelled
  partLive,   \* partCtx is not cancelled
  stored,     \* parts the storage holds under the upload's multipart ID
  local,      \* upload.CompletedParts, in the collector's hands
  bytes,      \* upload.BytesUploaded
  status,     \* upload.Status
  saved,      \* completed_parts of the upload's row
  rowStatus,  \* status of the upload's row
  firstErr,   \* "nil", or what the first error was
  col,        \* where the collector is
  ret         \* "none" until uploadParts returns, then what it returns

goroutineVars == <<g, sem, closed, stored>>
uploadVars    == <<local, bytes, status, saved, rowStatus>>
vars == <<g, sem, resultCh, closed, ctxLive, partLive, stored, local, bytes,
          status, saved, rowStatus, firstErr, col, ret>>

Result == [part : Parts, ok : BOOLEAN]

-----------------------------------------------------------------------------
(* The call starts with an upload whose row is IN_PROGRESS and whose       *)
(* completed parts, if it resumes, the storage already holds.  Its context *)
(* may have been cancelled on the way here.                                *)
Init ==
  /\ local \in SUBSET Parts
  /\ stored = local /\ saved = local
  /\ bytes = MapThenSumSet(Length, local)
  /\ status = "IN_PROGRESS" /\ rowStatus = "IN_PROGRESS"
  /\ g = [p \in Parts |->
            IF p \in PendingPartNumbers(local, totalParts) THEN "select" ELSE "none"]
  /\ sem = {} /\ resultCh = {} /\ closed = FALSE
  /\ ctxLive \in BOOLEAN /\ partLive = ctxLive
  /\ firstErr = "nil"
  /\ col = "collecting" /\ ret = "none"

Pending == {p \in Parts : g[p] # "none"}

\* PauseProcess, CancelProcess or the end of the client's stream.
CancelContext ==
  /\ ctxLive /\ ret = "none"
  /\ ctxLive' = FALSE /\ partLive' = FALSE
  /\ UNCHANGED <<goroutineVars, resultCh, uploadVars, firstErr, col, ret>>

-----------------------------------------------------------------------------
(* A part's goroutine.                                                     *)

\* resultCh has room for one result of every pending part.
Send(p, success) ==
  /\ Cardinality(resultCh) < Cardinality(Pending)
  /\ resultCh' = resultCh \cup {[part |-> p, ok |-> success]}

\* Mistake: one slot too many.
AcquireOneMore(p) ==
  /\ g[p] = "select"
  /\ Cardinality(sem) <= PartsParallel
  /\ sem' = sem \cup {p}
  /\ g' = [g EXCEPT ![p] = "upload"]
  /\ UNCHANGED <<resultCh, closed, ctxLive, partLive, stored, uploadVars,
                 firstErr, col, ret>>

\* select, case sem <- struct{}{}
Acquire(p) ==
  /\ g[p] = "select"
  /\ Cardinality(sem) < PartsParallel
  /\ sem' = sem \cup {p}
  /\ g' = [g EXCEPT ![p] = "upload"]
  /\ UNCHANGED <<resultCh, closed, ctxLive, partLive, stored, uploadVars,
                 firstErr, col, ret>>

\* select, case <-partCtx.Done(): with a free slot too, Go picks either.
GiveUpSlot(p) ==
  /\ g[p] = "select"
  /\ ~partLive
  /\ Send(p, FALSE)
  /\ g' = [g EXCEPT ![p] = "sent"]
  /\ UNCHANGED <<sem, closed, ctxLive, partLive, stored, uploadVars,
                 firstErr, col, ret>>

\* Mistake: the result is sent without waiting for the storage's answer.
PartPresumed(p) ==
  /\ g[p] = "upload"
  /\ partLive
  /\ Send(p, TRUE)
  /\ g' = [g EXCEPT ![p] = "sent"]
  /\ UNCHANGED <<sem, closed, ctxLive, partLive, stored, uploadVars, firstErr,
                 col, ret>>

\* The storage answers with the part's ETag before partCtx is cancelled.
PartUploaded(p) ==
  /\ g[p] = "upload"
  /\ partLive
  /\ stored' = stored \cup {p}
  /\ Send(p, TRUE)
  /\ g' = [g EXCEPT ![p] = "sent"]
  /\ UNCHANGED <<sem, closed, ctxLive, partLive, uploadVars, firstErr, col, ret>>

\* The read or the request fails, or partCtx is cancelled and the request is
\* abandoned; the storage may have taken the part all the same.
PartFailed(p) ==
  /\ g[p] = "upload"
  /\ Faults \/ ~partLive
  /\ stored' \in {stored, stored \cup {p}}
  /\ Send(p, FALSE)
  /\ g' = [g EXCEPT ![p] = "sent"]
  /\ UNCHANGED <<sem, closed, ctxLive, partLive, uploadVars, firstErr, col, ret>>

\* Mistake: the deferred release of the slot is forgotten.
ExitKeepingSlot(p) ==
  /\ g[p] = "sent"
  /\ g' = [g EXCEPT ![p] = "done"]
  /\ UNCHANGED <<sem, resultCh, closed, ctxLive, partLive, stored, uploadVars,
                 firstErr, col, ret>>

\* The deferred calls: the slot is given back, then wg.Done().
Exit(p) ==
  /\ g[p] = "sent"
  /\ sem' = sem \ {p}
  /\ g' = [g EXCEPT ![p] = "done"]
  /\ UNCHANGED <<resultCh, closed, ctxLive, partLive, stored, uploadVars,
                 firstErr, col, ret>>

\* Mistake: the channel is closed as soon as no request is at the storage.
CloseResultsEarly ==
  /\ ~closed
  /\ \A p \in Pending : g[p] # "upload"
  /\ closed' = TRUE
  /\ UNCHANGED <<g, sem, resultCh, ctxLive, partLive, stored, uploadVars,
                 firstErr, col, ret>>

\* wg.Wait() and close(resultCh).  Without pending parts the code returns
\* before it starts any goroutine: no result and a closed channel say the same.
CloseResults ==
  /\ ~closed
  /\ \A p \in Pending : g[p] = "done"
  /\ closed' = TRUE
  /\ UNCHANGED <<g, sem, resultCh, ctxLive, partLive, stored, uploadVars,
                 firstErr, col, ret>>

-----------------------------------------------------------------------------
(* The collector.                                                          *)

\* The row is written through the upload's context: once it is cancelled
\* database/sql refuses the statement.
DbOutcomes == IF ~ctxLive THEN {FALSE} ELSE IF Faults THEN BOOLEAN ELSE {TRUE}

WriteRow(ok, parts, st) ==
  IF ok THEN saved' = parts /\ rowStatus' = st ELSE UNCHANGED <<saved, rowStatus>>

\* Mistake: an error of the database is logged and not returned.
NoteStorageError(failed, what) ==
  IF failed /\ firstErr = "nil" /\ what = "part"
  THEN firstErr' = what /\ partLive' = FALSE
  ELSE UNCHANGED <<firstErr, partLive>>

\* The first error is kept, and cancels partCtx; the ones after it change nothing.
NoteError(failed, what) ==
  IF failed /\ firstErr = "nil"
  THEN firstErr' = what /\ partLive' = FALSE
  ELSE UNCHANGED <<firstErr, partLive>>

CollectError(r) ==
  /\ col = "collecting" /\ r \in resultCh /\ ~r.ok
  /\ resultCh' = resultCh \ {r}
  /\ NoteError(TRUE, "part")
  /\ UNCHANGED <<goroutineVars, uploadVars, ctxLive, col, ret>>

CollectPart(r) ==
  /\ col = "collecting" /\ r \in resultCh /\ r.ok
  /\ resultCh' = resultCh \ {r}
  /\ local' = local \cup {r.part}
  /\ bytes' = bytes + Length(r.part)
  /\ \E ok \in DbOutcomes : /\ WriteRow(ok, local', status)
                            /\ NoteError(~ok, "db")
  /\ UNCHANGED <<goroutineVars, status, ctxLive, col, ret>>

Drained == col = "collecting" /\ closed /\ resultCh = {}

ReturnNil ==
  /\ Drained /\ firstErr = "nil"
  /\ ret' = "nil" /\ col' = "returned" /\ partLive' = FALSE
  /\ UNCHANGED <<goroutineVars, resultCh, ctxLive, uploadVars, firstErr>>

\* Mistake: a cancelled context is read as a cancelled process.
ChooseCancelled ==
  /\ Drained /\ firstErr # "nil" /\ ~ctxLive
  /\ status' = "CANCELLED" /\ col' = "pausing"
  /\ UNCHANGED <<goroutineVars, resultCh, ctxLive, partLive, local, bytes, saved,
                 rowStatus, firstErr, ret>>

\* if ctx.Err() != nil: a pause or a cancel, else the upload fails.
ChoosePaused ==
  /\ Drained /\ firstErr # "nil" /\ ~ctxLive
  /\ status' = "PAUSED" /\ col' = "pausing"
  /\ UNCHANGED <<goroutineVars, resultCh, ctxLive, partLive, local, bytes, saved,
                 rowStatus, firstErr, ret>>

ChooseFailed ==
  /\ Drained /\ firstErr # "nil" /\ ctxLive
  /\ status' = "FAILED" /\ col' = "failing"
  /\ UNCHANGED <<goroutineVars, resultCh, ctxLive, partLive, local, bytes, saved,
                 rowStatus, firstErr, ret>>

\* The row of a paused upload is written through the cancelled context.
WritePaused ==
  /\ col = "pausing"
  /\ \E ok \in DbOutcomes : /\ WriteRow(ok, local, status)
                            /\ ret' = IF ok THEN "ctxErr" ELSE "dbErr"
  /\ col' = "returned" /\ partLive' = FALSE
  /\ UNCHANGED <<goroutineVars, resultCh, ctxLive, local, bytes, status, firstErr>>

\* Mistake: failing an upload clears its parts, as cancelling one does.
WriteFailedCleared ==
  /\ col = "failing"
  /\ \E ok \in DbOutcomes : WriteRow(ok, {}, status)
  /\ ret' = "failed" /\ col' = "returned" /\ partLive' = FALSE
  /\ UNCHANGED <<goroutineVars, resultCh, ctxLive, local, bytes, status, firstErr>>

\* failUpload: an error of the write is only logged.
WriteFailed ==
  /\ col = "failing"
  /\ \E ok \in DbOutcomes : WriteRow(ok, local, status)
  /\ ret' = "failed" /\ col' = "returned" /\ partLive' = FALSE
  /\ UNCHANGED <<goroutineVars, resultCh, ctxLive, local, bytes, status, firstErr>>

-----------------------------------------------------------------------------
Goroutine(p) == \/ Acquire(p) \/ GiveUpSlot(p)
                \/ PartUploaded(p) \/ PartFailed(p)
                \/ Exit(p)

Collector == \/ \E r \in resultCh : CollectError(r) \/ CollectPart(r)
             \/ ReturnNil
             \/ ChoosePaused \/ ChooseFailed
             \/ WritePaused \/ WriteFailed

\* uploadParts has returned and nothing of it is left running.
Finished == ret # "none" /\ UNCHANGED vars

Next == \/ CancelContext
        \/ \E p \in Parts : Goroutine(p)
        \/ CloseResults
        \/ Collector
        \/ Finished

\* Go schedules every goroutine, and the storage answers every request.
Fairness == /\ \A p \in Parts : WF_vars(Goroutine(p))
            /\ WF_vars(CloseResults)
            /\ WF_vars(Collector)

Spec     == Init /\ [][Next]_vars
FairSpec == Spec /\ Fairness

-----------------------------------------------------------------------------
(* Properties.                                                             *)

\* bytes is not here: ProgressIsExact says which number it is.
TypeOK ==
  /\ g \in [Parts -> {"none", "select", "upload", "sent", "done"}]
  /\ sem \in SUBSET Parts
  /\ resultCh \in SUBSET Result
  /\ closed \in BOOLEAN /\ ctxLive \in BOOLEAN /\ partLive \in BOOLEAN
  /\ stored \in SUBSET Parts /\ local \in SUBSET Parts /\ saved \in SUBSET Parts
  /\ status \in {"IN_PROGRESS", "PAUSED", "FAILED"}
  /\ rowStatus \in {"IN_PROGRESS", "PAUSED", "FAILED"}
  /\ firstErr \in {"nil", "part", "db"}
  /\ col \in {"collecting", "pausing", "failing", "returned"}
  /\ ret \in {"none", "nil", "ctxErr", "dbErr", "failed"}

\* At most PartsParallel requests are at the storage at once, whatever order
\* goroutines take and give back slots in, errors and cancellations included
\* (uploadParts, the buffered channel sem).
BoundedRequests == Cardinality({p \in Parts : g[p] = "upload"}) <= PartsParallel

\* uploadParts returns nil only when every part of the file is in the upload's
\* row and at the storage: no failed part, failed write or cancellation can be
\* lost between the goroutines and the collector (CompleteMultipartUpload is
\* called next, with the parts of the upload).
NilMeansAllSaved == ret = "nil" => saved = Parts /\ stored = Parts

\* A part in the row is a part the storage holds, so the row of a paused or
\* crashed upload never makes a resume skip a part that was not uploaded.
SavedPartsAreStored == saved \subseteq stored

\* The progress reported is exact: the bytes counted are those of the parts
\* collected, each once, and they reach FileSize exactly when the call succeeds
\* (the short last part, AddCompletedPart, the resumed parts).
ProgressIsExact == /\ bytes = MapThenSumSet(Length, local)
                   /\ ret = "nil" => bytes = FileSize

\* When uploadParts returns, no goroutine of it still runs, every slot is free
\* and no result is left behind: the caller closes the file next.
NothingLeftBehind ==
  ret # "none" => /\ \A p \in Parts : g[p] \in {"none", "done"}
                  /\ sem = {} /\ resultCh = {}

\* The call returns whatever fails and whenever it is cancelled: no goroutine
\* waits forever for a slot, and none for room in the result channel.
Returns == <>(ret # "none")

\* The inductive invariant behind the properties above: who holds a slot, that
\* no part is sent or collected twice, where each part is while no error has been
\* noted, and what the collector's place in the code says about the channel.
IInv ==
  /\ TypeOK
  /\ IsFiniteSet(sem) /\ Cardinality(sem) <= PartsParallel
  /\ \A p \in Parts : g[p] = "upload" => p \in sem
  /\ \A p \in sem : g[p] \in {"upload", "sent"}
  /\ \A r \in resultCh : /\ g[r.part] \in {"sent", "done"}
                         /\ r.ok => r.part \in stored \ local
  /\ \A p \in local : g[p] \notin {"select", "upload"}
  /\ saved \subseteq local /\ local \subseteq stored
  /\ firstErr = "nil" =>
       /\ saved = local
       /\ \A p \in Parts : \/ p \in local
                          \/ g[p] \in {"select", "upload"}
                          \/ \E r \in resultCh : r.part = p
  /\ closed => \A p \in Parts : g[p] \in {"none", "done"}
  /\ col # "collecting" => closed /\ resultCh = {}
  /\ col = "returned" <=> ret # "none"
  /\ ret = "nil" => firstErr = "nil"

\* uploadParts keeps the promise of the abstract batch.
Batch == INSTANCE PartBatch WITH
           outcome <- CASE ret = "none" -> "none" [] ret = "nil" -> "nil"
                        [] OTHER -> "error"
ImplementsBatch == Batch!Spec

\* ADR-004: on a pause the current part finishes and state is saved.  Nothing
\* fails here but a cancelled context, so a request at the storage when the
\* context still lives should end with its part in the row.
CurrentPartIsSaved ==
  \A p \in Parts : g[p] = "upload" /\ ctxLive ~> p \in saved

=============================================================================
