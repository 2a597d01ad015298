------------------------- MODULE PartUploaderProofs -------------------------
(***************************************************************************)
(* Proofs about PartUploader, for every file size, part size and number of *)
(* slots, with and without faults: the inductive invariant IInv, the       *)
(* safety properties it implies, and the refinement of PartBatch.          *)
(***************************************************************************)
EXTENDS PartUploader, FiniteSetTheorems, TLAPS

\* The invariant holds when uploadParts is called.
LEMMA InitIInv == Init => IInv
<1> SUFFICES ASSUME Init PROVE IInv
  OBVIOUS
<1>1. /\ local \in SUBSET Parts /\ stored = local /\ saved = local
      /\ \A p \in Parts : g[p] = IF p \in local THEN "none" ELSE "select"
      /\ g \in [Parts -> {"none", "select"}]
  BY DEF Init, PendingPartNumbers, Parts
<1>2. /\ sem = {} /\ resultCh = {} /\ closed = FALSE /\ firstErr = "nil"
      /\ col = "collecting" /\ ret = "none"
      /\ status = "IN_PROGRESS" /\ rowStatus = "IN_PROGRESS"
      /\ ctxLive \in BOOLEAN /\ partLive \in BOOLEAN
  BY DEF Init
<1>3. TypeOK
  BY <1>1, <1>2 DEF TypeOK
<1>4. IsFiniteSet(sem) /\ Cardinality(sem) <= PartsParallel
  BY <1>2, FS_EmptySet, ParallelAssumption
<1>5. QED
  BY <1>1, <1>2, <1>3, <1>4 DEF IInv

\* Taking a slot keeps the semaphore within its capacity.
LEMMA AcquireIInv ==
  ASSUME IInv, NEW p \in Parts, Acquire(p)
  PROVE  IInv'
<1>1. IsFiniteSet(sem') /\ Cardinality(sem') <= PartsParallel
  <2>1. IsFiniteSet(sem) /\ Cardinality(sem) < PartsParallel /\ sem' = sem \cup {p}
    BY DEF IInv, Acquire
  <2>2. Cardinality(sem) \in Nat
    BY <2>1, FS_CardinalityType
  <2>3. /\ IsFiniteSet(sem \cup {p})
        /\ Cardinality(sem \cup {p}) =
             IF p \in sem THEN Cardinality(sem) ELSE Cardinality(sem) + 1
    BY <2>1, FS_AddElement
  <2>4. QED
    BY <2>1, <2>2, <2>3, ParallelAssumption
<1>2. TypeOK'
  BY DEF IInv, TypeOK, Acquire, uploadVars, Result
<1>3. QED
  BY <1>1, <1>2 DEF IInv, TypeOK, Acquire, uploadVars, Result

\* What sending a result changes, whichever of the three ways it is sent.
Sends(p, success) ==
  /\ g[p] \in {"select", "upload"}
  /\ g' = [g EXCEPT ![p] = "sent"]
  /\ resultCh' = resultCh \cup {[part |-> p, ok |-> success]}
  /\ stored' = stored \/ stored' = stored \cup {p}
  /\ success => p \in stored'
  /\ UNCHANGED <<sem, closed, ctxLive, partLive, local, bytes, status, saved,
                 rowStatus, firstErr, col, ret>>

LEMMA SendCases ==
  ASSUME NEW p \in Parts, GiveUpSlot(p) \/ PartUploaded(p) \/ PartFailed(p)
  PROVE  \E success \in BOOLEAN : Sends(p, success)
<1>1. CASE GiveUpSlot(p)
  <2>1. Sends(p, FALSE)
    BY <1>1 DEF GiveUpSlot, Send, Sends, uploadVars
  <2>2. QED
    BY <2>1
<1>2. CASE PartUploaded(p)
  <2>1. Sends(p, TRUE)
    BY <1>2 DEF PartUploaded, Send, Sends, uploadVars
  <2>2. QED
    BY <2>1
<1>3. CASE PartFailed(p)
  <2>1. Sends(p, FALSE)
    BY <1>3 DEF PartFailed, Send, Sends, uploadVars
  <2>2. QED
    BY <2>1
<1>4. QED
  BY <1>1, <1>2, <1>3

\* Sending a result, with or without the part.
LEMMA SendIInv ==
  ASSUME IInv, NEW p \in Parts, NEW success \in BOOLEAN, Sends(p, success)
  PROVE  IInv'
<1> DEFINE new == [part |-> p, ok |-> success]
<1>1. new \in Result /\ new.part = p /\ new.ok = success
  BY DEF Result
<1> HIDE DEF new
<1>2. resultCh' = resultCh \cup {new}
  BY DEF Sends, new
<1>3. TypeOK'
  BY <1>1, <1>2 DEF IInv, TypeOK, Sends
<1>4. /\ \A q \in Parts : g'[q] = IF q = p THEN "sent" ELSE g[q]
      /\ g[p] \in {"select", "upload"}
  BY DEF IInv, TypeOK, Sends
<1>5. ~closed
  BY <1>4 DEF IInv
<1>6. \A r \in resultCh' : /\ g'[r.part] \in {"sent", "done"}
                           /\ r.ok => r.part \in stored' \ local'
  <2> TAKE r \in resultCh'
  <2>1. CASE r = new
    <3>1. p \notin local
      BY <1>4 DEF IInv
    <3>2. QED
      BY <2>1, <3>1, <1>1, <1>4 DEF Sends
  <2>2. CASE r \in resultCh
    <3>1. /\ r.part \in Parts /\ g[r.part] \in {"sent", "done"}
          /\ r.ok => r.part \in stored \ local
      BY <2>2 DEF IInv, TypeOK, Result
    <3>2. QED
      BY <3>1, <1>4 DEF Sends
  <2>3. QED
    BY <2>1, <2>2, <1>2
<1>7. /\ \A q \in Parts : g'[q] = "upload" => q \in sem'
      /\ \A q \in sem' : g'[q] \in {"upload", "sent"}
  BY <1>4 DEF IInv, TypeOK, Sends
<1>8. firstErr' = "nil" =>
        /\ saved' = local'
        /\ \A q \in Parts : \/ q \in local'
                           \/ g'[q] \in {"select", "upload"}
                           \/ \E r \in resultCh' : r.part = q
  BY <1>1, <1>2, <1>4 DEF IInv, Sends
<1>9. QED
  BY <1>3, <1>5, <1>6, <1>7, <1>8 DEF IInv, Sends

\* A goroutine that ends gives back the slot it holds, if it holds one.
LEMMA ExitIInv ==
  ASSUME IInv, NEW p \in Parts, Exit(p)
  PROVE  IInv'
<1>1. IsFiniteSet(sem') /\ Cardinality(sem') <= PartsParallel
  <2>1. IsFiniteSet(sem) /\ Cardinality(sem) <= PartsParallel /\ sem' = sem \ {p}
    BY DEF IInv, Exit
  <2>2. Cardinality(sem) \in Nat
    BY <2>1, FS_CardinalityType
  <2>3. /\ IsFiniteSet(sem \ {p})
        /\ Cardinality(sem \ {p}) =
             IF p \in sem THEN Cardinality(sem) - 1 ELSE Cardinality(sem)
    BY <2>1, FS_RemoveElement
  <2>4. QED
    BY <2>1, <2>2, <2>3, ParallelAssumption
<1>2. TypeOK'
  BY DEF IInv, TypeOK, Exit, uploadVars, Result
<1>3. \A r \in resultCh' : /\ g'[r.part] \in {"sent", "done"}
                           /\ r.ok => r.part \in stored' \ local'
  BY DEF IInv, TypeOK, Exit, uploadVars, Result
<1>4. QED
  BY <1>1, <1>2, <1>3 DEF IInv, TypeOK, Exit, uploadVars

\* The collector receives a result: saved follows local until an error is noted.
LEMMA CollectIInv ==
  ASSUME IInv, NEW r \in resultCh, CollectError(r) \/ CollectPart(r)
  PROVE  IInv'
<1> USE DEF goroutineVars, uploadVars
<1>1. CASE CollectError(r)
  BY <1>1 DEF IInv, TypeOK, CollectError, NoteError, Result
<1>2. CASE CollectPart(r)
  <2>1. PICK ok \in DbOutcomes : WriteRow(ok, local', status) /\ NoteError(~ok, "db")
    BY <1>2 DEF CollectPart
  <2>2. ok \in BOOLEAN
    BY DEF DbOutcomes
  <2>3. r.part \in Parts /\ r.part \in stored /\ g[r.part] \in {"sent", "done"}
    BY <1>2 DEF IInv, TypeOK, CollectPart, Result
  <2>4. TypeOK'
    <3>1. partLive' \in BOOLEAN /\ firstErr' \in {"nil", "part", "db"}
      BY <2>1, <2>2 DEF IInv, TypeOK, NoteError
    <3>2. /\ local' \in SUBSET Parts /\ saved' \in SUBSET Parts
          /\ rowStatus' \in {"IN_PROGRESS", "PAUSED", "FAILED"}
      BY <1>2, <2>1, <2>2, <2>3 DEF IInv, TypeOK, CollectPart, WriteRow
    <3>3. resultCh' \in SUBSET Result
      BY <1>2 DEF IInv, TypeOK, CollectPart
    <3>4. QED
      BY <1>2, <3>1, <3>2, <3>3 DEF IInv, TypeOK, CollectPart
  <2>5. saved' \subseteq local' /\ local' \subseteq stored'
    BY <1>2, <2>1, <2>2, <2>3 DEF IInv, CollectPart, WriteRow
  <2>6. \A q \in resultCh' : /\ g'[q.part] \in {"sent", "done"}
                             /\ q.ok => q.part \in stored' \ local'
    <3> TAKE q \in resultCh'
    <3>1. q \in Result /\ r \in Result /\ q # r /\ q \in resultCh /\ r.ok
      BY <1>2 DEF IInv, TypeOK, CollectPart
    <3>2. q.ok => q.part # r.part
      BY <3>1 DEF Result
    <3>3. QED
      BY <1>2, <3>1, <3>2 DEF IInv, CollectPart
  <2>7. firstErr' = "nil" =>
          /\ saved' = local'
          /\ \A p \in Parts : \/ p \in local'
                             \/ g'[p] \in {"select", "upload"}
                             \/ \E q \in resultCh' : q.part = p
    <3> SUFFICES ASSUME firstErr' = "nil"
                 PROVE  /\ saved' = local'
                        /\ \A p \in Parts : \/ p \in local'
                                           \/ g'[p] \in {"select", "upload"}
                                           \/ \E q \in resultCh' : q.part = p
      OBVIOUS
    <3>1. firstErr = "nil" /\ ok
      BY <2>1, <2>2 DEF NoteError
    <3>2. saved' = local'
      BY <2>1, <3>1 DEF WriteRow
    <3>3. ASSUME NEW p \in Parts
          PROVE  \/ p \in local'
                 \/ g'[p] \in {"select", "upload"}
                 \/ \E q \in resultCh' : q.part = p
      <4>1. CASE \E q \in resultCh : q.part = p
        <5>1. PICK q \in resultCh : q.part = p
          BY <4>1
        <5>2. CASE q = r
          BY <1>2, <5>1, <5>2 DEF CollectPart
        <5>3. CASE q # r
          BY <1>2, <5>1, <5>3 DEF CollectPart
        <5>4. QED
          BY <5>2, <5>3
      <4>2. CASE p \in local \/ g[p] \in {"select", "upload"}
        BY <1>2, <4>2 DEF CollectPart
      <4>3. QED
        BY <3>1, <4>1, <4>2 DEF IInv
    <3>4. QED
      BY <3>2, <3>3
  <2>8. ret' = "nil" => firstErr' = "nil"
    BY <1>2 DEF IInv, CollectPart
  <2>9. \A p \in local' : g'[p] \notin {"select", "upload"}
    BY <1>2, <2>3 DEF IInv, CollectPart
  <2>10. QED
    BY <1>2, <2>4, <2>5, <2>6, <2>7, <2>8, <2>9 DEF IInv, CollectPart
<1>3. QED
  BY <1>1, <1>2

\* The collector leaves its loop, writes the row and returns.
LEMMA ReturnIInv ==
  ASSUME IInv,
         \/ ReturnNil \/ ChoosePaused \/ ChooseFailed \/ WritePaused \/ WriteFailed
  PROVE  IInv'
<1> USE DEF goroutineVars, uploadVars
<1>1. CASE ReturnNil
  BY <1>1 DEF IInv, TypeOK, ReturnNil, Drained
<1>2. CASE ChoosePaused
  BY <1>2 DEF IInv, TypeOK, ChoosePaused, Drained
<1>3. CASE ChooseFailed
  BY <1>3 DEF IInv, TypeOK, ChooseFailed, Drained
<1>4. CASE WritePaused
  BY <1>4 DEF IInv, TypeOK, WritePaused, WriteRow
<1>5. CASE WriteFailed
  BY <1>5 DEF IInv, TypeOK, WriteFailed, WriteRow
<1>6. QED
  BY <1>1, <1>2, <1>3, <1>4, <1>5

\* Every step keeps the invariant.
LEMMA NextIInv == IInv /\ [Next]_vars => IInv'
<1> SUFFICES ASSUME IInv, [Next]_vars PROVE IInv'
  OBVIOUS
<1>1. CASE CancelContext
  BY <1>1 DEF IInv, TypeOK, CancelContext, goroutineVars, uploadVars
<1>2. CASE \E p \in Parts : Goroutine(p)
  BY <1>2, AcquireIInv, SendCases, SendIInv, ExitIInv DEF Goroutine
<1>3. CASE CloseResults
  BY <1>3 DEF IInv, TypeOK, CloseResults, Pending, uploadVars
<1>4. CASE Collector
  BY <1>4, CollectIInv, ReturnIInv DEF Collector
<1>5. CASE UNCHANGED vars
  BY <1>5 DEF IInv, TypeOK, vars
<1>6. QED
  BY <1>1, <1>2, <1>3, <1>4, <1>5 DEF Next, Finished

\* IInv is an invariant of uploadParts.
THEOREM PartUploaderInvariant == Spec => []IInv
<1>1. Init => IInv
  BY InitIInv
<1>2. IInv /\ [Next]_vars => IInv'
  BY NextIInv
<1>3. QED
  BY <1>1, <1>2, PTL DEF Spec

\* Variables keep their types, for every file and every number of slots.
THEOREM PartUploaderTypes == Spec => []TypeOK
<1>1. IInv => TypeOK
  BY DEF IInv
<1>2. QED
  BY <1>1, PartUploaderInvariant, PTL

\* At most PartsParallel requests are at the storage at once (BoundedRequests):
\* the goroutines that upload hold a slot each.
THEOREM RequestsAreBounded == Spec => []BoundedRequests
<1>1. IInv => BoundedRequests
  <2> SUFFICES ASSUME IInv PROVE BoundedRequests
    OBVIOUS
  <2> DEFINE uploading == {p \in Parts : g[p] = "upload"}
  <2>1. uploading \in SUBSET sem
    BY DEF IInv
  <2>2. IsFiniteSet(sem) /\ Cardinality(sem) \in Nat /\ Cardinality(sem) <= PartsParallel
    BY FS_CardinalityType DEF IInv
  <2>3. /\ IsFiniteSet(uploading)
        /\ Cardinality(uploading) <= Cardinality(sem)
    BY <2>1, <2>2, FS_Subset
  <2>4. Cardinality(uploading) \in Nat
    BY <2>3, FS_CardinalityType
  <2> HIDE DEF uploading
  <2>5. Cardinality(uploading) <= PartsParallel
    BY <2>2, <2>3, <2>4, ParallelAssumption
  <2>6. QED
    BY <2>5 DEF BoundedRequests, uploading
<1>2. QED
  BY <1>1, PartUploaderInvariant, PTL

\* nil is only returned when every part is recorded and stored.
LEMMA IInvNil == IInv => NilMeansAllSaved
  BY DEF IInv, TypeOK, NilMeansAllSaved

THEOREM NilIsEarned == Spec => []NilMeansAllSaved
<1>1. IInv => NilMeansAllSaved
  BY IInvNil
<1>2. QED
  BY <1>1, PartUploaderInvariant, PTL

\* A part is recorded in the row only when the storage has it.
THEOREM SavedIsStored == Spec => []SavedPartsAreStored
<1>1. IInv => SavedPartsAreStored
  BY DEF IInv, SavedPartsAreStored
<1>2. QED
  BY <1>1, PartUploaderInvariant, PTL

\* No goroutine, slot or result outlives the call.
THEOREM NothingIsLeft == Spec => []NothingLeftBehind
<1>1. IInv => NothingLeftBehind
  BY DEF IInv, TypeOK, NothingLeftBehind
<1>2. QED
  BY <1>1, PartUploaderInvariant, PTL

\* Every step of uploadParts is a step of the abstract batch or leaves it alone.
LEMMA StepRefines == IInv /\ [Next]_vars => [Batch!Next]_(Batch!batchVars)
<1> SUFFICES ASSUME IInv, [Next]_vars PROVE [Batch!Next]_(Batch!batchVars)
  OBVIOUS
<1> USE DEF Batch!Next, Batch!batchVars, goroutineVars, uploadVars
<1>1. CASE CancelContext \/ CloseResults \/ UNCHANGED vars
  BY <1>1 DEF CancelContext, CloseResults, vars
<1>2. CASE \E p \in Parts : Goroutine(p)
  BY <1>2 DEF Goroutine, Acquire, GiveUpSlot, PartUploaded, PartFailed, Exit
<1>3. CASE \E r \in resultCh : CollectError(r)
  BY <1>3 DEF CollectError
<1>4. CASE \E r \in resultCh : CollectPart(r)
  <2>1. PICK r \in resultCh : CollectPart(r)
    BY <1>4
  <2>2. PICK ok \in DbOutcomes : WriteRow(ok, local', status)
    BY <2>1 DEF CollectPart
  <2>3. ret = "none" /\ ret' = "none"
    BY <2>1 DEF IInv, TypeOK, CollectPart
  <2>4. saved \subseteq saved' /\ saved' \in SUBSET Parts
    BY <2>1, <2>2 DEF IInv, TypeOK, CollectPart, WriteRow, Result
  <2>5. QED
    BY <2>3, <2>4 DEF Batch!Save
<1>5. CASE ReturnNil
  <2>1. ret = "none" /\ ret' = "nil" /\ saved' = saved
    BY <1>5 DEF IInv, TypeOK, ReturnNil, Drained
  <2>2. saved = Parts
    BY <1>5 DEF IInv, TypeOK, ReturnNil, Drained
  <2>3. QED
    BY <2>1, <2>2 DEF Batch!Succeed
<1>6. CASE ChoosePaused \/ ChooseFailed
  BY <1>6 DEF ChoosePaused, ChooseFailed
<1>7. CASE WritePaused \/ WriteFailed
  <2>1. ret = "none" /\ ret' \in {"ctxErr", "dbErr", "failed"}
    BY <1>7 DEF IInv, TypeOK, WritePaused, WriteFailed
  <2>2. saved \subseteq saved' /\ saved' \in SUBSET Parts
    BY <1>7 DEF IInv, TypeOK, WritePaused, WriteFailed, WriteRow
  <2>3. QED
    BY <2>1, <2>2 DEF Batch!GiveUp
<1>8. QED
  BY <1>1, <1>2, <1>3, <1>4, <1>5, <1>6, <1>7 DEF Next, Collector, Finished

\* uploadParts implements the abstract batch: recorded parts are never lost, and
\* nil is returned only with all of them recorded.
THEOREM PartUploaderRefinesBatch == Spec => ImplementsBatch
<1>1. Init => Batch!Init
  BY DEF Init, Batch!Init
<1>2. QED
  BY <1>1, StepRefines, PartUploaderInvariant, PTL
  DEF Spec, ImplementsBatch, Batch!Spec

=============================================================================
