------------------------ MODULE ProgressStreamProofs ------------------------
(***************************************************************************)
(* Proofs about ProgressStream, for every number of uploads and parts,     *)
(* every capacity, and with and without faults: the inductive invariant    *)
(* StreamIInv, the safety properties it implies, and HeardMovesForward.    *)
(***************************************************************************)
EXTENDS ProgressStream, SequenceTheorems, TLAPS

WorkerRecord == [pc : WorkerPc, status : Status, parts : 0 .. PartCount, err : BOOLEAN]
RowRecord    == [status : Status, parts : 0 .. PartCount]

\* The invariant holds when the call begins.
LEMMA InitIInv == StreamInit => StreamIInv
<1> SUFFICES ASSUME StreamInit PROVE StreamIInv
  OBVIOUS
<1>1. /\ row \in [Uploads -> RowRecord]
      /\ \A u \in Uploads : row[u].parts \in 0 .. PartCount
  BY DEF StreamInit, RowRecord, Status
<1>2. worker \in [Uploads -> WorkerRecord]
  BY <1>1 DEF StreamInit, WorkerRecord, WorkerPc, Status
<1>3. wire \in Seq(Messages) /\ Len(wire) = 0
  BY DEF StreamInit
<1>4. StreamTypeOK
  BY <1>1, <1>2, <1>3 DEF StreamInit, StreamTypeOK, WorkerRecord, RowRecord, SvcPc, Told
<1>5. WireOK
  BY <1>3 DEF WireOK
<1>6. CallOK
  BY DEF StreamInit, CallOK, Running
<1>7. ASSUME NEW u \in Uploads
      PROVE  WorkerOK(u) /\ SentOK(u) /\ LastIsSent(u)
  BY <1>1, <1>3 DEF StreamInit, WorkerOK, SentOK, LastIsSent, IsTerminal
<1>8. QED
  BY <1>4, <1>5, <1>6, <1>7 DEF StreamIInv

\* What is on the wire are messages of the call's uploads.
LEMMA WireMessages ==
  ASSUME StreamIInv
  PROVE  /\ Len(wire) \in Nat
         /\ \A i \in 1 .. Len(wire) : wire[i] \in Messages /\ wire[i].up \in Uploads
<1>1. wire \in Seq(Messages)
  BY DEF StreamIInv, StreamTypeOK
<1>2. \A i \in 1 .. Len(wire) : wire[i] \in Messages
  BY <1>1
<1>3. QED
  BY <1>1, <1>2 DEF Messages

\* A worker that is neither queued nor done takes a step that is not a message:
\* it changes its own record to w and its row to r.
Works(u, w, r) ==
  /\ worker[u].pc \in {"begin", "busy"}
  /\ w \in WorkerRecord /\ r \in RowRecord
  /\ worker' = [worker EXCEPT ![u] = w] /\ row' = [row EXCEPT ![u] = r]
  /\ row[u].parts <= r.parts /\ r.parts <= w.parts /\ worker[u].parts <= w.parts
  /\ w.pc \in {"busy", "send", "done"}
  /\ w.status \in {"PENDING", "IN_PROGRESS", "COMPLETED", "FAILED"}
  /\ w.status = "PENDING" => worker[u].status = "PENDING" /\ w.pc = "done"
  /\ w.pc = "busy" => w.status = "IN_PROGRESS"
  /\ w.pc = "done" => ~IsTerminal(w.status)
  /\ w.pc = "send" => /\ w.status # "FAILED" => w.parts <= r.parts
                      /\ w.status = "COMPLETED" => r.status = "COMPLETED"
  /\ UNCHANGED <<svc, sent, wire, taken, closed, handler, live, heard, entry>>

LEMMA WorksIInv ==
  ASSUME StreamIInv, NEW u \in Uploads, NEW w, NEW r, Works(u, w, r)
  PROVE  StreamIInv'
<1> USE DEF StreamIInv
<1>1. /\ worker[u] \in WorkerRecord /\ row[u] \in RowRecord
      /\ worker'[u] = w /\ row'[u] = r
      /\ \A v \in Uploads \ {u} : worker'[v] = worker[v] /\ row'[v] = row[v]
  BY DEF Works, StreamTypeOK, WorkerRecord, RowRecord
<1>2. StreamTypeOK'
  BY DEF Works, StreamTypeOK, WorkerRecord, RowRecord
<1>3. svc \notin {"creating", "leaving", "returned"}
  BY DEF CallOK, Running, Works
<1>4. CallOK'
  BY <1>3 DEF CallOK, Works
<1>5. ASSUME NEW v \in Uploads, NEW m \in Messages, Leads(v, m)
      PROVE  Leads(v, m)'
  <2>1. Recorded(v, m)'
    <3>1. CASE v # u
      BY <3>1, <1>1, <1>5 DEF Leads, Recorded
    <3>2. CASE v = u
      <4>1. sent[u] # None /\ ~IsTerminal(sent[u].status)
        BY <1>5, <3>2 DEF SentOK, Leads, Works
      <4>2. m.status # "COMPLETED"
        BY <4>1, <1>5, <3>2 DEF Leads, Follows, IsTerminal
      <4>3. m.status # "FAILED" => m.parts <= r.parts
        <5>1. m.parts \in Nat /\ row[u].parts \in Nat /\ r.parts \in Nat
          BY <1>1 DEF Messages, RowRecord, Works
        <5>2. QED
          BY <5>1, <1>5, <3>2 DEF Leads, Recorded, Works
      <4>4. QED
        BY <4>2, <4>3, <3>2, <1>1 DEF Recorded
    <3>3. QED
      BY <3>1, <3>2
  <2>2. QED
    BY <2>1, <1>5 DEF Leads, Works
<1>6. WireOK'
  <2> SUFFICES ASSUME NEW i \in 1 .. Len(wire)
               PROVE  Leads(wire[i].up, wire[i])'
    BY DEF WireOK, Works
  <2>1. wire[i] \in Messages
    BY WireMessages
  <2>2. Leads(wire[i].up, wire[i])
    BY DEF WireOK
  <2>3. QED
    BY <2>1, <2>2, <1>5 DEF Works, Messages
<1>7. ASSUME NEW v \in Uploads PROVE WorkerOK(v)'
  <2>1. CASE v # u
    BY <2>1, <1>1 DEF WorkerOK, Recorded, Message, Works
  <2>2. CASE v = u
    <3>1. w.status = "PENDING" => sent[u] = None
      BY <2>2 DEF WorkerOK, Works
    <3>2. QED
      BY <3>1, <2>2, <1>1 DEF WorkerOK, Recorded, Message, Works
  <2>3. QED
    BY <2>1, <2>2
<1>8. ASSUME NEW v \in Uploads PROVE SentOK(v)'
  <2>1. heard[v] # None => Leads(v, heard[v])'
    BY <1>5 DEF SentOK, StreamTypeOK, Told, Works
  <2>2. CASE v # u
    BY <2>1, <2>2, <1>1 DEF SentOK, Works
  <2>3. CASE v = u
    <3>1. sent[u] # None => sent[u].parts \in Nat /\ sent[u].parts <= w.parts
      BY <1>1 DEF SentOK, StreamTypeOK, Told, Messages, WorkerRecord, Works
    <3>2. sent[u] # None => ~IsTerminal(sent[u].status)
      BY DEF SentOK, Works
    <3>3. QED
      BY <2>1, <3>1, <3>2, <2>3, <1>1 DEF SentOK, Works
  <2>4. QED
    BY <2>2, <2>3
<1>9. \A v \in Uploads : (handler # "gone" => LastIsSent(v))'
  BY DEF LastIsSent, Works
<1>10. QED
  BY <1>2, <1>4, <1>6, <1>7, <1>8, <1>9

\* What is known of a worker before such a step.
LEMMA WorkerFacts ==
  ASSUME StreamIInv, NEW u \in Uploads, worker[u].pc \in {"begin", "busy"}
  PROVE  /\ worker[u] \in WorkerRecord /\ row[u] \in RowRecord
         /\ worker[u].status = IF worker[u].pc = "begin" THEN "PENDING" ELSE "IN_PROGRESS"
         /\ worker[u].parts \in Nat /\ row[u].parts \in Nat
         /\ row[u].parts <= worker[u].parts /\ worker[u].parts <= PartCount
         /\ row = [row EXCEPT ![u] = row[u]]
BY StreamAssumption
DEF StreamIInv, StreamTypeOK, WorkerOK, SentOK, WorkerRecord, RowRecord

\* The row is written and a message about it is due.
LEMMA ReportIInv ==
  ASSUME StreamIInv, NEW u \in Uploads, NEW status \in {"IN_PROGRESS", "COMPLETED"},
         NEW parts \in 0 .. PartCount, worker[u].parts <= parts,
         worker[u].pc \in {"begin", "busy"}, Report(u, status, parts),
         UNCHANGED <<svc, sent, wire, taken, closed, handler, live, client>>
  PROVE  StreamIInv'
<1> DEFINE w == [worker[u] EXCEPT !.pc = "send", !.status = status, !.parts = parts]
           r == [status |-> status, parts |-> parts]
<1>1. /\ w \in WorkerRecord /\ w.pc = "send" /\ w.status = status /\ w.parts = parts
      /\ r \in RowRecord
  BY WorkerFacts DEF WorkerRecord, RowRecord, WorkerPc, Status
<1>2. worker' = [worker EXCEPT ![u] = w]
  BY DEF Report
<1>3. row' = [row EXCEPT ![u] = r]
  BY DEF Report
<1>4. row[u].parts <= parts
  BY WorkerFacts
<1> HIDE DEF w
<1>5. Works(u, w, r)
  BY <1>1, <1>2, <1>3, <1>4 DEF Works, client
<1>6. QED
  BY <1>5, WorksIInv

\* The worker returns without a word.
LEMMA QuitIInv ==
  ASSUME StreamIInv, NEW u \in Uploads, worker[u].pc \in {"begin", "busy"}, Quit(u),
         UNCHANGED <<svc, sent, wire, taken, closed, handler, live, client>>
  PROVE  StreamIInv'
<1> DEFINE w == [worker[u] EXCEPT !.pc = "done"]
<1>1. /\ w \in WorkerRecord /\ w.status = worker[u].status
      /\ w.pc = "done" /\ w.parts = worker[u].parts
  BY WorkerFacts DEF WorkerRecord, WorkerPc
<1>2. worker' = [worker EXCEPT ![u] = w] /\ row' = [row EXCEPT ![u] = row[u]]
  BY WorkerFacts DEF Quit
<1> HIDE DEF w
<1>3. Works(u, w, row[u])
  BY <1>1, <1>2, WorkerFacts DEF Works, client, IsTerminal
<1>4. QED
  BY <1>3, WorksIInv

\* Each step of a worker that sends nothing keeps the invariant.
LEMMA BeginIInv ==
  ASSUME StreamIInv, NEW u \in Uploads, Begin(u)
  PROVE  StreamIInv'
<1>1. worker[u].parts \in 0 .. PartCount
  BY WorkerFacts, StreamAssumption DEF Begin, Working
<1>2. QED
  BY <1>1, ReportIInv, QuitIInv DEF Begin, Working

LEMMA CompleteIInv ==
  ASSUME StreamIInv, NEW u \in Uploads, Complete(u)
  PROVE  StreamIInv'
<1>1. PartCount \in 0 .. PartCount
  BY StreamAssumption
<1>2. QED
  BY <1>1, ReportIInv, QuitIInv, StreamAssumption DEF Complete, Working

LEMMA GiveUpIInv ==
  ASSUME StreamIInv, NEW u \in Uploads, GiveUp(u)
  PROVE  StreamIInv'
BY QuitIInv DEF GiveUp, Working

LEMMA StorePartIInv ==
  ASSUME StreamIInv, NEW u \in Uploads, StorePart(u)
  PROVE  StreamIInv'
<1>1. worker[u].pc = "busy" /\ worker[u].parts < PartCount
  BY DEF StorePart, Working
<1>2. worker[u].parts + 1 \in 0 .. PartCount
  BY <1>1, WorkerFacts, StreamAssumption
<1>3. CASE Report(u, "IN_PROGRESS", worker[u].parts + 1)
  <2>1. worker[u].parts <= worker[u].parts + 1
    BY <1>1, WorkerFacts
  <2>2. QED
    BY <1>1, <1>2, <1>3, <2>1, ReportIInv DEF StorePart, Working
<1>4. CASE /\ worker' = [worker EXCEPT ![u] = [@ EXCEPT !.parts = worker[u].parts + 1,
                                                     !.err = TRUE]]
           /\ UNCHANGED row
  <2> DEFINE w == [worker[u] EXCEPT !.parts = worker[u].parts + 1, !.err = TRUE]
  <2>1. /\ w \in WorkerRecord /\ w.pc = "busy" /\ w.status = "IN_PROGRESS"
        /\ w.parts = worker[u].parts + 1
    <3>1. worker[u] \in WorkerRecord /\ worker[u].status = "IN_PROGRESS"
      BY <1>1, WorkerFacts
    <3>2. QED
      BY <1>1, <1>2, <3>1 DEF WorkerRecord
  <2>2. worker' = [worker EXCEPT ![u] = w]
    BY <1>4
  <2> HIDE DEF w
  <2>3. /\ worker[u].parts \in Nat /\ row[u].parts \in Nat
        /\ row[u].parts <= worker[u].parts
        /\ row[u] \in RowRecord /\ row' = [row EXCEPT ![u] = row[u]]
    BY <1>1, <1>4, WorkerFacts
  <2>4. Works(u, w, row[u])
    BY <1>1, <2>1, <2>2, <2>3 DEF Works, client, StorePart, Working
  <2>5. QED
    BY <2>4, WorksIInv
<1>5. QED
  BY <1>3, <1>4 DEF StorePart

LEMMA FailUploadIInv ==
  ASSUME StreamIInv, NEW u \in Uploads, FailUpload(u)
  PROVE  StreamIInv'
<1>1. worker[u].pc = "busy"
  BY DEF FailUpload, Working
<1> DEFINE w == [worker[u] EXCEPT !.pc = "send", !.status = "FAILED"]
<1>2. /\ w \in WorkerRecord /\ w.pc = "send" /\ w.status = "FAILED"
      /\ w.parts = worker[u].parts
  BY <1>1, WorkerFacts DEF WorkerRecord, WorkerPc, Status
<1>3. worker' = [worker EXCEPT ![u] = w]
  BY DEF FailUpload
<1>4. PICK r \in RowRecord : /\ row' = [row EXCEPT ![u] = r]
                             /\ row[u].parts <= r.parts /\ r.parts <= worker[u].parts
  <2> DEFINE failed == [status |-> "FAILED", parts |-> worker[u].parts]
  <2>1. failed \in RowRecord /\ row[u] \in RowRecord /\ failed.parts = worker[u].parts
    BY <1>1, WorkerFacts, StreamAssumption DEF RowRecord, Status
  <2>2. row' = [row EXCEPT ![u] = failed] \/ row' = [row EXCEPT ![u] = row[u]]
    BY <1>1, WorkerFacts DEF FailUpload
  <2> HIDE DEF failed
  <2>3. QED
    BY <1>1, <2>1, <2>2, WorkerFacts
<1> HIDE DEF w
<1>5. /\ worker[u].parts \in Nat
      /\ UNCHANGED <<svc, sent, wire, taken, closed, handler, live, heard, entry>>
  BY <1>1, WorkerFacts DEF FailUpload, Working, client
<1>6. Works(u, w, r)
  BY <1>1, <1>2, <1>3, <1>4, <1>5 DEF Works
<1>7. QED
  BY <1>6, WorksIInv

\* A worker is launched.
LEMMA LaunchIInv ==
  ASSUME StreamIInv, NEW u \in Uploads, Launch(u)
  PROVE  StreamIInv'
<1> DEFINE w == [worker[u] EXCEPT !.pc = "begin"]
<1>1. worker[u] \in WorkerRecord /\ worker[u].pc = "queued" /\ svc = "working"
  BY DEF StreamIInv, StreamTypeOK, Launch, WorkerRecord
<1>2. /\ w \in WorkerRecord /\ w.pc = "begin" /\ w.status = worker[u].status
      /\ w.parts = worker[u].parts
  BY <1>1 DEF WorkerRecord, WorkerPc
<1>3. worker' = [worker EXCEPT ![u] = w]
  BY DEF Launch
<1>4. UNCHANGED <<svc, row, sent, wire, taken, closed, handler, live, heard, entry>>
  BY DEF Launch, client
<1> HIDE DEF w
<1>5. StreamTypeOK'
  BY <1>2, <1>3, <1>4 DEF StreamIInv, StreamTypeOK, WorkerRecord
<1>6. \A v \in Uploads : worker'[v] = IF v = u THEN w ELSE worker[v]
  BY <1>3 DEF StreamIInv, StreamTypeOK
<1>7. CallOK'
  BY <1>1, <1>4 DEF StreamIInv, CallOK
<1>8. WireOK'
  BY <1>4 DEF StreamIInv, WireOK, Leads, Recorded
<1>9. ASSUME NEW v \in Uploads
      PROVE  (WorkerOK(v) /\ SentOK(v) /\ (handler # "gone" => LastIsSent(v)))'
  <2>1. WorkerOK(v) /\ SentOK(v) /\ (handler # "gone" => LastIsSent(v))
    BY DEF StreamIInv
  <2>2. WorkerOK(v)'
    BY <1>1, <1>2, <1>4, <1>6, <2>1 DEF WorkerOK, Recorded, Message
  <2>3. SentOK(v)'
    BY <1>1, <1>2, <1>4, <1>6, <2>1 DEF SentOK, Leads, Recorded
  <2>4. QED
    BY <2>1, <2>2, <2>3, <1>4 DEF LastIsSent
<1>10. QED
  BY <1>5, <1>7, <1>8, <1>9 DEF StreamIInv

\* A step that changes none of the messages, rows and workers: the call's own
\* steps, the client's, and an entry that is dropped.
Moves == /\ UNCHANGED <<worker, row, sent, wire, heard>>
         /\ svc' \in SvcPc /\ closed' \in BOOLEAN /\ taken' \in BOOLEAN
         /\ handler' \in {"forwarding", "answered", "gone"}
         /\ live' \in [stream : BOOLEAN, uploads : BOOLEAN]
         /\ handler' # "gone" => handler # "gone"
         /\ CallOK'
         /\ entry' = entry \/ entry' = [u \in Uploads |-> None]

LEMMA MovesIInv == ASSUME StreamIInv, Moves PROVE StreamIInv'
<1>1. entry' \in [Uploads -> Told]
  BY DEF StreamIInv, StreamTypeOK, Told, Moves
<1>2. StreamTypeOK'
  BY <1>1 DEF StreamIInv, StreamTypeOK, Moves
<1>3. WireOK'
  BY DEF StreamIInv, WireOK, Leads, Recorded, Moves
<1>4. ASSUME NEW u \in Uploads
      PROVE  (WorkerOK(u) /\ SentOK(u) /\ (handler # "gone" => LastIsSent(u)))'
  <2>1. WorkerOK(u) /\ SentOK(u) /\ (handler # "gone" => LastIsSent(u))
    BY DEF StreamIInv
  <2>2. WorkerOK(u)' /\ (handler # "gone" => LastIsSent(u))'
    BY <2>1 DEF WorkerOK, LastIsSent, Recorded, Message, Moves
  <2>3. entry'[u] = entry[u] \/ entry'[u] = None
    BY DEF Moves
  <2>4. SentOK(u)'
    BY <2>1, <2>3 DEF SentOK, Leads, Recorded, Moves
  <2>5. QED
    BY <2>2, <2>4
<1>5. QED
  BY <1>2, <1>3, <1>4 DEF StreamIInv, Moves

LEMMA CallIInv ==
  ASSUME StreamIInv,
         \/ Create \/ CreateFails \/ WorkersEnd \/ CloseProgress \/ Receive
         \/ Answer \/ Disconnect \/ CancelUploads \/ DropEntries
  PROVE  StreamIInv'
<1>1. /\ svc \in SvcPc /\ closed \in BOOLEAN /\ taken \in BOOLEAN
      /\ handler \in {"forwarding", "answered", "gone"}
      /\ live \in [stream : BOOLEAN, uploads : BOOLEAN] /\ CallOK
  BY DEF StreamIInv, StreamTypeOK
<1>2. CASE Create
  BY <1>1, <1>2, MovesIInv DEF Create, Moves, CallOK, SvcPc, client, Running
<1>3. CASE CreateFails
  <2>1. Running = {}
    BY <1>1, <1>3 DEF CreateFails, CallOK
  <2>2. QED
    BY <1>1, <1>3, <2>1, MovesIInv DEF CreateFails, Moves, CallOK, SvcPc, client, Running
<1>4. CASE WorkersEnd
  <2>1. Running = {}
    BY <1>4 DEF WorkersEnd, Running
  <2>2. QED
    BY <1>1, <1>4, <2>1, MovesIInv DEF WorkersEnd, Moves, CallOK, SvcPc, client, Running
<1>5. CASE CloseProgress
  BY <1>1, <1>5, MovesIInv DEF CloseProgress, Moves, CallOK, SvcPc, client, Running
<1>6. CASE Receive
  BY <1>1, <1>6, MovesIInv DEF Receive, Moves, CallOK, SvcPc, client, Running
<1>7. CASE Answer
  BY <1>1, <1>7, MovesIInv DEF Answer, Moves, CallOK, SvcPc, client, Running
<1>8. CASE Disconnect
  BY <1>1, <1>8, MovesIInv DEF Disconnect, Moves, CallOK, SvcPc, client, Running
<1>9. CASE CancelUploads
  BY <1>1, <1>9, MovesIInv DEF CancelUploads, Moves, CallOK, SvcPc, client, Running
<1>10. CASE DropEntries
  BY <1>1, <1>10, MovesIInv DEF DropEntries, Moves, CallOK, SvcPc, client, Running
<1>11. QED
  BY <1>2, <1>3, <1>4, <1>5, <1>6, <1>7, <1>8, <1>9, <1>10

\* A message is sent: it follows all messages of its upload.
LEMMA SendProgressIInv ==
  ASSUME StreamIInv, NEW u \in Uploads, SendProgress(u)
  PROVE  StreamIInv'
<1> DEFINE w == [worker[u] EXCEPT !.pc = IF IsTerminal(worker[u].status)
                                         THEN "done" ELSE "busy"]
<1>1. /\ worker[u] \in WorkerRecord /\ worker[u].pc = "send"
      /\ worker[u].status \in {"IN_PROGRESS", "COMPLETED", "FAILED"}
      /\ worker[u].parts \in Nat /\ Recorded(u, Message(u))
  <2>1. worker[u] \in WorkerRecord /\ worker[u].pc = "send" /\ WorkerOK(u)
    BY DEF StreamIInv, StreamTypeOK, SendProgress, WorkerRecord
  <2>2. worker[u].parts \in Nat
    BY <2>1 DEF WorkerRecord
  <2>3. QED
    BY <2>1, <2>2 DEF WorkerOK
<1>2. PICK M \in Messages :
         /\ M = Message(u) /\ M.up = u /\ M # None
         /\ M.parts = worker[u].parts /\ M.status = worker[u].status
  <2>1. Message(u) \in Messages
    BY <1>1 DEF Message, Messages, WorkerRecord
  <2>2. QED
    BY <2>1, StreamAssumption DEF Message, Messages
<1>3. /\ w \in WorkerRecord /\ w.status = worker[u].status /\ w.parts = worker[u].parts
      /\ w.pc = IF IsTerminal(worker[u].status) THEN "done" ELSE "busy"
  BY <1>1 DEF WorkerRecord, WorkerPc
<1>4. /\ worker' = [worker EXCEPT ![u] = w] /\ sent' = [sent EXCEPT ![u] = M]
      /\ wire' = Append(wire, M)
      /\ UNCHANGED <<svc, row, taken, closed, handler, live, heard, entry>>
  BY <1>2 DEF SendProgress, client
<1> HIDE DEF w
<1>5. /\ wire \in Seq(Messages) /\ Len(wire) \in Nat
      /\ wire' \in Seq(Messages) /\ Len(wire') = Len(wire) + 1
      /\ \A i \in 1 .. Len(wire) : wire'[i] = wire[i]
      /\ wire'[Len(wire) + 1] = M
  BY <1>2, <1>4 DEF StreamIInv, StreamTypeOK
<1>6. /\ \A v \in Uploads : worker'[v] = IF v = u THEN w ELSE worker[v]
      /\ \A v \in Uploads : sent'[v] = IF v = u THEN M ELSE sent[v]
  BY <1>4 DEF StreamIInv, StreamTypeOK
<1>7. StreamTypeOK'
  BY <1>2, <1>3, <1>4, <1>5 DEF StreamIInv, StreamTypeOK, WorkerRecord, Told
<1>8. CallOK'
  <2>1. svc = "working" /\ ~closed
    BY <1>1 DEF StreamIInv, StreamTypeOK, SvcPc, CallOK, Running
  <2>2. wire' # <<>>
    BY <1>5
  <2>3. QED
    BY <2>1, <2>2, <1>4 DEF StreamIInv, CallOK
<1>9. ASSUME NEW m \in Messages, Leads(u, m)
      PROVE  Follows(m, M)
  <2>1. /\ sent[u] \in Messages /\ ~IsTerminal(sent[u].status)
        /\ sent[u].parts <= worker[u].parts
    BY <1>1, <1>9 DEF StreamIInv, StreamTypeOK, Told, SentOK, Leads
  <2>2. m.parts \in Nat /\ sent[u].parts \in Nat
    BY <2>1 DEF Messages
  <2>3. QED
    BY <1>1, <1>2, <1>9, <2>1, <2>2 DEF Leads, Follows
<1>10. ASSUME NEW v \in Uploads, NEW m \in Messages, Leads(v, m)
       PROVE  Leads(v, m)'
  BY <1>2, <1>4, <1>6, <1>9, <1>10 DEF Leads, Recorded, Follows
<1>11. WireOK'
  <2>1. ASSUME NEW i \in 1 .. Len(wire')
        PROVE  /\ Leads(wire[i].up, wire[i])'
               /\ (heard[wire[i].up] # None => Follows(heard[wire[i].up], wire[i]))'
    <3>1. CASE i \in 1 .. Len(wire)
      <4>1. /\ wire'[i] = wire[i] /\ wire[i] \in Messages /\ wire[i].up \in Uploads
            /\ Leads(wire[i].up, wire[i])
            /\ heard[wire[i].up] # None => Follows(heard[wire[i].up], wire[i])
        BY <3>1, <1>5, WireMessages DEF StreamIInv, WireOK
      <4>2. QED
        BY <4>1, <1>4, <1>10 DEF Follows
    <3>2. CASE i = Len(wire) + 1
      <4>1. wire'[i] = M /\ sent'[u] = M
        BY <3>2, <1>5, <1>6
      <4>2. Leads(u, M)'
        BY <4>1, <1>1, <1>2, <1>4 DEF Leads, Recorded
      <4>3. heard[u] # None => Follows(heard[u], M)
        BY <1>9 DEF StreamIInv, StreamTypeOK, Told, SentOK
      <4>4. QED
        BY <4>1, <4>2, <4>3, <1>2, <1>4 DEF Follows
    <3>3. QED
      BY <3>1, <3>2, <1>5
  <2>2. ASSUME NEW i \in 1 .. Len(wire'), NEW j \in 1 .. Len(wire'), i < j,
               wire'[i].up = wire'[j].up
        PROVE  Follows(wire[i], wire[j])'
    <3>1. i \in 1 .. Len(wire) /\ wire'[i] = wire[i]
      BY <2>2, <1>5
    <3>2. CASE j \in 1 .. Len(wire)
      BY <2>2, <3>1, <3>2, <1>5 DEF StreamIInv, WireOK, Follows
    <3>3. CASE j = Len(wire) + 1
      <4>1. wire'[j] = M /\ wire[i].up = u
        BY <2>2, <3>1, <3>3, <1>2, <1>5
      <4>2. wire[i] \in Messages /\ Leads(u, wire[i])
        BY <3>1, <4>1, WireMessages DEF StreamIInv, WireOK
      <4>3. QED
        BY <4>1, <4>2, <3>1, <1>9 DEF Follows
    <3>4. QED
      BY <3>2, <3>3, <1>5
  <2>3. QED
    BY <2>1, <2>2 DEF WireOK
<1>12. ASSUME NEW v \in Uploads PROVE WorkerOK(v)'
  <2>1. WorkerOK(v)
    BY DEF StreamIInv
  <2>2. CASE v # u
    BY <2>1, <2>2, <1>4, <1>6 DEF WorkerOK, Recorded, Message
  <2>3. CASE v = u
    <3>1. worker'[u] = w /\ sent'[u] = M
      BY <1>6
    <3>2. IsTerminal(worker[u].status) \/ worker[u].status = "IN_PROGRESS"
      BY <1>1 DEF IsTerminal
    <3>3. w.pc # "send" /\ (w.pc = "busy" => w.status = "IN_PROGRESS")
      BY <3>2, <1>3
    <3>4. w.pc = "done" => IsTerminal(M.status)
      BY <1>2, <1>3
    <3>5. QED
      BY <2>3, <3>1, <3>3, <3>4, <1>1, <1>2, <1>3 DEF WorkerOK
  <2>4. QED
    BY <2>2, <2>3
<1>13. ASSUME NEW v \in Uploads PROVE SentOK(v)'
  <2>1. SentOK(v) /\ heard[v] \in Told
    BY DEF StreamIInv, StreamTypeOK
  <2>2. ASSUME heard[v] # None PROVE Leads(v, heard[v])'
    <3>1. heard[v] \in Messages /\ Leads(v, heard[v])
      BY <2>1, <2>2 DEF SentOK, Told
    <3>2. PICK m \in Messages : m = heard[v]
      BY <3>1
    <3>3. Leads(v, m)'
      BY <3>1, <3>2, <1>10
    <3>4. QED
      BY <3>2, <3>3, <1>4 DEF Leads
  <2>3. QED
    BY <2>1, <2>2, <1>1, <1>2, <1>3, <1>4, <1>6 DEF SentOK
<1>14. ASSUME NEW v \in Uploads, handler' # "gone" PROVE LastIsSent(v)'
  <2>1. CASE v = u
    <3>1. wire'[Len(wire) + 1] = sent'[u]
      BY <1>5, <1>6
    <3>2. QED
      BY <2>1, <3>1, <1>5 DEF LastIsSent
  <2>2. CASE v # u
    <3>1. LastIsSent(v) /\ sent'[v] = sent[v] /\ heard' = heard
      BY <2>2, <1>4, <1>6, <1>14 DEF StreamIInv
    <3>2. \A i \in 1 .. Len(wire') : i \in 1 .. Len(wire) \/ wire'[i].up # v
      BY <2>2, <1>2, <1>5
    <3>3. CASE /\ \A i \in 1 .. Len(wire) : wire[i].up # v
               /\ heard[v] = sent[v]
      BY <3>1, <3>2, <3>3, <1>5 DEF LastIsSent
    <3>4. CASE \E i \in 1 .. Len(wire) :
                 wire[i] = sent[v] /\ \A j \in i + 1 .. Len(wire) : wire[j].up # v
      <4>1. PICK i \in 1 .. Len(wire) :
                 wire[i] = sent[v] /\ \A j \in i + 1 .. Len(wire) : wire[j].up # v
        BY <3>4
      <4>2. /\ i \in 1 .. Len(wire') /\ wire'[i] = sent'[v]
            /\ \A j \in i + 1 .. Len(wire') : wire'[j].up # v
        BY <4>1, <3>1, <3>2, <1>5
      <4>3. QED
        BY <4>2 DEF LastIsSent
    <3>5. QED
      BY <3>1, <3>3, <3>4 DEF LastIsSent
  <2>3. QED
    BY <2>1, <2>2
<1>15. QED
  BY <1>7, <1>8, <1>11, <1>12, <1>13, <1>14 DEF StreamIInv

\* The oldest message leaves the wire; "received" says whether the client hears it.
Leaves(received) ==
  /\ taken /\ handler = "forwarding"
  /\ wire' = Tail(wire) /\ taken' = FALSE
  /\ IF received
     THEN /\ heard' = [heard EXCEPT ![Head(wire).up] = Head(wire)]
          /\ entry' = [entry EXCEPT ![Head(wire).up] = Track(Head(wire))]
          /\ handler' = handler
     ELSE /\ UNCHANGED <<heard, entry>>
          /\ handler' = "gone"
  /\ UNCHANGED <<svc, worker, row, sent, closed, live>>

LEMMA LeavesIInv ==
  ASSUME StreamIInv, NEW received \in BOOLEAN, Leaves(received)
  PROVE  StreamIInv'
<1>1. /\ wire \in Seq(Messages) /\ wire # <<>> /\ Len(wire) \in Nat \ {0}
      /\ Tail(wire) \in Seq(Messages) /\ Len(Tail(wire)) = Len(wire) - 1
      /\ \A i \in 1 .. Len(wire) - 1 : Tail(wire)[i] = wire[i + 1]
      /\ Head(wire) = wire[1]
  <2>1. wire \in Seq(Messages) /\ wire # <<>>
    BY DEF StreamIInv, StreamTypeOK, CallOK, Leaves
  <2>2. QED
    BY <2>1
<1>2. PICK m \in Messages : m = Head(wire) /\ m = wire[1] /\ m.up \in Uploads
                            /\ Leads(m.up, m) /\ m # None
  <2>1. 1 \in 1 .. Len(wire)
    BY <1>1
  <2>2. Head(wire) \in Messages /\ Head(wire).up \in Uploads
    BY <1>1, <2>1, WireMessages
  <2>3. Leads(Head(wire).up, Head(wire))
    BY <1>1, <2>1 DEF StreamIInv, WireOK
  <2>4. QED
    BY <1>1, <2>2, <2>3, StreamAssumption DEF Messages
<1>3. /\ \A v \in Uploads : heard'[v] = IF received /\ v = m.up THEN m ELSE heard[v]
      /\ \A v \in Uploads : entry'[v] = IF received /\ v = m.up THEN Track(m) ELSE entry[v]
  BY <1>2 DEF Leaves, StreamIInv, StreamTypeOK
<1>4. /\ Len(wire') \in Nat /\ Len(wire') = Len(wire) - 1
      /\ \A i \in 1 .. Len(wire') : /\ i + 1 \in 1 .. Len(wire)
                                    /\ wire'[i] = wire[i + 1]
                                    /\ wire'[i] \in Messages /\ wire'[i].up \in Uploads
  BY <1>1, WireMessages DEF Leaves
<1>5. StreamTypeOK'
  <2>1. m \in Told /\ Track(m) \in Told
    BY <1>2 DEF Told, Track
  <2>2. heard \in [Uploads -> Told] /\ entry \in [Uploads -> Told]
    BY DEF StreamIInv, StreamTypeOK
  <2>3. heard' \in [Uploads -> Told] /\ entry' \in [Uploads -> Told]
    BY <1>2, <2>1, <2>2 DEF Leaves
  <2>4. QED
    BY <1>1, <2>3 DEF Leaves, StreamIInv, StreamTypeOK
<1>6. CallOK'
  BY DEF Leaves, StreamIInv, CallOK, Running
<1>7. ASSUME NEW v \in Uploads, NEW x, Leads(v, x) PROVE Leads(v, x)'
  BY <1>7 DEF Leads, Recorded, Leaves
<1>8. WireOK'
  <2>1. ASSUME NEW i \in 1 .. Len(wire')
        PROVE  /\ Leads(wire[i].up, wire[i])'
               /\ (heard[wire[i].up] # None => Follows(heard[wire[i].up], wire[i]))'
    <3>1. /\ wire'[i] = wire[i + 1] /\ i + 1 \in 1 .. Len(wire) /\ wire'[i].up \in Uploads
      BY <1>4
    <3>2. /\ Leads(wire[i + 1].up, wire[i + 1])
          /\ heard[wire[i + 1].up] # None => Follows(heard[wire[i + 1].up], wire[i + 1])
      BY <3>1 DEF StreamIInv, WireOK
    <3>3. wire[1].up = wire[i + 1].up => Follows(wire[1], wire[i + 1])
      <4>1. 1 \in 1 .. Len(wire) /\ 1 < i + 1
        BY <1>4
      <4>2. QED
        BY <3>1, <4>1 DEF StreamIInv, WireOK
    <3>4. QED
      BY <3>1, <3>2, <3>3, <1>2, <1>3, <1>7 DEF Follows
  <2>2. ASSUME NEW i \in 1 .. Len(wire'), NEW j \in 1 .. Len(wire'), i < j,
               wire'[i].up = wire'[j].up
        PROVE  Follows(wire[i], wire[j])'
    <3>1. /\ i + 1 \in 1 .. Len(wire) /\ j + 1 \in 1 .. Len(wire) /\ i + 1 < j + 1
          /\ wire'[i] = wire[i + 1] /\ wire'[j] = wire[j + 1]
      BY <2>2, <1>4
    <3>2. QED
      BY <2>2, <3>1 DEF StreamIInv, WireOK, Follows
  <2>3. QED
    BY <2>1, <2>2 DEF WireOK
<1>9. ASSUME NEW v \in Uploads PROVE WorkerOK(v)'
  BY DEF Leaves, StreamIInv, WorkerOK, Recorded, Message
<1>10. ASSUME NEW v \in Uploads PROVE SentOK(v)'
  <2>1. SentOK(v)
    BY DEF StreamIInv
  <2>2. heard'[v] # None => Leads(v, heard'[v])
    BY <2>1, <1>2, <1>3 DEF SentOK
  <2>3. (heard[v] # None => Leads(v, heard[v]))'
    BY <2>2 DEF Leads, Recorded, Leaves
  <2>4. (entry[v] # None => entry[v] = heard[v] /\ ~IsTerminal(entry[v].status))'
    <3>1. CASE received /\ v = m.up
      BY <3>1, <1>3 DEF Track
    <3>2. CASE ~(received /\ v = m.up)
      BY <3>2, <2>1, <1>3 DEF SentOK
    <3>3. QED
      BY <3>1, <3>2
  <2>5. QED
    BY <2>1, <2>3, <2>4 DEF SentOK, Leaves
<1>11. ASSUME NEW v \in Uploads, handler' # "gone" PROVE LastIsSent(v)'
  <2>1. received /\ LastIsSent(v) /\ sent' = sent
    BY <1>11 DEF Leaves, StreamIInv
  <2>2. CASE /\ \A i \in 1 .. Len(wire) : wire[i].up # v
             /\ heard[v] = sent[v]
    <3>1. m.up # v
      BY <2>2, <1>1, <1>2
    <3>2. QED
      BY <2>1, <2>2, <3>1, <1>3, <1>4 DEF LastIsSent
  <2>3. CASE \E i \in 1 .. Len(wire) :
               wire[i] = sent[v] /\ \A j \in i + 1 .. Len(wire) : wire[j].up # v
    <3>1. PICK i \in 1 .. Len(wire) :
               wire[i] = sent[v] /\ \A j \in i + 1 .. Len(wire) : wire[j].up # v
      BY <2>3
    <3>2. CASE i = 1
      <4>1. sent[v] = m /\ m.up = v
        BY <3>1, <3>2, <1>2 DEF StreamIInv, SentOK
      <4>2. heard'[v] = sent'[v]
        BY <4>1, <2>1, <1>3
      <4>3. \A j \in 1 .. Len(wire') : wire'[j].up # v
        BY <3>1, <3>2, <1>4
      <4>4. QED
        BY <4>2, <4>3 DEF LastIsSent
    <3>3. CASE i # 1
      <4>1. /\ i - 1 \in 1 .. Len(wire') /\ wire'[i - 1] = sent'[v]
            /\ \A j \in (i - 1) + 1 .. Len(wire') : wire'[j].up # v
        BY <3>1, <3>3, <2>1, <1>4
      <4>2. QED
        BY <4>1 DEF LastIsSent
    <3>4. QED
      BY <3>2, <3>3
  <2>4. QED
    BY <2>1, <2>2, <2>3 DEF LastIsSent
<1>12. QED
  BY <1>5, <1>6, <1>8, <1>9, <1>10, <1>11 DEF StreamIInv

LEMMA ForwardIInv ==
  ASSUME StreamIInv, Forward \/ SendFails
  PROVE  StreamIInv'
<1>1. CASE Forward
  <2>1. Leaves(TRUE)
    BY <1>1 DEF Forward, Leaves
  <2>2. QED
    BY <2>1, LeavesIInv
<1>2. CASE SendFails
  <2>1. Leaves(FALSE)
    BY <1>2 DEF SendFails, Leaves, client
  <2>2. QED
    BY <2>1, LeavesIInv
<1>3. QED
  BY <1>1, <1>2

-----------------------------------------------------------------------------
\* StreamIInv is an invariant of every call.
THEOREM StreamInvariant == StreamSpec => []StreamIInv
<1>1. StreamIInv /\ [StreamNext]_streamVars => StreamIInv'
  <2> SUFFICES ASSUME StreamIInv, [StreamNext]_streamVars PROVE StreamIInv'
    OBVIOUS
  <2>1. ASSUME NEW u \in Uploads, StepUpload(u) PROVE StreamIInv'
    BY <2>1, LaunchIInv, BeginIInv, StorePartIInv, CompleteIInv, FailUploadIInv,
       GiveUpIInv, SendProgressIInv DEF StepUpload
  <2>2. CASE StepCall \/ Disconnect \/ CancelUploads \/ DropEntries
    BY <2>2, CallIInv DEF StepCall
  <2>3. CASE StepHandler
    BY <2>3, CallIInv, ForwardIInv DEF StepHandler
  <2>4. CASE UNCHANGED streamVars
    BY <2>4 DEF streamVars, client, StreamIInv, StreamTypeOK, CallOK, WireOK, WorkerOK,
       SentOK, LastIsSent, Leads, Recorded, Message, Running
  <2>5. QED
    BY <2>1, <2>2, <2>3, <2>4 DEF StreamNext
<1>2. QED
  BY InitIInv, <1>1, PTL DEF StreamSpec

\* No message is ever sent on the closed channel.
THEOREM NeverSentAfterClose == StreamSpec => []NoSendAfterClose
<1>1. StreamIInv => NoSendAfterClose
  BY DEF StreamIInv, CallOK, NoSendAfterClose
<1>2. QED
  BY <1>1, StreamInvariant, PTL

\* An answered stream has told its client the last of every upload.
THEOREM AnswerToldAll == StreamSpec => []EndTellsAll
<1>1. StreamIInv => EndTellsAll
  <2> SUFFICES ASSUME StreamIInv, handler = "answered" PROVE heard = sent
    BY DEF EndTellsAll
  <2>1. wire = <<>>
    BY DEF StreamIInv, CallOK
  <2>2. \A u \in Uploads : LastIsSent(u)
    BY DEF StreamIInv
  <2>3. \A u \in Uploads : heard[u] = sent[u]
    BY <2>1, <2>2 DEF LastIsSent
  <2>4. QED
    BY <2>3 DEF StreamIInv, StreamTypeOK
<1>2. QED
  BY <1>1, StreamInvariant, PTL

\* The client is told of nothing that was not recorded, but for a failure.
THEOREM OnlyRecordedIsTold == StreamSpec => []ToldIsRecorded
<1>1. StreamIInv => ToldIsRecorded
  BY DEF StreamIInv, SentOK, Leads, ToldIsRecorded
<1>2. QED
  BY <1>1, StreamInvariant, PTL

\* What UploadBloc shows as under way is what it heard last, and nothing is left
\* of an upload whose end it was told.
THEOREM EntriesAreWhatWasTold == StreamSpec => []EntriesAreTrue
<1>1. StreamIInv => EntriesAreTrue
  <2> SUFFICES ASSUME StreamIInv, NEW u \in Uploads, entry[u] # None
               PROVE  /\ entry[u] = heard[u] /\ ~IsTerminal(entry[u].status)
                      /\ handler = "answered" =>
                           worker[u].pc = "done" /\ worker[u].status = "IN_PROGRESS"
    BY DEF EntriesAreTrue
  <2>1. SentOK(u) /\ WorkerOK(u) /\ CallOK /\ worker[u].pc \in WorkerPc
    BY DEF StreamIInv, StreamTypeOK
  <2>2. entry[u] = heard[u] /\ ~IsTerminal(entry[u].status)
    BY <2>1 DEF SentOK
  <2>3. ASSUME handler = "answered"
        PROVE  worker[u].pc = "done" /\ worker[u].status = "IN_PROGRESS"
    <3>1. sent[u] # None /\ worker[u].status # "PENDING"
      BY <2>1, <2>2 DEF SentOK, WorkerOK, Leads
    <3>2. worker[u].pc = "done"
      <4>1. Running = {}
        BY <2>1, <2>3 DEF CallOK
      <4>2. QED
        BY <4>1, <3>1, <2>1 DEF Running, WorkerOK, WorkerPc
    <3>3. sent[u] = heard[u]
      BY <2>1, <2>3 DEF StreamIInv, LastIsSent, CallOK
    <3>4. ~IsTerminal(worker[u].status)
      BY <3>2, <3>3, <2>1, <2>2 DEF WorkerOK
    <3>5. QED
      BY <3>1, <3>2, <3>4, <2>1 DEF WorkerOK, IsTerminal
  <2>4. QED
    BY <2>2, <2>3
<1>2. QED
  BY <1>1, StreamInvariant, PTL

\* What a client hears of an upload never goes back.
THEOREM HeardOnlyMovesForward == StreamSpec => HeardMovesForward
<1> DEFINE Forwards == \A u \in Uploads : heard[u] # None /\ heard'[u] # heard[u] =>
                         heard'[u] # None /\ Follows(heard[u], heard'[u])
<1>1. StreamIInv /\ [StreamNext]_streamVars => [Forwards]_streamVars
  <2> SUFFICES ASSUME StreamIInv, StreamNext, NEW u \in Uploads,
                      heard[u] # None, heard'[u] # heard[u]
               PROVE  heard'[u] # None /\ Follows(heard[u], heard'[u])
    OBVIOUS
  <2>1. Forward
    BY DEF StreamNext, StepUpload, StepCall, StepHandler, Launch, Begin, StorePart,
       Complete, FailUpload, GiveUp, Working, SendProgress, Create, CreateFails,
       WorkersEnd, CloseProgress, Receive, SendFails, Answer, Disconnect, CancelUploads,
       DropEntries, client
  <2>2. wire \in Seq(Messages) /\ wire # <<>>
    BY <2>1 DEF StreamIInv, StreamTypeOK, CallOK, Forward
  <2>3. 1 \in 1 .. Len(wire) /\ Head(wire) = wire[1]
    BY <2>2
  <2>4. wire[1] \in Messages /\ wire[1].up = u /\ heard'[u] = wire[1]
    BY <2>1, <2>3, WireMessages DEF Forward, StreamIInv, StreamTypeOK
  <2>5. Follows(heard[u], wire[1])
    BY <2>3, <2>4 DEF StreamIInv, WireOK
  <2>6. QED
    BY <2>4, <2>5, StreamAssumption DEF Messages
<1>2. QED
  BY <1>1, StreamInvariant, PTL DEF StreamSpec, HeardMovesForward

=============================================================================
