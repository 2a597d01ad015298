--------------------------- MODULE ProgressStream ---------------------------
(***************************************************************************)
(* One streaming call (UploadFile, UploadFolder or ResumeProcess) between  *)
(* the service and its client: workers put progress messages into a        *)
(* channel of bounded capacity, the gRPC handler takes them out and sends  *)
(* them, the client may go away.  What a worker does between two messages  *)
(* is a single step here; UploadService details it.  At the client,        *)
(* UploadBloc keeps an entry for each upload that is under way.            *)
(***************************************************************************)
EXTENDS UploadDomain, Sequences

CONSTANTS
  Uploads,      \* the uploads the call executes
  MaxWorkers,   \* capacity of the workers' semaphore
  Capacity,     \* capacity of progressCh: 100
  PartCount,    \* parts of each upload
  None,         \* no message
  Faults        \* whether storage, files and database may fail

ASSUME StreamAssumption == /\ MaxWorkers \in Nat \ {0} /\ Capacity \in Nat \ {0}
                           /\ PartCount \in Nat /\ Faults \in BOOLEAN
                           /\ None \notin [up : Uploads, status : Status,
                                           parts : 0 .. PartCount]

VARIABLES
  svc,      \* the service's call, its first step the insertion of its rows
  worker,   \* per upload: where its worker is, status and parts in memory, and
            \* whether uploadParts has a firstErr
  row,      \* per upload: status and parts that its worker wrote last
  wire,     \* the messages sent and not delivered, oldest first
  taken,    \* whether the handler has received the oldest from progressCh
  closed,   \* whether progressCh is closed
  handler,  \* "forwarding", "answered" (status sent), "gone" (Send failed)
  live,     \* the client's stream and the context of the uploads
  sent,     \* per upload: the last message its worker sent (a history variable)
  heard,    \* per upload: the last message its client has received
  entry     \* per upload: its entry in UploadBloc's _progressMap

client     == <<heard, entry>>
streamVars == <<svc, worker, row, sent, wire, taken, closed, handler, live, client>>

SvcPc    == {"creating", "working", "leaving", "returned"}
WorkerPc == {"queued", "begin", "busy", "send", "done"}
Message(u) == [up |-> u, status |-> worker[u].status, parts |-> worker[u].parts]
Messages   == [up : Uploads, status : Status, parts : 0 .. PartCount]

\* An upload that is resumed has parts already.  The status PENDING stands for
\* the PAUSED of a resumed upload too.
StreamInit ==
  /\ svc = "creating"
  /\ row \in [Uploads -> [status : {"PENDING"}, parts : 0 .. PartCount]]
  /\ worker = [u \in Uploads |-> [pc |-> "queued", status |-> "PENDING",
                                 parts |-> row[u].parts, err |-> FALSE]]
  /\ wire = <<>> /\ taken = FALSE /\ closed = FALSE
  /\ handler = "forwarding"
  /\ live = [stream |-> TRUE, uploads |-> TRUE]
  /\ sent = [u \in Uploads |-> None]
  /\ heard = [u \in Uploads |-> None] /\ entry = [u \in Uploads |-> None]

\* What the channel holds; the handler has one message more in its hand.
InChannel == IF taken THEN Len(wire) - 1 ELSE Len(wire)

\* A statement through a live context succeeds, unless the database fails.
DbOutcomes == IF ~live.uploads THEN {FALSE} ELSE IF Faults THEN BOOLEAN ELSE {TRUE}
MayFail    == Faults \/ ~live.uploads

-----------------------------------------------------------------------------
(* The service.                                                            *)

Create == /\ svc = "creating" /\ live.uploads
          /\ svc' = "working"
          /\ UNCHANGED <<worker, row, sent, wire, taken, closed, handler, live, client>>

CreateFails == /\ svc = "creating" /\ MayFail
               /\ svc' = "leaving"
               /\ UNCHANGED <<worker, row, sent, wire, taken, closed, handler, live, client>>

\* The launching loop takes a slot of the semaphore for the worker.
Running == {u \in Uploads : worker[u].pc \in {"begin", "busy", "send"}}
Launch(u) == /\ svc = "working" /\ worker[u].pc = "queued"
             /\ Cardinality(Running) < MaxWorkers
             /\ worker' = [worker EXCEPT ![u].pc = "begin"]
             /\ UNCHANGED <<svc, row, sent, wire, taken, closed, handler, live, client>>

Working(u, pc) == /\ worker[u].pc = pc
                  /\ UNCHANGED <<svc, sent, wire, taken, closed, handler, live, client>>

\* The row is written, and on success a message about it is due.
Report(u, status, parts) ==
  /\ row' = [row EXCEPT ![u] = [status |-> status, parts |-> parts]]
  /\ worker' = [worker EXCEPT ![u] = [@ EXCEPT !.pc = "send", !.status = status,
                                              !.parts = parts]]

\* The worker returns with nothing to tell: a statement was refused, as is the
\* one that would record PAUSED through the cancelled context.
Quit(u) == /\ worker' = [worker EXCEPT ![u].pc = "done"]
           /\ UNCHANGED row

Begin(u) == /\ Working(u, "begin")
            /\ \E ok \in DbOutcomes :
                 IF ok THEN Report(u, "IN_PROGRESS", worker[u].parts) ELSE Quit(u)

\* Mistake: the part is told of although its row could not be written.
StorePartUnchecked(u) ==
  /\ Working(u, "busy") /\ worker[u].parts < PartCount
  /\ worker' = [worker EXCEPT ![u].pc = "send", ![u].parts = @ + 1]
  /\ \E ok \in DbOutcomes :
       row' = IF ok THEN [row EXCEPT ![u].parts = worker[u].parts + 1] ELSE row

\* A part whose row could not be written stays in memory; later ones, collected
\* all the same, write it with theirs.
StorePart(u) ==
  /\ Working(u, "busy") /\ worker[u].parts < PartCount
  /\ \E ok \in DbOutcomes :
       IF ok THEN Report(u, "IN_PROGRESS", worker[u].parts + 1)
       ELSE /\ worker' = [worker EXCEPT ![u] = [@ EXCEPT !.parts = worker[u].parts + 1,
                                                       !.err = TRUE]]
            /\ UNCHANGED row

Complete(u) == /\ Working(u, "busy") /\ worker[u].parts = PartCount /\ ~worker[u].err
               /\ \E ok \in DbOutcomes :
                    IF ok THEN Report(u, "COMPLETED", PartCount) ELSE Quit(u)

\* failUpload: the message follows also when the row could not be written, and
\* then it counts parts that no row has.
FailUpload(u) ==
  /\ Working(u, "busy") /\ MayFail /\ (worker[u].err => live.uploads)
  /\ \E ok \in DbOutcomes :
       row' = IF ok THEN [row EXCEPT ![u] = [status |-> "FAILED",
                                             parts |-> worker[u].parts]] ELSE row
  /\ worker' = [worker EXCEPT ![u] = [@ EXCEPT !.pc = "send", !.status = "FAILED"]]

GiveUp(u) == /\ Working(u, "busy") /\ MayFail /\ (worker[u].err => ~live.uploads)
             /\ Quit(u)

\* Mistake: a goroutine of its own sends the message, and may be overtaken.
SendAside(u) ==
  /\ worker[u].pc = "send" /\ InChannel < Capacity
  /\ \E i \in (IF taken THEN 1 ELSE 0) .. Len(wire) :
       wire' = SubSeq(wire, 1, i) \o <<Message(u)>> \o SubSeq(wire, i + 1, Len(wire))
  /\ sent' = [sent EXCEPT ![u] = Message(u)]
  /\ worker' = [worker EXCEPT ![u].pc = IF IsTerminal(worker[u].status)
                                        THEN "done" ELSE "busy"]
  /\ UNCHANGED <<svc, row, taken, closed, handler, live, client>>

\* sendProgress waits for room, also when nobody will ever make any.
SendProgress(u) ==
  /\ worker[u].pc = "send" /\ InChannel < Capacity
  /\ wire' = Append(wire, Message(u))
  /\ sent' = [sent EXCEPT ![u] = Message(u)]
  /\ worker' = [worker EXCEPT ![u].pc = IF IsTerminal(worker[u].status)
                                        THEN "done" ELSE "busy"]
  /\ UNCHANGED <<svc, row, taken, closed, handler, live, client>>

\* Mistake: the call does not wait for the workers when its context is cancelled.
WorkersAbandoned ==
  /\ svc = "working" /\ \A u \in Uploads : worker[u].pc = "done" \/ ~live.uploads
  /\ svc' = "leaving"
  /\ UNCHANGED <<worker, row, sent, wire, taken, closed, handler, live, client>>

\* wg.Wait(), and the process's status is derived and written.
WorkersEnd == /\ svc = "working" /\ \A u \in Uploads : worker[u].pc = "done"
              /\ svc' = "leaving"
              /\ UNCHANGED <<worker, row, sent, wire, taken, closed, handler, live, client>>

\* Mistake: the close is not deferred, and an early return skips it.
CloseAfterWork == /\ svc = "leaving"
                  /\ svc' = "returned"
                  /\ closed' = (\A u \in Uploads : worker[u].pc = "done")
                  /\ UNCHANGED <<worker, row, sent, wire, taken, handler, live, client>>

\* The deferred close comes last; then the result goes to errCh, which has room.
CloseProgress == /\ svc = "leaving"
                 /\ svc' = "returned" /\ closed' = TRUE
                 /\ UNCHANGED <<worker, row, sent, wire, taken, handler, live, client>>

-----------------------------------------------------------------------------
(* The handler and its client.                                             *)

Receive == /\ handler = "forwarding" /\ ~taken /\ wire # <<>>
           /\ taken' = TRUE
           /\ UNCHANGED <<svc, worker, row, sent, wire, closed, handler, live, client>>

\* Mistake: a terminal status leaves the entry of the upload.
TrackAll(m) == m

\* _onProgressUpdate: an upload that is over loses its entry.
Track(m) == IF IsTerminal(m.status) THEN None ELSE m

\* stream.Send succeeds, and the client receives the message.
Forward == /\ handler = "forwarding" /\ taken /\ live.stream
           /\ heard' = [heard EXCEPT ![Head(wire).up] = Head(wire)]
           /\ entry' = [entry EXCEPT ![Head(wire).up] = Track(Head(wire))]
           /\ wire' = Tail(wire) /\ taken' = FALSE
           /\ UNCHANGED <<svc, worker, row, sent, closed, handler, live>>

\* stream.Send fails: the handler returns and receives no more.
SendFails == /\ handler = "forwarding" /\ taken /\ ~live.stream
             /\ handler' = "gone" /\ wire' = Tail(wire) /\ taken' = FALSE
             /\ UNCHANGED <<svc, worker, row, sent, closed, live, client>>

\* Mistake: the handler answers when the call has ended, not when it has sent all.
AnswerEarly == /\ handler = "forwarding" /\ ~taken /\ closed
               /\ handler' = "answered"
               /\ UNCHANGED <<svc, worker, row, sent, wire, taken, closed, live, client>>

\* The channel is closed and empty: the call's result is the stream's status.
Answer == /\ handler = "forwarding" /\ wire = <<>> /\ closed
          /\ handler' = "answered"
          /\ UNCHANGED <<svc, worker, row, sent, wire, taken, closed, live, client>>

\* The client goes away: gRPC cancels the stream's context, and the uploads'.
Disconnect == /\ live.stream /\ handler = "forwarding"
              /\ live' = [stream |-> FALSE, uploads |-> FALSE]
              /\ UNCHANGED <<svc, worker, row, sent, wire, taken, closed, handler, client>>

\* CancelProcess has answered UploadBloc, which drops the entries of the process.
DropEntries == /\ svc # "creating" /\ entry # [u \in Uploads |-> None]
               /\ entry' = [u \in Uploads |-> None]
               /\ UNCHANGED <<svc, worker, row, sent, wire, taken, closed, handler, live, heard>>

\* PauseProcess and CancelProcess call the registered cancel function.
CancelUploads == /\ svc = "working" /\ live.uploads
                 /\ live' = [live EXCEPT !.uploads = FALSE]
                 /\ UNCHANGED <<svc, worker, row, sent, wire, taken, closed, handler, client>>

-----------------------------------------------------------------------------
StepUpload(u) == \/ Launch(u) \/ Begin(u) \/ StorePart(u) \/ Complete(u)
                 \/ FailUpload(u) \/ GiveUp(u) \/ SendProgress(u)
StepCall      == Create \/ CreateFails \/ WorkersEnd \/ CloseProgress
StepHandler   == Receive \/ Forward \/ SendFails \/ Answer

StreamNext == \/ \E u \in Uploads : StepUpload(u)
              \/ StepCall \/ StepHandler
              \/ Disconnect \/ CancelUploads \/ DropEntries

StreamSpec == StreamInit /\ [][StreamNext]_streamVars

\* Goroutines that can run do, storage and database answer, and a client that
\* stays reads its stream.  Nobody has to disconnect, pause or cancel.
StreamFairness == /\ \A u \in Uploads : WF_streamVars(StepUpload(u))
                  /\ WF_streamVars(StepCall)
                  /\ WF_streamVars(StepHandler)

FairStreamSpec == StreamSpec /\ StreamFairness

-----------------------------------------------------------------------------
Told == Messages \cup {None}

StreamTypeOK ==
  /\ svc \in SvcPc /\ handler \in {"forwarding", "answered", "gone"}
  /\ worker \in [Uploads -> [pc : WorkerPc, status : Status, parts : 0 .. PartCount,
                             err : BOOLEAN]]
  /\ row \in [Uploads -> [status : Status, parts : 0 .. PartCount]]
  /\ wire \in Seq(Messages) /\ taken \in BOOLEAN /\ closed \in BOOLEAN
  /\ live \in [stream : BOOLEAN, uploads : BOOLEAN]
  /\ sent \in [Uploads -> Told] /\ heard \in [Uploads -> Told]
  /\ entry \in [Uploads -> Told]

\* No worker sends on the closed channel, which would panic and take the server
\* down: the deferred close comes after every worker has ended, also when the
\* call is cancelled or its client is gone.
NoSendAfterClose == closed => Running = {}

\* A stream is answered after its client has heard the last message of every
\* upload: closing the channel loses none of those that are still in it.
EndTellsAll == handler = "answered" => heard = sent

\* The client is told of no part, and of no completion, that was not recorded
\* before (sendProgress follows the row's update).  Only a failure may be told
\* with parts that no row has, when failUpload could not write it either.
Recorded(u, m) == /\ m.status # "FAILED" => m.parts <= row[u].parts
                  /\ m.status = "COMPLETED" => row[u].status = "COMPLETED"
ToldIsRecorded == \A u \in Uploads : heard[u] # None => Recorded(u, heard[u])

\* UploadBloc shows as under way only what it was last told of an upload, and
\* nothing that it was told is over; after the stream's end an entry is left only
\* for an upload whose worker stopped without a last word.
EntriesAreTrue ==
  \A u \in Uploads : entry[u] # None =>
    /\ entry[u] = heard[u] /\ ~IsTerminal(entry[u].status)
    /\ handler = "answered" => worker[u].pc = "done" /\ worker[u].status = "IN_PROGRESS"

\* What a client hears of an upload never goes back: parts only grow, and nothing
\* follows a terminal status (one sender per upload, one channel in order).
Follows(old, new) == ~IsTerminal(old.status) /\ old.parts <= new.parts
HeardMovesForward ==
  [][\A u \in Uploads : heard[u] # None /\ heard'[u] # heard[u] =>
       heard'[u] # None /\ Follows(heard[u], heard'[u])]_streamVars

\* A call whose handler receives from the channel returns, and its stream is
\* answered.  One whose handler has returned on a failed Send may be stuck for
\* ever, but only on a full channel.
Ended    == svc = "returned" /\ handler # "forwarding"
Stuck    == handler = "gone" /\ InChannel = Capacity
CallEnds == ~Ended ~> (Ended \/ Stuck)

\* The inductive invariant: every message leads to the last one sent, in the
\* order of the channel; that one is the last of the upload on the wire, or was
\* heard, as long as the handler drops none.
Leads(u, m) == /\ sent[u] # None /\ (m = sent[u] \/ Follows(m, sent[u]))
               /\ m.up = u /\ Recorded(u, m)

WireOK == \A i \in 1 .. Len(wire) :
            /\ Leads(wire[i].up, wire[i])
            /\ heard[wire[i].up] # None => Follows(heard[wire[i].up], wire[i])
            /\ \A j \in 1 .. Len(wire) :
                 i < j /\ wire[i].up = wire[j].up => Follows(wire[i], wire[j])

LastIsSent(u) == \/ /\ \A i \in 1 .. Len(wire) : wire[i].up # u
                    /\ heard[u] = sent[u]
                 \/ \E i \in 1 .. Len(wire) :
                      wire[i] = sent[u] /\ \A j \in i + 1 .. Len(wire) : wire[j].up # u

WorkerOK(u) ==
  LET w == worker[u] IN
  /\ w.status \in {"PENDING", "IN_PROGRESS", "COMPLETED", "FAILED"}
  /\ w.status = "PENDING" => sent[u] = None /\ w.pc \in {"queued", "begin", "done"}
  /\ w.pc \in {"queued", "begin"} => w.status = "PENDING"
  /\ w.pc = "busy" => w.status = "IN_PROGRESS"
  /\ w.pc = "send" => Recorded(u, Message(u))
  /\ w.pc = "done" /\ IsTerminal(w.status) => sent[u] # None /\ IsTerminal(sent[u].status)

SentOK(u) ==
  /\ sent[u] # None => /\ sent[u].up = u /\ sent[u].parts <= worker[u].parts
                       /\ IsTerminal(sent[u].status) => worker[u].pc = "done"
  /\ heard[u] # None => Leads(u, heard[u])
  /\ row[u].parts <= worker[u].parts
  /\ entry[u] # None => entry[u] = heard[u] /\ ~IsTerminal(entry[u].status)

CallOK == /\ taken => wire # <<>> /\ handler = "forwarding"
          /\ closed <=> svc = "returned"
          /\ svc \in {"creating", "leaving", "returned"} => Running = {}
          /\ handler = "answered" => closed /\ wire = <<>>

StreamIInv ==
  /\ StreamTypeOK /\ CallOK /\ WireOK
  /\ \A u \in Uploads : WorkerOK(u) /\ SentOK(u) /\ (handler # "gone" => LastIsSent(u))

=============================================================================
