# FileGuardian in TLA+

FileGuardian backs files up to an object storage: a Go server (`cmd`, `internal`) with a
gRPC interface, a SQLite database and an S3 adapter, and a Flutter desktop client
(`guardian_ui`). These modules model what is hard to get right in it: the upload service
and everything its correctness rests on, the stream of progress to the client, the paged
list of processes, and the server's start, stop and settings. TLC checks them on small
instances; TLAPS proves their main invariants for every instance. Paths below are relative to the
repository; `PROJECT.json` maps every definition to the lines it models.

## The system

| Part | State | Operations | Modelled by |
|---|---|---|---|
| `app/service/upload_service.go` (processes) | `cancelFuncs` under `mu`; per call: a copy of the process and of its uploads, a context | UploadFile, UploadFolder, PauseProcess, ResumeProcess, CancelProcess, executeUpload, failUpload | `UploadService` |
| the same, `uploadParts` | goroutines, semaphore, result channel, `partCtx`, the upload in memory | start, acquire, upload, collect, give up | `PartUploader` |
| `domain` (status, process, upload) | none of its own | transitions, derived status, pending parts | `UploadDomain` |
| `storage/s3` | multipart uploads at the provider | Init, UploadPart, Complete, Abort, Head | `MultipartStore` |
| `repository/sqlite` | tables `processes`, `uploads` | Create, Update, GetByID, ListByProcessID; paged List | rows in `UploadService`; List in `ProcessPages` |
| gRPC upload handlers, `UploadBloc` | progress channel of 100 messages per stream; a map of entries at the client | send, forward, close, answer; track, drop | `ProgressStream` |
| `ProcessListBloc` | the list shown, with the cursor of its next page | load, refresh, next page | `ProcessPages` |
| provider configuration (`config_service`, resolver, factory, keyring) | table `provider_configs`, keychain, active provider | update, list, resolve | `ProviderSettings` |
| `filelock`, `migrations`, `main`, `grpc/server`, `tray` | PID file, schema version, port | acquire, release, migrate, listen, stop | `InstanceStart`, `Server` |
| process detail page, settings page | the last answer | load, save | as clients only |
| interceptors, tray icon, notifications, dashboard figures, generated code | none | wrappers and output | not modelled |

How the parts interact: a handler starts one goroutine per streaming call; the call runs
inside the service until its workers end. An upload call creates the process and its
uploads, registers the cancel function of a context derived from the stream's, and runs
at most `maxWorkers` workers, each of which runs at most `partsParallel` requests. Pause
and cancel are other calls: they call the registered function, then read the uploads and
write them, then write the process, while workers wind down and write theirs. Nothing but
`cancelFuncs` is locked: tables are shared by whole-record updates of copies read earlier.

What is hard: the order of the writes of workers and of controls; contexts that are
cancelled under a request or a statement; the storage and the database failing between
each other; a client that goes away; a server that dies and recovers nothing. The list
is under `hazards` in `PROJECT.json`, each with its line and the properties that would
show it. What makes the components correct:

- parts: nil means every part is stored and recorded; no more requests than slots; the
  call always returns and leaves nothing running; bytes counted are exact.
- processes: a row never claims a part or an object the storage has not got; statuses
  move along `validTransitions`; a paused process has stopped; a completed or cancelled
  one is so in all its uploads; every call returns.
- domain rules: used by the two above, and wrong ones break their properties.
- progress: the client hears of nothing that is not recorded, in order, and the last word
  on every upload before the stream is answered; nobody sends on a closed channel; the
  call ends.
- pages: no process is skipped or shown twice, whatever is inserted and however requests
  of the list overlap; loading ends.
- start and stop: every migration is applied once; one instance is at work at a time if
  none took the lock together with another; the next instance comes to serve whatever the
  last one has left.
- settings: of every field a reader sees what its last save sent, unless another save of
  that field or a failure came between, whatever happens to the other fields.

## The modules

- `UploadDomain`: statuses, `validTransitions`, predicates, `DeriveProcessStatus`,
  `PendingPartNumbers`. Operators only, none recursive: the Go code folds a list into
  flags, each of which depends on the set of statuses alone.
- `PartBatch`: what `uploadParts` promises, without goroutines.
- `PartUploader`: `uploadParts`. `g` is where each part's goroutine is (select, upload,
  sent, done), `sem` the holders of slots, `resultCh`/`closed` the channel, `ctxLive` and
  `partLive` the two contexts, `local`/`bytes`/`status` the upload in the collector's
  hands, `saved`/`rowStatus` its row, `stored` the parts at the provider. One action per
  channel operation, request or statement. `MCPartUploader` is its instance for TLC,
  `PartUploaderProofs` its proofs, `PartProgressProofs` those about the bytes counted.
- `MultipartStore`: multipart uploads at the provider. A worker creates at most one, so
  run and file name it. Taken from S3, outside the repository: an ended multipart upload
  accepts no call, and none is completed without parts or from parts it does not hold.
- `UploadLifecycle`: what the rows of uploads promise a reader.
- `UploadService`: one process. A *run* is a call of UploadFile, UploadFolder or
  ResumeProcess (`run`: where it is, whether its stream and its `uploadCtx` live); a
  *control* is a call of PauseProcess or CancelProcess (`ctl`: where it is and the list
  `snap` it has read); `work[r][f]` is the worker of file `f` in run `r` with its copy of
  the upload; `proc` and `row` are the tables; `cancelFn` is the entry of `cancelFuncs`.
  The parts of a file are stored, fail and are collected as in `PartUploader`, without
  slots. `UploadServiceProperties` holds what is asked of it, `MCUploadService` the
  instances, `UploadServiceProofs` the proofs for every client,
  `UploadServiceCarefulProofs` those for a careful one.
- `ProgressStream`: one streaming call. `svc` is the service's side of it, `worker` each
  upload's worker with its status and parts in memory, `row` what it wrote last, `wire`
  the messages in the channel (the oldest in the handler's hand when `taken`), `closed`
  the channel's end, `handler` the gRPC handler, `live` the stream's and the uploads'
  contexts, `entry` UploadBloc's map. `sent` and `heard` are history: the last message of
  each upload that was sent and that arrived. `MCProgressStream` is its instance,
  `ProgressStreamProofs` its proofs.
- `ProcessPages`: `table` is the table of processes, `list` the state of ProcessListBloc,
  `call` its requests, each with the state that its handler captured before the await.
  `from` is history: the table when the first page of a list was read. `MCProcessPages` is
  its instance, `ProcessPagesProofs` its proofs.
- `InstanceStart`: processes of the server that take the lock, migrate, listen, stop and
  die. `lock` is the PID file, `opened` who has it open for writing, `seen` what each
  instance has read of it, `schema` the recorded migrations, `version` how far each
  instance is, `port` who listens; `log` and `overlapped` are history.
- `ProviderSettings`: `store` is the table and the keychain, `active` the active provider,
  `save` and `read` the calls, each with the fields it has still to store or read; `agreed`
  is history: per field, what its last save sent if nothing interfered with that save.
- `Server`: the composition of these two, with what is asked of them: a call is answered
  by the instance that listens, GracefulStop waits for it, a death drops it. `MCServer` is
  its instance, `ServerProofs` its proofs.

Definitions whose comment starts with "Mistake:" are not part of any specification: each
is a definition that follows it with a plausible bug, and shows that a property notices.

Abstractions, and why they are sound for what is asked:

- A step is one statement of the database, one request to the storage or one critical
  section of `mu`. The database has one connection (`SetMaxOpenConns(1)`), so statements
  are atomic; what a call computes in between touches nothing shared.
- `database/sql` refuses a statement whose context is cancelled, also one that waits for
  the connection. One that is at the driver when the cancellation comes may be committed
  and reported as failed all the same. It holds the connection, so no other statement sees
  the tables before it: the model has it succeed just before the cancellation, and the
  caller fail at its next access instead. Not modelled is the caller that takes a
  committed write for a failed one and does nothing more (UploadFile, whose process then
  stays IN_PROGRESS with a COMPLETED upload).
- A request to the storage that fails may have taken effect (InitFails, PartFails,
  CompleteFails), and a cancelled context may lose any answer. A head request may find
  another size, since another process may have replaced the object of the same key.
- Processes share no row and no entry of `cancelFuncs`, so one process is enough. Process
  records are written by status alone: no other field of them changes.
- Progress messages, names, checksums, timestamps and error texts are left out of
  `UploadService`, which means that its streams are drained: what happens when a handler
  has returned on a failed Send is in `ProgressStream`.
- In `UploadService` a file has at least one part, and all files have the same ones. Its
  runs have one part; several parts of a file are in `parts`, and in the theorems.
- In `ProgressStream` a worker's storage requests between two messages are one step, parts
  are counted, and PENDING stands for the PAUSED of a resumed upload. A message counts as heard when
  stream.Send accepts it: a stream that breaks may lose the last of those from gRPC's
  buffers, and the client then hears nothing after them, its status included. There is
  one call and one process, so a cancel drops every entry.
- In `ProcessPages` a process is its place in the order of (created_at, id), which the
  cursor carries without loss (both are UTC, and written in one format). The creation time
  is taken before the insertion, so that a process may be inserted below others. A
  page is a set; that it belongs below the list it is appended to is checked as
  PagesContinue. Statuses and the other columns are left out.
- In `InstanceStart` an instance is one process of the operating system and a restart is
  another. NoPid is a file without a PID, or with that of a process long gone. A PID of an
  instance that has died may have been given to another program, which is a refusal
  (`PidReuse`). Removing or creating the file, and writing the PID into it,
  are a step each; a file removed while another has it open is written where nobody sees
  it. A migration that cannot be recorded because another instance was faster, a busy
  database and a failed Listen end the instance (Die).
- In `ProviderSettings` there is one provider, as in the registry. A client sends any
  of its fields, also none, in any order, and may ask for activation or not: the settings
  page sends all of them, the server accepts fewer. A field sent twice in one request
  counts as sent once, with its last value. An unknown field ends a save where it stands,
  as a failure does. The mask that stands for a stored secret is a text like any other. A
  list and a resolution read the same things in the same order and are one kind of call.

## The runs

| Run | Instance | Checked |
|---|---|---|
| `parts` | 7 bytes in parts of 2 (four parts, a short last one), 2 slots, faults, resumed from any subset, cancelled anywhere | TypeOK, IInv, BoundedRequests, NilMeansAllSaved, SavedPartsAreStored, ProgressIsExact, NothingLeftBehind, Returns, ImplementsBatch |
| `service_careful` | folder of 2 files, 1 worker at a time, an upload and a resume, 2 controls, careful client, no faults, fair runs | PausedMeansStopped, CompletedProcessIsComplete, CancelledProcessIsOver, ImplementsLifecycle, RunsReturn |
| `service_faults` | the same with 2 workers at a time, 1 control, faults, disconnections, a crash | CarefulIInv, CompletedIsAssembled, PausedMeansStopped, CompletedProcessIsComplete, CancelledProcessIsOver, ImplementsLifecycle |
| `service_controls` | UploadFile of one part, 1 resume, 2 controls, any overlap | IInv, RegisteredRunIsActive, RecordedPartsAreStored, CompletedIsAssembled |
| `stream` | 2 uploads of 2 parts with a worker each, a channel of 2 messages, faults | StreamIInv, NoSendAfterClose, EndTellsAll, ToldIsRecorded, EntriesAreTrue, HeardMovesForward, CallEnds |
| `pages` | 5 places, pages of 2, 2 requests at a time | PagesIInv, NoGap, PagesContinue, LoadingEnds |
| `server` | 2 instances, 1 migration, a secret field and two texts for it, 2 saves with or without the field and a read at a time | ServerIInv, OneAnswers, ReadIsLastSave |
| `server_start` | 3 instances, 3 migrations, no calls, no PID given out twice, fair starts | AppliedOnce, NextServes |

Why the bounds are enough for the cases in question: with four parts and two slots, parts
wait, run, have been sent and are collected at the same time as others are pending, and a
short last part is among them; two files are the fewest for a process whose uploads
differ, one slot the fewest that makes a worker wait and two the fewest that let both
upload; a resume overlaps the upload before it, and two controls (`service_controls`)
overlap each other, or in `service_careful` follow each other, as a cancel follows a pause.
RunsReturn is about a launching loop that is blocked: in `service_careful` the loop of a
folder waits with its second file behind the only slot, whose worker goes on or is stopped
by a control. Files and controls are interchangeable and are reduced by symmetry, except
in the run with a liveness property. `MaxCrashes` is the only counter, and its bound is
the crashes of the run. Two resumes that overlap, and careless controls that meet faults,
a crash or several parts, are left to the proofs: the invariants of `UploadService` assume
none of the bounds. That a run returns is shown of a careful client's runs only; in the
model a dropped stream stops a run as a pause does, by its context.

`stream`: two workers are the fewest whose messages mix, and each sends up to four,
twice what the channel holds, so that workers wait for room and messages are left in it
when it is closed. `pages`: five places and pages of two make three pages, the last one
short or full, with insertions above, between and below; two requests are the fewest
that overlap. `server`: two instances are the fewest that race for the lock or follow
one another; two saves and a read of a field overlap in every order, and a save leaves
the field out as well. One field is enough for ReadIsLastSave, which speaks of each by
itself, and no field is stored or read with regard to another; it is a secret one, whose
reads may fail by themselves. Plain fields, and requests that name different ones, are
left to the proof. `server_start`: three instances, so that two race for what a third
has left, and three migrations, one that an instance finds applied, one that it applies
and one that it never reaches.

The service runs, `stream` and those of `Server` do not check deadlock: clients may stop
asking, a call ends, a handler may be stuck (CallEnds says when) and every instance may
have died; `parts` and `pages` do check it.

A *careful client* (`Careful`) does one thing at a time: no other request while a pause
or a cancel runs, no resume while an earlier call still streams, and no pause or cancel
before the call it is about has sent its first progress message. Nothing enforces it,
and it asks for more than the UI gives even when its buttons are used one after the
other: a resume does not wait for the end of the earlier stream
(`upload_bloc.dart:130`), and a client that has lost its stream does not learn when its
run ends. The properties about the process's status need it, and their theorems have
`Careful` as a hypothesis: for careless clients they are false, since calls overwrite
each other (the hazards at lines 276, 279 and 602 of `upload_service.go`, and
`terminal_stays` below, which happens to careful ones too). What rows claim of the
storage is checked and proved without it.

Fairness. `PartUploader`: the Go scheduler runs every goroutine that can run and the
storage answers every request, so each part's goroutine, the closer and the collector are
weakly fair; none of their steps disables another's for ever, so weak fairness is enough.
Cancelling is nobody's duty. `UploadService`: weak fairness of each run as a whole (some
goroutine of it that can step does); controls may stop at any statement, as a caller's
context may end, and owe nothing. `ProgressStream`: each worker, the call and the handler
are weakly fair, as goroutines that can run do, the storage answers, and a client that
stays reads; going away is nobody's duty. `ProcessPages`: each request is answered or
fails, and its handler then goes on; nobody has to ask. `Server`: an instance that has
been started goes on by itself through the lock, the migrations and the listener, for each
is a system call or a statement that returns; nobody has to start, stop or kill one.

### What the code does not keep

These runs state what the documentation or the code's own comments say, and TLC refutes
it. Each is a finding in `PROJECT.json`.

- `parts_pause` / CurrentPartIsSaved: a pause abandons the requests in flight and the
  write that would record them (ADR-004, proto comment of PauseProcess).
- `cancel_orphan` / CancelAbortsAll: a multipart upload created and not yet saved when
  CancelProcess lists the rows stays open at the storage (proto comment of CancelProcess).
- `pause_resume` / PauseResumeNeverFails: a pause between the completion at the storage
  and the COMPLETED row makes the resume complete twice, and fail (ADR-004).
- `terminal_stays` / TerminalProcessStays: a pause or a cancel checked before a run wrote
  COMPLETED writes over it (validTransitions, TestStatus_IsTerminal).

More things the properties leave out on purpose, since the code does not promise them,
though a reader might expect it:

- A pause that is accepted between a resume's write of IN_PROGRESS and its registerCancel
  stops nothing, and the process is shown as PAUSED while it uploads; the
  unregisterCancel of a call that ends late deletes the entry of the resume after it,
  which no pause reaches any more. A careful client does neither.
- UploadFile returns before it derives the status of its process when its upload fails,
  so the process stays IN_PROGRESS (`upload_service.go:106`; UploadFolder and
  ResumeProcess go on and derive it).
- CallEnds allows one way not to end: a handler that has returned on a failed Send leaves
  a worker waiting on a full channel, its run and its entry of `cancelFuncs` with it.
- OneAnswers excludes instances that took the lock at the same time (`overlapped`): the
  file is read, removed and written in separate steps, so that two may hold it. NextServes
  is checked with `PidReuse` FALSE: a PID that another program has got keeps every later
  instance out until somebody removes the file.
- ReadIsLastSave speaks of one field at a time and excludes those that a save stores while
  they are read, so that a list or a storage may mix the fields of two saves, and those to
  which the keychain answered with an error, which are taken for empty. And it speaks of
  what was sent: a settings page that sends the mask of a secret back stores the mask.
- A provider may be active with fields that were never stored, since a request may name any
  fields and ask for activation (`config_service.go:127`; `config_service_test.go:261`
  activates S3 with its region alone).

## The proofs

TLAPS checks them for every set of files, parts, runs and controls, every file and part
size and every number of slots; every number of uploads, workers, parts and messages in
the channel; every finite set of places and every page size; any number of instances,
migrations, fields, saves and reads. They rest on the named assumptions of the modules:
positive sizes, slots, workers and capacities, Boolean flags, plain and secret fields
disjoint, and `None`, `NoPid`, `Empty` and `Absent` none of the values they stand beside.

`PartUploaderProofs`. `IInv` of `PartUploader` adds to the invariants of the run what
makes them inductive: every requesting goroutine holds a slot and every holder is
requesting or has just sent; a part on its way or in the channel has not been collected,
and the one in the channel is stored; while no error is noted each part is recorded, on
its way, or in the channel; a closed channel means every goroutine is done; a collector
past its loop has an empty, closed channel. Each kind of step has a lemma; the theorems
are the type invariant, BoundedRequests, NilMeansAllSaved, SavedPartsAreStored,
NothingLeftBehind, and the refinement of `PartBatch`.

`PartProgressProofs`. The bytes counted are the sum of the lengths of the parts collected
(ProgressIsCounted), because each part is collected once: its goroutine sends one result,
which is what `IInv` says of the channel. The sum is a fold over a set, so what one more
element adds (BytesAdd) has to hold whichever element the fold takes first. The library's
induction cannot be used for it; instead a smallest set that would refute the claim is
taken (SmallestSet, from the well-foundedness of the subsets of a finite set) and shown not
to refute it. The first n parts have min(n * PartSize, FileSize) bytes by the same
argument (BytesOfFirst), so that all of them have FileSize (PartsAreTheFile).

`UploadServiceProofs`. The argument has two halves. The storage only grows
(`Grows`: no step takes back a multipart upload, a part of one or a completion), so what
a copy of an upload says of it stays true (`HoldsStable`, `Frame`). And every copy that a
step makes, in the table, in a worker or in the list a control has read, is right: `IInv`
says of each that its multipart upload exists and holds its parts, of a worker past
`uploadParts` that it has every part, and of one past CompleteMultipartUpload that they
are assembled. The invariant has to speak of the workers' and controls' copies because a
stale one may be written back at any time. RecordedPartsAreStored, CompletedIsAssembled
and RegisteredRunIsActive follow, for careless clients, faults, lost answers and crashes.

`UploadServiceCarefulProofs`. For a careful client, with faults, dropped streams and
crashes, `CarefulIInv` adds three things to `IInv`. One call at a time works on the
process (OneAtATime): a resume only follows a run that has returned, and a pause or a
cancel meets at most one run, past its start. A worker whose context lives has a copy that
agrees with its row in status and has every part that the row has (SyncOK), so that its
next write forgets none. And a control that has called the cancel function finds no run
whose context lives (ControlOK), so that the rows it has still to write are as it read
them, and with a cancel they are all that is not terminal. RunOK says what a run's place
in the code means for the process and for `cancelFuncs`: a working run is the registered
one, which is why the function a control calls stops it. Each kind of step (a run that
moves, a worker, a control) has a lemma saying what of this it has to restore, and each
action one that shows it does. PausedMeansStopped, CompletedProcessIsComplete and
CancelledProcessIsOver follow from the invariant, and the refinement of `UploadLifecycle`
from it step by step: a step writes at most one row (RowStep), and each row moves as the
lifecycle allows (RowMoves).

`ProgressStreamProofs`. `StreamIInv` orders what is on its way: any message of an upload
leads to each later one and to the last one sent (WireOK), which is the upload's last on
the wire or was heard unless the handler has gone (LastIsSent); a message on its way or
heard is covered by the row, also while the row is behind the worker's memory after a
failed write (WorkerOK, SentOK). The two steps that matter, an Append and a Tail of the
channel, have a lemma each (SendProgressIInv, LeavesIInv); all steps of a worker between
two messages are cases of one (WorksIInv). At the close every worker has ended, and at the
answer the wire is empty, so LastIsSent gives EndTellsAll; WireOK gives HeardMovesForward.

`ProcessPagesProofs`. `Unbroken` says of a list that it holds every process of its `from`
down to its cursor and none below. Lists are captured, extended and shown in any order, so
the invariant says it of the list, of every captured list, and of every answer as it will
be shown. The lemmas under it are about the n newest of a finite set (NewestFacts,
PageFacts), by the cardinality of what is above a place.

`ServerProofs`. For the lock: of two living instances one is past it and the other has
read its PID and is about to be refused (OneHolder), if none overlapped. For migrations:
the recorded versions are always the first ones, and no instance's version is ahead of
them. For settings, field by field: a save owns the fields that no other save under way
sends, and has stored what it sent in those it is done with (SaveOK); a read is sure of
the fields that no save has sent since it began, and has read what is stored (ReadOK); and
what is agreed on is stored and in nobody's hands (AgreedOK). The instance of a call
serves or waits for it, so nobody releases the lock while it runs.

Only model-checked: the liveness properties Returns, RunsReturn, CallEnds, LoadingEnds and
NextServes, since the prover does not treat fairness and ENABLED. Every other property of
a passing run is stated by a theorem.

## Not modelled

- Content and offsets of parts: a part size changed between an upload and its resume, a
  file that shrinks meanwhile, an empty file, settings of zero. The models know parts by
  number and length under one positive part size.
- The storage that a process recorded against the one that is active at its resume, and
  two processes that write objects of one name: `UploadService` has one storage and one
  process.
- The process's status as the dashboard shows it: `ProgressStream` has the messages that
  trigger a refresh, `UploadService` the status, `ProcessPages` the list, and nothing joins
  the three.
- The detail and settings pages (each keeps its last answer), stream errors in the client
  (dropped by `handleError`), interceptors, tray icon, notifications, layout, generated
  code, the loading of environment variables.

## The plan

Done, in this order: `UploadDomain`, `PartBatch`, `PartUploader`, `MultipartStore`,
`UploadLifecycle`, `UploadService`, `ProgressStream`, `ProcessPages`, `InstanceStart`,
`ProviderSettings`, `Server`, with their runs and proofs. What is left:

1. Proofs: that the parts of `UploadService` are those of `PartUploader`.
2. Part offsets over restarts with other settings, and the assembled bytes.
3. `UploadService` over the storages that `ProviderSettings` hands out.
4. The dashboard's list joined with the stream and the service.
