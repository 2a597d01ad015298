--------------------------- MODULE InstanceStart ---------------------------
(***************************************************************************)
(* How processes of the server start and end: the lock file that is to     *)
(* keep them to one, the migrations of the database and the port.          *)
(*                                                                         *)
(* An instance is one process of the operating system, named by its PID; a *)
(* restart is another instance.  Instances share the lock file, the        *)
(* database and the port, and start and die at any moment.                 *)
(***************************************************************************)
EXTENDS Integers, Sequences

CONSTANTS
  Instances,    \* the processes that are ever started
  Migrations,   \* the number of migrations the program knows
  None,         \* no instance: no file, or nobody listens
  NoPid,        \* a lock file with no PID in it, or that of a process long gone
  PidReuse      \* whether another program may have the PID of a dead instance

ASSUME StartAssumption == /\ Migrations \in Nat
                          /\ None \notin Instances /\ NoPid \notin Instances
                          /\ None # NoPid
                          /\ PidReuse \in BOOLEAN

VARIABLES
  pc,          \* where each instance is
  lock,        \* the lock file
  opened,      \* the instances that have the present lock file open for writing
  seen,        \* what each instance has read of the lock file
  schema,      \* the table schema_migrations
  version,     \* the version each instance has read or reached
  port,        \* who listens
  log,         \* history: the migrations in the order they were committed
  overlapped   \* history: an instance began to take the lock while another did

lockVars   == <<lock, opened, seen, overlapped>>
schemaVars == <<schema, version, log>>
startVars  == <<pc, lockVars, schemaVars, port>>

Acquiring == {"judge", "remove", "open", "write"}
Holding   == {"schema", "migrate", "serving", "stopping"}

Alive(i) == pc[i] \in Acquiring \cup Holding
Goto(i, l) == pc' = [pc EXCEPT ![i] = l]

\* What earlier processes and an older program have left.
StartInit == /\ pc = [i \in Instances |-> "off"]
             /\ lock \in {None, NoPid} /\ opened = {}
             /\ seen = [i \in Instances |-> None]
             /\ \E k \in 0 .. Migrations : /\ schema = 1 .. k
                                         /\ log = [n \in 1 .. k |-> n]
             /\ version = [i \in Instances |-> 0]
             /\ port = None
             /\ overlapped = FALSE

-----------------------------------------------------------------------------
(* PIDFileLock.                                                            *)

\* Acquire begins and reads the file.
Start(i) ==
  /\ pc[i] = "off"
  /\ Goto(i, IF lock = None THEN "open" ELSE "judge")
  /\ seen' = [seen EXCEPT ![i] = lock]
  /\ overlapped' = (overlapped \/ \E j \in Instances : pc[j] \in Acquiring)
  /\ UNCHANGED <<lock, opened, schemaVars, port>>

\* A process that ends forgets what it has read.
End(i, how) == /\ Goto(i, how)
               /\ seen' = [seen EXCEPT ![i] = None]
               /\ version' = [version EXCEPT ![i] = 0]

\* Mistake: an instance that is refused releases the lock on its way out.
RefuseAndRelease(i) ==
  /\ pc[i] = "judge" /\ seen[i] \in Instances
  /\ PidReuse \/ Alive(seen[i])
  /\ End(i, "refused")
  /\ lock' = None /\ opened' = {}
  /\ UNCHANGED <<overlapped, schema, log, port>>

\* Mistake: any PID in the file is taken for that of a running instance.
RefuseUnlooked(i) ==
  /\ pc[i] = "judge" /\ seen[i] \in Instances
  /\ End(i, "refused")
  /\ UNCHANGED <<lock, opened, overlapped, schema, log, port>>

\* The PID runs: the instance's, or another program's that has it now.
Refuse(i) ==
  /\ pc[i] = "judge" /\ seen[i] \in Instances
  /\ PidReuse \/ Alive(seen[i])
  /\ End(i, "refused")
  /\ UNCHANGED <<lock, opened, overlapped, schema, log, port>>

JudgeStale(i) ==
  /\ pc[i] = "judge"
  /\ seen[i] \in Instances => ~Alive(seen[i])
  /\ Goto(i, "remove")
  /\ seen' = [seen EXCEPT ![i] = None]
  /\ UNCHANGED <<lock, opened, overlapped, schemaVars, port>>

\* Whatever file is there by now.
RemoveStale(i) ==
  /\ pc[i] = "remove"
  /\ Goto(i, "open")
  /\ lock' = None /\ opened' = {}
  /\ UNCHANGED <<seen, overlapped, schemaVars, port>>

\* WriteFile creates or empties the file, and then writes.  A file that has been
\* removed in between is written all the same, where nobody sees it.
OpenLock(i) ==
  /\ pc[i] = "open"
  /\ Goto(i, "write")
  /\ lock' = NoPid /\ opened' = opened \cup {i}
  /\ UNCHANGED <<seen, overlapped, schemaVars, port>>

WritePid(i) ==
  /\ pc[i] = "write"
  /\ Goto(i, "schema")
  /\ lock' = IF i \in opened THEN i ELSE lock
  /\ opened' = opened \ {i}
  /\ UNCHANGED <<seen, overlapped, schemaVars, port>>

-----------------------------------------------------------------------------
(* Open and RunMigrations.                                                 *)

\* Mistake: a migration that another instance has recorded is run again.
MigrateAnyway(i) ==
  LET v == version[i] + 1 IN
  /\ pc[i] = "migrate" /\ version[i] < Migrations
  /\ version' = [version EXCEPT ![i] = v]
  /\ schema' = schema \cup {v} /\ log' = Append(log, v)
  /\ UNCHANGED <<pc, lockVars, port>>

\* COALESCE(MAX(version), 0)
Latest(S) == CHOOSE n \in S \cup {0} : \A m \in S : m <= n

ReadVersion(i) ==
  /\ pc[i] = "schema"
  /\ Goto(i, "migrate")
  /\ version' = [version EXCEPT ![i] = Latest(schema)]
  /\ UNCHANGED <<schema, log, lockVars, port>>

\* One transaction: the migration and its record, whose key is unique.
Migrate(i) ==
  LET v == version[i] + 1 IN
  /\ pc[i] = "migrate" /\ version[i] < Migrations
  /\ v \notin schema
  /\ version' = [version EXCEPT ![i] = v]
  /\ schema' = schema \cup {v} /\ log' = Append(log, v)
  /\ UNCHANGED <<pc, lockVars, port>>

-----------------------------------------------------------------------------
(* The rest of main.                                                       *)

Listen(i) ==
  /\ pc[i] = "migrate" /\ version[i] >= Migrations
  /\ port = None
  /\ Goto(i, "serving")
  /\ port' = i
  /\ version' = [version EXCEPT ![i] = 0]
  /\ UNCHANGED <<lockVars, schema, log>>

\* A signal or Quit: GracefulStop closes the listener, then waits for the calls.
Stop(i) ==
  /\ pc[i] = "serving"
  /\ Goto(i, "stopping")
  /\ port' = None
  /\ UNCHANGED <<lockVars, schemaVars>>

\* main returns, and its deferred Release removes the lock file.
Release(i) ==
  /\ pc[i] = "stopping"
  /\ End(i, "dead")
  /\ lock' = None /\ opened' = {}
  /\ UNCHANGED <<overlapped, schema, log, port>>

\* os.Exit without a Release: the lock file, the database, the record of a
\* migration that another has made, or the port; or the process is killed.
Die(i) ==
  /\ Alive(i)
  /\ End(i, "dead")
  /\ port' = IF port = i THEN None ELSE port
  /\ opened' = opened \ {i}
  /\ UNCHANGED <<lock, overlapped, schema, log>>

TakeLock(i) == \/ Start(i) \/ Refuse(i) \/ JudgeStale(i) \/ RemoveStale(i)
               \/ OpenLock(i) \/ WritePid(i)

Prepare(i) == ReadVersion(i) \/ Migrate(i) \/ Listen(i)

\* What main does by itself once it has been started.
GoOn(i) == \/ Refuse(i) \/ JudgeStale(i) \/ RemoveStale(i) \/ OpenLock(i)
           \/ WritePid(i) \/ Prepare(i)

=============================================================================
