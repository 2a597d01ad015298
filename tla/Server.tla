------------------------------- MODULE Server -------------------------------
(***************************************************************************)
(* Instances of the server that start, serve the settings and end: the     *)
(* composition of InstanceStart and ProviderSettings.  A call is answered  *)
(* by the instance that listens when it is made, and GracefulStop waits    *)
(* for it.                                                                 *)
(***************************************************************************)
EXTENDS ProviderSettings, FiniteSets

serverVars == <<startVars, settingsVars>>

ServerInit == StartInit /\ SettingsInit

\* Mistake: the process ends without waiting for its calls.
NotWaitedFor(i) == TRUE

Drained(i) == /\ \A u \in Saves : save[u].by # i
              /\ \A q \in Reads : read[q].by # i

InstanceNext(i) ==
  \/ (TakeLock(i) \/ Prepare(i) \/ Stop(i)) /\ UNCHANGED settingsVars
  \/ Drained(i) /\ Release(i) /\ UNCHANGED settingsVars
  \/ Die(i) /\ DropCalls(i)

CallNext ==
  /\ \/ port # None /\ \E u \in Saves : Save(u, port)
     \/ port # None /\ \E q \in Reads : Ask(q, port)
     \/ \E u \in Saves : SaveStep(u)
     \/ \E q \in Reads : ReadStep(q)
  /\ UNCHANGED startVars

ServerNext == CallNext \/ \E i \in Instances : InstanceNext(i)

ServerSpec == ServerInit /\ [][ServerNext]_serverVars

\* The statements and system calls of an instance that starts return, and it goes
\* on.  Nobody has to start one, to stop it or to make it fail.
StartFairness ==
  \A i \in Instances : WF_serverVars(GoOn(i) /\ UNCHANGED settingsVars)

ServerFairSpec == ServerSpec /\ StartFairness

-----------------------------------------------------------------------------
(* The instances.                                                          *)

StartTypeOK ==
  /\ pc \in [Instances -> {"off", "refused", "dead"} \cup Acquiring \cup Holding]
  /\ lock \in Instances \cup {None, NoPid}
  /\ opened \subseteq Instances
  /\ seen \in [Instances -> Instances \cup {None, NoPid}]
  /\ schema \subseteq 1 .. Migrations
  /\ version \in [Instances -> 0 .. Migrations]
  /\ port \in Instances \cup {None}
  /\ log \in Seq(1 .. Migrations)
  /\ overlapped \in BOOLEAN

\* Instances that take the lock one after the other leave at most one past it, and
\* the file names it; another may only be about to find that out.
OneHolder ==
  /\ \A i, j \in Instances : Alive(i) /\ Alive(j) /\ i # j =>
       \/ pc[i] = "judge" /\ pc[j] \in Holding /\ seen[i] = j
       \/ pc[j] = "judge" /\ pc[i] \in Holding /\ seen[j] = i
  /\ \A i \in Instances : /\ pc[i] \in Holding => lock = i
                          /\ pc[i] = "write" => i \in opened

\* Each migration is committed once, in order, by however many instances that
\* start together, die in between or find that another has been faster; and nobody
\* serves before the last (the transaction and the key of schema_migrations).
AppliedOnce ==
  /\ schema = 1 .. Len(log)
  /\ \A n \in 1 .. Len(log) : log[n] = n
  /\ \A i \in Instances : pc[i] \in {"serving", "stopping"} => Len(log) = Migrations

\* The instances at work: one listens or still answers a call.
Working == {i \in Instances : \/ port = i
                              \/ \E u \in Saves : save[u].by = i
                              \/ \E q \in Reads : read[q].by = i}

\* At most one instance is at work on the settings if no two took the lock at the
\* same time: the lock is kept until the last call has ended, and is not given up by
\* an instance that is refused (Release after GracefulStop, os.Exit in main).
OneAnswers == overlapped \/ \A i, j \in Working : i = j

\* An instance that starts when no other runs comes to serve, whatever lock file
\* and however many migrations those before it have left, wherever they died:
\* unless it fails itself, or another is started meanwhile (Acquire's stale lock
\* and the version that RunMigrations goes on from).
NextServes ==
  \A i \in Instances :
    /\ pc[i] \in Acquiring
    /\ \A j \in Instances \ {i} : ~Alive(j)
    ~> \/ pc[i] \in {"serving", "dead"}
       \/ \E j \in Instances \ {i} : Alive(j)

-----------------------------------------------------------------------------
(* The settings.                                                           *)

SaveState == [pc : {"idle", "storing"}, by : Instances \cup {None},
              req : Requests, todo : SUBSET Fields, own : SUBSET Fields]
ReadState == [pc : {"idle", "active", "plain", "secrets"},
              by : Instances \cup {None}, got : [Fields -> Values],
              todo : SUBSET Secrets, sure : SUBSET Fields]

SettingsTypeOK ==
  /\ store \in [Fields -> Values \cup {Absent}]
  /\ active \in BOOLEAN
  /\ save \in [Saves -> SaveState]
  /\ read \in [Reads -> ReadState]
  /\ agreed \in [Fields -> Values \cup {Absent, None}]

\* A list or a storage is made of what the last save of each field sent, or of the
\* empty text, if that save did not fail, no other save of the field overlapped it,
\* none has begun since the read did and the keychain answered.  Saves of other
\* fields may overlap, fail halfway or die with their server: a field is neither
\* lost nor changed by an update that does not name it, and fields stored and read
\* one by one in two places agree.
ReadIsLastSave ==
  \A q \in Reads : HasRead(q) =>
    \A f \in read[q].sure : agreed[f] # None => read[q].got[f] = Text(agreed[f])

\* The inductive invariants behind it.
Serving(i) == i \in Instances /\ pc[i] \in {"serving", "stopping"}

SaveOK(u) ==
  /\ save[u].pc = "idle" => save[u].by = None /\ Sent(save[u].req) = {}
  /\ save[u].pc = "storing" => Serving(save[u].by)
  /\ save[u].todo \subseteq Sent(save[u].req)
  /\ \A f \in save[u].own :
       /\ f \in Sent(save[u].req)
       /\ \A w \in Saves \ {u} : f \notin Sent(save[w].req)
       /\ f \notin save[u].todo => store[f] = save[u].req[f]

ReadOK(q) ==
  /\ read[q].pc = "idle" => read[q].by = None /\ read[q].sure = {}
  /\ read[q].pc # "idle" => Serving(read[q].by)
  /\ \A f \in read[q].sure :
       /\ \A u \in Saves : f \notin Sent(save[u].req)
       /\ read[q].pc = "secrets" /\ f \notin read[q].todo =>
            read[q].got[f] = Text(store[f])

AgreedOK == \A f \in Fields : agreed[f] # None =>
              agreed[f] = store[f] /\ \A u \in Saves : f \notin Sent(save[u].req)

PortOK(i) == /\ pc[i] = "migrate" => version[i] <= Len(log)
             /\ pc[i] = "serving" <=> port = i

StartIInv == /\ StartTypeOK
             /\ overlapped \/ OneHolder
             /\ AppliedOnce
             /\ \A i \in Instances : PortOK(i)

SettingsIInv == /\ SettingsTypeOK
                /\ AgreedOK
                /\ \A u \in Saves : SaveOK(u)
                /\ \A q \in Reads : ReadOK(q)

ServerIInv == StartIInv /\ SettingsIInv

=============================================================================
