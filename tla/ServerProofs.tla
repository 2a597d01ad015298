---------------------------- MODULE ServerProofs ----------------------------
(***************************************************************************)
(* Proofs of what Server is checked for, for every set of instances, saves *)
(* and reads, every number of migrations and every set of fields.          *)
(***************************************************************************)
EXTENDS Server, TLAPS

At == {"serving", "stopping"}

\* The highest recorded migration, when they are recorded in order.
LEMMA LatestOfAll == ASSUME NEW n \in Nat PROVE Latest(1 .. n) = n
<1>1. n \in (1 .. n) \cup {0} /\ \A m \in (1 .. n) \cup {0} : m <= n
  OBVIOUS
<1>2. ASSUME NEW k \in (1 .. n) \cup {0}, \A m \in (1 .. n) \cup {0} : m <= k
      PROVE  k = n
  BY <1>1, <1>2
<1> QED BY <1>1, <1>2 DEF Latest

-----------------------------------------------------------------------------
(* The lock.  One lemma per action, on the parts that it can disturb.      *)

\* Steps that leave the migrations alone keep what is said of them.
LEMMA AppliedFrame ==
  ASSUME AppliedOnce, UNCHANGED <<schema, log>>,
         \A i \in Instances : pc'[i] \in At => pc[i] \in At
  PROVE  AppliedOnce'
BY DEF AppliedOnce, At

LEMMA StartKeeps ==
  ASSUME StartIInv, NEW i \in Instances, Start(i) PROVE StartIInv'
<1> USE StartAssumption DEF StartIInv, Start, Goto, Acquiring, Holding, lockVars,
                            schemaVars
<1>1. StartTypeOK' BY DEF StartTypeOK
<1>2. (overlapped \/ OneHolder)'
  <2> SUFFICES ASSUME ~overlapped' PROVE OneHolder' OBVIOUS
  <2>1. OneHolder /\ \A j \in Instances : pc[j] \notin Acquiring
    BY DEF StartTypeOK
  <2>2. \A j \in Instances : Alive(j) => pc[j] \in Holding /\ lock = j
    BY <2>1 DEF OneHolder, Alive
  <2>3. \A j \in Instances : j # i => pc'[j] = pc[j] /\ seen'[j] = seen[j]
    BY DEF StartTypeOK
  <2>4. /\ pc'[i] = (IF lock = None THEN "open" ELSE "judge") /\ seen'[i] = lock
        /\ pc[i] = "off"
    BY DEF StartTypeOK
  <2>5. ASSUME NEW j \in Instances, j # i, Alive(j)'
        PROVE  pc'[i] = "judge" /\ pc'[j] \in Holding /\ seen'[i] = j
    BY <2>2, <2>3, <2>4, <2>5 DEF Alive
  <2>6. ASSUME NEW j \in Instances, NEW k \in Instances, Alive(j)', Alive(k)', j # k
        PROVE  j = i \/ k = i
    BY <2>2, <2>3, <2>6 DEF Alive
  <2>7. \A j \in Instances : (pc'[j] \in Holding => lock' = j) /\ pc'[j] # "write"
    BY <2>1, <2>2, <2>3, <2>4 DEF Alive
  <2> QED BY <2>5, <2>6, <2>7 DEF OneHolder
<1>3. AppliedOnce' BY AppliedFrame DEF StartTypeOK, At
<1>4. \A j \in Instances : PortOK(j)' BY DEF StartTypeOK, PortOK
<1> QED BY <1>1, <1>2, <1>3, <1>4

LEMMA RefuseKeeps ==
  ASSUME StartIInv, NEW i \in Instances, Refuse(i) PROVE StartIInv'
<1> USE StartAssumption DEF StartIInv, Refuse, End, Goto, Acquiring, Holding
<1>1. StartTypeOK' BY DEF StartTypeOK
<1>2. (overlapped \/ OneHolder)' BY DEF StartTypeOK, OneHolder, Alive
<1>3. AppliedOnce' BY AppliedFrame DEF StartTypeOK, At
<1>4. \A j \in Instances : PortOK(j)' BY DEF StartTypeOK, PortOK
<1> QED BY <1>1, <1>2, <1>3, <1>4

LEMMA JudgeStaleKeeps ==
  ASSUME StartIInv, NEW i \in Instances, JudgeStale(i) PROVE StartIInv'
<1> USE StartAssumption DEF StartIInv, JudgeStale, Goto, Acquiring, Holding,
                            schemaVars
<1>1. StartTypeOK' BY DEF StartTypeOK
<1>2. (overlapped \/ OneHolder)' BY DEF StartTypeOK, OneHolder, Alive
<1>3. AppliedOnce' BY AppliedFrame DEF StartTypeOK, At
<1>4. \A j \in Instances : PortOK(j)' BY DEF StartTypeOK, PortOK
<1> QED BY <1>1, <1>2, <1>3, <1>4

LEMMA RemoveStaleKeeps ==
  ASSUME StartIInv, NEW i \in Instances, RemoveStale(i) PROVE StartIInv'
<1> USE StartAssumption DEF StartIInv, RemoveStale, Goto, Acquiring, Holding,
                            schemaVars
<1>1. StartTypeOK' BY DEF StartTypeOK
<1>2. (overlapped \/ OneHolder)' BY DEF StartTypeOK, OneHolder, Alive
<1>3. AppliedOnce' BY AppliedFrame DEF StartTypeOK, At
<1>4. \A j \in Instances : PortOK(j)' BY DEF StartTypeOK, PortOK
<1> QED BY <1>1, <1>2, <1>3, <1>4

LEMMA OpenLockKeeps ==
  ASSUME StartIInv, NEW i \in Instances, OpenLock(i) PROVE StartIInv'
<1> USE StartAssumption DEF StartIInv, OpenLock, Goto, Acquiring, Holding,
                            schemaVars
<1>1. StartTypeOK' BY DEF StartTypeOK
<1>2. (overlapped \/ OneHolder)' BY DEF StartTypeOK, OneHolder, Alive
<1>3. AppliedOnce' BY AppliedFrame DEF StartTypeOK, At
<1>4. \A j \in Instances : PortOK(j)' BY DEF StartTypeOK, PortOK
<1> QED BY <1>1, <1>2, <1>3, <1>4

LEMMA WritePidKeeps ==
  ASSUME StartIInv, NEW i \in Instances, WritePid(i) PROVE StartIInv'
<1> USE StartAssumption DEF StartIInv, WritePid, Goto, Acquiring, Holding,
                            schemaVars
<1>1. StartTypeOK' BY DEF StartTypeOK
<1>2. (overlapped \/ OneHolder)' BY DEF StartTypeOK, OneHolder, Alive
<1>3. AppliedOnce' BY AppliedFrame DEF StartTypeOK, At
<1>4. \A j \in Instances : PortOK(j)' BY DEF StartTypeOK, PortOK
<1> QED BY <1>1, <1>2, <1>3, <1>4

-----------------------------------------------------------------------------
(* Migrations, the port, and the end of an instance.                       *)

LEMMA ReadVersionKeeps ==
  ASSUME StartIInv, NEW i \in Instances, ReadVersion(i) PROVE StartIInv'
<1> USE StartAssumption DEF StartIInv, ReadVersion, Goto, Acquiring, Holding,
                            lockVars
<1>0. /\ Len(log) \in 0 .. Migrations
      /\ version' = [version EXCEPT ![i] = Len(log)]
  <2>1. Len(log) \in Nat /\ schema = 1 .. Len(log) BY DEF StartTypeOK, AppliedOnce
  <2>2. Latest(schema) = Len(log) BY <2>1, LatestOfAll
  <2>3. Len(log) \in 0 .. Migrations
    <3>1. CASE Len(log) = 0 BY <3>1
    <3>2. CASE Len(log) # 0
      <4>1. Len(log) \in 1 .. Len(log) BY <2>1, <3>2
      <4>2. Len(log) \in 1 .. Migrations BY <4>1, <2>1 DEF StartTypeOK
      <4> QED BY <4>2
    <3> QED BY <3>1, <3>2
  <2> QED BY <2>2, <2>3
<1>1. StartTypeOK' BY <1>0 DEF StartTypeOK
<1>2. (overlapped \/ OneHolder)' BY DEF StartTypeOK, OneHolder, Alive
<1>3. AppliedOnce' BY AppliedFrame DEF StartTypeOK, At
<1>4. \A j \in Instances : PortOK(j)' BY <1>0 DEF StartTypeOK, PortOK
<1> QED BY <1>1, <1>2, <1>3, <1>4

LEMMA MigrateKeeps ==
  ASSUME StartIInv, NEW i \in Instances, Migrate(i) PROVE StartIInv'
<1> USE StartAssumption DEF StartIInv, lockVars
<1> DEFINE v == version[i] + 1
<1>0. /\ v \in 1 .. Migrations /\ v = Len(log) + 1 /\ Len(log) \in Nat
      /\ Len(log) # Migrations
  BY DEF StartTypeOK, PortOK, AppliedOnce, Migrate
<1>1. /\ Len(log') = Len(log) + 1 /\ log' \in Seq(1 .. Migrations)
      /\ \A n \in 1 .. Len(log') : log'[n] = IF n = Len(log) + 1 THEN v ELSE log[n]
  BY <1>0 DEF Migrate, StartTypeOK
<1>2. StartTypeOK'
  <2>1. schema' = schema \cup {v} /\ version' = [version EXCEPT ![i] = v]
        /\ v \in 0 .. Migrations
        /\ UNCHANGED <<pc, lock, opened, seen, overlapped, port>>
    BY <1>0 DEF Migrate
  <2> HIDE DEF v
  <2>2. schema' \subseteq 1 .. Migrations /\ version' \in [Instances -> 0 .. Migrations]
    BY <1>0, <2>1 DEF StartTypeOK
  <2> QED BY <1>1, <2>1, <2>2 DEF StartTypeOK
<1>3. (overlapped \/ OneHolder)' BY DEF StartTypeOK, OneHolder, Alive, Migrate
<1>4. AppliedOnce'
  <2>1. schema' = 1 .. Len(log') BY <1>0, <1>1 DEF AppliedOnce, Migrate
  <2>2. \A n \in 1 .. Len(log') : log'[n] = n BY <1>0, <1>1 DEF AppliedOnce
  <2>3. \A j \in Instances : pc'[j] \notin {"serving", "stopping"}
    BY <1>0 DEF AppliedOnce, Migrate
  <2> QED BY <2>1, <2>2, <2>3 DEF AppliedOnce
<1>5. \A j \in Instances : PortOK(j)' BY <1>0, <1>1 DEF StartTypeOK, PortOK, Migrate
<1> QED BY <1>2, <1>3, <1>4, <1>5

LEMMA ListenKeeps ==
  ASSUME StartIInv, NEW i \in Instances, Listen(i) PROVE StartIInv'
<1> USE StartAssumption DEF StartIInv, Listen, Goto, Acquiring, Holding, lockVars
<1>1. StartTypeOK' BY DEF StartTypeOK
<1>2. (overlapped \/ OneHolder)' BY DEF StartTypeOK, OneHolder, Alive
<1>3. AppliedOnce'
  <2>1. Len(log) = Migrations
    <3>1. Len(log) \in Nat /\ version[i] = Migrations /\ version[i] <= Len(log)
      BY DEF StartTypeOK, PortOK
    <3>2. Len(log) = 0 \/ Len(log) \in schema BY <3>1 DEF AppliedOnce
    <3> QED BY <3>1, <3>2 DEF StartTypeOK
  <2> QED BY <2>1 DEF StartTypeOK, AppliedOnce
<1>4. \A j \in Instances : PortOK(j)' BY DEF StartTypeOK, PortOK
<1> QED BY <1>1, <1>2, <1>3, <1>4

LEMMA StopKeeps ==
  ASSUME StartIInv, NEW i \in Instances, Stop(i) PROVE StartIInv'
<1> USE StartAssumption DEF StartIInv, Stop, Goto, Acquiring, Holding, lockVars,
                            schemaVars
<1>1. StartTypeOK' BY DEF StartTypeOK
<1>2. (overlapped \/ OneHolder)' BY DEF StartTypeOK, OneHolder, Alive
<1>3. AppliedOnce' BY AppliedFrame DEF StartTypeOK, At
<1>4. \A j \in Instances : PortOK(j)' BY DEF StartTypeOK, PortOK
<1> QED BY <1>1, <1>2, <1>3, <1>4

LEMMA ReleaseKeeps ==
  ASSUME StartIInv, NEW i \in Instances, Release(i) PROVE StartIInv'
<1> USE StartAssumption DEF StartIInv, Release, End, Goto, Acquiring, Holding
<1>1. StartTypeOK' BY DEF StartTypeOK
<1>2. (overlapped \/ OneHolder)' BY DEF StartTypeOK, OneHolder, Alive
<1>3. AppliedOnce' BY AppliedFrame DEF StartTypeOK, At
<1>4. \A j \in Instances : PortOK(j)' BY DEF StartTypeOK, PortOK
<1> QED BY <1>1, <1>2, <1>3, <1>4

LEMMA DieKeeps ==
  ASSUME StartIInv, NEW i \in Instances, Die(i) PROVE StartIInv'
<1> USE StartAssumption DEF StartIInv, Die, End, Goto, Acquiring, Holding
<1>1. StartTypeOK' BY DEF StartTypeOK
<1>2. (overlapped \/ OneHolder)' BY DEF StartTypeOK, OneHolder, Alive
<1>3. AppliedOnce' BY AppliedFrame DEF StartTypeOK, At
<1>4. \A j \in Instances : PortOK(j)' BY DEF StartTypeOK, PortOK, Alive
<1> QED BY <1>1, <1>2, <1>3, <1>4

-----------------------------------------------------------------------------
(* The settings.  What is said of a call speaks of the instance that answers *)
(* it: calls that go on need it to stay where it is.                       *)

\* The calls that are under way in a step that does not touch the settings.
LEMMA SettingsFrame ==
  ASSUME SettingsIInv, UNCHANGED settingsVars,
         \A j \in Instances : pc[j] \in At => pc'[j] \in At \/ Drained(j)
  PROVE  SettingsIInv'
<1> USE DEF settingsVars
<1>1. SettingsTypeOK' /\ AgreedOK' BY DEF SettingsIInv, SettingsTypeOK, AgreedOK
<1>2. \A u \in Saves : SaveOK(u)' BY DEF SettingsIInv, SaveOK, Serving, At, Drained
<1>3. \A q \in Reads : ReadOK(q)'
  BY DEF SettingsIInv, ReadOK, Text, Serving, At, Drained
<1> QED BY <1>1, <1>2, <1>3 DEF SettingsIInv

LEMMA NoCallTypes ==
  /\ NoSave \in SaveState /\ NoRead \in ReadState
  /\ NoFields \in [Fields -> Values \cup {Absent}]
  /\ NoSave.pc = "idle" /\ NoSave.by = None /\ NoSave.own = {} /\ NoSave.req = NoFields
  /\ NoSave.todo = {}
  /\ NoRead.pc = "idle" /\ NoRead.by = None /\ NoRead.sure = {}
  /\ Sent(NoFields) = {}
BY DEF NoSave, NoRead, SaveState, ReadState, NoFields, NoTexts, Requests, Values, Fields,
       Sent

\* A save that begins takes its fields from the others and from the reads.
LEMMA SaveKeeps ==
  ASSUME SettingsIInv, NEW u \in Saves, NEW i, Serving(i), Save(u, i), UNCHANGED pc
  PROVE  SettingsIInv'
<1>a. PICK req \in Requests :
      /\ save' = [v \in Saves |-> IF v = u
                    THEN [pc |-> "storing", by |-> i, req |-> req,
                          todo |-> Sent(req), own |-> Sent(req) \ UnderWay]
                    ELSE [save[v] EXCEPT !.own = @ \ Sent(req)]]
      /\ read' = [q \in Reads |-> [read[q] EXCEPT !.sure = @ \ Sent(req)]]
      /\ agreed' = [f \in Fields |-> IF f \in Sent(req) THEN None ELSE agreed[f]]
  BY DEF Save
<1> DEFINE new == Sent(req) \ UnderWay
<1>0. /\ save \in [Saves -> SaveState] /\ read \in [Reads -> ReadState]
      /\ agreed \in [Fields -> Values \cup {Absent, None}]
      /\ store' = store /\ active' = active
      /\ \A v \in Saves : SaveOK(v)
      /\ \A q \in Reads : ReadOK(q)
      /\ AgreedOK
  BY DEF SettingsIInv, SettingsTypeOK, Save
<1>1. /\ Sent(req) \subseteq Fields /\ new \subseteq Sent(req)
      /\ \A f \in new, w \in Saves : f \notin Sent(save[w].req)
  BY DEF Sent, UnderWay
<1> HIDE DEF new
<1>2. /\ save'[u] \in SaveState /\ save'[u].pc = "storing" /\ save'[u].by = i
      /\ save'[u].req = req /\ save'[u].todo = Sent(req) /\ save'[u].own = new
  <2>1. save'[u] = [pc |-> "storing", by |-> i, req |-> req, todo |-> Sent(req),
                    own |-> new]
    BY <1>a DEF new
  <2> QED BY <1>1, <2>1 DEF SaveState, Serving
<1>3. \A v \in Saves \ {u} :
        /\ save'[v] \in SaveState
        /\ save'[v].pc = save[v].pc /\ save'[v].by = save[v].by
        /\ save'[v].req = save[v].req /\ save'[v].todo = save[v].todo
        /\ save'[v].own = save[v].own \ Sent(req)
  BY <1>a, <1>0 DEF SaveState
<1>4. \A q \in Reads :
        /\ read'[q] \in ReadState
        /\ read'[q].pc = read[q].pc /\ read'[q].by = read[q].by
        /\ read'[q].got = read[q].got /\ read'[q].todo = read[q].todo
        /\ read'[q].sure = read[q].sure \ Sent(req)
  BY <1>a, <1>0 DEF ReadState
<1>5. SettingsTypeOK'
  <2>1. save' \in [Saves -> SaveState] /\ read' \in [Reads -> ReadState]
    BY <1>a, <1>2, <1>3, <1>4
  <2>2. agreed' \in [Fields -> Values \cup {Absent, None}] BY <1>a, <1>0
  <2> QED BY <1>0, <2>1, <2>2 DEF SettingsIInv, SettingsTypeOK
<1>6. AgreedOK'
  <2> SUFFICES ASSUME NEW f \in Fields, agreed'[f] # None
               PROVE  /\ agreed'[f] = store[f]
                      /\ \A v \in Saves : f \notin Sent(save'[v].req)
    BY <1>0 DEF AgreedOK
  <2>1. f \notin Sent(req) /\ agreed'[f] = agreed[f] BY <1>a
  <2> QED BY <1>0, <1>2, <1>3, <2>1 DEF AgreedOK
<1>7. SaveOK(u)'
  <2>1. Serving(save[u].by)' BY <1>2 DEF Serving
  <2>2. \A f \in new, w \in Saves \ {u} : f \notin Sent(save'[w].req) BY <1>1, <1>3
  <2> QED BY <1>1, <1>2, <2>1, <2>2 DEF SaveOK
<1>8. ASSUME NEW v \in Saves, v # u PROVE SaveOK(v)'
  <2>1. /\ save'[v].pc = "idle" => save'[v].by = None /\ Sent(save'[v].req) = {}
        /\ save'[v].pc = "storing" => Serving(save[v].by)'
        /\ save'[v].todo \subseteq Sent(save'[v].req)
    BY <1>0, <1>3, <1>8 DEF SaveOK, Serving
  <2>2. ASSUME NEW f \in save'[v].own
        PROVE  /\ f \in Sent(save'[v].req)
               /\ \A w \in Saves \ {v} : f \notin Sent(save'[w].req)
               /\ f \notin save'[v].todo => store'[f] = save'[v].req[f]
    BY <1>0, <1>2, <1>3, <1>8, <2>2 DEF SaveOK
  <2> QED BY <2>1, <2>2 DEF SaveOK
<1>9. ASSUME NEW q \in Reads PROVE ReadOK(q)'
  <2>1. ReadOK(q) BY <1>0
  <2>2. /\ read'[q].pc = "idle" => read'[q].by = None /\ read'[q].sure = {}
        /\ read'[q].pc # "idle" => Serving(read[q].by)'
    BY <1>4, <2>1 DEF ReadOK, Serving
  <2>3. ASSUME NEW f \in read'[q].sure
        PROVE  /\ \A v \in Saves : f \notin Sent(save'[v].req)
               /\ read'[q].pc = "secrets" /\ f \notin read'[q].todo =>
                    read'[q].got[f] = Text(store'[f])
    BY <1>0, <1>2, <1>3, <1>4, <2>1, <2>3 DEF ReadOK
  <2> QED BY <2>2, <2>3 DEF ReadOK
<1> QED BY <1>5, <1>6, <1>7, <1>8, <1>9 DEF SettingsIInv

\* A field is stored by a save under way: no other owns it, and no read is sure of it.
LEMMA StoreFieldKeeps ==
  ASSUME SettingsIInv, NEW u \in Saves, NEW f \in Fields, StoreField(u, f),
         UNCHANGED pc
  PROVE  SettingsIInv'
<1> DEFINE w == [save[u] EXCEPT !.todo = @ \ {f}]
<1>0. /\ save \in [Saves -> SaveState] /\ store \in [Fields -> Values \cup {Absent}]
      /\ save[u] \in SaveState /\ save[u].pc = "storing"
      /\ \A v \in Saves : SaveOK(v)
      /\ \A q \in Reads : ReadOK(q)
      /\ AgreedOK
  BY DEF SettingsIInv, SettingsTypeOK, StoreField
<1>1. f \in Sent(save[u].req) BY <1>0 DEF SaveOK, StoreField
<1>2. /\ save' = [save EXCEPT ![u] = w]
      /\ store' = [store EXCEPT ![f] = save[u].req[f]]
      /\ active' = active /\ read' = read /\ agreed' = agreed
  BY DEF StoreField
<1>3. /\ w \in SaveState /\ w.pc = "storing" /\ w.by = save[u].by
      /\ w.req = save[u].req /\ w.own = save[u].own /\ w.todo = save[u].todo \ {f}
  BY <1>0 DEF SaveState
<1> HIDE DEF w

<1>4. /\ save'[u] = w /\ \A v \in Saves \ {u} : save'[v] = save[v]
      /\ \A g \in Fields \ {f} : store'[g] = store[g]
      /\ store'[f] = save[u].req[f] /\ store'[f] \in Values \cup {Absent}
  BY <1>0, <1>2 DEF SaveState, Requests
<1>5. \A v \in Saves : save'[v].req = save[v].req /\ save'[v].own = save[v].own
  BY <1>3, <1>4
<1>6. SettingsTypeOK' BY <1>0, <1>2, <1>3, <1>4 DEF SettingsIInv, SettingsTypeOK
<1>7. AgreedOK'
  <2> SUFFICES ASSUME NEW g \in Fields, agreed[g] # None
               PROVE  /\ agreed[g] = store'[g]
                      /\ \A v \in Saves : g \notin Sent(save[v].req)
    BY <1>2, <1>5 DEF AgreedOK
  <2>1. agreed[g] = store[g] /\ \A v \in Saves : g \notin Sent(save[v].req)
    BY <1>0 DEF AgreedOK
  <2> QED BY <1>1, <1>4, <2>1
<1>8. ASSUME NEW v \in Saves PROVE SaveOK(v)'
  <2>1. SaveOK(v) BY <1>0
  <2>2. /\ save'[v].pc = save[v].pc /\ save'[v].by = save[v].by
        /\ save'[v].todo \subseteq save[v].todo
        /\ (v = u => save'[v].todo = save[v].todo \ {f})
        /\ (v # u => save'[v].todo = save[v].todo)
    <3>1. CASE v = u BY <1>0, <1>3, <1>4, <3>1
    <3>2. CASE v # u BY <1>4, <3>2
    <3> QED BY <3>1, <3>2
  <2>3. ASSUME NEW g \in save[v].own
        PROVE  /\ g \in Sent(save[v].req)
               /\ \A x \in Saves \ {v} : g \notin Sent(save[x].req)
               /\ g \notin save'[v].todo => store'[g] = save[v].req[g]
    <3>1. g \in Fields BY <1>0 DEF SaveState
    <3>2. v # u => g # f BY <1>1, <2>1, <2>3 DEF SaveOK
    <3> QED BY <1>4, <2>1, <2>2, <2>3, <3>1, <3>2 DEF SaveOK
  <2>4. /\ save[v].pc = "idle" => save[v].by = None /\ Sent(save[v].req) = {}
        /\ save[v].pc = "storing" => Serving(save[v].by)'
        /\ save'[v].todo \subseteq Sent(save[v].req)
    BY <2>1, <2>2 DEF SaveOK, Serving
  <2> QED BY <1>5, <2>2, <2>3, <2>4 DEF SaveOK
<1>9. ASSUME NEW q \in Reads PROVE ReadOK(q)'
  <2>1. ReadOK(q) /\ read[q] \in ReadState
    BY <1>0 DEF SettingsIInv, SettingsTypeOK
  <2>2. \A g \in read[q].sure : g \in Fields \ {f} BY <1>1, <2>1 DEF ReadOK, ReadState
  <2>3. \A g \in read[q].sure : Text(store'[g]) = Text(store[g]) BY <1>4, <2>2
  <2> QED BY <1>2, <1>5, <2>1, <2>3 DEF ReadOK, Serving
<1> QED BY <1>6, <1>7, <1>8, <1>9 DEF SettingsIInv

\* A save that ends has stored all that it owns.
LEMMA EndSaveKeeps ==
  ASSUME SettingsIInv, NEW u \in Saves, EndSave(u) \/ SaveFails(u), UNCHANGED pc
  PROVE  SettingsIInv'
<1>0. /\ save \in [Saves -> SaveState] /\ save[u] \in SaveState
      /\ agreed \in [Fields -> Values \cup {Absent, None}]
      /\ \A v \in Saves : SaveOK(v)
      /\ \A q \in Reads : ReadOK(q)
      /\ AgreedOK
  BY DEF SettingsIInv, SettingsTypeOK
<1>1. /\ save' = [save EXCEPT ![u] = NoSave] /\ store' = store /\ read' = read
      /\ active' \in BOOLEAN
  BY DEF EndSave, SaveFails, SettingsIInv, SettingsTypeOK
<1>2. /\ save'[u] = NoSave /\ \A v \in Saves \ {u} : save'[v] = save[v]
      /\ \A v \in Saves : \A f \in Sent(save'[v].req) : f \in Sent(save[v].req) /\ v # u
  <2>1. save'[u] = NoSave /\ \A v \in Saves \ {u} : save'[v] = save[v] BY <1>0, <1>1
  <2> QED BY <2>1, NoCallTypes
<1>3. \A f \in Fields :
        \/ agreed'[f] = agreed[f]
        \/ /\ f \in save[u].own /\ save[u].todo = {} /\ agreed'[f] = save[u].req[f]
           /\ agreed'[f] \in Values \cup {Absent}
  <2>1. CASE EndSave(u)
    <3>1. \A f \in Fields : save[u].req[f] \in Values \cup {Absent}
      BY <1>0 DEF SaveState, Requests
    <3> QED BY <2>1, <3>1 DEF EndSave
  <2>2. CASE SaveFails(u) BY <2>2 DEF SaveFails
  <2> QED BY <2>1, <2>2
<1>4. agreed' \in [Fields -> Values \cup {Absent, None}]
  <2>1. CASE EndSave(u)
    <3>1. agreed' = [f \in Fields |-> IF f \in save[u].own THEN save[u].req[f]
                                       ELSE agreed[f]]
      BY <2>1 DEF EndSave
    <3> QED BY <1>0, <3>1 DEF SaveState, Requests
  <2>2. CASE SaveFails(u) BY <1>0, <2>2 DEF SaveFails
  <2> QED BY <2>1, <2>2
<1>5. SettingsTypeOK' BY <1>0, <1>1, <1>4, NoCallTypes DEF SettingsIInv, SettingsTypeOK
<1>6. AgreedOK'
  <2> SUFFICES ASSUME NEW f \in Fields, agreed'[f] # None
               PROVE  /\ agreed'[f] = store[f]
                      /\ \A v \in Saves : f \notin Sent(save'[v].req)
    BY <1>1 DEF AgreedOK
  <2>1. CASE agreed'[f] = agreed[f] BY <1>0, <1>2, <2>1 DEF AgreedOK
  <2>2. CASE f \in save[u].own /\ save[u].todo = {} /\ agreed'[f] = save[u].req[f]
    <3>1. store[f] = save[u].req[f] /\ \A v \in Saves \ {u} : f \notin Sent(save[v].req)
      BY <1>0, <2>2 DEF SaveOK
    <3> QED BY <1>2, <2>2, <3>1
  <2> QED BY <1>3, <2>1, <2>2
<1>7. ASSUME NEW v \in Saves PROVE SaveOK(v)'
  <2>1. CASE v = u
    <3>1. /\ save'[v].pc = "idle" /\ save'[v].by = None /\ save'[v].own = {}
          /\ save'[v].todo = {} /\ Sent(save'[v].req) = {}
      BY <1>2, <2>1, NoCallTypes
    <3> QED BY <3>1 DEF SaveOK
  <2>2. CASE v # u
    <3>1. SaveOK(v) /\ save'[v] = save[v] BY <1>0, <1>2, <2>2
    <3>2. \A f \in save[v].own, w \in Saves \ {v} : f \notin Sent(save'[w].req)
      BY <1>2, <3>1 DEF SaveOK
    <3> QED BY <1>1, <3>1, <3>2 DEF SaveOK, Serving
  <2> QED BY <2>1, <2>2
<1>8. ASSUME NEW q \in Reads PROVE ReadOK(q)'
  <2>1. ReadOK(q) /\ read'[q] = read[q] BY <1>0, <1>1
  <2>2. \A f \in read[q].sure, v \in Saves : f \notin Sent(save'[v].req)
    BY <1>2, <2>1 DEF ReadOK
  <2> QED BY <1>1, <2>1, <2>2 DEF ReadOK, Serving
<1> QED BY <1>5, <1>6, <1>7, <1>8 DEF SettingsIInv

\* A step of one read.
LEMMA ReadFrame ==
  ASSUME SettingsIInv, NEW q \in Reads, NEW r \in ReadState,
         read' = [read EXCEPT ![q] = r], UNCHANGED <<store, active, save, agreed, pc>>,
         ReadOK(q)'
  PROVE  SettingsIInv'
<1>1. SettingsTypeOK' BY DEF SettingsIInv, SettingsTypeOK
<1>2. AgreedOK' BY DEF SettingsIInv, AgreedOK
<1>3. \A u \in Saves : SaveOK(u)' BY DEF SettingsIInv, SaveOK, Serving
<1>4. ASSUME NEW p \in Reads, p # q PROVE ReadOK(p)'
  <2>1. read'[p] = read[p] /\ ReadOK(p) BY <1>4 DEF SettingsIInv, SettingsTypeOK
  <2> QED BY <2>1 DEF ReadOK, Serving, Text
<1> QED BY <1>1, <1>2, <1>3, <1>4 DEF SettingsIInv

LEMMA AskKeeps ==
  ASSUME SettingsIInv, NEW q \in Reads, NEW i, Serving(i), Ask(q, i), UNCHANGED pc
  PROVE  SettingsIInv'
<1> DEFINE r == [NoRead EXCEPT !.pc = "active", !.by = i, !.sure = Fields \ UnderWay]
<1>1. /\ r.pc = "active" /\ r.by = i /\ r.sure = Fields \ UnderWay
      /\ r \in ReadState
  BY NoCallTypes DEF NoRead, ReadState, Serving
<1>2. read' = [read EXCEPT ![q] = r] /\ UNCHANGED <<store, active, save, agreed>>
  BY DEF Ask
<1> HIDE DEF r
<1>3. read'[q] = r BY <1>2 DEF SettingsIInv, SettingsTypeOK
<1>4. \A f \in r.sure, u \in Saves : f \notin Sent(save[u].req)
  BY <1>1 DEF UnderWay
<1>5. ReadOK(q)' BY <1>1, <1>2, <1>3, <1>4 DEF ReadOK, Serving
<1> QED BY <1>1, <1>2, <1>5, ReadFrame

LEMMA ReadStepKeeps ==
  ASSUME SettingsIInv, NEW q \in Reads, ReadStep(q), UNCHANGED pc
  PROVE  SettingsIInv'
<1>1. /\ read \in [Reads -> ReadState] /\ read[q] \in ReadState /\ ReadOK(q)
      /\ store \in [Fields -> Values \cup {Absent}]
  BY DEF SettingsIInv, SettingsTypeOK
<1>2. \A v \in Values \cup {Absent} : Text(v) \in Values BY DEF Text, Values
<1>3. CASE ReadActive(q)
  <2> DEFINE r == [read[q] EXCEPT !.pc = "plain"]
  <2>1. /\ r \in ReadState /\ r.pc = "plain" /\ r.by = read[q].by
        /\ r.sure = read[q].sure
    BY <1>1 DEF ReadState
  <2>2. /\ read' = [read EXCEPT ![q] = r] /\ read[q].pc = "active"
        /\ UNCHANGED <<store, active, save, agreed>>
    BY <1>3 DEF ReadActive
  <2> HIDE DEF r
  <2>3. ReadOK(q)' BY <1>1, <2>1, <2>2 DEF ReadOK, Serving
  <2> QED BY <2>1, <2>2, <2>3, ReadFrame
<1>4. CASE ReadPlain(q)
  <2> DEFINE g == [f \in Fields |-> IF f \in Plain THEN Text(store[f]) ELSE Empty]
             r == [read[q] EXCEPT !.pc = "secrets", !.todo = Secrets, !.got = g]
  <2>1. g \in [Fields -> Values] BY <1>1, <1>2 DEF Values
  <2>2. \A f \in Fields \ Secrets : g[f] = Text(store[f]) BY DEF Fields
  <2>3. /\ read' = [read EXCEPT ![q] = r] /\ read[q].pc = "plain"
        /\ UNCHANGED <<store, active, save, agreed>>
    BY <1>4 DEF ReadPlain
  <2> HIDE DEF g
  <2>4. /\ r \in ReadState /\ r.pc = "secrets" /\ r.by = read[q].by
        /\ r.sure = read[q].sure /\ r.todo = Secrets /\ r.got = g
        /\ r.sure \subseteq Fields
    BY <1>1, <2>1 DEF ReadState
  <2> HIDE DEF r
  <2>5. ReadOK(q)' BY <1>1, <2>2, <2>3, <2>4 DEF ReadOK, Serving, Text
  <2> QED BY <2>3, <2>4, <2>5, ReadFrame
<1>5. ASSUME NEW s \in Secrets, ReadSecret(q, s) PROVE SettingsIInv'
  <2>1. PICK failed \in BOOLEAN :
          read' = [read EXCEPT ![q] =
                     [read[q] EXCEPT !.todo = @ \ {s},
                        !.sure = IF failed THEN @ \ {s} ELSE @,
                        !.got = [@ EXCEPT ![s] = IF failed THEN Empty
                                                 ELSE Text(store[s])]]]
    BY <1>5 DEF ReadSecret
  <2>2. /\ read[q].pc = "secrets" /\ UNCHANGED <<store, active, save, agreed>>
    BY <1>5 DEF ReadSecret
  <2> DEFINE a == IF failed THEN read[q].sure \ {s} ELSE read[q].sure
             t == read[q].todo \ {s}
             g == [read[q].got EXCEPT ![s] = IF failed THEN Empty ELSE Text(store[s])]
             r == [read[q] EXCEPT !.todo = t, !.sure = a, !.got = g]
  <2>3. read' = [read EXCEPT ![q] = r] BY <2>1
  <2>4. /\ g \in [Fields -> Values] /\ t \in SUBSET Secrets /\ a \in SUBSET Fields
        /\ a \subseteq read[q].sure
    BY <1>1, <1>2 DEF ReadState, Values, Fields
  <2>5. ASSUME NEW f \in a, f \notin t PROVE g[f] = Text(store[f])
    <3>1. f \in read[q].sure /\ f \in Fields BY <2>4, <2>5
    <3>2. CASE f = s BY <1>1, <2>5, <3>1, <3>2 DEF ReadState
    <3>3. CASE f # s
      <4>1. g[f] = read[q].got[f] /\ f \notin read[q].todo
        BY <1>1, <2>5, <3>1, <3>3 DEF ReadState
      <4> QED BY <1>1, <2>2, <3>1, <4>1 DEF ReadOK
    <3> QED BY <3>2, <3>3
  <2> HIDE DEF a, t, g
  <2>6. /\ r \in ReadState /\ r.pc = "secrets" /\ r.by = read[q].by
        /\ r.sure = a /\ r.todo = t /\ r.got = g
    BY <1>1, <2>2, <2>4 DEF ReadState
  <2> HIDE DEF r
  <2>7. ReadOK(q)'
    <3>1. read'[q] = r BY <1>1, <2>3
    <3>2. \A f \in r.sure, u \in Saves : f \notin Sent(save'[u].req)
      BY <1>1, <2>2, <2>4, <2>6 DEF ReadOK
    <3>3. \A f \in r.sure : f \notin r.todo => r.got[f] = Text(store'[f])
      BY <2>2, <2>5, <2>6 DEF Text
    <3>4. Serving(read[q].by)' BY <1>1, <2>2, <2>6, <3>1 DEF ReadOK, Serving
    <3> QED BY <2>6, <3>1, <3>2, <3>3, <3>4 DEF ReadOK
  <2> QED BY <2>2, <2>3, <2>6, <2>7, ReadFrame
<1>6. CASE EndRead(q) \/ ReadFails(q)
  <2>1. /\ read' = [read EXCEPT ![q] = NoRead]
        /\ UNCHANGED <<store, active, save, agreed>>
    BY <1>6 DEF EndRead, ReadFails
  <2>2. read'[q] = NoRead BY <1>1, <2>1
  <2>3. ReadOK(q)' BY <2>2, NoCallTypes DEF ReadOK
  <2> QED BY <2>1, <2>3, ReadFrame, NoCallTypes
<1> QED BY <1>3, <1>4, <1>5, <1>6 DEF ReadStep

\* An instance that dies drops its calls; those of the others go on.
LEMMA DropCallsKeeps ==
  ASSUME SettingsIInv, StartTypeOK, NEW i \in Instances, DropCalls(i), Die(i)
  PROVE  SettingsIInv'
<1>1. \A j \in Instances : j # i => pc'[j] = pc[j] BY DEF StartTypeOK, Die, End, Goto
<1>2. /\ save \in [Saves -> SaveState] /\ read \in [Reads -> ReadState]
      /\ UNCHANGED <<store, active, agreed>>
  BY DEF SettingsIInv, SettingsTypeOK, DropCalls
<1>3. SettingsTypeOK' BY <1>2, NoCallTypes DEF SettingsIInv, SettingsTypeOK, DropCalls
<1>4. \A v \in Saves : Sent(save'[v].req) \subseteq Sent(save[v].req)
  <2>1. \A v \in Saves : save'[v] \in {save[v], NoSave} BY DEF DropCalls
  <2> QED BY <2>1, NoCallTypes
<1>5. AgreedOK' BY <1>2, <1>4 DEF SettingsIInv, AgreedOK
<1>6. \A u \in Saves : SaveOK(u)'
  <2> TAKE u \in Saves
  <2>1. SaveOK(u) BY DEF SettingsIInv
  <2>2. CASE save[u].by = i
    <3>1. save'[u] = NoSave BY <2>2 DEF DropCalls
    <3> QED BY <3>1, NoCallTypes DEF SaveOK
  <2>3. CASE save[u].by # i
    <3>1. save'[u] = save[u] BY <2>3 DEF DropCalls
    <3>2. save[u].pc = "storing" => Serving(save[u].by)'
      BY <1>1, <2>1, <2>3, <3>1 DEF SaveOK, Serving
    <3>3. \A f \in save[u].own, w \in Saves \ {u} : f \notin Sent(save'[w].req)
      BY <1>4, <2>1 DEF SaveOK
    <3> QED BY <1>2, <2>1, <3>1, <3>2, <3>3 DEF SaveOK
  <2> QED BY <2>2, <2>3
<1>7. \A q \in Reads : ReadOK(q)'
  <2> TAKE q \in Reads
  <2>1. ReadOK(q) BY DEF SettingsIInv
  <2>2. CASE read[q].by = i
    <3>1. read'[q] = NoRead BY <2>2 DEF DropCalls
    <3> QED BY <3>1, NoCallTypes DEF ReadOK
  <2>3. CASE read[q].by # i
    <3>1. read'[q] = read[q] BY <2>3 DEF DropCalls
    <3>2. read[q].pc # "idle" => Serving(read[q].by)'
      BY <1>1, <2>1, <2>3, <3>1 DEF ReadOK, Serving
    <3>3. \A f \in read[q].sure, v \in Saves : f \notin Sent(save'[v].req)
      BY <1>4, <2>1 DEF ReadOK
    <3> QED BY <1>2, <2>1, <3>1, <3>2, <3>3 DEF ReadOK, Text
  <2> QED BY <2>2, <2>3
<1> QED BY <1>3, <1>5, <1>6, <1>7 DEF SettingsIInv

-----------------------------------------------------------------------------
(* The theorems.                                                           *)

\* A call is answered by somebody.
LEMMA BusyHasServer ==
  ASSUME SettingsIInv
  PROVE  /\ \A u \in Saves : save[u].by # None => Serving(save[u].by)
         /\ \A q \in Reads : read[q].by # None => Serving(read[q].by)
<1>1. \A u \in Saves : save[u].pc \in {"idle", "storing"}
  BY DEF SettingsIInv, SettingsTypeOK, SaveState
<1> QED BY <1>1 DEF SettingsIInv, SaveOK, ReadOK

LEMMA ServerInitOK == ServerInit => ServerIInv
<1> SUFFICES ASSUME ServerInit PROVE ServerIInv OBVIOUS
<1> USE DEF ServerInit, StartInit, SettingsInit
<1>1. StartIInv
  <2> PICK k \in 0 .. Migrations : schema = 1 .. k /\ log = [n \in 1 .. k |-> n]
    OBVIOUS
  <2>1. /\ log \in Seq(1 .. Migrations) /\ Len(log) = k
        /\ \A n \in 1 .. k : log[n] = n
    BY StartAssumption
  <2>2. StartTypeOK
    <3>1. pc \in [Instances -> {"off", "refused", "dead"} \cup Acquiring \cup Holding]
      OBVIOUS
    <3>2. schema \subseteq 1 .. Migrations /\ version \in [Instances -> 0 .. Migrations]
      BY StartAssumption
    <3>3. /\ lock \in Instances \cup {None, NoPid} /\ opened \subseteq Instances
          /\ seen \in [Instances -> Instances \cup {None, NoPid}]
          /\ port \in Instances \cup {None} /\ overlapped \in BOOLEAN
      OBVIOUS
    <3> QED BY <2>1, <3>1, <3>2, <3>3 DEF StartTypeOK
  <2>3. OneHolder BY DEF OneHolder, Alive, Acquiring, Holding
  <2>4. AppliedOnce BY <2>1 DEF AppliedOnce
  <2>5. \A i \in Instances : PortOK(i) BY StartAssumption DEF PortOK
  <2> QED BY <2>2, <2>3, <2>4, <2>5 DEF StartIInv
<1>2. SettingsIInv
  <2>1. SettingsTypeOK
    <3>1. NoFields \in [Fields -> Values \cup {Absent, None}] BY NoCallTypes
    <3> QED BY <3>1, NoCallTypes DEF SettingsTypeOK
  <2>2. \A u \in Saves : SaveOK(u) BY NoCallTypes DEF SaveOK
  <2>3. \A q \in Reads : ReadOK(q) BY NoCallTypes DEF ReadOK
  <2>4. AgreedOK BY NoCallTypes DEF AgreedOK
  <2> QED BY <2>1, <2>2, <2>3, <2>4 DEF SettingsIInv
<1> QED BY <1>1, <1>2 DEF ServerIInv

LEMMA CallNextKeeps == ASSUME ServerIInv, CallNext PROVE ServerIInv'
<1> USE DEF ServerIInv
<1>1. UNCHANGED startVars BY DEF CallNext
<1>2. StartIInv'
  BY <1>1 DEF StartIInv, StartTypeOK, OneHolder, AppliedOnce, PortOK, Alive,
              startVars, lockVars, schemaVars
<1>3. UNCHANGED pc BY <1>1 DEF startVars
<1>4. port # None => Serving(port) BY DEF StartIInv, StartTypeOK, PortOK, Serving
<1>5. CASE port # None /\ \E u \in Saves : Save(u, port)
  BY <1>3, <1>4, <1>5, <1>2, SaveKeeps
<1>6. CASE port # None /\ \E q \in Reads : Ask(q, port)
  BY <1>3, <1>4, <1>6, <1>2, AskKeeps
<1>7. CASE \E u \in Saves : SaveStep(u)
  BY <1>2, <1>3, <1>7, StoreFieldKeeps, EndSaveKeeps DEF SaveStep
<1>8. CASE \E q \in Reads : ReadStep(q)
  BY <1>2, <1>3, <1>8, ReadStepKeeps
<1> QED BY <1>5, <1>6, <1>7, <1>8 DEF CallNext

LEMMA InstanceNextKeeps ==
  ASSUME ServerIInv, NEW i \in Instances, InstanceNext(i) PROVE ServerIInv'
<1> USE DEF ServerIInv
<1>1. pc \in [Instances -> {"off", "refused", "dead"} \cup Acquiring \cup Holding] /\ StartTypeOK
  BY DEF StartIInv, StartTypeOK
<1>2. CASE (TakeLock(i) \/ Prepare(i) \/ Stop(i)) /\ UNCHANGED settingsVars
  <2>1. StartIInv'
    BY <1>2, StartKeeps, RefuseKeeps, JudgeStaleKeeps, RemoveStaleKeeps, OpenLockKeeps,
       WritePidKeeps, ReadVersionKeeps, MigrateKeeps, ListenKeeps, StopKeeps
    DEF TakeLock, Prepare
  <2>2. \A j \in Instances : pc[j] \in At => pc'[j] \in At
    BY <1>1, <1>2 DEF TakeLock, Prepare, Start, Refuse, JudgeStale, RemoveStale, OpenLock,
       WritePid, ReadVersion, Migrate, Listen, Stop, Goto, End, At
  <2> QED BY <1>2, <2>1, <2>2, SettingsFrame
<1>3. CASE Drained(i) /\ Release(i) /\ UNCHANGED settingsVars
  <2>1. StartIInv' BY <1>3, ReleaseKeeps
  <2>2. \A j \in Instances : j # i => pc'[j] = pc[j]
    BY <1>1, <1>3 DEF Release, End, Goto
  <2> QED BY <1>3, <2>1, <2>2, SettingsFrame DEF Drained
<1>4. CASE Die(i) /\ DropCalls(i)
  BY <1>1, <1>4, DieKeeps, DropCallsKeeps
<1> QED BY <1>2, <1>3, <1>4 DEF InstanceNext

LEMMA ServerStutter == ASSUME ServerIInv, UNCHANGED serverVars PROVE ServerIInv'
<1> USE DEF ServerIInv, serverVars
<1>1. StartIInv'
  BY DEF StartIInv, StartTypeOK, OneHolder, AppliedOnce, PortOK, Alive,
         startVars, lockVars, schemaVars
<1>2. SettingsIInv' BY SettingsFrame DEF startVars, lockVars
<1> QED BY <1>1, <1>2

\* The inductive invariant of the composition: the lock, the migrations and the port
\* on one side, the calls that store and read the settings on the other.
THEOREM ServerInvariant == ServerSpec => []ServerIInv
<1>1. ServerIInv /\ [ServerNext]_serverVars => ServerIInv'
  BY CallNextKeeps, InstanceNextKeeps, ServerStutter DEF ServerNext
<1> QED BY <1>1, ServerInitOK, PTL DEF ServerSpec

\* Each migration is committed once and in order, and before anybody serves.
THEOREM MigrationsApplyOnce == ServerSpec => []AppliedOnce
<1>1. ServerIInv => AppliedOnce BY DEF ServerIInv, StartIInv
<1> QED BY <1>1, ServerInvariant, PTL

\* At most one instance listens or answers calls unless two took the lock together:
\* both would hold the lock, and its file names one.
THEOREM OneInstanceAnswers == ServerSpec => []OneAnswers
<1>1. ServerIInv => OneAnswers
  <2> SUFFICES ASSUME ServerIInv, ~overlapped PROVE \A i, j \in Working : i = j
    BY DEF OneAnswers
  <2>1. \A i \in Working : i \in Instances /\ pc[i] \in At
    BY BusyHasServer, StartAssumption
    DEF Working, ServerIInv, StartIInv, PortOK, Serving, At
  <2> QED BY <2>1 DEF ServerIInv, StartIInv, OneHolder, At, Holding
<1> QED BY <1>1, ServerInvariant, PTL

\* A field that is read undisturbed is what the last save of it sent, whichever other
\* fields saves store meanwhile.
THEOREM ReadersSeeLastSave == ServerSpec => []ReadIsLastSave
<1>1. ServerIInv => ReadIsLastSave
  <2> SUFFICES ASSUME ServerIInv, NEW q \in Reads, HasRead(q), NEW f \in read[q].sure,
                      agreed[f] # None
               PROVE  read[q].got[f] = Text(agreed[f])
    BY DEF ReadIsLastSave
  <2>1. read[q].got[f] = Text(store[f])
    BY DEF ServerIInv, SettingsIInv, ReadOK, HasRead
  <2>2. f \in Fields BY DEF ServerIInv, SettingsIInv, SettingsTypeOK, ReadState
  <2>3. agreed[f] = store[f] BY <2>2 DEF ServerIInv, SettingsIInv, AgreedOK
  <2> QED BY <2>1, <2>3
<1> QED BY <1>1, ServerInvariant, PTL

=============================================================================
