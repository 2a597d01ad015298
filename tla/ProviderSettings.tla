-------------------------- MODULE ProviderSettings --------------------------
(***************************************************************************)
(* The settings of the storage provider: ConfigService, which lists and    *)
(* updates them, and the resolver and factory that build a storage of them. *)
(*                                                                         *)
(* Plain fields are rows of the database, secret ones entries of the       *)
(* keychain: neither the fields of an update nor those of a read are taken *)
(* together.  A client sends the fields it likes, in any order; to the     *)
(* server the mask that stands for a stored secret in a list is a text     *)
(* like any other.  There is one provider.                                 *)
(***************************************************************************)
EXTENDS InstanceStart

CONSTANTS
  Plain, Secrets,   \* the fields of the provider
  Texts, Empty,     \* what is typed for a field, and the empty text
  Absent,           \* never stored, or left out of a request
  Saves,            \* the updates that may be under way together
  Reads             \* the lists and resolutions that may be

Fields   == Plain \cup Secrets
Values   == Texts \cup {Empty}
Requests == [Fields -> Values \cup {Absent}]
Sent(req) == {f \in Fields : req[f] # Absent}

ASSUME SettingsAssumption ==
  /\ Plain \cap Secrets = {}
  /\ Empty \notin Texts /\ Absent \notin Values
  /\ None \notin Values \cup {Absent}

VARIABLES
  store,    \* the database and the keychain
  active,   \* the provider is recorded as the active one
  save,     \* the calls of UpdateProviderConfig
  read,     \* the calls of ListProviders and Resolve
  agreed    \* history: what the last save of a field sent, unless it failed or
            \* another save of the field overlapped it

settingsVars == <<store, active, save, read, agreed>>

\* own and sure are history: the fields of a save that no other save under way
\* sends, and those of a read that none has sent since the read began.
NoFields == [f \in Fields |-> Absent]
NoTexts  == [f \in Fields |-> Empty]
NoSave == [pc |-> "idle", by |-> None, req |-> NoFields, todo |-> {}, own |-> {}]
NoRead == [pc |-> "idle", by |-> None, got |-> NoTexts, todo |-> {}, sure |-> {}]

SettingsInit == /\ store = NoFields
                /\ active = FALSE
                /\ save = [u \in Saves |-> NoSave]
                /\ read = [q \in Reads |-> NoRead]
                /\ agreed = NoFields

\* A field that was never stored reads as the empty text.
Text(v) == IF v = Absent THEN Empty ELSE v

-----------------------------------------------------------------------------
(* UpdateProviderConfig.                                                   *)

\* The fields of the saves under way.
UnderWay == UNION {Sent(save[w].req) : w \in Saves}

\* A request with any of the fields, also with none.
Save(u, i) ==
  /\ save[u].pc = "idle"
  /\ \E req \in Requests :
       /\ save' = [v \in Saves |-> IF v = u
                     THEN [pc |-> "storing", by |-> i, req |-> req,
                           todo |-> Sent(req), own |-> Sent(req) \ UnderWay]
                     ELSE [save[v] EXCEPT !.own = @ \ Sent(req)]]
       /\ read' = [q \in Reads |-> [read[q] EXCEPT !.sure = @ \ Sent(req)]]
       /\ agreed' = [f \in Fields |-> IF f \in Sent(req) THEN None ELSE agreed[f]]
  /\ UNCHANGED <<store, active>>

\* Mistake: a field that is empty is passed over.
StoreUnlessEmpty(u, f) ==
  /\ save[u].pc = "storing" /\ f \in save[u].todo
  /\ save' = [save EXCEPT ![u].todo = @ \ {f}]
  /\ store' = IF save[u].req[f] = Empty /\ store[f] # Absent THEN store
              ELSE [store EXCEPT ![f] = save[u].req[f]]
  /\ UNCHANGED <<active, read, agreed>>

\* Secret or plain, in the order of the request.
StoreField(u, f) ==
  /\ save[u].pc = "storing" /\ f \in save[u].todo
  /\ save' = [save EXCEPT ![u].todo = @ \ {f}]
  /\ store' = [store EXCEPT ![f] = save[u].req[f]]
  /\ UNCHANGED <<active, read, agreed>>

\* SetActiveProvider comes last, if the request asks for it.
EndSave(u) ==
  /\ save[u].pc = "storing" /\ save[u].todo = {}
  /\ active' \in {active, TRUE}
  /\ agreed' = [f \in Fields |-> IF f \in save[u].own THEN save[u].req[f]
                                  ELSE agreed[f]]
  /\ save' = [save EXCEPT ![u] = NoSave]
  /\ UNCHANGED <<store, read>>

\* The keychain or the database fails, or the call's context ends.  Nothing is
\* taken back.
SaveFails(u) ==
  /\ save[u].pc = "storing"
  /\ save' = [save EXCEPT ![u] = NoSave]
  /\ UNCHANGED <<store, active, read, agreed>>

-----------------------------------------------------------------------------
(* ListProviders and Resolve, which read in the same order.                *)

\* The page is opened, a save has ended, or an upload needs its storage.
Ask(q, i) ==
  /\ read[q].pc = "idle"
  /\ read' = [read EXCEPT ![q] =
                [NoRead EXCEPT !.pc = "active", !.by = i, !.sure = Fields \ UnderWay]]
  /\ UNCHANGED <<store, active, save, agreed>>

\* The active provider: a list goes on without one.
ReadActive(q) ==
  /\ read[q].pc = "active"
  /\ read' = [read EXCEPT ![q].pc = "plain"]
  /\ UNCHANGED <<store, active, save, agreed>>

ReadPlain(q) ==
  /\ read[q].pc = "plain"
  /\ read' = [read EXCEPT ![q] =
                [read[q] EXCEPT !.pc = "secrets", !.todo = Secrets,
                   !.got = [f \in Fields |-> IF f \in Plain THEN Text(store[f])
                                             ELSE Empty]]]
  /\ UNCHANGED <<store, active, save, agreed>>

\* An error of the keychain is not looked at: the secret is taken for empty.
ReadSecret(q, s) ==
  /\ read[q].pc = "secrets" /\ s \in read[q].todo
  /\ \E failed \in BOOLEAN :
       read' = [read EXCEPT ![q] =
                  [read[q] EXCEPT !.todo = @ \ {s},
                     !.sure = IF failed THEN @ \ {s} ELSE @,
                     !.got = [@ EXCEPT ![s] = IF failed THEN Empty
                                              ELSE Text(store[s])]]]
  /\ UNCHANGED <<store, active, save, agreed>>

HasRead(q) == read[q].pc = "secrets" /\ read[q].todo = {}

\* The list is answered, secrets masked, or the storage is handed over.
EndRead(q) ==
  /\ HasRead(q)
  /\ read' = [read EXCEPT ![q] = NoRead]
  /\ UNCHANGED <<store, active, save, agreed>>

\* The database fails, or an upload has no active provider (ErrNoActiveProvider).
ReadFails(q) ==
  /\ read[q].pc \in {"active", "plain"}
  /\ read' = [read EXCEPT ![q] = NoRead]
  /\ UNCHANGED <<store, active, save, agreed>>

-----------------------------------------------------------------------------
SaveStep(u) == \/ \E f \in Fields : StoreField(u, f)
               \/ EndSave(u) \/ SaveFails(u)

ReadStep(q) == \/ ReadActive(q) \/ ReadPlain(q) \/ EndRead(q) \/ ReadFails(q)
               \/ \E s \in Secrets : ReadSecret(q, s)

\* An instance that dies takes its calls with it.
DropCalls(i) ==
  /\ save' = [u \in Saves |-> IF save[u].by = i THEN NoSave ELSE save[u]]
  /\ read' = [q \in Reads |-> IF read[q].by = i THEN NoRead ELSE read[q]]
  /\ UNCHANGED <<store, active, agreed>>

=============================================================================
