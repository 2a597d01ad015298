---------------------------- MODULE ProcessPages ----------------------------
(***************************************************************************)
(* The list of processes in pages: ProcessRepository.List with its cursors, *)
(* and the list that ProcessListBloc builds of its answers while processes *)
(* are inserted and other requests are under way.                          *)
(*                                                                         *)
(* A process is named by its place in the order of (created_at, id), the   *)
(* newest highest.  Its creation time is taken before it is inserted, so   *)
(* one may be inserted below others.  No process is ever deleted.  A page  *)
(* is the set of its processes: it is sorted by the database, and          *)
(* PagesContinue says that a page belongs below the list it is appended to. *)
(***************************************************************************)
EXTENDS Integers, FiniteSets

CONSTANTS
  Places,     \* the places of processes, above 0
  PageSize,   \* the limit of a request
  Calls       \* the requests that may be under way together

ASSUME PagesAssumption == /\ Places \subseteq Nat \ {0} /\ IsFiniteSet(Places)
                          /\ PageSize \in Nat \ {0}

VARIABLES
  table,   \* the processes in the database
  list,    \* the state of ProcessListBloc
  call     \* its requests, with the state each has captured

pagesVars == <<table, list, call>>

NoCursor == 0
Cursors  == Places \cup {NoCursor}

\* The bloc's state; "from" is a history variable, the table when the first page
\* of the list was read.
ListState == [kind : {"initial", "loading", "loaded", "error"}, shown : SUBSET Places,
              cursor : Cursors, more : BOOLEAN, from : SUBSET Places]
Empty(kind) == [kind |-> kind, shown |-> {}, cursor |-> NoCursor, more |-> FALSE,
                from |-> {}]

CallState == [pc : {"idle", "sent", "answered"}, next : BOOLEAN, base : ListState,
              page : SUBSET Places, cursor : Cursors, from : SUBSET Places]
IdleCall == [pc |-> "idle", next |-> FALSE, base |-> Empty("initial"), page |-> {},
             cursor |-> NoCursor, from |-> {}]

PagesInit == /\ table \in SUBSET Places
             /\ list = Empty("initial")
             /\ call = [c \in Calls |-> IdleCall]

-----------------------------------------------------------------------------
(* ProcessRepository.List.                                                 *)

\* Mistake: processes at the cursor are listed again.
BelowOrAt(cursor) == {k \in table : cursor = NoCursor \/ k <= cursor}

\* The rows that follow a cursor; the empty cursor is before all of them.
Below(cursor) == {k \in table : cursor = NoCursor \/ k < cursor}

\* ORDER BY created_at DESC, id DESC LIMIT n
Newest(S, n) == {k \in S : Cardinality({j \in S : j > k}) < n}

Oldest(S) == CHOOSE k \in S : \A j \in S : k <= j

\* Mistake: the cursor of the next page is that of the row which was left out.
CursorOfRowLeftOut(fetched) ==
  IF Cardinality(fetched) > PageSize THEN Oldest(fetched) ELSE NoCursor

\* One row more than asked for is fetched, to see whether there is another page.
NextCursor(fetched) ==
  IF Cardinality(fetched) > PageSize THEN Oldest(Newest(fetched, PageSize))
  ELSE NoCursor

-----------------------------------------------------------------------------
Insert(k) == /\ k \in Places \ table
             /\ table' = table \cup {k}
             /\ UNCHANGED <<list, call>>

Send(c, next) ==
  /\ call[c].pc = "idle"
  /\ call' = [call EXCEPT ![c] = [IdleCall EXCEPT !.pc = "sent", !.next = next,
                                  !.base = IF next THEN list ELSE Empty("initial")]]
  /\ UNCHANGED table

RequestLoad(c)    == Send(c, FALSE) /\ list' = Empty("loading")
RequestRefresh(c) == Send(c, FALSE) /\ UNCHANGED list
RequestNext(c)    == /\ list.kind = "loaded" /\ list.cursor # NoCursor /\ ~list.more
                     /\ Send(c, TRUE)
                     /\ list' = [list EXCEPT !.more = TRUE]

\* The database answers.  A next page continues the list that was captured.
Serve(c) ==
  /\ call[c].pc = "sent"
  /\ LET fetched == Newest(Below(call[c].base.cursor), PageSize + 1) IN
     call' = [call EXCEPT ![c].pc = "answered",
                          ![c].page = Newest(fetched, PageSize),
                          ![c].cursor = NextCursor(fetched),
                          ![c].from = IF call[c].next THEN call[c].base.from ELSE table]
  /\ UNCHANGED <<table, list>>

\* Mistake: the page is appended to the list as it is now.
ShowOnCurrent(c) ==
  /\ call[c].pc = "answered"
  /\ list' = [kind |-> "loaded", cursor |-> call[c].cursor, more |-> FALSE,
              from |-> call[c].from,
              shown |-> IF call[c].next THEN list.shown \cup call[c].page
                        ELSE call[c].page]
  /\ call' = [call EXCEPT ![c] = IdleCall]
  /\ UNCHANGED table

\* The bloc shows the answer: the captured list with its next page, or a new list.
Answer(c) == [kind |-> "loaded", cursor |-> call[c].cursor, more |-> FALSE,
              from |-> call[c].from, shown |-> call[c].base.shown \cup call[c].page]
Show(c) ==
  /\ call[c].pc = "answered"
  /\ list' = Answer(c)
  /\ call' = [call EXCEPT ![c] = IdleCall]
  /\ UNCHANGED table

\* Mistake: a failed request for the next page emits no state.
FailQuietly(c) ==
  /\ call[c].pc = "sent"
  /\ list' = IF call[c].next THEN list ELSE Empty("error")
  /\ call' = [call EXCEPT ![c] = IdleCall]
  /\ UNCHANGED table

\* The request fails: the captured list is shown again, or an error.
Fail(c) ==
  /\ call[c].pc = "sent"
  /\ list' = IF call[c].next THEN call[c].base ELSE Empty("error")
  /\ call' = [call EXCEPT ![c] = IdleCall]
  /\ UNCHANGED table

\* The user, who loads the list, refreshes it and asks for more of it, and
\* UploadBloc, which refreshes it when a process has changed.
User(c) == RequestLoad(c) \/ RequestRefresh(c) \/ RequestNext(c)

StepCall(c) == Serve(c) \/ Show(c) \/ Fail(c)

PagesNext == \/ \E k \in Places : Insert(k)
             \/ \E c \in Calls : User(c) \/ StepCall(c)

PagesSpec == PagesInit /\ [][PagesNext]_pagesVars

\* A request is answered or fails, and its handler in the bloc goes on.
FairPagesSpec == PagesSpec /\ \A c \in Calls : WF_pagesVars(StepCall(c))

-----------------------------------------------------------------------------
PagesTypeOK == /\ table \subseteq Places
               /\ list \in ListState
               /\ call \in [Calls -> CallState]

\* A list that is shown, or was captured by a request, starts at its newest
\* process and leaves out none before its cursor that was there when its first
\* page was read, whatever was inserted since.
Unbroken(l) ==
  /\ l.shown \subseteq table /\ l.from \subseteq table
  /\ \A k \in l.from : l.cursor = NoCursor \/ k >= l.cursor => k \in l.shown
  /\ l.cursor # NoCursor => \A k \in l.shown : k >= l.cursor

\* No process is skipped: cursors, late insertions, overlapping requests and
\* answers in any order (List's keyset, the state captured before the await).
NoGap == list.kind = "loaded" => Unbroken(list)

\* No process is shown twice or out of order: a page that arrives lies below the
\* whole list that it will be appended to.
PagesContinue ==
  \A c \in Calls : call[c].pc = "answered" =>
    \A k \in call[c].page, j \in call[c].base.shown : k < j

\* The list does not stay in a state of loading, of the list or of its next page
\* (a handler of the bloc emits a state whatever its request comes to).
LoadingEnds == (list.kind = "loading" \/ list.more)
                 ~> (list.kind # "loading" /\ ~list.more)

\* The inductive invariant behind both.
CallOK(c) ==
  /\ Unbroken(call[c].base)
  /\ call[c].next \/ call[c].base = Empty("initial")
  /\ call[c].next /\ call[c].pc # "idle" => call[c].base.cursor # NoCursor
  /\ call[c].pc = "answered" => Unbroken(Answer(c))

PagesIInv == /\ PagesTypeOK /\ PagesContinue
             /\ Unbroken(list)
             /\ \A c \in Calls : CallOK(c)

=============================================================================
