------------------------- MODULE ProcessPagesProofs -------------------------
(***************************************************************************)
(* Proofs about ProcessPages, for every set of processes, page size and    *)
(* number of requests: what the newest rows of a set are, and from it that *)
(* pages continue each other and that no process is skipped.               *)
(***************************************************************************)
EXTENDS ProcessPages, FiniteSetTheorems, WellFoundedInduction, TLAPS

LEMMA Least ==
  ASSUME NEW S \in SUBSET Nat, S # {}
  PROVE  \E m \in S : \A k \in S : m <= k
<1> DEFINE R == OpToRel(<, Nat)
<1>1. PICK m \in S : \A k \in S : ~(<<k, m>> \in R)
  <2>1. IsWellFoundedOn(R, Nat)
    BY NatLessThanWellFounded
  <2> HIDE DEF R
  <2>2. QED
    BY <2>1, WFMin
<1>2. \A k \in S : ~(k < m)
  BY <1>1 DEF OpToRel
<1>3. QED
  BY <1>2

\* The rows above another, as Newest counts them.
Above(S, k) == {j \in S : j > k}

LEMMA AboveFacts ==
  ASSUME NEW S \in SUBSET Nat, IsFiniteSet(S), NEW k \in S
  PROVE  /\ IsFiniteSet(Above(S, k)) /\ Cardinality(Above(S, k)) \in Nat
         /\ \A j \in S : j > k => Cardinality(Above(S, j)) < Cardinality(Above(S, k))
<1>1. ASSUME NEW i \in S
      PROVE  IsFiniteSet(Above(S, i)) /\ Cardinality(Above(S, i)) \in Nat
  <2>1. Above(S, i) \in SUBSET S
    BY DEF Above
  <2>2. QED
    BY <2>1, FS_Subset, FS_CardinalityType
<1>2. ASSUME NEW j \in S, j > k
      PROVE  Cardinality(Above(S, j)) < Cardinality(Above(S, k))
  <2>1. /\ Above(S, j) \in SUBSET Above(S, k)
        /\ j \in Above(S, k) /\ j \notin Above(S, j)
    <3>1. j \in Nat /\ k \in Nat /\ ~(j > j)
      OBVIOUS
    <3>2. ASSUME NEW i \in S, i > j PROVE i > k
      <4>1. i \in Nat
        OBVIOUS
      <4>2. QED
        BY <1>2, <3>1, <3>2, <4>1
    <3>3. QED
      BY <1>2, <3>1, <3>2 DEF Above
  <2>2. /\ Cardinality(Above(S, j)) <= Cardinality(Above(S, k))
        /\ Cardinality(Above(S, j)) # Cardinality(Above(S, k))
    <3>1. IsFiniteSet(Above(S, k)) /\ Above(S, k) # Above(S, j)
      BY <1>1, <2>1
    <3>2. PICK T \in SUBSET Above(S, k) : T = Above(S, j)
      BY <2>1
    <3>3. /\ Cardinality(T) <= Cardinality(Above(S, k))
          /\ Cardinality(Above(S, k)) = Cardinality(T) => Above(S, k) = T
      BY <3>1, FS_Subset
    <3>4. QED
      BY <3>1, <3>2, <3>3
  <2>3. /\ Cardinality(Above(S, j)) \in Nat /\ Cardinality(Above(S, k)) \in Nat
    BY <1>1
  <2>4. QED
    BY <2>2, <2>3
<1>3. QED
  BY <1>1, <1>2

\* A finite set of places has a greatest one: the one with fewest above it.
LEMMA Greatest ==
  ASSUME NEW S \in SUBSET Nat, IsFiniteSet(S), S # {}
  PROVE  \E m \in S : Above(S, m) = {}
<1> DEFINE C == {Cardinality(Above(S, k)) : k \in S}
<1>1. C \in SUBSET Nat /\ C # {}
  BY AboveFacts
<1>2. PICK c \in C : \A d \in C : c <= d
  <2> HIDE DEF C
  <2>1. QED
    BY <1>1, Least
<1>3. PICK m \in S : c = Cardinality(Above(S, m))
  BY <1>2
<1>4. ASSUME NEW j \in Above(S, m) PROVE FALSE
  <2>1. j \in S /\ j > m
    BY DEF Above
  <2>2. Cardinality(Above(S, j)) < c /\ Cardinality(Above(S, j)) \in C
    BY <2>1, <1>3, AboveFacts
  <2>3. c <= Cardinality(Above(S, j))
    BY <2>2, <1>2
  <2>4. Cardinality(Above(S, j)) \in Nat /\ c \in Nat
    BY <2>1, <1>3, AboveFacts
  <2>5. QED
    BY <2>2, <2>3, <2>4
<1>5. QED
  BY <1>4

\* ORDER BY ... DESC LIMIT n: with a row, every row above it is returned; of a
\* set with rows there is one; and less than n rows are all of them.
LEMMA NewestFacts ==
  ASSUME NEW S \in SUBSET Nat, IsFiniteSet(S), NEW n \in Nat \ {0}
  PROVE  /\ Newest(S, n) \in SUBSET S /\ IsFiniteSet(Newest(S, n))
         /\ \A k \in Newest(S, n), j \in S : j > k => j \in Newest(S, n)
         /\ S # {} => Newest(S, n) # {}
         /\ Cardinality(Newest(S, n)) < n => Newest(S, n) = S
         /\ Cardinality(S) <= n => Newest(S, n) = S
<1> DEFINE N == Newest(S, n)
<1>1. N = {k \in S : Cardinality(Above(S, k)) < n}
  BY DEF Newest, Above
<1> HIDE DEF N
<1>2. N \in SUBSET S /\ IsFiniteSet(N) /\ Cardinality(N) \in Nat /\ Cardinality(S) \in Nat
  BY <1>1, FS_Subset, FS_CardinalityType
<1>3. ASSUME NEW k \in N, NEW j \in S, j > k PROVE j \in N
  <2>1. Cardinality(Above(S, j)) < Cardinality(Above(S, k))
    BY <1>1, <1>3, AboveFacts
  <2>2. Cardinality(Above(S, k)) \in Nat /\ Cardinality(Above(S, j)) \in Nat
    BY <1>1, AboveFacts
  <2>3. QED
    BY <1>1, <2>1, <2>2
<1>4. ASSUME S # {} PROVE N # {}
  BY <1>1, <1>4, Greatest, FS_EmptySet
<1>5. ASSUME Cardinality(N) < n PROVE N = S
  <2> SUFFICES ASSUME N # S PROVE FALSE
    OBVIOUS
  <2>1. /\ S \ N \in SUBSET Nat /\ S \ N # {} /\ IsFiniteSet(S \ N)
    BY <1>2, FS_Subset
  <2>2. PICK m \in S \ N : Above(S \ N, m) = {}
    BY <2>1, Greatest
  <2>3. Above(S, m) \in SUBSET N
    BY <2>2 DEF Above
  <2>4. Cardinality(Above(S, m)) <= Cardinality(N) /\ Cardinality(Above(S, m)) \in Nat
    BY <2>3, <1>2, FS_Subset, FS_CardinalityType
  <2>5. m \in N
    BY <1>1, <1>2, <1>5, <2>4
  <2>6. QED
    BY <2>5
<1>6. ASSUME Cardinality(S) <= n PROVE N = S
  <2>1. ASSUME NEW k \in S PROVE Cardinality(Above(S, k)) < n
    <3>1. Above(S, k) \in SUBSET S /\ k \notin Above(S, k)
      BY DEF Above
    <3>2. /\ Cardinality(Above(S, k)) <= Cardinality(S)
          /\ Cardinality(Above(S, k)) # Cardinality(S)
          /\ Cardinality(Above(S, k)) \in Nat
      BY <3>1, FS_Subset, FS_CardinalityType
    <3>3. QED
      BY <3>2, <1>2, <1>6
  <2>2. QED
    BY <1>1, <2>1
<1>7. QED
  BY <1>2, <1>3, <1>4, <1>5, <1>6 DEF N

\* What a request finds below its cursor: a page, the newest of the rows there,
\* and a next cursor, the oldest of the page unless nothing is left below it.
LEMMA PageFacts ==
  ASSUME PagesIInv, NEW cursor \in Cursors,
         NEW fetched, fetched = Newest(Below(cursor), PageSize + 1),
         NEW page, page = Newest(fetched, PageSize),
         NEW next, next = NextCursor(fetched)
  PROVE  /\ page \in SUBSET table /\ next \in Cursors
         /\ \A k \in page : /\ cursor # NoCursor => k < cursor
                            /\ next # NoCursor => k >= next
         /\ next # NoCursor => next \in page
         /\ \A k \in Below(cursor) : next = NoCursor \/ k >= next => k \in page
<1> DEFINE B == Below(cursor)
<1>1. /\ B \in SUBSET table /\ table \in SUBSET Places /\ B \in SUBSET Nat
      /\ IsFiniteSet(B) /\ 0 \notin Places
  <2>1. B \in SUBSET table /\ table \in SUBSET Places
    BY DEF PagesIInv, PagesTypeOK, Below
  <2>2. QED
    BY <2>1, PagesAssumption, FS_Subset
<1>2. PageSize \in Nat \ {0} /\ PageSize + 1 \in Nat \ {0}
  BY PagesAssumption
<1>3. /\ fetched \in SUBSET B /\ IsFiniteSet(fetched)
      /\ \A k \in fetched, j \in B : j > k => j \in fetched
      /\ Cardinality(fetched) < PageSize + 1 => fetched = B
  <2> HIDE DEF B
  <2>1. QED
    BY <1>1, <1>2, NewestFacts DEF B
<1>4. /\ page \in SUBSET fetched
      /\ \A k \in page, j \in fetched : j > k => j \in page
      /\ fetched # {} => page # {}
      /\ Cardinality(fetched) <= PageSize => page = fetched
  BY <1>1, <1>2, <1>3, NewestFacts
<1>5. Cardinality(fetched) \in Nat
  BY <1>3, FS_CardinalityType
<1>6. \A k \in page : cursor # NoCursor => k < cursor
  BY <1>3, <1>4 DEF Below
<1>7. CASE Cardinality(fetched) > PageSize
  <2>1. page # {}
    BY <1>2, <1>3, <1>4, <1>5, <1>7, FS_EmptySet
  <2>2. next = Oldest(page)
    BY <1>7 DEF NextCursor
  <2>3. next \in page /\ \A k \in page : next <= k
    <3>1. page \in SUBSET Nat
      BY <1>1, <1>3, <1>4
    <3>2. \E m \in page : \A k \in page : m <= k
      BY <2>1, <3>1, Least
    <3>3. QED
      BY <2>2, <3>2 DEF Oldest
  <2>4. next \in Places /\ next # NoCursor
    BY <2>3, <1>1, <1>3, <1>4 DEF NoCursor
  <2>5. ASSUME NEW k \in B, k >= next PROVE k \in page
    <3>1. k = next \/ k > next
      BY <2>4, <2>5, <1>1, PagesAssumption
    <3>2. QED
      BY <3>1, <2>3, <1>3, <1>4
  <2>6. QED
    BY <2>3, <2>4, <2>5, <1>1, <1>3, <1>4, <1>6, PagesAssumption DEF Cursors
<1>8. CASE ~(Cardinality(fetched) > PageSize)
  <2>1. next = NoCursor /\ page = fetched /\ fetched = B
    BY <1>2, <1>3, <1>4, <1>5, <1>8 DEF NextCursor
  <2>2. QED
    BY <2>1, <1>1, <1>6 DEF Cursors
<1>9. QED
  BY <1>7, <1>8

LEMMA InitPages == PagesInit => PagesIInv
<1> SUFFICES ASSUME PagesInit PROVE PagesIInv
  OBVIOUS
<1>1. /\ table \in SUBSET Places /\ list = Empty("initial")
      /\ call = [c \in Calls |-> IdleCall]
  BY DEF PagesInit
<1>2. /\ Empty("initial") \in ListState /\ Empty("initial").shown = {}
      /\ Empty("initial").from = {} /\ Empty("initial").cursor = NoCursor
  BY DEF Empty, ListState, Cursors
<1>3. Unbroken(Empty("initial"))
  BY <1>2 DEF Unbroken
<1>4. /\ IdleCall.base = Empty("initial") /\ IdleCall.pc = "idle" /\ ~IdleCall.next
      /\ IdleCall \in CallState
  BY <1>2 DEF IdleCall, CallState, Cursors
<1>5. PagesTypeOK /\ PagesContinue
  BY <1>1, <1>2, <1>4 DEF PagesTypeOK, PagesContinue
<1>6. \A c \in Calls : CallOK(c)
  BY <1>1, <1>3, <1>4 DEF CallOK
<1>7. QED
  BY <1>1, <1>3, <1>5, <1>6 DEF PagesIInv

\* The table only grows under the lists.
LEMMA InsertPages ==
  ASSUME PagesIInv, NEW k \in Places, Insert(k)
  PROVE  PagesIInv'
<1>1. UNCHANGED <<list, call>> /\ table \in SUBSET table' /\ table' \in SUBSET Places
  BY DEF Insert, PagesIInv, PagesTypeOK
<1>2. ASSUME NEW l, Unbroken(l) PROVE Unbroken(l)'
  BY <1>1, <1>2 DEF Unbroken
<1>3. PagesTypeOK' /\ PagesContinue'
  BY <1>1 DEF PagesIInv, PagesTypeOK, PagesContinue
<1>4. Unbroken(list)'
  BY <1>1 DEF PagesIInv, Unbroken
<1>5. ASSUME NEW c \in Calls PROVE CallOK(c)'
  <2>1. CallOK(c) /\ Answer(c)' = Answer(c) /\ call'[c] = call[c]
    BY <1>1 DEF PagesIInv, Answer
  <2>2. Unbroken(call[c].base)'
    BY <2>1, <1>1 DEF CallOK, Unbroken
  <2>3. (call[c].pc = "answered" => Unbroken(Answer(c)))'
    BY <2>1, <1>1 DEF CallOK, Unbroken
  <2>4. QED
    BY <2>1, <2>2, <2>3 DEF CallOK
<1>6. QED
  BY <1>3, <1>4, <1>5 DEF PagesIInv

\* What a step of one request establishes: that request and the list are right,
\* and the others are untouched.
Turn(c, l, q) == /\ table' = table /\ list' = l /\ l \in ListState /\ Unbroken(l)
                 /\ q \in CallState /\ call' = [call EXCEPT ![c] = q]
                 /\ Unbroken(q.base)
                 /\ q.next \/ q.base = Empty("initial")
                 /\ q.next /\ q.pc # "idle" => q.base.cursor # NoCursor
                 /\ q.pc = "answered" =>
                      /\ Unbroken([kind |-> "loaded", cursor |-> q.cursor, more |-> FALSE,
                                   from |-> q.from, shown |-> q.base.shown \cup q.page])
                      /\ \A k \in q.page, j \in q.base.shown : k < j

LEMMA TurnPages ==
  ASSUME PagesIInv, NEW c \in Calls, NEW l, NEW q, Turn(c, l, q)
  PROVE  PagesIInv'
<1>1. \A d \in Calls : call'[d] = IF d = c THEN q ELSE call[d]
  BY DEF PagesIInv, PagesTypeOK, Turn
<1>2. PagesTypeOK' /\ PagesContinue'
  <2>1. PagesTypeOK'
    BY DEF PagesIInv, PagesTypeOK, Turn
  <2>2. PagesContinue'
    BY <1>1 DEF PagesIInv, PagesContinue, Turn
  <2>3. QED
    BY <2>1, <2>2
<1>3. Unbroken(list)'
  BY DEF Turn, Unbroken
<1>4. ASSUME NEW d \in Calls PROVE CallOK(d)'
  <2>1. CASE d = c
    <3>1. call'[d] = q /\ table' = table
      BY <2>1, <1>1 DEF Turn
    <3>2. Unbroken(call[d].base)'
      BY <3>1 DEF Turn, Unbroken
    <3>3. ASSUME q.pc = "answered" PROVE Unbroken(Answer(d))'
      BY <3>1, <3>3 DEF Turn, Unbroken, Answer
    <3>4. QED
      BY <3>1, <3>2, <3>3 DEF Turn, CallOK
  <2>2. CASE d # c
    <3>1. call'[d] = call[d] /\ table' = table /\ CallOK(d)
      BY <2>2, <1>1 DEF Turn, PagesIInv
    <3>2. Unbroken(call[d].base)'
      BY <3>1 DEF CallOK, Unbroken
    <3>3. ASSUME call[d].pc = "answered" PROVE Unbroken(Answer(d))'
      BY <3>1, <3>3 DEF CallOK, Unbroken, Answer
    <3>4. QED
      BY <3>1, <3>2, <3>3 DEF CallOK
  <2>3. QED
    BY <2>1, <2>2
<1>5. QED
  BY <1>2, <1>3, <1>4 DEF PagesIInv

LEMMA EmptyFacts ==
  ASSUME NEW kind \in {"initial", "loading", "loaded", "error"}
  PROVE  /\ Empty(kind) \in ListState /\ Empty(kind).shown = {}
         /\ Empty(kind).cursor = NoCursor /\ Unbroken(Empty(kind))
         /\ IdleCall \in CallState /\ IdleCall.base = Empty("initial")
         /\ ~IdleCall.next /\ IdleCall.pc = "idle" /\ Unbroken(IdleCall.base)
<1>1. \A k \in {"initial", "loading", "loaded", "error"} :
         /\ Empty(k) \in ListState /\ Empty(k).shown = {} /\ Empty(k).from = {}
         /\ Empty(k).cursor = NoCursor
  BY DEF Empty, ListState, Cursors
<1>2. \A k \in {"initial", "loading", "loaded", "error"} : Unbroken(Empty(k))
  BY <1>1 DEF Unbroken
<1>3. /\ IdleCall.base = Empty("initial") /\ IdleCall.pc = "idle" /\ ~IdleCall.next
      /\ IdleCall \in CallState
  BY <1>1 DEF IdleCall, CallState, Cursors
<1>4. QED
  BY <1>1, <1>2, <1>3

\* The user's requests.
LEMMA UserPages ==
  ASSUME PagesIInv, NEW c \in Calls, User(c)
  PROVE  PagesIInv'
<1>1. list \in ListState /\ Unbroken(list)
  BY DEF PagesIInv, PagesTypeOK
<1>2. ASSUME NEW next \in BOOLEAN, Send(c, next), NEW l \in ListState, list' = l,
             Unbroken(l), next => list.cursor # NoCursor
      PROVE  PagesIInv'
  <2> DEFINE base == IF next THEN list ELSE Empty("initial")
             q == [IdleCall EXCEPT !.pc = "sent", !.next = next, !.base = base]
  <2>1. base \in ListState /\ Unbroken(base)
    BY <1>1, EmptyFacts
  <2>2. /\ q \in CallState /\ q.pc = "sent" /\ q.next = next /\ q.base = base
    BY <2>1, EmptyFacts DEF CallState
  <2>3. table' = table /\ call' = [call EXCEPT ![c] = q]
    BY <1>2 DEF Send
  <2> HIDE DEF q
  <2>4. Turn(c, l, q)
    BY <1>2, <2>1, <2>2, <2>3 DEF Turn
  <2>5. QED
    BY <2>4, TurnPages
<1>3. CASE RequestLoad(c)
  BY <1>2, <1>3, EmptyFacts DEF RequestLoad
<1>4. CASE RequestRefresh(c)
  BY <1>1, <1>2, <1>4 DEF RequestRefresh
<1>5. CASE RequestNext(c)
  <2> DEFINE l == [list EXCEPT !.more = TRUE]
  <2>1. /\ l \in ListState /\ l.shown = list.shown /\ l.from = list.from
        /\ l.cursor = list.cursor
    BY <1>1 DEF ListState
  <2>2. Unbroken(l)
    BY <1>1, <2>1 DEF Unbroken
  <2>3. list' = l /\ Send(c, TRUE) /\ list.cursor # NoCursor
    BY <1>5 DEF RequestNext
  <2> HIDE DEF l
  <2>4. QED
    BY <1>2, <2>1, <2>2, <2>3
<1>6. QED
  BY <1>3, <1>4, <1>5 DEF User

\* The answer continues the list that was captured.
LEMMA ServePages ==
  ASSUME PagesIInv, NEW c \in Calls, Serve(c)
  PROVE  PagesIInv'
<1> DEFINE b == call[c].base
           fetched == Newest(Below(b.cursor), PageSize + 1)
           from == IF call[c].next THEN b.from ELSE table
<1>1. /\ call[c] \in CallState /\ call[c].pc = "sent" /\ CallOK(c)
      /\ list \in ListState /\ Unbroken(list) /\ table \in SUBSET Places
      /\ b \in ListState /\ Unbroken(b) /\ b.cursor \in Cursors /\ b.shown \in SUBSET Places
  BY DEF PagesIInv, PagesTypeOK, Serve, CallOK, CallState, ListState
<1>2. PICK page : page = Newest(fetched, PageSize)
  OBVIOUS
<1>3. PICK next : next = NextCursor(fetched)
  OBVIOUS
<1> DEFINE q == [call[c] EXCEPT !.pc = "answered", !.page = page, !.cursor = next,
                                !.from = from]
<1>4. UNCHANGED <<table, list>> /\ call' = [call EXCEPT ![c] = q]
  BY <1>2, <1>3 DEF Serve
<1>5. /\ page \in SUBSET table /\ next \in Cursors
      /\ \A k \in page : /\ b.cursor # NoCursor => k < b.cursor
                         /\ next # NoCursor => k >= next
      /\ next # NoCursor => next \in page
      /\ \A k \in Below(b.cursor) : next = NoCursor \/ k >= next => k \in page
  BY <1>1, <1>2, <1>3, PageFacts
<1>6. b.cursor # NoCursor \/ b.shown = {}
  BY <1>1, EmptyFacts DEF CallOK
<1>7. \A k \in page, j \in b.shown : k < j
  <2> SUFFICES ASSUME NEW k \in page, NEW j \in b.shown PROVE k < j
    OBVIOUS
  <2>1. b.cursor # NoCursor /\ k < b.cursor
    BY <1>5, <1>6
  <2>2. j >= b.cursor
    BY <2>1, <1>1 DEF Unbroken
  <2>3. k \in Nat /\ j \in Nat /\ b.cursor \in Nat
    BY <2>1, <1>1, <1>5, PagesAssumption DEF Cursors
  <2>4. QED
    BY <2>1, <2>2, <2>3
<1>8. /\ q \in CallState /\ q.pc = "answered" /\ q.page = page /\ q.cursor = next
      /\ q.from = from /\ q.base = b /\ q.next = call[c].next /\ from \in SUBSET table
  BY <1>1, <1>5 DEF CallState, ListState, Unbroken
<1> DEFINE l == [kind |-> "loaded", cursor |-> next, more |-> FALSE,
                 from |-> from, shown |-> b.shown \cup page]
<1>9. Unbroken(l)
  <2>1. b.shown \cup page \in SUBSET table
    BY <1>1, <1>5 DEF Unbroken
  <2>2. ASSUME NEW k \in from, next = NoCursor \/ k >= next
        PROVE  k \in b.shown \cup page
    <3>1. k \in table /\ k \in Nat
      BY <1>1, <1>8, PagesAssumption
    <3>2. CASE k \in Below(b.cursor)
      BY <2>2, <3>2, <1>5
    <3>3. CASE k \notin Below(b.cursor)
      <4>1. b.cursor # NoCursor /\ k >= b.cursor
        <5>1. b.cursor # NoCursor /\ ~(k < b.cursor)
          BY <3>1, <3>3 DEF Below
        <5>2. b.cursor \in Nat
          BY <5>1, <1>1, PagesAssumption DEF Cursors
        <5>3. QED
          BY <3>1, <5>1, <5>2
      <4>2. call[c].next
        BY <4>1, <1>1, EmptyFacts DEF CallOK
      <4>3. QED
        BY <4>1, <4>2, <1>1 DEF Unbroken
    <3>4. QED
      BY <3>2, <3>3
  <2>3. ASSUME next # NoCursor, NEW k \in b.shown \cup page
        PROVE  k >= next
    <3>1. CASE k \in page
      BY <2>3, <3>1, <1>5
    <3>2. CASE k \in b.shown
      <4>1. next < k /\ next \in Nat /\ k \in Nat
        BY <2>3, <3>2, <1>1, <1>5, <1>7, PagesAssumption
      <4>2. QED
        BY <4>1
    <3>3. QED
      BY <3>1, <3>2
  <2>4. QED
    BY <2>1, <2>2, <2>3, <1>8 DEF Unbroken
<1> HIDE DEF q
<1>10. Turn(c, list, q)
  BY <1>1, <1>4, <1>7, <1>8, <1>9 DEF Turn, CallOK
<1>11. QED
  BY <1>10, TurnPages

LEMMA ShowPages ==
  ASSUME PagesIInv, NEW c \in Calls, Show(c) \/ Fail(c)
  PROVE  PagesIInv'
<1>1. /\ call[c] \in CallState /\ CallOK(c) /\ call[c].base \in ListState
  BY DEF PagesIInv, PagesTypeOK, CallState
<1>2. CASE Show(c)
  <2>1. Answer(c) \in ListState /\ Unbroken(Answer(c))
    BY <1>1, <1>2 DEF Show, CallOK, Answer, CallState, ListState
  <2>2. Turn(c, Answer(c), IdleCall)
    BY <2>1, <1>2, EmptyFacts DEF Show, Turn
  <2>3. QED
    BY <2>2, TurnPages
<1>3. CASE Fail(c)
  <2>1. PICK l \in ListState : list' = l /\ Unbroken(l)
    BY <1>1, <1>3, EmptyFacts DEF Fail, CallOK
  <2>2. Turn(c, l, IdleCall)
    BY <2>1, <1>3, EmptyFacts DEF Fail, Turn
  <2>3. QED
    BY <2>2, TurnPages
<1>4. QED
  BY <1>2, <1>3

-----------------------------------------------------------------------------
\* PagesIInv is an invariant: pages are unbroken in every list that is shown,
\* captured or about to be shown.
THEOREM PagesInvariant == PagesSpec => []PagesIInv
<1>1. PagesIInv /\ [PagesNext]_pagesVars => PagesIInv'
  <2> SUFFICES ASSUME PagesIInv, [PagesNext]_pagesVars PROVE PagesIInv'
    OBVIOUS
  <2>1. ASSUME NEW k \in Places, Insert(k) PROVE PagesIInv'
    BY <2>1, InsertPages
  <2>2. ASSUME NEW c \in Calls, User(c) \/ StepCall(c) PROVE PagesIInv'
    BY <2>2, UserPages, ServePages, ShowPages DEF StepCall
  <2>3. CASE UNCHANGED pagesVars
    BY <2>3 DEF pagesVars, PagesIInv, PagesTypeOK, PagesContinue, CallOK, Unbroken, Answer
  <2>4. QED
    BY <2>1, <2>2, <2>3 DEF PagesNext
<1>2. QED
  BY InitPages, <1>1, PTL DEF PagesSpec

\* No process is skipped by paging.
THEOREM NoProcessIsSkipped == PagesSpec => []NoGap
<1>1. PagesIInv => NoGap
  BY DEF PagesIInv, NoGap
<1>2. QED
  BY <1>1, PagesInvariant, PTL

\* No process is listed twice or out of order.
THEOREM PagesAlwaysContinue == PagesSpec => []PagesContinue
<1>1. PagesIInv => PagesContinue
  BY DEF PagesIInv
<1>2. QED
  BY <1>1, PagesInvariant, PTL

=============================================================================
