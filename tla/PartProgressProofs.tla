------------------------- MODULE PartProgressProofs -------------------------
(***************************************************************************)
(* Proofs about the progress that PartUploader reports, for every file     *)
(* size and part size: the bytes of the parts collected, and FileSize when *)
(* uploadParts returns nil.                                                *)
(*                                                                         *)
(* The sum over a set of parts is a fold, a recursive function on the      *)
(* subsets of the set.  What is needed of it is shown from a smallest set  *)
(* that would refute it, which exists because the subsets of a finite set  *)
(* are well founded.                                                       *)
(***************************************************************************)
EXTENDS PartUploaderProofs

LEMMA SmallestSet ==
  ASSUME NEW S, IsFiniteSet(S), NEW T, T \subseteq SUBSET S, T # {}
  PROVE  \E s \in T : \A t \in T : t \subseteq s => t = s
<1>1. IsWellFoundedOn(StrictSubsetOrdering(S), SUBSET S)
  BY FS_StrictSubsetOrderingWellFounded, FS_FiniteSubsetsOfFinite
<1>2. \E s \in T : \A t \in T : <<t, s>> \notin StrictSubsetOrdering(S)
  BY <1>1, WFMin
<1>3. QED
  BY <1>2 DEF StrictSubsetOrdering

-----------------------------------------------------------------------------
(* The function that the fold defines.                                     *)

pick(s) == CHOOSE x \in s : TRUE

Sums(S, h) == h = [s \in SUBSET S |-> IF s = {} THEN 0
                                      ELSE Length(pick(s)) + h[s \ {pick(s)}]]

Bytes(S) == MapThenSumSet(Length, S)

LEMMA BytesIsAFold == \A S : Bytes(S) = (CHOOSE h : Sums(S, h))[S]
  BY DEF Bytes, MapThenSumSet, MapThenFoldSet, Sums, pick

LEMMA PickIsElement == \A s : s # {} => pick(s) \in s
  BY DEF pick

LEMMA SumsValues ==
  ASSUME NEW S, NEW h, Sums(S, h), NEW s \in SUBSET S
  PROVE  h[s] = IF s = {} THEN 0 ELSE Length(pick(s)) + h[s \ {pick(s)}]
<1> DEFINE e(t) == IF t = {} THEN 0 ELSE Length(pick(t)) + h[t \ {pick(t)}]
<1>1. h = [t \in SUBSET S |-> e(t)]
  BY DEF Sums
<1> HIDE DEF e
<1>2. h[s] = e(s)
  BY <1>1
<1>3. QED
  BY <1>2 DEF e

\* There is one such function at most.
LEMMA SumsUnique ==
  ASSUME NEW S, IsFiniteSet(S), NEW h, NEW k, Sums(S, h), Sums(S, k)
  PROVE  h = k
<1>1. \A s \in SUBSET S : h[s] = k[s]
  <2> DEFINE T == {s \in SUBSET S : h[s] # k[s]}
  <2> SUFFICES ASSUME T # {} PROVE FALSE
    OBVIOUS
  <2>1. T \subseteq SUBSET S
    OBVIOUS
  <2> HIDE DEF T
  <2>2. PICK s \in T : \A t \in T : t \subseteq s => t = s
    BY <2>1, SmallestSet
  <2>3. s \in SUBSET S /\ h[s] # k[s]
    BY DEF T
  <2>4. /\ h[s] = IF s = {} THEN 0 ELSE Length(pick(s)) + h[s \ {pick(s)}]
        /\ k[s] = IF s = {} THEN 0 ELSE Length(pick(s)) + k[s \ {pick(s)}]
    BY <2>3, SumsValues
  <2>5. s # {} /\ pick(s) \in s
    BY <2>3, <2>4, PickIsElement
  <2>6. s \ {pick(s)} \notin T /\ s \ {pick(s)} \in SUBSET S
    BY <2>2, <2>3, <2>5
  <2>7. h[s \ {pick(s)}] = k[s \ {pick(s)}]
    BY <2>6 DEF T
  <2>8. QED
    BY <2>3, <2>4, <2>5, <2>7
<1>2. /\ h = [s \in SUBSET S |-> h[s]]
      /\ k = [s \in SUBSET S |-> k[s]]
  BY DEF Sums
<1>3. QED
  BY <1>1, <1>2

\* A function for a set is, cut down, the one for each subset.
LEMMA SumsRestrict ==
  ASSUME NEW S, NEW h, Sums(S, h), NEW T \in SUBSET S
  PROVE  Sums(T, [s \in SUBSET T |-> h[s]])
<1> DEFINE k == [s \in SUBSET T |-> h[s]]
           e(s) == IF s = {} THEN 0 ELSE Length(pick(s)) + h[s \ {pick(s)}]
           d(s) == IF s = {} THEN 0 ELSE Length(pick(s)) + k[s \ {pick(s)}]
<1>1. \A s \in SUBSET T : h[s] = e(s)
  BY SumsValues
<1>2. \A s \in SUBSET T : e(s) = d(s)
  <2> TAKE s \in SUBSET T
  <2>1. s \ {pick(s)} \in SUBSET T
    OBVIOUS
  <2>2. k[s \ {pick(s)}] = h[s \ {pick(s)}]
    BY <2>1
  <2>3. QED
    BY <2>2
<1>3. \A s \in SUBSET T : h[s] = d(s)
  BY <1>1, <1>2
<1> HIDE DEF e, d
<1>4. k = [s \in SUBSET T |-> d(s)]
  BY <1>3
<1>5. QED
  BY <1>4 DEF Sums, d

\* And there is one.
Fold(S) == CHOOSE h : Sums(S, h)

LEMMA SumsExist == \A S : IsFiniteSet(S) => Sums(S, Fold(S))
<1> SUFFICES ASSUME NEW S, IsFiniteSet(S) PROVE Sums(S, Fold(S))
  OBVIOUS
<1> DEFINE T == {s \in SUBSET S : ~Sums(s, Fold(s))}
<1>1. T \subseteq SUBSET S
  OBVIOUS
<1>2. T = {}
  <2> SUFFICES ASSUME T # {} PROVE FALSE
    OBVIOUS
  <2> HIDE DEF T
  <2>1. PICK s \in T : \A t \in T : t \subseteq s => t = s
    BY <1>1, SmallestSet
  <2>2. s \in SUBSET S /\ ~Sums(s, Fold(s))
    BY DEF T
  <2>3. ASSUME NEW t \in SUBSET s, t # s
        PROVE  Sums(t, Fold(t)) /\ IsFiniteSet(t)
    BY <2>1, <2>2, <2>3, FS_Subset DEF T
  <2>4. ASSUME NEW t \in SUBSET s, t # s, NEW u \in SUBSET t
        PROVE  Fold(t)[u] = Fold(u)[u]
    <3>1. u # s
      BY <2>4
    <3>2. Sums(u, [v \in SUBSET u |-> Fold(t)[v]])
      BY <2>3, <2>4, SumsRestrict
    <3>3. Fold(u) = [v \in SUBSET u |-> Fold(t)[v]]
      BY <2>3, <3>1, <3>2, SumsUnique
    <3>4. QED
      BY <3>3
  <2> DEFINE below(t) == IF t = {} THEN 0
                         ELSE Length(pick(t)) + Fold(t \ {pick(t)})[t \ {pick(t)}]
             h == [t \in SUBSET s |-> below(t)]
             e(t) == IF t = {} THEN 0 ELSE Length(pick(t)) + h[t \ {pick(t)}]
  <2>5. ASSUME NEW t \in SUBSET s, t # {}
        PROVE  h[t \ {pick(t)}] = Fold(t \ {pick(t)})[t \ {pick(t)}]
    <3> DEFINE u == t \ {pick(t)}
    <3>1. u \in SUBSET s /\ u # s
      BY <2>5, PickIsElement
    <3> HIDE DEF u
    <3>2. h[u] = below(u)
      BY <3>1
    <3>3. Fold(u)[u] = below(u)
      <4>1. Sums(u, Fold(u))
        BY <2>3, <3>1
      <4>2. Fold(u)[u] = IF u = {} THEN 0 ELSE Length(pick(u)) + Fold(u)[u \ {pick(u)}]
        <5>1. u \in SUBSET u
          OBVIOUS
        <5>2. QED
          BY <4>1, <5>1, SumsValues
      <4>3. Fold(u)[u \ {pick(u)}] = Fold(u \ {pick(u)})[u \ {pick(u)}]
        BY <2>4, <3>1
      <4>4. QED
        BY <4>2, <4>3
    <3>4. QED
      BY <3>2, <3>3 DEF u
  <2>6. \A t \in SUBSET s : below(t) = e(t)
    BY <2>5
  <2> HIDE DEF e, below
  <2>7. h = [t \in SUBSET s |-> e(t)]
    BY <2>6
  <2>8. Sums(s, h)
    BY <2>7 DEF Sums, e
  <2>9. QED
    BY <2>2, <2>8 DEF Fold
<1>3. QED
  BY <1>2

-----------------------------------------------------------------------------
(* The sum of the lengths of a set of parts.                               *)

LEMMA BytesStep ==
  ASSUME NEW S, IsFiniteSet(S)
  PROVE  Bytes(S) = IF S = {} THEN 0 ELSE Length(pick(S)) + Bytes(S \ {pick(S)})
<1>1. \A T : Bytes(T) = Fold(T)[T]
  BY BytesIsAFold DEF Fold
<1>2. Sums(S, Fold(S)) /\ S \in SUBSET S
  BY SumsExist
<1>3. Fold(S)[S] = IF S = {} THEN 0 ELSE Length(pick(S)) + Fold(S)[S \ {pick(S)}]
  BY <1>2, SumsValues
<1>4. Fold(S)[S \ {pick(S)}] = Bytes(S \ {pick(S)})
  <2> DEFINE T == S \ {pick(S)}
  <2>1. T \in SUBSET S /\ T \in SUBSET T /\ IsFiniteSet(T)
    BY FS_Subset
  <2> HIDE DEF T
  <2>2. Sums(T, [s \in SUBSET T |-> Fold(S)[s]])
    BY <1>2, <2>1, SumsRestrict
  <2>3. Fold(T) = [s \in SUBSET T |-> Fold(S)[s]]
    BY <2>1, <2>2, SumsExist, SumsUnique
  <2>4. Fold(T)[T] = Fold(S)[T]
    BY <2>1, <2>3
  <2>5. QED
    BY <1>1, <2>4 DEF T
<1>5. QED
  BY <1>1, <1>3, <1>4

LEMMA PartsType == totalParts \in Nat /\ Parts \subseteq Nat
  BY SizeAssumption DEF totalParts, Parts

LEMMA LengthType == \A p \in Parts : Length(p) \in Int
  BY SizeAssumption, PartsType DEF Length

LEMMA FiniteParts == \A S \in SUBSET Parts : IsFiniteSet(S)
<1>1. IsFiniteSet(Parts)
  BY PartsType, FS_Interval DEF Parts
<1>2. QED
  BY <1>1, FS_Subset

LEMMA BytesType ==
  ASSUME NEW S \in SUBSET Parts
  PROVE  Bytes(S) \in Int
<1> DEFINE T == {s \in SUBSET S : Bytes(s) \notin Int}
<1>1. T \subseteq SUBSET S /\ IsFiniteSet(S)
  BY FiniteParts
<1>2. T = {}
  <2> SUFFICES ASSUME T # {} PROVE FALSE
    OBVIOUS
  <2> HIDE DEF T
  <2>1. PICK s \in T : \A t \in T : t \subseteq s => t = s
    BY <1>1, SmallestSet
  <2>2. s \in SUBSET S /\ Bytes(s) \notin Int
    BY DEF T
  <2>3. Bytes(s) = IF s = {} THEN 0 ELSE Length(pick(s)) + Bytes(s \ {pick(s)})
    BY <2>2, FiniteParts, BytesStep
  <2>4. s # {} /\ pick(s) \in s
    BY <2>2, <2>3, PickIsElement
  <2>5. Bytes(s \ {pick(s)}) \in Int
    BY <2>1, <2>2, <2>4 DEF T
  <2>6. Length(pick(s)) \in Int
    BY <2>2, <2>4, LengthType
  <2>7. QED
    BY <2>2, <2>3, <2>4, <2>5, <2>6
<1>3. QED
  BY <1>2

\* The order in which the parts are taken does not matter.
LEMMA BytesRemove ==
  ASSUME NEW S \in SUBSET Parts, NEW x \in S
  PROVE  Bytes(S) = Length(x) + Bytes(S \ {x})
<1> DEFINE Bad(s, y) == Bytes(s) # Length(y) + Bytes(s \ {y})
           T == {s \in SUBSET S : \E y \in s : Bad(s, y)}
<1>1. T \subseteq SUBSET S /\ IsFiniteSet(S)
  BY FiniteParts
<1>2. T = {}
  <2> SUFFICES ASSUME T # {} PROVE FALSE
    OBVIOUS
  <2> HIDE DEF T
  <2>1. PICK s \in T : \A t \in T : t \subseteq s => t = s
    BY <1>1, SmallestSet
  <2>2. PICK y \in s : Bad(s, y)
    BY DEF T
  <2>3. s \in SUBSET S /\ s # {} /\ y \in Parts
    BY <2>2 DEF T
  <2> DEFINE p == pick(s)
  <2>4. Bytes(s) = Length(p) + Bytes(s \ {p}) /\ p \in s /\ p \in Parts
    BY <2>3, FiniteParts, BytesStep, PickIsElement
  <2> HIDE DEF p
  <2>5. y # p
    BY <2>2, <2>4
  <2>6. s \ {p} \notin T /\ s \ {y} \notin T
    BY <2>1, <2>2, <2>4
  <2>7. /\ Bytes(s \ {p}) = Length(y) + Bytes((s \ {p}) \ {y})
        /\ Bytes(s \ {y}) = Length(p) + Bytes((s \ {y}) \ {p})
    BY <2>3, <2>4, <2>5, <2>6 DEF T
  <2>8. (s \ {p}) \ {y} = (s \ {y}) \ {p}
    OBVIOUS
  <2> DEFINE n == Bytes((s \ {y}) \ {p})
  <2>9. n \in Int /\ Length(p) \in Int /\ Length(y) \in Int
    <3>1. (s \ {y}) \ {p} \in SUBSET S
      BY <2>3
    <3>2. QED
      BY <2>3, <2>4, <3>1, BytesType, LengthType
  <2>10. Bytes(s) = Length(p) + (Length(y) + n) /\ Bytes(s \ {y}) = Length(p) + n
    BY <2>4, <2>7, <2>8
  <2> HIDE DEF n
  <2>11. QED
    BY <2>2, <2>9, <2>10
<1>3. QED
  BY <1>2

LEMMA BytesAdd ==
  ASSUME NEW S \in SUBSET Parts, NEW x \in Parts, x \notin S
  PROVE  Bytes(S \cup {x}) = Bytes(S) + Length(x)
<1>1. S \cup {x} \in SUBSET Parts
  OBVIOUS
<1>2. Bytes(S \cup {x}) = Length(x) + Bytes((S \cup {x}) \ {x})
  BY <1>1, BytesRemove
<1>3. (S \cup {x}) \ {x} = S
  OBVIOUS
<1>4. Bytes((S \cup {x}) \ {x}) = Bytes(S)
  BY <1>3, Zenon
<1>5. Bytes(S \cup {x}) = Length(x) + Bytes(S)
  BY <1>2, <1>4, Zenon
<1>6. Bytes(S) \in Int /\ Length(x) \in Int
  BY BytesType, LengthType
<1>7. QED
  BY <1>5, <1>6

-----------------------------------------------------------------------------
(* The whole file.                                                         *)

LEMMA TotalParts ==
  /\ FileSize <= totalParts * PartSize
  /\ totalParts * PartSize < FileSize + PartSize
<1> DEFINE a == FileSize + PartSize - 1
<1>1. a \in Nat /\ PartSize \in Nat \ {0}
  BY SizeAssumption
<1>2. totalParts = a \div PartSize
  BY DEF totalParts
<1> HIDE DEF a
<1>3. /\ (a \div PartSize) * PartSize <= a
      /\ a < (a \div PartSize) * PartSize + PartSize
  BY <1>1
<1>4. totalParts * PartSize \in Nat
  BY PartsType, SizeAssumption
<1>5. QED
  BY <1>1, <1>2, <1>3, <1>4, SizeAssumption DEF a

\* Every part but the last is a full one, and the last ends with the file.
LEMMA PartLength ==
  ASSUME NEW n \in Parts
  PROVE  Length(n) = IF n = totalParts THEN FileSize - (n - 1) * PartSize
                                       ELSE PartSize
<1>1. n \in Nat /\ n >= 1 /\ n <= totalParts
  BY PartsType DEF Parts
<1>2. (n - 1) * PartSize + PartSize = n * PartSize
  BY <1>1, SizeAssumption
<1>3. CASE n = totalParts
  <2>1. FileSize <= n * PartSize
    BY <1>3, TotalParts
  <2>2. QED
    BY <1>1, <1>2, <1>3, <2>1, SizeAssumption DEF Length
<1>4. CASE n # totalParts
  <2>1. n + 1 <= totalParts
    BY <1>1, <1>4, PartsType
  <2>2. (n + 1) * PartSize <= totalParts * PartSize
    BY <1>1, <2>1, PartsType, SizeAssumption
  <2>3. n * PartSize + PartSize = (n + 1) * PartSize
    BY <1>1, SizeAssumption
  <2>4. n * PartSize < FileSize
    BY <1>1, <2>2, <2>3, TotalParts, PartsType, SizeAssumption
  <2>5. QED
    BY <1>1, <1>2, <1>4, <2>4, SizeAssumption DEF Length
<1>5. QED
  BY <1>3, <1>4

\* The bytes of the first n parts.
FirstBytes(n) == IF n = totalParts THEN FileSize ELSE n * PartSize

LEMMA BytesOfFirst == \A n \in 0 .. totalParts : Bytes(1 .. n) = FirstBytes(n)
<1> DEFINE Bad(n, s) == s = 1 .. n /\ Bytes(s) # FirstBytes(n)
           T == {s \in SUBSET Parts : \E n \in 0 .. totalParts : Bad(n, s)}
<1>1. T \subseteq SUBSET Parts /\ IsFiniteSet(Parts)
  BY FiniteParts
<1>2. T = {}
  <2> SUFFICES ASSUME T # {} PROVE FALSE
    OBVIOUS
  <2> HIDE DEF T
  <2>1. PICK s \in T : \A t \in T : t \subseteq s => t = s
    BY <1>1, SmallestSet
  <2>2. PICK n \in 0 .. totalParts : s = 1 .. n /\ Bytes(s) # FirstBytes(n)
    BY DEF T
  <2>3. n \in Nat /\ n <= totalParts
    BY PartsType
  <2>4. CASE n = 0
    <3>1. 1 .. n = {}
      BY <2>4
    <3>2. Bytes({}) = 0
      BY FS_EmptySet, BytesStep
    <3>3. FirstBytes(0) = 0
      BY TotalParts, PartsType, SizeAssumption DEF FirstBytes
    <3>4. QED
      BY <2>2, <2>4, <3>1, <3>2, <3>3
  <2>5. CASE n # 0
    <3>1. /\ n - 1 \in 0 .. totalParts /\ n - 1 # totalParts /\ n \in Parts
          /\ 1 .. (n - 1) \in SUBSET Parts /\ n \notin 1 .. (n - 1)
      BY <2>3, <2>5, PartsType DEF Parts
    <3>2. 1 .. (n - 1) \subseteq s /\ 1 .. (n - 1) # s
      BY <2>2, <2>3, <2>5
    <3>3. Bytes(1 .. (n - 1)) = FirstBytes(n - 1)
      BY <2>1, <3>1, <3>2 DEF T
    <3>4. FirstBytes(n - 1) = (n - 1) * PartSize
      BY <3>1 DEF FirstBytes
    <3>5. s = (1 .. (n - 1)) \cup {n}
      BY <2>2, <2>3, <2>5
    <3>6. Bytes(s) = (n - 1) * PartSize + Length(n)
      BY <3>1, <3>3, <3>4, <3>5, BytesAdd
    <3>7. (n - 1) * PartSize \in Int /\ (n - 1) * PartSize + PartSize = n * PartSize
      BY <2>3, SizeAssumption
    <3>8. Bytes(s) = FirstBytes(n)
      BY <3>1, <3>6, <3>7, PartLength, SizeAssumption DEF FirstBytes
    <3>9. QED
      BY <2>2, <3>8
  <2>6. QED
    BY <2>4, <2>5
<1>3. QED
  <2> SUFFICES ASSUME NEW n \in 0 .. totalParts PROVE Bytes(1 .. n) = FirstBytes(n)
    OBVIOUS
  <2>1. 1 .. n \in SUBSET Parts
    BY PartsType DEF Parts
  <2>2. QED
    BY <1>2, <2>1

\* The parts of a file have the file's bytes, each once: what AddCompletedPart
\* adds up when every part is collected, the short last part included.
THEOREM PartsAreTheFile == MapThenSumSet(Length, Parts) = FileSize
<1>1. Bytes(1 .. totalParts) = FirstBytes(totalParts)
  BY BytesOfFirst, PartsType
<1>2. QED
  BY <1>1 DEF Bytes, FirstBytes, Parts

-----------------------------------------------------------------------------
(* The progress of uploadParts.                                            *)

LEMMA InitProgress == Init => bytes = Bytes(local)
  BY DEF Init, Bytes

\* A part is collected once, because one result of its goroutine is sent.
LEMMA NextProgress ==
  ASSUME IInv, bytes = Bytes(local), [Next]_vars
  PROVE  bytes' = Bytes(local')
<1>1. CASE UNCHANGED <<bytes, local>>
  BY <1>1
<1>2. CASE \E r \in resultCh : CollectPart(r)
  <2>1. PICK r \in resultCh : CollectPart(r)
    BY <1>2
  <2>2. r.part \in Parts \ local /\ local \in SUBSET Parts
    BY <2>1 DEF CollectPart, IInv, TypeOK, Result
  <2>3. local' = local \cup {r.part} /\ bytes' = bytes + Length(r.part)
    BY <2>1 DEF CollectPart
  <2>4. QED
    BY <2>2, <2>3, BytesAdd
<1>3. CASE \/ CancelContext \/ \E p \in Parts : Goroutine(p)
           \/ CloseResults \/ \E r \in resultCh : CollectError(r)
           \/ ReturnNil \/ ChoosePaused \/ ChooseFailed \/ WritePaused \/ WriteFailed
           \/ UNCHANGED vars
  <2>1. UNCHANGED <<bytes, local>>
    BY <1>3 DEF CancelContext, Goroutine, Acquire, GiveUpSlot, PartUploaded,
                PartFailed, Exit, CloseResults, CollectError, ReturnNil,
                ChoosePaused, ChooseFailed, WritePaused, WriteFailed,
                uploadVars, vars
  <2>2. QED
    BY <1>1, <2>1
<1>4. QED
  BY <1>2, <1>3 DEF Next, Collector, Finished

\* The progress reported is exact: the bytes counted are those of the parts
\* collected, each once, and FileSize when uploadParts returns nil (the short
\* last part, AddCompletedPart, the resumed parts).
THEOREM ProgressIsCounted == Spec => []ProgressIsExact
<1>1. Init => bytes = Bytes(local)
  BY InitProgress
<1>2. IInv /\ bytes = Bytes(local) /\ [Next]_vars => (bytes = Bytes(local))'
  BY NextProgress
<1>3. IInv /\ bytes = Bytes(local) => ProgressIsExact
  <2> SUFFICES ASSUME IInv, bytes = Bytes(local) PROVE ProgressIsExact
    OBVIOUS
  <2>1. ret = "nil" => local = Parts
    BY IInvNil DEF IInv, TypeOK, NilMeansAllSaved
  <2>2. Bytes(Parts) = FileSize
    BY PartsAreTheFile DEF Bytes
  <2>3. QED
    BY <2>1, <2>2 DEF ProgressIsExact, Bytes
<1>4. QED
  BY <1>1, <1>2, <1>3, PartUploaderInvariant, PTL DEF Spec

=============================================================================
