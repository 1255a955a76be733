----------------------- MODULE ContextPreparationProofs -----------------------
(***************************************************************************)
(* What holds of a preparation for any memories, traits, limits, requests  *)
(* and rankings, and any number of writes beside it.                       *)
(***************************************************************************)
EXTENDS ContextPreparation, FiniteSetTheorems, TLAPS

-----------------------------------------------------------------------------
(* Numbers and finite sets.                                                *)

LEMMA MinOfTwo ==
    ASSUME NEW a \in Nat, NEW b \in Nat
    PROVE  Min({a, b}) = IF a <= b THEN a ELSE b
BY DEF Min

LEMMA MaxOfTwo ==
    ASSUME NEW a \in Nat, NEW b \in Nat
    PROVE  Max({a, b}) \in Nat /\ Max({a, b}) >= a /\ Max({a, b}) >= b
BY DEF Max

LEMMA FiniteMemories ==
    ASSUME NEW S \in SUBSET Memories
    PROVE  IsFiniteSet(S) /\ Cardinality(S) \in Nat
BY DataAssumption, FS_Subset, FS_CardinalityType

LEMMA RequestParts ==
    ASSUME request \in Request
    PROVE  /\ request.limit \in Nat /\ request.limit >= 1
           /\ request.maxChars \in Nat /\ request.maxChars >= 1
           /\ request.types \subseteq Types
           /\ CandidateLimit \in Nat /\ CandidateLimit >= 1
<1>1. /\ request.limit \in Nat /\ request.limit >= 1
      /\ request.maxChars \in Nat /\ request.maxChars >= 1
      /\ request.types \subseteq Types
  BY DEF Request
<1>2. request.limit * Multiplier \in Nat
  BY <1>1, NumbersAssumption
<1> QED
  BY <1>1, <1>2, MaxOfTwo DEF CandidateLimit

-----------------------------------------------------------------------------
(* The sum that MapThenFoldSet computes.  Recursion over a set is out of   *)
(* reach of the library's induction theorems, so the sum is shown to be    *)
(* the cardinality of a set of cells, as many to a memory as it is long.   *)

Cells(S) == UNION {{m} \X (1..Length[m]) : m \in S}

LEMMA CellsOfOne ==
    ASSUME NEW m, NEW n \in Nat
    PROVE  IsFiniteSet({m} \X (1..n)) /\ Cardinality({m} \X (1..n)) = n
<1>1. IsFiniteSet(1..n) /\ Cardinality(1..n) = n
  BY FS_Interval
<1> DEFINE f == [i \in 1..n |-> <<m, i>>]
<1>2. f \in Bijection(1..n, {m} \X (1..n))
  <2>1. f \in [1..n -> {m} \X (1..n)]
    OBVIOUS
  <2>2. \A i, j \in 1..n : f[i] = f[j] => i = j
    OBVIOUS
  <2>3. \A cell \in {m} \X (1..n) : \E i \in 1..n : f[i] = cell
    OBVIOUS
  <2>4. DOMAIN f = 1..n
    OBVIOUS
  <2> HIDE DEF f
  <2> QED BY <2>1, <2>2, <2>3, <2>4 DEF Bijection, Injection, Surjection, IsInjective
<1> QED
  BY <1>1, <1>2, FS_Bijection DEF ExistsBijection

LEMMA CellsOfMore ==
    ASSUME NEW S, IsFiniteSet(Cells(S)), NEW m, m \notin S, Length[m] \in Nat
    PROVE  /\ IsFiniteSet(Cells(S \cup {m}))
           /\ Cardinality(Cells(S \cup {m})) = Cardinality(Cells(S)) + Length[m]
<1> DEFINE C == Cells(S)
           D == {m} \X (1..Length[m])
<1>1. Cells(S \cup {m}) = C \cup D
  BY DEF Cells
<1>2. C \cap D = {}
  BY DEF Cells
<1>3. IsFiniteSet(D) /\ Cardinality(D) = Length[m]
  BY CellsOfOne
<1>4. IsFiniteSet(C) /\ Cardinality(C) \in Nat
  BY FS_CardinalityType
<1> HIDE DEF C, D
<1>5. /\ IsFiniteSet(C \cup D)
      /\ Cardinality(C \cup D) = Cardinality(C) + Cardinality(D) - Cardinality(C \cap D)
  BY <1>3, <1>4, FS_Union
<1>6. Cardinality(C \cap D) = 0
  BY <1>2, FS_EmptySet
<1>7. IsFiniteSet(C \cup D)
  BY <1>5
<1>8. Cardinality(C \cup D) = Cardinality(C) + Length[m]
  BY <1>3, <1>4, <1>5, <1>6
<1> QED
  BY <1>1, <1>7, <1>8 DEF C

(* What the recursion does with a set of memories.                         *)
IsSum(f, S) ==
    f = [s \in SUBSET S |->
           IF s = {} THEN 0
           ELSE LET m == CHOOSE m \in s : TRUE IN Length[m] + f[s \ {m}]]

LEMMA SumIsIteration ==
    ASSUME NEW S
    PROVE  SumOfLengths(S) = (CHOOSE f : IsSum(f, S))[S]
BY DEF SumOfLengths, MapThenSumSet, MapThenFoldSet, IsSum

(* The recursion has one solution, and it counts the cells.                *)
LEMMA SumCounts ==
    ASSUME NEW S \in SUBSET Memories
    PROVE  \A s \in SUBSET S : IsFiniteSet(Cells(s)) /\ Cardinality(Cells(s)) \in Nat
<1> DEFINE Bad == {s \in SUBSET S : ~IsFiniteSet(Cells(s))}
<1>1. SUFFICES Bad = {}
  BY FS_CardinalityType
<1>2. SUFFICES ASSUME Bad # {} PROVE FALSE
  OBVIOUS
<1>3. IsFiniteSet(S)
  BY DataAssumption, FS_Subset
<1>4. IsWellFoundedOn(StrictSubsetOrdering(S), SUBSET S)
  BY <1>3, FS_StrictSubsetOrderingWellFounded, FS_FiniteSubsetsOfFinite
<1>5. PICK s \in Bad : \A r \in Bad : <<r, s>> \notin StrictSubsetOrdering(S)
  <2>1. Bad \subseteq SUBSET S
    OBVIOUS
  <2> HIDE DEF Bad
  <2> QED BY <1>2, <1>4, <2>1, WFMin
<1>6. CASE s = {}
  <2>1. Cells(s) = {}
    BY <1>6 DEF Cells
  <2> QED BY <2>1, FS_EmptySet
<1>7. CASE s # {}
  <2>1. PICK m \in s : TRUE
    BY <1>7
  <2>2. s \ {m} \in SUBSET S /\ <<s \ {m}, s>> \in StrictSubsetOrdering(S)
    BY <2>1 DEF StrictSubsetOrdering
  <2>3. IsFiniteSet(Cells(s \ {m}))
    BY <1>5, <2>2
  <2>4. Length[m] \in Nat /\ (s \ {m}) \cup {m} = s /\ m \notin s \ {m}
    BY <2>1, DataAssumption
  <2>5. IsFiniteSet(Cells((s \ {m}) \cup {m}))
    BY <2>3, <2>4, CellsOfMore
  <2> QED BY <2>4, <2>5
<1> QED BY <1>6, <1>7

LEMMA CellsWithout ==
    ASSUME NEW S \in SUBSET Memories, NEW m \in S
    PROVE  Cardinality(Cells(S)) = Length[m] + Cardinality(Cells(S \ {m}))
<1>1. S \ {m} \in SUBSET S /\ S \in SUBSET S
  OBVIOUS
<1>2. /\ IsFiniteSet(Cells(S \ {m}))
      /\ Cardinality(Cells(S \ {m})) \in Nat
  BY <1>1, SumCounts
<1>3. Length[m] \in Nat /\ (S \ {m}) \cup {m} = S /\ m \notin S \ {m}
  BY DataAssumption
<1>4. Cardinality(Cells((S \ {m}) \cup {m})) = Cardinality(Cells(S \ {m})) + Length[m]
  BY <1>2, <1>3, CellsOfMore
<1>5. Cardinality(Cells(S)) = Cardinality(Cells(S \ {m})) + Length[m]
  BY <1>3, <1>4
<1> QED BY <1>2, <1>3, <1>5

LEMMA SumIsOfCells ==
    ASSUME NEW S \in SUBSET Memories, NEW f, IsSum(f, S)
    PROVE  \A s \in SUBSET S : f[s] = Cardinality(Cells(s))
<1> DEFINE Bad == {s \in SUBSET S : f[s] # Cardinality(Cells(s))}
<1>1. SUFFICES ASSUME Bad # {} PROVE FALSE
  OBVIOUS
<1>2. IsFiniteSet(S)
  BY DataAssumption, FS_Subset
<1>3. IsWellFoundedOn(StrictSubsetOrdering(S), SUBSET S)
  BY <1>2, FS_StrictSubsetOrderingWellFounded, FS_FiniteSubsetsOfFinite
<1>4. PICK s \in Bad : \A r \in Bad : <<r, s>> \notin StrictSubsetOrdering(S)
  <2>1. Bad \subseteq SUBSET S
    OBVIOUS
  <2> HIDE DEF Bad
  <2> QED BY <1>1, <1>3, <2>1, WFMin
<1> DEFINE m == CHOOSE m \in s : TRUE
<1>5. f[s] = IF s = {} THEN 0 ELSE Length[m] + f[s \ {m}]
  BY DEF IsSum
<1>6. CASE s = {}
  <2>1. Cells(s) = {}
    BY <1>6 DEF Cells
  <2> QED BY <1>5, <1>6, <2>1, FS_EmptySet
<1>7. CASE s # {}
  <2>1. m \in s
    BY <1>7
  <2> HIDE DEF m
  <2>2. s \ {m} \in SUBSET S /\ <<s \ {m}, s>> \in StrictSubsetOrdering(S)
    BY <2>1 DEF StrictSubsetOrdering
  <2>3. f[s \ {m}] = Cardinality(Cells(s \ {m}))
    BY <1>4, <2>2
  <2>4. Cardinality(Cells(s)) = Length[m] + Cardinality(Cells(s \ {m}))
    BY <2>1, CellsWithout
  <2> QED BY <1>5, <1>7, <2>3, <2>4
<1> QED BY <1>6, <1>7

LEMMA SumExists ==
    ASSUME NEW S \in SUBSET Memories
    PROVE  \E f : IsSum(f, S)
<1> DEFINE f == [s \in SUBSET S |-> Cardinality(Cells(s))]
<1>1. ASSUME NEW s \in SUBSET S
      PROVE  Cardinality(Cells(s)) =
               IF s = {} THEN 0
               ELSE LET m == CHOOSE m \in s : TRUE IN Length[m] + f[s \ {m}]
  <2>1. CASE s = {}
    <3>1. Cells(s) = {}
      BY <2>1 DEF Cells
    <3> QED BY <2>1, <3>1, FS_EmptySet
  <2>2. CASE s # {}
    <3> DEFINE m == CHOOSE m \in s : TRUE
    <3>1. m \in s
      BY <2>2
    <3>2. \A r \in s : Cardinality(Cells(s)) = Length[r] + Cardinality(Cells(s \ {r}))
      BY CellsWithout
    <3>3. \A r \in s : f[s \ {r}] = Cardinality(Cells(s \ {r}))
      OBVIOUS
    <3> HIDE DEF f
    <3>4. Cardinality(Cells(s)) = Length[m] + f[s \ {m}]
      BY <3>1, <3>2, <3>3
    <3> QED BY <2>2, <3>4
  <2> QED BY <2>1, <2>2
<1>2. IsSum(f, S)
  BY <1>1 DEF IsSum
<1> QED BY <1>2

(* SumOfLengths is a sum, in whatever order the recursion goes.            *)
LEMMA SumOfMemories ==
    ASSUME NEW S \in SUBSET Memories
    PROVE  SumOfLengths(S) = Cardinality(Cells(S)) /\ SumOfLengths(S) \in Nat
<1>1. IsSum(CHOOSE f : IsSum(f, S), S)
  BY SumExists
<1>2. SumOfLengths(S) = (CHOOSE f : IsSum(f, S))[S]
  BY SumIsIteration
<1>3. \A f : IsSum(f, S) => f[S] = Cardinality(Cells(S))
  BY SumIsOfCells
<1>4. Cardinality(Cells(S)) \in Nat
  BY SumCounts
<1> QED BY <1>1, <1>2, <1>3, <1>4

LEMMA SumOfNone == SumOfLengths({}) = 0
<1>1. Cells({}) = {}
  BY DEF Cells
<1> QED BY <1>1, SumOfMemories, FS_EmptySet

LEMMA SumOfMore ==
    ASSUME NEW S \in SUBSET Memories, NEW m \in Memories \ S
    PROVE  SumOfLengths(S \cup {m}) = SumOfLengths(S) + Length[m]
<1>1. S \cup {m} \in SUBSET Memories /\ m \in S \cup {m} /\ (S \cup {m}) \ {m} = S
  OBVIOUS
<1>2. Cardinality(Cells(S \cup {m})) = Length[m] + Cardinality(Cells((S \cup {m}) \ {m}))
  BY <1>1, CellsWithout
<1>3. Length[m] \in Nat /\ SumOfLengths(S) \in Nat
  BY DataAssumption, SumOfMemories
<1>4. /\ SumOfLengths(S) = Cardinality(Cells(S))
      /\ SumOfLengths(S \cup {m}) = Cardinality(Cells(S \cup {m}))
  BY <1>1, SumOfMemories
<1>5. Cardinality(Cells(S \cup {m})) = Length[m] + Cardinality(Cells(S))
  BY <1>1, <1>2
<1>6. SumOfLengths(S \cup {m}) = Length[m] + SumOfLengths(S)
  BY <1>4, <1>5
<1> QED BY <1>3, <1>6

-----------------------------------------------------------------------------
(* Types.  The package comes last: its length is a sum over a set.         *)

Typed ==
    /\ stored \subseteq Memories
    /\ request \in Request
    /\ raw \subseteq Memories
    /\ ranked \in Seq(Memories)
    /\ next \in 1..(Len(ranked) + 1)
    /\ selected \subseteq Memories
    /\ counts \in [Types -> Nat]
    /\ chars \in Nat
    /\ steady \subseteq stored

(* Before there is a ranking nothing is selected; a ranking has every      *)
(* memory retrieved once.                                                  *)
Ranking ==
    /\ pc \in {"decide", "related", "stable", "retrieve", "fallback", "retry", "rank"} =>
          ranked = <<>> /\ selected = {}
    /\ pc \in {"select", "compile", "save", "saved"} =>
          /\ Len(ranked) = Cardinality(raw)
          /\ \A i \in DOMAIN ranked : ranked[i] \in raw
    /\ \A i, j \in DOMAIN ranked : ranked[i] = ranked[j] => i = j
    /\ \A m \in selected : \E i \in DOMAIN ranked : i < next /\ ranked[i] = m

(* The counters tell how many are selected.                                *)
Counted ==
    /\ \A ty \in Types :
          /\ counts[ty] = Cardinality({m \in selected : TypeOf[m] = ty})
          /\ counts[ty] <= TypeLimit[ty]
    /\ Cardinality(selected) <= request.limit
    /\ pc \notin {"compile", "save", "saved"} => Cardinality(selected) < request.limit

(* What was left out did not fit, and still does not.                      *)
Skipped ==
    \A i \in DOMAIN ranked :
        i < next /\ ranked[i] \notin selected => TypeFull(ranked[i]) \/ TooLong(ranked[i])

SelectionInv == Typed /\ Ranking /\ Counted /\ Skipped

LEMMA OrderIsSeq ==
    ASSUME NEW n \in Nat, NEW S, NEW order \in [1..n -> S]
    PROVE  order \in Seq(S) /\ Len(order) = n /\ DOMAIN order = 1..n
OBVIOUS

LEMMA InitSelection == Init => SelectionInv
<1> SUFFICES ASSUME Init PROVE SelectionInv
  OBVIOUS
<1>1. Typed
  BY NumbersAssumption DEF Init, Typed
<1>2. Ranking /\ Skipped
  BY DEF Init, Ranking, Skipped
<1>3. Counted
  <2>1. \A ty \in Types : {m \in selected : TypeOf[m] = ty} = {}
    BY DEF Init
  <2>2. request.limit \in Nat /\ request.limit >= 1
    BY <1>1, RequestParts DEF Typed
  <2> QED
    BY <2>1, <2>2, FS_EmptySet, DataAssumption DEF Init, Counted
<1> QED
  BY <1>1, <1>2, <1>3 DEF SelectionInv

(* Steps before the selection.                                             *)
LEMMA EarlySelection ==
    ASSUME SelectionInv, UNCHANGED <<stored, request, ranked, selection, steady>>,
           raw' = raw \/ pc \in {"retrieve", "fallback", "retry"}, raw' \subseteq Memories,
           \/ pc' = pc
           \/ /\ pc \in {"decide", "related", "stable", "retrieve", "fallback", "retry"}
              /\ pc' \in {"related", "skipped", "stable", "retrieve", "fallback",
                          "retry", "rank"}
    PROVE  SelectionInv'
BY DEF SelectionInv, Typed, Ranking, Counted, Skipped, TypeFull, TooLong, selection

(* Steps after it.                                                         *)
LEMMA LateSelection ==
    ASSUME SelectionInv, UNCHANGED <<stored, request, raw, ranked, selection, steady>>,
           pc \in {"select", "compile", "save"}, pc' \in {"compile", "save", "saved"}
    PROVE  SelectionInv'
BY DEF SelectionInv, Typed, Ranking, Counted, Skipped, TypeFull, TooLong, selection

(* Writes of other threads.                                                *)
LEMMA OtherSelection ==
    ASSUME SelectionInv, UNCHANGED <<pc, request, raw, ranked, selection>>,
           stored' \subseteq Memories, steady' \subseteq stored'
    PROVE  SelectionInv'
BY DEF SelectionInv, Typed, Ranking, Counted, Skipped, TypeFull, TooLong, selection

LEMMA RankSelection == ASSUME SelectionInv, Rank PROVE SelectionInv'
<1>1. PICK order \in [1..Cardinality(raw) -> raw] :
         /\ ranked' = order
         /\ \A i, j \in DOMAIN order : order[i] = order[j] => i = j
  BY DEF Rank
<1>2. raw \subseteq Memories /\ Cardinality(raw) \in Nat
  BY FiniteMemories DEF SelectionInv, Typed
<1>3. /\ ranked' \in Seq(Memories)
      /\ Len(ranked') = Cardinality(raw)
      /\ DOMAIN ranked' = 1..Cardinality(raw)
      /\ \A i \in DOMAIN ranked' : ranked'[i] \in raw
  BY <1>1, <1>2, OrderIsSeq
<1>4. ranked = <<>> /\ selected = {} /\ next = 1
  BY DEF SelectionInv, Typed, Ranking, Rank
<1>5. UNCHANGED <<stored, request, raw, selection, steady>> /\ pc = "rank" /\ pc' = "select"
  BY DEF Rank, tables
<1>6. Typed'
  BY <1>2, <1>3, <1>4, <1>5 DEF SelectionInv, Typed, selection
<1>7. Ranking'
  BY <1>1, <1>3, <1>4, <1>5 DEF Ranking, selection
<1>8. Counted'
  BY <1>5 DEF SelectionInv, Counted, selection
<1>9. Skipped'
  BY <1>3, <1>4, <1>5 DEF Skipped, selection
<1> QED
  BY <1>6, <1>7, <1>8, <1>9 DEF SelectionInv

LEMMA CurrentIsMemory ==
    ASSUME SelectionInv, next <= Len(ranked)
    PROVE  /\ next \in DOMAIN ranked /\ Current \in Memories
           /\ TypeOf[Current] \in Types /\ Length[Current] \in Nat
           /\ Current \notin selected
<1>1. next \in DOMAIN ranked /\ Current \in Memories
  BY DEF SelectionInv, Typed, Current
<1>2. Current \notin selected
  BY <1>1 DEF SelectionInv, Ranking, Typed, Current
<1> QED
  BY <1>1, <1>2, DataAssumption

LEMMA LeaveSelection == ASSUME SelectionInv, Leave PROVE SelectionInv'
<1>1. next \in DOMAIN ranked
  BY CurrentIsMemory DEF Leave
<1>2. UNCHANGED <<stored, pc, request, raw, ranked, selected, counts, chars, steady>>
  BY DEF Leave, tables
<1>3. next' = next + 1 /\ next' \in 1..(Len(ranked') + 1)
  BY <1>1, <1>2 DEF Leave, SelectionInv, Typed
<1>4. Typed' /\ Ranking' /\ Counted'
  BY <1>2, <1>3 DEF SelectionInv, Typed, Ranking, Counted
<1>5. Skipped'
  <2> SUFFICES ASSUME NEW i \in DOMAIN ranked, i < next + 1, ranked[i] \notin selected
               PROVE  TypeFull(ranked[i]) \/ TooLong(ranked[i])
    BY <1>2, <1>3 DEF Skipped, TypeFull, TooLong
  <2>1. i < next \/ i = next
    BY DEF SelectionInv, Typed
  <2> QED
    BY <2>1 DEF Leave, Current, SelectionInv, Skipped
<1> QED
  BY <1>4, <1>5 DEF SelectionInv

LEMMA TakeSelection == ASSUME SelectionInv, Take PROVE SelectionInv'
<1> DEFINE c == Current
           Of(S, ty) == {m \in S : TypeOf[m] = ty}
<1>1. /\ next \in DOMAIN ranked /\ c \in Memories /\ c = ranked[next]
      /\ TypeOf[c] \in Types /\ Length[c] \in Nat /\ c \notin selected
  BY CurrentIsMemory DEF Take, Current
<1>2. /\ next' = next + 1
      /\ selected' = selected \cup {c}
      /\ counts' = [counts EXCEPT ![TypeOf[c]] = @ + 1]
      /\ chars' = chars + Length[c]
      /\ pc = "select"
      /\ pc' = IF Cardinality(selected') >= request.limit THEN "compile" ELSE "select"
      /\ ~TypeFull(c) /\ ~TooLong(c)
      /\ UNCHANGED <<stored, request, raw, ranked, steady>>
  BY DEF Take, tables
<1> HIDE DEF c
<1>3. Typed'
  BY <1>1, <1>2 DEF SelectionInv, Typed
<1>4. Ranking'
  <2>1. \A m \in selected' : \E i \in DOMAIN ranked' : i < next' /\ ranked'[i] = m
    <3> SUFFICES ASSUME NEW m \in selected'
                 PROVE  \E i \in DOMAIN ranked : i < next + 1 /\ ranked[i] = m
      BY <1>2
    <3>1. CASE m = c
      BY <1>1, <3>1 DEF SelectionInv, Typed
    <3>2. CASE m \in selected
      <4>1. PICK i \in DOMAIN ranked : i < next /\ ranked[i] = m
        BY <3>2 DEF SelectionInv, Ranking
      <4>2. i < next + 1
        BY <4>1 DEF SelectionInv, Typed
      <4> QED
        BY <4>1, <4>2
    <3> QED
      BY <1>2, <3>1, <3>2
  <2> QED
    BY <1>2, <2>1 DEF SelectionInv, Ranking
<1>5. Counted'
  <2>1. /\ IsFiniteSet(selected) /\ Cardinality(selected) \in Nat
        /\ Cardinality(selected') = Cardinality(selected) + 1
    BY <1>1, <1>2, FiniteMemories, FS_AddElement DEF SelectionInv, Typed
  <2>2. request.limit \in Nat /\ Cardinality(selected) < request.limit
    BY <1>2, RequestParts DEF SelectionInv, Typed, Counted
  <2>3. ASSUME NEW ty \in Types
        PROVE  counts'[ty] = Cardinality(Of(selected', ty)) /\ counts'[ty] <= TypeLimit[ty]
    <3>1. /\ counts[ty] = Cardinality(Of(selected, ty)) /\ counts[ty] <= TypeLimit[ty]
          /\ counts[ty] \in Nat /\ TypeLimit[ty] \in Nat
      BY DataAssumption DEF SelectionInv, Typed, Counted
    <3>2. CASE ty = TypeOf[c]
      <4>1. Of(selected', ty) = Of(selected, ty) \cup {c} /\ c \notin Of(selected, ty)
        BY <1>1, <1>2, <3>2
      <4>2. IsFiniteSet(Of(selected, ty))
        BY <2>1, FS_Subset
      <4>3. Cardinality(Of(selected', ty)) = Cardinality(Of(selected, ty)) + 1
        BY <4>1, <4>2, FS_AddElement
      <4>4. ~(counts[ty] >= TypeLimit[ty]) /\ counts'[ty] = counts[ty] + 1
        BY <1>2, <3>2 DEF TypeFull, SelectionInv, Typed
      <4> HIDE DEF Of
      <4> QED
        BY <3>1, <4>3, <4>4
    <3>3. CASE ty # TypeOf[c]
      <4>1. Of(selected', ty) = Of(selected, ty)
        BY <1>2, <3>3
      <4>2. counts'[ty] = counts[ty]
        BY <1>2, <3>3 DEF SelectionInv, Typed
      <4> QED
        BY <3>1, <4>1, <4>2
    <3> QED
      BY <3>2, <3>3
  <2> HIDE DEF Of
  <2>4. Cardinality(selected') <= request'.limit
        /\ (pc' \notin {"compile", "save", "saved"} => Cardinality(selected') < request'.limit)
    BY <1>2, <2>1, <2>2
  <2> QED
    BY <2>3, <2>4 DEF Counted, Of
<1>6. Skipped'
  <2> SUFFICES ASSUME NEW i \in DOMAIN ranked, i < next + 1, ranked[i] \notin selected'
               PROVE  TypeFull(ranked[i])' \/ TooLong(ranked[i])'
    BY <1>2 DEF Skipped, TypeFull, TooLong
  <2>1. i < next /\ ranked[i] \notin selected
    BY <1>1, <1>2 DEF SelectionInv, Typed
  <2>2. ranked[i] \in Memories /\ TypeOf[ranked[i]] \in Types /\ Length[ranked[i]] \in Nat
    BY DataAssumption DEF SelectionInv, Typed
  <2>3. CASE TypeFull(ranked[i])
    <3>1. counts'[TypeOf[ranked[i]]] >= counts[TypeOf[ranked[i]]]
      BY <1>1, <1>2, <2>2 DEF SelectionInv, Typed
    <3>2. /\ counts[TypeOf[ranked[i]]] \in Nat /\ counts'[TypeOf[ranked[i]]] \in Nat
          /\ TypeLimit[TypeOf[ranked[i]]] \in Nat
      BY <1>3, <2>2, DataAssumption DEF SelectionInv, Typed
    <3>3. counts'[TypeOf[ranked[i]]] >= TypeLimit[TypeOf[ranked[i]]]
      BY <2>3, <3>1, <3>2 DEF TypeFull
    <3>4. TypeFull(ranked[i])'
      BY <1>2, <3>3 DEF TypeFull
    <3> QED
      BY <3>4
  <2>4. CASE TooLong(ranked[i])
    <3>1. /\ request.maxChars \in Nat /\ chars \in Nat
          /\ chars + Length[ranked[i]] > request.maxChars
      BY <2>4, RequestParts DEF TooLong, SelectionInv, Typed
    <3>2. chars' + Length[ranked[i]] > request.maxChars /\ selected' # {}
      BY <1>1, <1>2, <2>2, <3>1
    <3>3. TooLong(ranked[i])'
      BY <1>2, <3>2 DEF TooLong
    <3> QED
      BY <3>3
  <2> QED
    BY <2>1, <2>3, <2>4 DEF SelectionInv, Skipped
<1> QED
  BY <1>3, <1>4, <1>5, <1>6 DEF SelectionInv

LEMMA RetrievedAreMemories ==
    ASSUME Typed, NEW types, NEW found,
           \/ found \in Matches(stored)
           \/ found \in Matches(Stored(types))
           \/ found \in Limited(Stored(types))
    PROVE  found \subseteq Memories
BY DEF Typed, Matches, Stored, Limited

LEMMA NextSelection == SelectionInv /\ [Next]_vars => SelectionInv'
<1> SUFFICES ASSUME SelectionInv, [Next]_vars PROVE SelectionInv'
  OBVIOUS
<1>1. CASE Decide \/ ReadRelated \/ ReadStable
  <2>1. raw \subseteq Memories
    BY DEF SelectionInv, Typed
  <2> QED
    BY <1>1, <2>1, EarlySelection DEF Decide, ReadRelated, ReadStable, tables
<1>2. CASE Retrieve
  <2>1. raw' \subseteq Memories
    BY <1>2, RetrievedAreMemories DEF SelectionInv, Retrieve
  <2>2. /\ UNCHANGED <<stored, request, ranked, selection>> /\ steady' = stored
        /\ pc = "retrieve" /\ pc' \in {"rank", "fallback"}
    BY <1>2 DEF Retrieve, tables
  <2> QED
    BY <2>1, <2>2 DEF SelectionInv, Typed, Ranking, Counted, Skipped, TypeFull, TooLong,
                      selection
<1>3. CASE RetrieveFallback
  <2>1. PICK found \in Limited(Stored(request.types)) : raw' = raw \cup found
    BY <1>3 DEF RetrieveFallback
  <2>2. raw' \subseteq Memories
    BY <2>1, RetrievedAreMemories DEF SelectionInv, Typed
  <2> QED
    BY <1>3, <2>2, EarlySelection DEF RetrieveFallback, tables
<1>4. CASE Retry
  <2>1. raw' \subseteq Memories
    BY <1>4, RetrievedAreMemories DEF SelectionInv, Retry
  <2> QED
    BY <1>4, <2>1, EarlySelection DEF Retry, tables
<1>5. CASE Exhausted \/ Compile \/ Save
  BY <1>5, LateSelection DEF Exhausted, Compile, Save, tables
<1>6. ASSUME NEW m \in Memories, Capture(m) PROVE SelectionInv'
  <2>1. stored' \subseteq Memories /\ steady' \subseteq stored'
    BY <1>6 DEF Capture, SelectionInv, Typed
  <2> QED
    BY <1>6, <2>1, OtherSelection DEF Capture, OtherWrite
<1>7. ASSUME NEW trait \in Traits, NEW stability \in 0..MaxStability,
             Consolidate(trait, stability)
      PROVE  SelectionInv'
  <2>1. stored' \subseteq Memories /\ steady' \subseteq stored'
    BY <1>7 DEF Consolidate, SelectionInv, Typed
  <2> QED
    BY <1>7, <2>1, OtherSelection DEF Consolidate, OtherWrite
<1>8. CASE Clear
  <2>1. stored' \subseteq Memories /\ steady' \subseteq stored'
    BY <1>8 DEF Clear
  <2> QED
    BY <1>8, <2>1, OtherSelection DEF Clear, OtherWrite
<1>9. CASE UNCHANGED vars
  <2>1. stored' \subseteq Memories /\ steady' \subseteq stored'
    BY <1>9 DEF vars, tables, SelectionInv, Typed
  <2> QED
    BY <1>9, <2>1, OtherSelection DEF vars
<1> QED
  BY <1>1, <1>2, <1>3, <1>4, <1>5, <1>6, <1>7, <1>8, <1>9, RankSelection,
     LeaveSelection, TakeSelection DEF Next

LEMMA SelectionAlways == Spec => []SelectionInv
<1> QED
  BY InitSelection, NextSelection, PTL DEF Spec

-----------------------------------------------------------------------------
(* The budget.                                                             *)

(* The characters counted are those selected, and only a single memory may *)
(* exceed the budget.                                                      *)
CharsInv ==
    /\ chars = SumOfLengths(selected)
    /\ chars > request.maxChars => Cardinality(selected) = 1

(* A selection ends at its limit or with the ranking.                      *)
EndInv ==
    Finished => Cardinality(selected) = request.limit \/ next > Len(ranked)

LEMMA InitBudget == Init => CharsInv /\ EndInv
<1> SUFFICES ASSUME Init PROVE CharsInv /\ EndInv
  OBVIOUS
<1>1. chars = 0 /\ selected = {} /\ request.maxChars \in Nat /\ ~Finished
  BY InitSelection, RequestParts DEF Init, Finished, SelectionInv, Typed
<1> QED
  BY <1>1, SumOfNone DEF CharsInv, EndInv

LEMMA TakeBudget ==
    ASSUME SelectionInv, CharsInv, EndInv, Take
    PROVE  CharsInv' /\ EndInv'
<1> DEFINE c == Current
<1>1. /\ c \in Memories /\ Length[c] \in Nat /\ c \notin selected
      /\ selected \in SUBSET Memories
  BY CurrentIsMemory DEF Take, SelectionInv, Typed
<1>2. /\ selected' = selected \cup {c} /\ chars' = chars + Length[c]
      /\ request' = request /\ ~TooLong(c) /\ pc = "select"
      /\ pc' = IF Cardinality(selected') >= request.limit THEN "compile" ELSE "select"
  BY DEF Take
<1> HIDE DEF c
<1>3. chars' = SumOfLengths(selected')
  BY <1>1, <1>2, SumOfMore DEF CharsInv
<1>4. ASSUME chars' > request.maxChars
      PROVE  Cardinality(selected') = 1
  <2>1. selected = {}
    BY <1>2, <1>4 DEF TooLong
  <2>2. selected' = {c}
    BY <1>2, <2>1
  <2> QED BY <2>2, FS_Singleton
<1>5. Cardinality(selected') <= request.limit /\ request.limit \in Nat
      /\ Cardinality(selected') \in Nat
  <2>1. SelectionInv'
    BY TakeSelection
  <2>2. selected' \in SUBSET Memories
    BY <1>1, <1>2
  <2> QED
    BY <1>2, <2>1, <2>2, FiniteMemories, RequestParts
    DEF SelectionInv, Counted, Typed
<1>6. EndInv'
  BY <1>2, <1>5 DEF EndInv, Finished
<1> QED
  BY <1>2, <1>3, <1>4, <1>6 DEF CharsInv

LEMMA NextBudget ==
    SelectionInv /\ CharsInv /\ EndInv /\ [Next]_vars => CharsInv' /\ EndInv'
<1> SUFFICES ASSUME SelectionInv, CharsInv, EndInv, [Next]_vars
             PROVE  CharsInv' /\ EndInv'
  OBVIOUS
<1>1. CASE Take
  BY <1>1, TakeBudget
<1>2. CASE Leave
  <2>1. UNCHANGED <<pc, request, selected, chars>> /\ pc = "select"
    BY <1>2 DEF Leave
  <2> QED BY <2>1 DEF CharsInv, EndInv, Finished
<1>3. CASE Exhausted
  <2>1. UNCHANGED <<request, ranked, selection>> /\ next > Len(ranked)
    BY <1>3 DEF Exhausted
  <2> QED BY <2>1 DEF CharsInv, EndInv, selection
<1>4. CASE Decide \/ ReadRelated \/ ReadStable \/ Retrieve \/ RetrieveFallback
           \/ Retry \/ Rank
  <2>1. UNCHANGED <<request, selection>> /\ ~Finished'
    BY <1>4 DEF Decide, ReadRelated, ReadStable, Retrieve, RetrieveFallback, Retry,
                Rank, Finished
  <2> QED BY <2>1 DEF CharsInv, EndInv, selection
<1>5. CASE Compile \/ Save \/ UNCHANGED vars \/ OtherWrite
  <2>1. UNCHANGED <<request, ranked, selection>> /\ (Finished' => Finished)
    BY <1>5 DEF Compile, Save, vars, OtherWrite, Finished
  <2> QED BY <2>1 DEF CharsInv, EndInv, selection
<1> QED
  BY <1>1, <1>2, <1>3, <1>4, <1>5 DEF Next, Capture, Consolidate, Clear

LEMMA BudgetAlways == Spec => [](SelectionInv /\ CharsInv /\ EndInv)
BY InitSelection, InitBudget, NextSelection, NextBudget, PTL DEF Spec

(* The selection keeps within the limit, the limits of the types and the   *)
(* budget of characters, but for a single memory that is too long itself,  *)
(* for any memories, limits, budgets and rankings (_apply_budget).         *)
THEOREM BudgetKept == Spec => []WithinBudget
<1>1. SelectionInv /\ CharsInv => WithinBudget
  BY DEF SelectionInv, Counted, CharsInv, WithinBudget
<1> QED
  BY <1>1, BudgetAlways, PTL

(* Each memory retrieved has a rank.                                       *)
LEMMA AllRanked ==
    ASSUME SelectionInv, Finished, NEW m \in raw
    PROVE  \E i \in DOMAIN ranked : ranked[i] = m
<1>1. /\ IsFiniteSet(raw) /\ Cardinality(raw) \in Nat /\ Len(ranked) = Cardinality(raw)
      /\ DOMAIN ranked = 1..Len(ranked)
      /\ \A i \in DOMAIN ranked : ranked[i] \in raw
      /\ \A i, j \in DOMAIN ranked : ranked[i] = ranked[j] => i = j
  BY FiniteMemories DEF SelectionInv, Typed, Ranking, Finished
<1>2. ranked \in [1..Cardinality(raw) -> raw]
  BY <1>1 DEF SelectionInv, Typed
<1>3. ranked \in Injection(1..Cardinality(raw), raw)
  BY <1>1, <1>2 DEF Injection, IsInjective
<1>4. Cardinality(1..Cardinality(raw)) = Cardinality(raw)
  BY <1>1, FS_Interval
<1>5. ranked \in Surjection(1..Cardinality(raw), raw)
  BY <1>1, <1>3, <1>4, FS_Injection
<1> QED
  BY <1>1, <1>5 DEF Surjection

(* Of what was retrieved, nothing that was left out would still fit, for   *)
(* any memories, limits, budgets and rankings: a memory that was too long  *)
(* or one too many when its turn came still is at the end.                 *)
THEOREM NothingLeftOut == Spec => []NothingMoreFits
<1>1. SelectionInv /\ CharsInv /\ EndInv => NothingMoreFits
  <2> SUFFICES ASSUME SelectionInv, CharsInv, EndInv, Finished,
                      NEW m \in raw \ selected, Cardinality(selected) # request.limit
               PROVE  \/ Cardinality({o \in selected : TypeOf[o] = TypeOf[m]})
                            = TypeLimit[TypeOf[m]]
                      \/ SumOfLengths(selected) + Length[m] > request.maxChars
    BY DEF NothingMoreFits
  <2>1. PICK i \in DOMAIN ranked : ranked[i] = m
    BY AllRanked
  <2>2. i < next
    BY <2>1 DEF EndInv, SelectionInv, Typed
  <2>3. TypeFull(m) \/ TooLong(m)
    BY <2>1, <2>2 DEF SelectionInv, Skipped
  <2>4. CASE TypeFull(m)
    <3> DEFINE ty == TypeOf[m]
    <3>1. ty \in Types /\ TypeLimit[ty] \in Nat
      BY DataAssumption DEF SelectionInv, Typed
    <3>2. /\ counts[ty] = Cardinality({o \in selected : TypeOf[o] = ty})
          /\ counts[ty] <= TypeLimit[ty] /\ counts[ty] \in Nat
      BY <3>1 DEF SelectionInv, Typed, Counted
    <3>3. counts[ty] >= TypeLimit[ty]
      BY <2>4 DEF TypeFull
    <3> HIDE DEF ty
    <3>4. counts[ty] = TypeLimit[ty]
      BY <3>1, <3>2, <3>3
    <3> QED BY <3>2, <3>4 DEF ty
  <2>5. CASE TooLong(m)
    BY <2>5 DEF TooLong, CharsInv
  <2> QED BY <2>3, <2>4, <2>5
<1> QED
  BY <1>1, BudgetAlways, PTL

-----------------------------------------------------------------------------
(* Rank.                                                                   *)

LEMMA InitRank == Init => RankRespected
BY DEF Init, RankRespected

LEMMA TakeRank == ASSUME SelectionInv, RankRespected, Take PROVE RankRespected'
<1> DEFINE c == Current
<1>1. /\ next \in DOMAIN ranked /\ c \in Memories /\ c = ranked[next]
      /\ c \notin selected
  BY CurrentIsMemory DEF Take, Current
<1>2. /\ selected' = selected \cup {c} /\ UNCHANGED ranked
      /\ ~TypeFull(c) /\ ~TooLong(c)
  BY DEF Take
<1> HIDE DEF c
<1> SUFFICES ASSUME NEW i \in DOMAIN ranked, NEW j \in DOMAIN ranked, i < j,
                    TypeOf[ranked[i]] = TypeOf[ranked[j]],
                    Length[ranked[i]] <= Length[ranked[j]],
                    ranked[j] \in selected'
             PROVE  ranked[i] \in selected'
  BY <1>2 DEF RankRespected
<1>3. CASE ranked[j] \in selected
  BY <1>2, <1>3 DEF RankRespected
<1>4. CASE ranked[j] \notin selected
  <2>1. j = next
    BY <1>1, <1>2, <1>4 DEF SelectionInv, Ranking
  <2>2. SUFFICES ASSUME ranked[i] \notin selected PROVE FALSE
    BY <1>2
  <2>3. TypeFull(ranked[i]) \/ TooLong(ranked[i])
    BY <2>1, <2>2 DEF SelectionInv, Skipped
  <2>4. ~TypeFull(ranked[i])
    BY <1>1, <1>2, <2>1 DEF TypeFull
  <2>5. /\ Length[ranked[i]] \in Nat /\ Length[c] \in Nat /\ chars \in Nat
        /\ request.maxChars \in Nat /\ Length[ranked[i]] <= Length[c]
    BY <1>1, <2>1, DataAssumption, RequestParts DEF SelectionInv, Typed
  <2>6. ~TooLong(ranked[i])
    BY <1>2, <2>5 DEF TooLong
  <2> QED
    BY <2>3, <2>4, <2>6
<1> QED
  BY <1>3, <1>4

LEMMA NextRank == SelectionInv /\ RankRespected /\ [Next]_vars => RankRespected'
<1> SUFFICES ASSUME SelectionInv, RankRespected, [Next]_vars PROVE RankRespected'
  OBVIOUS
<1>1. CASE UNCHANGED <<ranked, selected>>
  BY <1>1 DEF RankRespected
<1>2. CASE Rank
  BY <1>2 DEF Rank, selection, SelectionInv, Ranking, RankRespected
<1> QED
  BY <1>1, <1>2, TakeRank DEF Next, vars, selection, Decide, ReadRelated, ReadStable,
     Retrieve, RetrieveFallback, Retry, Leave, Exhausted, Compile, Save, Capture,
     Consolidate, Clear, OtherWrite

(* No memory is left out for one of its type that ranks behind it and is   *)
(* not shorter, whatever the ranking and the limits are.                   *)
THEOREM RankKept == Spec => []RankRespected
<1>1. Init => SelectionInv /\ RankRespected
  BY InitSelection, InitRank
<1>2. SelectionInv /\ RankRespected /\ [Next]_vars => (SelectionInv /\ RankRespected)'
  BY NextSelection, NextRank
<1> QED
  BY <1>1, <1>2, PTL DEF Spec

-----------------------------------------------------------------------------
(* Intent.                                                                 *)

Intended(m) == TypeOf[m] \in request.types

(* Some memory of the intended types has been there since the retrieval.   *)
Available == request.types # {} /\ \E m \in steady : Intended(m)

(* Until the retry only intended memories are retrieved, and there is no   *)
(* retry as long as one of them is there.                                  *)
IntentInv ==
    /\ pc \in {"decide", "related", "stable", "retrieve"} => steady = {}
    /\ pc = "fallback" =>
          request.types # {} /\ \A m \in raw : Intended(m)
    /\ pc = "retry" => ~Available
    /\ pc \in {"rank", "select", "compile", "save", "saved"} /\ Available =>
          raw # {} /\ \A m \in raw : Intended(m)
    /\ Finished /\ raw # {} => selected # {}

LEMMA InitIntent == Init => IntentInv
BY DEF Init, IntentInv, Finished

(* Memories may go, but the ones that were there all along do not come.    *)
LEMMA OtherIntent ==
    ASSUME IntentInv, UNCHANGED <<pc, request, raw, selection>>, steady' \subseteq steady
    PROVE  IntentInv'
BY DEF IntentInv, Available, Intended, Finished, selection

(* The first memory of a ranking is never left out.                        *)
LEMMA FirstIsTaken ==
    ASSUME SelectionInv, pc = "select", selected = {}, raw # {}
    PROVE  next <= Len(ranked) /\ next = 1
<1>1. \A m \in Memories : ~TypeFull(m) /\ ~TooLong(m)
  <2> SUFFICES ASSUME NEW m \in Memories PROVE ~TypeFull(m) /\ ~TooLong(m)
    OBVIOUS
  <2>1. TypeOf[m] \in Types /\ TypeLimit[TypeOf[m]] \in Nat \ {0}
    BY DataAssumption
  <2>2. {o \in selected : TypeOf[o] = TypeOf[m]} = {}
    OBVIOUS
  <2>3. counts[TypeOf[m]] = 0
    BY <2>1, <2>2, FS_EmptySet DEF SelectionInv, Counted
  <2> QED
    BY <2>1, <2>3 DEF TypeFull, TooLong
<1>2. next = 1
  <2>1. SUFFICES ASSUME next # 1 PROVE FALSE
    OBVIOUS
  <2>2. 1 \in DOMAIN ranked /\ 1 < next /\ ranked[1] \in Memories
    BY <2>1 DEF SelectionInv, Typed
  <2>3. TypeFull(ranked[1]) \/ TooLong(ranked[1])
    BY <2>2 DEF SelectionInv, Skipped
  <2> QED
    BY <1>1, <2>2, <2>3
<1>3. Cardinality(raw) \in Nat /\ Cardinality(raw) # 0
  BY FiniteMemories, FS_EmptySet DEF SelectionInv, Typed
<1>4. Len(ranked) = Cardinality(raw)
  BY DEF SelectionInv, Ranking
<1> QED
  BY <1>2, <1>3, <1>4

LEMMA FallbackIntent ==
    ASSUME SelectionInv, IntentInv, RetrieveFallback
    PROVE  IntentInv'
<1>1. PICK found \in Limited(Stored(request.types)) : raw' = raw \cup found
  BY DEF RetrieveFallback
<1>2. /\ pc = "fallback" /\ pc' = IF raw' = {} THEN "retry" ELSE "rank"
      /\ UNCHANGED <<request, selection, steady>>
  BY DEF RetrieveFallback
<1>3. \A m \in raw' : Intended(m)
  BY <1>1, <1>2 DEF IntentInv, Limited, Stored, Intended
<1>4. Available => raw' # {}
  <2> SUFFICES ASSUME Available PROVE raw' # {}
    OBVIOUS
  <2>1. Stored(request.types) # {}
    BY DEF Available, Intended, SelectionInv, Typed, Stored
  <2>2. Stored(request.types) \subseteq Memories
    BY DEF SelectionInv, Typed, Stored
  <2>3. CandidateLimit >= 1 /\ CandidateLimit \in Nat
    BY RequestParts DEF SelectionInv, Typed
  <2>4. found # {}
    BY <1>1, <2>1, <2>3, FS_EmptySet DEF Limited
  <2> QED
    BY <1>1, <2>4
<1>5. Available' <=> Available
  BY <1>2 DEF Available, Intended
<1> QED
  BY <1>2, <1>3, <1>4, <1>5 DEF IntentInv, Intended, Finished

LEMMA NextIntent == SelectionInv /\ IntentInv /\ [Next]_vars => IntentInv'
<1> SUFFICES ASSUME SelectionInv, IntentInv, [Next]_vars PROVE IntentInv'
  OBVIOUS
<1>1. CASE Decide \/ ReadRelated \/ ReadStable
  BY <1>1 DEF Decide, ReadRelated, ReadStable, IntentInv, Finished
<1>2. CASE Retrieve
  <2>1. CASE request.types = {}
    BY <1>2, <2>1 DEF Retrieve, IntentInv, Finished, Available
  <2>2. CASE request.types # {}
    BY <1>2, <2>2 DEF Retrieve, IntentInv, Finished, Matches, Stored, Intended
  <2> QED
    BY <2>1, <2>2
<1>3. CASE Retry
  BY <1>3 DEF Retry, IntentInv, Finished, Available, Intended
<1>4. CASE Rank
  BY <1>4 DEF Rank, IntentInv, Finished, Available, Intended
<1>5. CASE Leave
  BY <1>5 DEF Leave, IntentInv, Finished, Available, Intended
<1>6. CASE Take
  <2>1. selected' # {} /\ pc = "select" /\ pc' \in {"select", "compile"}
    BY <1>6 DEF Take
  <2>2. UNCHANGED <<request, raw, steady>>
    BY <1>6 DEF Take
  <2> QED
    BY <2>1, <2>2 DEF IntentInv, Finished, Available, Intended
<1>7. CASE Exhausted
  <2>1. raw # {} => selected # {}
    BY <1>7, FirstIsTaken DEF Exhausted, SelectionInv, Typed
  <2> QED
    BY <1>7, <2>1 DEF Exhausted, selection, IntentInv, Finished, Available, Intended
<1>8. CASE Compile \/ Save
  BY <1>8 DEF Compile, Save, selection, IntentInv, Finished, Available, Intended
<1>9. CASE (\E m \in Memories : Capture(m)) \/ Clear
           \/ \E trait \in Traits, stability \in 0..MaxStability :
                 Consolidate(trait, stability)
  <2>1. UNCHANGED <<pc, request, raw, selection>> /\ steady' \subseteq steady
    BY <1>9 DEF Capture, Clear, Consolidate, OtherWrite
  <2> QED
    BY <2>1, OtherIntent
<1>10. CASE UNCHANGED vars
  BY <1>10, OtherIntent DEF vars
<1> QED
  BY <1>1, <1>2, <1>3, <1>4, <1>5, <1>6, <1>7, <1>8, <1>9, <1>10, FallbackIntent DEF Next

(* If a memory of the types that the intent names is there all the time,   *)
(* the selection is not empty and has no other types, whatever the query   *)
(* finds and in whatever order.                                            *)
THEOREM IntentKept == Spec => []IntentRespected
<1>1. Init => SelectionInv /\ IntentInv
  BY InitSelection, InitIntent
<1>2. SelectionInv /\ IntentInv /\ [Next]_vars => (SelectionInv /\ IntentInv)'
  BY NextSelection, NextIntent
<1>3. SelectionInv /\ IntentInv => IntentRespected
  <2> SUFFICES ASSUME SelectionInv, IntentInv, Finished, Available
               PROVE  selected # {} /\ \A m \in selected : Intended(m)
    BY DEF IntentRespected, Available, Intended
  <2>1. raw # {} /\ (\A m \in raw : Intended(m)) /\ selected # {}
    BY DEF IntentInv, Finished
  <2>2. selected \subseteq raw
    BY DEF SelectionInv, Ranking, Finished
  <2> QED
    BY <2>1, <2>2
<1> QED
  BY <1>1, <1>2, <1>3, PTL DEF Spec

-----------------------------------------------------------------------------
(* Type correctness.                                                       *)

LEMMA CutType ==
    ASSUME NEW n \in Nat, request \in Request
    PROVE  Cut(n) \in Nat
<1>1. \A k \in Int : Max({0, k}) \in Nat
  BY DEF Max
<1>2. request.maxChars \in Nat /\ Reserve \in Nat /\ Mark \in Nat
  BY RequestParts, NumbersAssumption
<1>3. n - (Reserve - request.maxChars) \in Int
  BY <1>2
<1>4. Max({0, n - (Reserve - request.maxChars)}) \in Nat
  BY <1>1, <1>3
<1> QED
  BY <1>2, <1>4 DEF Cut

LEMMA ReadingsFinite == IsFiniteSet(Readings)
<1>1. IsFiniteSet(1..MaxStability)
  BY FS_Interval, NumbersAssumption
<1>2. IsFiniteSet(Traits \X (1..MaxStability))
  BY <1>1, FS_Product, DataAssumption
<1> DEFINE f == [row \in Readings |-> <<row.trait, row.stability>>]
<1>3. f \in [Readings -> Traits \X (1..MaxStability)]
  BY DEF Readings
<1>4. \A a, b \in Readings : f[a] = f[b] => a = b
  BY DEF Readings
<1>5. f \in Injection(Readings, Traits \X (1..MaxStability))
  BY <1>3, <1>4 DEF Injection, IsInjective
<1> QED
  BY <1>2, <1>5, FS_Injection

(* The length of a package is a number: all it has is finite.              *)
LEMMA PackageType ==
    ASSUME SelectionInv, shown \subseteq Readings
    PROVE  Distinct \in SUBSET Memories /\ Cut(FullLength) \in Nat
<1>1. Distinct \in SUBSET Memories
  BY DEF Distinct, SelectionInv, Typed
<1>2. Cardinality(shown) \in Nat /\ Cardinality(Distinct) \in Nat
  BY <1>1, FiniteMemories, ReadingsFinite, FS_Subset, FS_CardinalityType
<1>3. SumOfLengths(Distinct) \in Nat
  BY <1>1, SumOfMemories
<1>4. \A a, b \in Nat : a * b \in Nat
  OBVIOUS
<1>5. Line * (Cardinality(shown) + Cardinality(Distinct)) \in Nat
  BY <1>2, <1>4, NumbersAssumption
<1>6. FullLength \in Nat
  BY <1>3, <1>5, NumbersAssumption DEF FullLength
<1> QED
  BY <1>1, <1>6, CutType DEF SelectionInv, Typed

Phases == {"decide", "related", "stable", "retrieve", "fallback", "retry",
           "rank", "select", "compile", "save", "saved", "skipped"}

(* What is not typed yet.                                                  *)
OtherTyped ==
    /\ profile \in [Traits -> 0..MaxStability]
    /\ pc \in Phases
    /\ related \subseteq Readings
    /\ shown \subseteq Readings
    /\ \/ package = Nothing
       \/ package \in [memories : SUBSET Memories, length : Nat]
    /\ writes \in 0..MaxWrites

LEMMA InitTypes == Init => OtherTyped
BY DataAssumption, NumbersAssumption DEF Init, OtherTyped, Phases

LEMMA StepsKeepTypes ==
    ASSUME OtherTyped, UNCHANGED <<profile, related, shown, package, writes>>,
           pc' \in Phases
    PROVE  OtherTyped'
BY DEF OtherTyped

LEMMA WritesKeepTypes ==
    ASSUME OtherTyped, OtherWrite, profile' \in [Traits -> 0..MaxStability]
    PROVE  OtherTyped'
<1>1. writes' \in 0..MaxWrites
  BY NumbersAssumption DEF OtherTyped, OtherWrite
<1>2. UNCHANGED <<pc, related, shown, package>>
  BY DEF OtherWrite
<1> QED
  BY <1>1, <1>2 DEF OtherTyped

LEMMA NextTypes == SelectionInv /\ OtherTyped /\ [Next]_vars => OtherTyped'
<1> SUFFICES ASSUME SelectionInv, OtherTyped, [Next]_vars PROVE OtherTyped'
  OBVIOUS
<1>1. CASE \/ Decide \/ Retrieve \/ RetrieveFallback \/ Retry \/ Rank
           \/ Leave \/ Take \/ Exhausted \/ Save \/ UNCHANGED vars
  <2>1. UNCHANGED <<profile, related, shown, package, writes>>
    BY <1>1 DEF Decide, Retrieve, RetrieveFallback, Retry, Rank, Leave, Take,
                Exhausted, Save, vars, tables, profiling
  <2>2. pc' \in Phases
    BY <1>1 DEF Decide, Retrieve, RetrieveFallback, Retry, Rank, Leave, Take,
                Exhausted, Save, vars, Phases, OtherTyped
  <2> QED BY <2>1, <2>2, StepsKeepTypes
<1>2. CASE ReadRelated
  <2>1. related' \subseteq Readings
    BY <1>2 DEF ReadRelated, TopOf, Active
  <2>2. pc' \in Phases
    BY <1>2 DEF ReadRelated, Phases
  <2>3. UNCHANGED <<profile, shown, package, writes>>
    BY <1>2 DEF ReadRelated, tables
  <2> QED BY <2>1, <2>2, <2>3 DEF OtherTyped
<1>3. CASE ReadStable
  <2>1. shown' \subseteq Readings
    <3>1. PICK stable \in TopOf(Active, StableLimit) :
          \E top \in TopOf(stable, ProfileLimit) :
             shown' \in ShownOf(top, {row \in stable : row.trait \in request.traits})
      BY <1>3 DEF ReadStable
    <3>2. stable \subseteq Readings
      BY <3>1 DEF TopOf, Active
    <3>3. PICK top \in SUBSET stable :
             shown' \in ShownOf(top, {row \in stable : row.trait \in request.traits})
      BY <3>1 DEF TopOf
    <3>4. shown' \subseteq top \cup related \cup stable
      BY <3>3 DEF ShownOf, TopOf, Updated
    <3> QED BY <3>2, <3>4 DEF OtherTyped
  <2>2. UNCHANGED <<profile, related, package, writes>> /\ pc' \in Phases
    BY <1>3 DEF ReadStable, tables, Phases
  <2> QED BY <2>1, <2>2 DEF OtherTyped
<1>4. CASE Compile
  <2>1. package' \in [memories : SUBSET Memories, length : Nat]
    BY <1>4, PackageType DEF Compile, OtherTyped
  <2>2. UNCHANGED <<profile, related, shown, writes>> /\ pc' \in Phases
    BY <1>4 DEF Compile, tables, profiling, Phases
  <2> QED BY <2>1, <2>2 DEF OtherTyped
<1>5. ASSUME NEW m \in Memories, Capture(m) PROVE OtherTyped'
  BY <1>5, WritesKeepTypes DEF Capture, OtherTyped
<1>6. ASSUME NEW trait \in Traits, NEW stability \in 0..MaxStability,
             Consolidate(trait, stability)
      PROVE  OtherTyped'
  BY <1>6, WritesKeepTypes DEF Consolidate, OtherTyped
<1>7. CASE Clear
  <2>1. profile' \in [Traits -> 0..MaxStability]
    BY <1>7, NumbersAssumption DEF Clear, OtherTyped
  <2> QED BY <1>7, <2>1, WritesKeepTypes DEF Clear
<1> QED
  BY <1>1, <1>2, <1>3, <1>4, <1>5, <1>6, <1>7 DEF Next

(* The tables and the variables of the preparation keep their types; the   *)
(* length of a package, a sum over its memories, is a number.              *)
THEOREM TypeCorrect == Spec => []TypeOK
<1>1. SelectionInv /\ OtherTyped => TypeOK
  BY DEF SelectionInv, Typed, OtherTyped, Phases, TypeOK
<1> QED
  BY <1>1, InitSelection, NextSelection, InitTypes, NextTypes, PTL DEF Spec

-----------------------------------------------------------------------------
(* The package.                                                            *)

LEMMA InitPackage == Init => PackageFits
BY DEF Init, PackageFits

LEMMA CutFits ==
    ASSUME NEW n, request \in Request, request.maxChars >= Reserve
    PROVE  Cut(n) <= request.maxChars
BY RequestParts, NumbersAssumption DEF Cut

LEMMA NextPackage == SelectionInv /\ PackageFits /\ [Next]_vars => PackageFits'
<1> SUFFICES ASSUME SelectionInv, PackageFits, [Next]_vars PROVE PackageFits'
  OBVIOUS
<1>1. CASE Compile
  BY <1>1, CutFits DEF Compile, PackageFits, SelectionInv, Typed
<1>2. CASE UNCHANGED <<package, request>>
  BY <1>2 DEF PackageFits
<1> QED
  BY <1>1, <1>2 DEF Next, vars, Decide, ReadRelated, ReadStable, Retrieve,
     RetrieveFallback, Retry, Rank, Leave, Take, Exhausted, Save, Capture,
     Consolidate, Clear, OtherWrite

(* A package is never longer than a budget that has room for the mark of   *)
(* truncation, whatever the lengths are.                                   *)
THEOREM PackagesFit == Spec => []PackageFits
<1>1. Init => SelectionInv /\ PackageFits
  BY InitSelection, InitPackage
<1>2. SelectionInv /\ PackageFits /\ [Next]_vars => (SelectionInv /\ PackageFits)'
  BY NextSelection, NextPackage
<1> QED
  BY <1>1, <1>2, PTL DEF Spec

-----------------------------------------------------------------------------
(* The profile.                                                            *)

LEMMA ActiveFinite ==
    /\ IsFiniteSet(Active)
    /\ \A a, b \in Active : a.trait = b.trait => a = b
    /\ \A row \in Active : row.stability \in Nat
<1>1. ASSUME NEW a \in Active, NEW b \in Active, a.trait = b.trait PROVE a = b
  <2>1. a \in Readings /\ b \in Readings /\ a.stability = b.stability
    BY <1>1 DEF Active
  <2> QED
    BY <1>1, <2>1 DEF Readings
<1>2. IsFiniteSet(Active)
  <2> DEFINE f == [row \in Active |-> row.trait]
  <2>1. f \in [Active -> Traits]
    BY DEF Active, Readings
  <2>2. f \in Injection(Active, Traits)
    BY <1>1, <2>1 DEF Injection, IsInjective
  <2> QED
    BY <2>2, FS_Injection, DataAssumption
<1>3. \A row \in Active : row.stability \in Nat
  BY NumbersAssumption DEF Active, Readings
<1> QED
  BY <1>1, <1>2, <1>3

LEMMA TopParts ==
    ASSUME NEW rows, IsFiniteSet(rows), NEW n \in Nat, NEW top \in TopOf(rows, n)
    PROVE  /\ top \subseteq rows /\ IsFiniteSet(top)
           /\ Cardinality(rows) \in Nat
           /\ Cardinality(top) = IF n <= Cardinality(rows) THEN n ELSE Cardinality(rows)
           /\ \A row \in top, other \in rows \ top : row.stability >= other.stability
BY FS_Subset, FS_CardinalityType, MinOfTwo DEF TopOf

(* The top of more rows than enough has the same top.                      *)
LEMMA TopOfTop ==
    ASSUME NEW rows, IsFiniteSet(rows), NEW n \in Nat, NEW k \in Nat, n <= k,
           NEW more \in TopOf(rows, k), NEW top \in TopOf(more, n)
    PROVE  top \in TopOf(rows, n)
<1>1. /\ more \subseteq rows /\ IsFiniteSet(more) /\ Cardinality(rows) \in Nat
      /\ Cardinality(more) = IF k <= Cardinality(rows) THEN k ELSE Cardinality(rows)
      /\ \A row \in more, other \in rows \ more : row.stability >= other.stability
  BY TopParts
<1>2. /\ top \subseteq more
      /\ Cardinality(top) = IF n <= Cardinality(more) THEN n ELSE Cardinality(more)
      /\ \A row \in top, other \in more \ top : row.stability >= other.stability
  BY <1>1, TopParts
<1>3. Cardinality(top) = IF n <= Cardinality(rows) THEN n ELSE Cardinality(rows)
  BY <1>1, <1>2
<1>4. \A row \in top, other \in rows \ top : row.stability >= other.stability
  BY <1>1, <1>2
<1> QED
  BY <1>1, <1>2, <1>3, <1>4, MinOfTwo DEF TopOf

(* Other rows beside a top do not change what the top may be.              *)
LEMMA TopOfMore ==
    ASSUME NEW rows, IsFiniteSet(rows), \A row \in rows : row.stability \in Nat,
           NEW n \in Nat, NEW top \in TopOf(rows, n),
           NEW more \in SUBSET rows, top \subseteq more, NEW some \in TopOf(more, n)
    PROVE  some \in TopOf(rows, n)
<1>1. /\ IsFiniteSet(top) /\ Cardinality(rows) \in Nat
      /\ Cardinality(top) = IF n <= Cardinality(rows) THEN n ELSE Cardinality(rows)
      /\ \A row \in top, other \in rows \ top : row.stability >= other.stability
  BY TopParts
<1>2. IsFiniteSet(more) /\ Cardinality(more) \in Nat
      /\ Cardinality(top) <= Cardinality(more) /\ Cardinality(more) <= Cardinality(rows)
  BY FS_Subset, FS_CardinalityType
<1>3. /\ some \subseteq more /\ IsFiniteSet(some)
      /\ Cardinality(some) = IF n <= Cardinality(more) THEN n ELSE Cardinality(more)
      /\ \A row \in some, other \in more \ some : row.stability >= other.stability
  BY <1>2, TopParts
<1>4. Cardinality(some) = Cardinality(top)
  BY <1>1, <1>2, <1>3
<1>5. ASSUME NEW row \in some, NEW other \in rows \ some
      PROVE  row.stability >= other.stability
  <2>1. CASE other \in more
    BY <1>3, <1>5, <2>1
  <2>2. CASE other \notin more
    <3>1. CASE row \in top
      BY <1>1, <2>2, <3>1
    <3>2. CASE row \notin top
      <4>1. PICK last \in top : last \notin some
        <5>1. SUFFICES ASSUME top \subseteq some PROVE FALSE
          OBVIOUS
        <5>2. top = some
          BY <1>3, <1>4, <5>1, FS_Subset
        <5> QED
          BY <3>2, <5>2
      <4>2. row.stability >= last.stability
        BY <1>3, <4>1
      <4>3. last.stability >= other.stability
        BY <1>1, <2>2, <4>1
      <4>4. row.stability \in Nat /\ last.stability \in Nat /\ other.stability \in Nat
        BY <1>3, <4>1
      <4> QED
        BY <4>2, <4>3, <4>4
    <3> QED
      BY <3>1, <3>2
  <2> QED
    BY <2>1, <2>2
<1>6. Cardinality(some) = Min({n, Cardinality(rows)})
  BY <1>1, <1>4, MinOfTwo
<1> QED
  BY <1>3, <1>5, <1>6 DEF TopOf

LEMMA ReadStableShows ==
    ASSUME ReadStable, related \subseteq Active
    PROVE  shown' \in TopOf(Active, ProfileLimit)
<1>1. PICK stable \in TopOf(Active, StableLimit) :
      \E top \in TopOf(stable, ProfileLimit) :
         shown' \in ShownOf(top, {row \in stable : row.trait \in request.traits})
  BY DEF ReadStable
<1> DEFINE intended == {row \in stable : row.trait \in request.traits}
<1>2. PICK top \in TopOf(stable, ProfileLimit) : shown' \in ShownOf(top, intended)
  BY <1>1
<1>3. stable \subseteq Active /\ top \in TopOf(Active, ProfileLimit) /\ top \subseteq Active
  <2>1. stable \subseteq Active /\ top \subseteq stable
    BY <1>1, <1>2 DEF TopOf
  <2>2. top \in TopOf(Active, ProfileLimit)
    BY <1>1, <1>2, ActiveFinite, TopOfTop, NumbersAssumption
  <2> QED
    BY <2>1, <2>2
<1> DEFINE more == Updated(Updated(top, related), intended)
<1>4. ASSUME NEW old \in SUBSET Active, NEW new \in SUBSET Active
      PROVE  Updated(old, new) = old \cup new
  BY ActiveFinite DEF Updated
<1>5. intended \subseteq Active
  BY <1>3
<1> HIDE DEF intended
<1>6. more = top \cup related \cup intended
  BY <1>3, <1>4, <1>5
<1>7. more \subseteq Active /\ top \subseteq more /\ shown' \in TopOf(more, ProfileLimit)
  BY <1>2, <1>3, <1>5, <1>6 DEF ShownOf
<1> HIDE DEF more
<1> QED
  BY <1>3, <1>7, ActiveFinite, TopOfMore, NumbersAssumption

(* The package shows the most stable traits of the profile, whatever the   *)
(* query and its intent are about and whatever is written between the two  *)
(* reads, unless what the first read has found is out of date.             *)
THEOREM MostStableShown == Spec => ProfileIsMostStable
<1>1. [Next]_vars
         => [pc = "stable" /\ pc' = "retrieve" /\ related \subseteq Active
               => shown' \in TopOf(Active, ProfileLimit)]_vars
  <2> SUFFICES ASSUME [Next]_vars, pc = "stable", pc' = "retrieve",
                      related \subseteq Active
               PROVE  shown' \in TopOf(Active, ProfileLimit) \/ UNCHANGED vars
    OBVIOUS
  <2>1. ReadStable
    BY DEF Next, vars, Decide, ReadRelated, Retrieve, RetrieveFallback, Retry, Rank,
       Leave, Take, Exhausted, Compile, Save, Capture, Consolidate, Clear, OtherWrite
  <2> QED
    BY <2>1, ReadStableShows
<1> QED
  BY <1>1, PTL DEF Spec, ProfileIsMostStable
=============================================================================
