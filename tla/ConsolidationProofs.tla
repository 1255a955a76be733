------------------------ MODULE ConsolidationProofs ------------------------
(***************************************************************************)
(* Proofs about Consolidation, for every number of threads, every set of   *)
(* contents and every bound.                                               *)
(***************************************************************************)
EXTENDS Consolidation, SequenceTheorems, FiniteSetTheorems, TLAPS

USE ContentsAssumption, LimitsAssumption, SentinelAssumption

-----------------------------------------------------------------------------
(* The operators the consolidator is made of.                              *)

(* Cutting a trait's evidence ids to the last ones yields ids it had.      *)
LEMMA LastIdsKeeps ==
    ASSUME NEW ids \in Seq(EvidenceId)
    PROVE  /\ LastIds(ids) \in Seq(EvidenceId)
           /\ \A i \in DOMAIN LastIds(ids) :
                \E j \in DOMAIN ids : LastIds(ids)[i] = ids[j]
<1>1. CASE Len(ids) > EvidenceWindow
  <2> DEFINE m == Len(ids) - EvidenceWindow + 1
  <2>1. m \in 1..Len(ids) + 1 /\ m \in Int /\ m >= 1
    BY <1>1
  <2>2. LastIds(ids) = SubSeq(ids, m, Len(ids))
    BY <1>1 DEF LastIds
  <2>3. SubSeq(ids, m, Len(ids)) \in Seq(EvidenceId)
    BY <2>1
  <2>4. ASSUME NEW i \in DOMAIN SubSeq(ids, m, Len(ids))
        PROVE  \E j \in DOMAIN ids : SubSeq(ids, m, Len(ids))[i] = ids[j]
    <3>1. i \in 1..(Len(ids) - m + 1)
      BY <2>1
    <3>2. SubSeq(ids, m, Len(ids))[i] = ids[m + i - 1]
      BY <2>1, <3>1
    <3>3. m + i - 1 \in DOMAIN ids
      BY <2>1, <3>1
    <3> QED BY <3>2, <3>3
  <2> QED BY <2>2, <2>3, <2>4
<1>2. CASE ~(Len(ids) > EvidenceWindow)
  BY <1>2 DEF LastIds
<1> QED BY <1>1, <1>2

(* Statuses are closed under the two status rules.                         *)
LEMMA StatusType ==
    ASSUME NEW c \in Contents
    PROVE  /\ InitialStatus(c) \in Statuses
           /\ \A trait, count, confidence :
                trait.status \in Statuses
                  => MergedStatus(trait, c, count, confidence) \in Statuses
<1>1. InitialStatus(c) \in Statuses
  BY DEF InitialStatus, Statuses
<1>2. ASSUME NEW trait, NEW count, NEW confidence, trait.status \in Statuses
      PROVE  MergedStatus(trait, c, count, confidence) \in Statuses
  BY <1>1, <1>2 DEF MergedStatus, Statuses
<1> QED BY <1>1, <1>2

(* A trait built from a stored or cached trait and a row is a trait, and   *)
(* its evidence ids are the new one and ids the old trait had.             *)
LEMMA BuildTraitKeeps ==
    ASSUME NEW old \in Trait \cup {NoTrait}, NEW row \in Row,
           NEW id \in EvidenceId
    PROVE  /\ BuildTrait(old, row, id) \in Trait
           /\ \A i \in DOMAIN BuildTrait(old, row, id).ids :
                \/ BuildTrait(old, row, id).ids[i] = id
                \/ /\ old # NoTrait
                   /\ \E j \in DOMAIN old.ids :
                        BuildTrait(old, row, id).ids[i] = old.ids[j]
<1>1. /\ row.content \in Contents /\ row.confidence \in Nat
      /\ Claim[row.content].length \in Nat
  BY DEF Row, Claims
<1>2. CASE old = NoTrait
  <2>1. BuildTrait(old, row, id) = NewTrait(row, id)
    BY <1>2 DEF BuildTrait
  <2>2. NewTrait(row, id) \in Trait
    BY <1>1, StatusType DEF NewTrait, Trait
  <2>3. NewTrait(row, id).ids = <<id>>
    BY DEF NewTrait
  <2> QED BY <2>1, <2>2, <2>3
<1>3. CASE old # NoTrait
  <2>1. old \in Trait
    BY <1>3
  <2>2. /\ old.count \in Nat /\ old.ids \in Seq(EvidenceId)
        /\ old.status \in Statuses /\ old.statement \in Contents
        /\ old.confidence \in Nat
    BY <2>1 DEF Trait
  <2> DEFINE more == Append(old.ids, id)
  <2>3. /\ more \in Seq(EvidenceId)
        /\ \A j \in DOMAIN more :
             more[j] = id \/ \E i \in DOMAIN old.ids : more[j] = old.ids[i]
    BY <2>2
  <2>4. BuildTrait(old, row, id) = MergedTrait(old, row, id)
    BY <1>3 DEF BuildTrait
  <2>5. MergedTrait(old, row, id).ids = LastIds(more)
    BY DEF MergedTrait
  <2>6. Raised(old.confidence, row.confidence, 4) \in Nat
    BY <1>1, <2>2 DEF Raised, Larger
  <2>7. MergedTrait(old, row, id) \in Trait
    <3> DEFINE confidence == Raised(old.confidence, row.confidence, 4)
               status == MergedStatus(old, row.content, old.count + 1,
                                      confidence)
    <3>1. status \in Statuses
      BY <1>1, <2>2, StatusType
    <3>2. LastIds(more) \in Seq(EvidenceId)
      BY <2>3, LastIdsKeeps
    <3>3. old.count + 1 \in Nat
      BY <2>2
    <3> HIDE DEF more, status, confidence
    <3> QED BY <1>1, <2>2, <2>6, <3>1, <3>2, <3>3
            DEF MergedTrait, Trait, more, status, confidence
  <2>8. \A i \in DOMAIN LastIds(more) :
          LastIds(more)[i] = id
            \/ \E j \in DOMAIN old.ids : LastIds(more)[i] = old.ids[j]
    <3> HIDE DEF more
    <3> QED BY <2>3, LastIdsKeeps
  <2> HIDE DEF more
  <2> QED BY <1>3, <2>4, <2>5, <2>7, <2>8
<1> QED BY <1>2, <1>3

-----------------------------------------------------------------------------
(* Type correctness.                                                       *)

LEMMA TypeInit == Init => TypeOK
<1> SUFFICES ASSUME Init PROVE TypeOK
  OBVIOUS
<1>1. NoRows \in [RowIds -> Row \cup {Absent}]
  BY DEF NoRows
<1>2. NoTraits \in [Keys -> Trait \cup {NoTrait}]
  BY DEF NoTraits
<1>3. "idle" \in Phases
  BY DEF Phases
<1> QED BY <1>1, <1>2, <1>3 DEF Init, TypeOK

(* The row a request inserts has an identity of its own.                   *)
LEMMA InsertType ==
    ASSUME TypeOK, requests < MaxRequests, NEW c \in Contents, Insert(c)
    PROVE  rows' \in [RowIds -> Row \cup {Absent}]
<1>1. NewRow(c) \in Row
  BY DEF NewRow, Row, Claims
<1> QED BY <1>1 DEF Insert, TypeOK

LEMMA ReinforceType ==
    ASSUME TypeOK, NEW c \in Contents, NEW r \in SimilarRows(c),
           Reinforce(r, c)
    PROVE  /\ rows' \in [RowIds -> Row \cup {Absent}]
           /\ rows'[r] \in Row /\ rows'[r].content \in {c, rows[r].content}
           /\ \A u \in RowIds \ {r} : rows'[u] = rows[u]
<1>1. r \in RowIds /\ rows[r] \in Row
  BY DEF SimilarRows, MemoryRows, TypeOK
<1>2. /\ rows[r].confidence \in Nat /\ rows[r].content \in Contents
      /\ Claim[c].confidence \in Nat
  BY <1>1 DEF Row, Claims
<1> DEFINE words == IF Claim[c].length > Claim[rows[r].content].length + 8
                    THEN c ELSE rows[r].content
           trust == Raised(rows[r].confidence, Claim[c].confidence, 3)
<1>3. trust \in Nat /\ words \in Contents
  BY <1>2 DEF Raised, Larger
<1>4. rows' = [rows EXCEPT ![r] = [rows[r] EXCEPT !.content = words,
                                                  !.confidence = trust]]
  <2>1. rows[r] = [content |-> rows[r].content,
                   confidence |-> rows[r].confidence]
    BY <1>1 DEF Row
  <2> HIDE DEF trust
  <2> QED BY <1>1, <2>1 DEF Reinforce, TypeOK, trust
<1>5. [rows[r] EXCEPT !.content = words, !.confidence = trust] \in Row
  <2> HIDE DEF trust, words
  <2> QED BY <1>1, <1>3 DEF Row
<1>6. [rows[r] EXCEPT !.content = words, !.confidence = trust].content = words
  <2> HIDE DEF trust, words
  <2> QED BY <1>1 DEF Row
<1>7. words \in {c, rows[r].content}
  OBVIOUS
<1> HIDE DEF trust, words
<1> QED BY <1>1, <1>4, <1>5, <1>6, <1>7 DEF TypeOK

(* What one turn of consolidate's loops leaves in a thread's variables.    *)
LEMMA BuildType ==
    ASSUME TypeOK, NEW t \in Threads, NEW r \in RowIds, Build(t, r)
    PROVE  /\ minted' \in [RowIds -> Nat]
           /\ built' \in [Threads -> SUBSET Evidence]
           /\ draft' \in [Threads -> [Keys -> Trait \cup {NoTrait}]]
           /\ scanned' \in [Threads -> [RowIds -> Row \cup {Absent}]]
<1> DEFINE row == scanned[t][r]
           k   == KeyOf(row.content)
           nth == minted[r] + 1
           old == IF draft[t][k] # NoTrait THEN draft[t][k] ELSE traits[k]
           new == BuildTrait(old, row, <<r, nth>>)
           evd == [row |-> r, nth |-> nth, content |-> row.content]
<1>1. row \in Row /\ row.content \in Contents
  BY DEF Build, ToBuild, TypeOK, Row
<1>2. nth \in Nat /\ <<r, nth>> \in EvidenceId /\ evd \in Evidence
  BY <1>1 DEF TypeOK, EvidenceId, Evidence
<1>3. /\ minted' = [minted EXCEPT ![r] = nth]
      /\ built' = [built EXCEPT ![t] = @ \cup {evd}]
      /\ scanned' = [scanned EXCEPT ![t][r] = Absent]
      /\ draft' = [draft EXCEPT ![t][k] = new]
  BY DEF Build
<1>4. k \in Keys => new \in Trait
  <2>1. k \in Keys => old \in Trait \cup {NoTrait}
    BY DEF TypeOK
  <2> HIDE DEF row, nth, old, k
  <2> QED BY <1>1, <1>2, <2>1, BuildTraitKeeps
<1> HIDE DEF row, nth, evd, new, k
<1>5. built[t] \cup {evd} \in SUBSET Evidence
  BY <1>2 DEF TypeOK
<1>6. built' \in [Threads -> SUBSET Evidence]
  BY <1>3, <1>5 DEF TypeOK
<1>7. draft' \in [Threads -> [Keys -> Trait \cup {NoTrait}]]
  BY <1>3, <1>4 DEF TypeOK
<1> QED BY <1>2, <1>3, <1>6, <1>7 DEF TypeOK

LEMMA TypeStep == TypeOK /\ [Next]_vars => TypeOK'
<1> SUFFICES ASSUME TypeOK, [Next]_vars PROVE TypeOK'
  OBVIOUS
<1> USE DEF TypeOK, store, locals
<1>1. ASSUME NEW t \in Threads, NEW c \in Statements, Remember(t, c)
      PROVE  TypeOK'
  BY <1>1, InsertType DEF Remember, Issue, Statements
<1>2. ASSUME NEW t \in Threads, NEW c \in Statements, Capture(t, c)
      PROVE  TypeOK'
  <2>1. rows' \in [RowIds -> Row \cup {Absent}]
    BY <1>2, InsertType, ReinforceType DEF Capture, Issue, Statements
  <2>2. pc' \in [Threads -> Phases]
    BY <1>2 DEF Capture, Moves, Phases
  <2> QED BY <1>2, <2>1, <2>2 DEF Capture, Issue, Statements
<1>3. ASSUME NEW t \in Threads, NEW c \in Contents \ Statements,
             RecordChoice(t, c)
      PROVE  TypeOK'
  BY <1>3, InsertType DEF RecordChoice, Issue
<1>4. ASSUME NEW t \in Threads, Clear(t)
      PROVE  TypeOK'
  BY <1>4 DEF Clear, Issue, NoRows, NoTraits
<1>5. ASSUME NEW t \in Threads, AutoConsolidate(t)
      PROVE  TypeOK'
  BY <1>5 DEF AutoConsolidate, Moves, Phases
<1>6. ASSUME NEW t \in Threads, Consolidate(t)
      PROVE  TypeOK'
  BY <1>6 DEF Consolidate, Moves, Phases
<1>7. ASSUME NEW t \in Threads, ScanMemories(t)
      PROVE  TypeOK'
  BY <1>7 DEF ScanMemories, Moves, Phases
<1>8. ASSUME NEW t \in Threads, ScanChoices(t)
      PROVE  TypeOK'
  BY <1>8 DEF ScanChoices, Moves, Phases
<1>9. ASSUME NEW t \in Threads, NEW r \in RowIds, Build(t, r)
      PROVE  TypeOK'
  <2>1. UNCHANGED <<requests, failures, store, pc>>
    BY <1>9 DEF Build
  <2> QED BY <1>9, <2>1, BuildType
<1>10. ASSUME NEW t \in Threads, AddEvidence(t)
       PROVE  TypeOK'
  BY <1>10 DEF AddEvidence, Moves, Phases
<1>11. ASSUME NEW t \in Threads, NEW k \in Keys, UpsertTrait(t, k)
       PROVE  TypeOK'
  BY <1>11 DEF UpsertTrait
<1>12. ASSUME NEW t \in Threads, MarkChoices(t)
       PROVE  TypeOK'
  BY <1>12 DEF MarkChoices, Moves, Phases, ChoiceRows
<1>13. ASSUME NEW t \in Threads, Fail(t)
       PROVE  TypeOK'
  BY <1>13 DEF Fail, Phases, NoRows, NoTraits
<1>14. CASE UNCHANGED vars
  BY <1>14 DEF vars
<1> QED
  BY <1>1, <1>2, <1>3, <1>4, <1>5, <1>6, <1>7, <1>8, <1>9, <1>10, <1>11,
     <1>12, <1>13, <1>14 DEF Next, Store, Continue

(* The tables and the variables of every thread stay well-typed, whatever  *)
(* requests overlap and whichever of them fail.                            *)
THEOREM TypeCorrect == Spec => []TypeOK
<1> QED BY TypeInit, TypeStep, PTL DEF Spec

-----------------------------------------------------------------------------
(* Traits are backed by evidence while nobody clears the database.         *)
(*                                                                         *)
(* TraitsBackedByEvidence alone is not inductive: UpsertTrait stores what  *)
(* a thread has drafted.  A draft may name, besides stored evidence, the   *)
(* evidence its thread has built; and that is stored once the thread may   *)
(* upsert.                                                                 *)

Backs(E, trait, k) ==
    trait # NoTrait => \A i \in DOMAIN trait.ids : trait.ids[i] \in QuotedIn(E, k)

BackedInv ==
    /\ TypeOK
    /\ \A k \in Keys : Backs(evidence, traits[k], k)
    /\ \A t \in Threads, k \in Keys :
         Backs(evidence \cup built[t], draft[t][k], k)
    /\ \A t \in Threads : pc[t] = "upsert" => built[t] \subseteq evidence

LEMMA BackedInit == Init => BackedInv
<1> QED BY TypeInit DEF Init, BackedInv, Backs, NoTraits

(* More evidence backs whatever less evidence backed.                      *)
LEMMA BacksMonotonic ==
    ASSUME NEW E, NEW F, E \subseteq F, NEW trait, NEW k, Backs(E, trait, k)
    PROVE  Backs(F, trait, k)
<1>1. QuotedIn(E, k) \subseteq QuotedIn(F, k)
  BY DEF QuotedIn
<1> QED BY <1>1 DEF Backs

(* One turn of the loops: the new trait names the evidence just built and  *)
(* what the old trait named.                                               *)
LEMMA BackedBuild ==
    ASSUME BackedInv, NEW t \in Threads, NEW r \in RowIds, Build(t, r)
    PROVE  \A u \in Threads, j \in Keys :
             Backs(evidence' \cup built'[u], draft'[u][j], j)
<1> SUFFICES ASSUME NEW u \in Threads, NEW j \in Keys
             PROVE  Backs(evidence' \cup built'[u], draft'[u][j], j)
  OBVIOUS
<1> DEFINE row == scanned[t][r]
           k   == KeyOf(row.content)
           nth == minted[r] + 1
           old == IF draft[t][k] # NoTrait THEN draft[t][k] ELSE traits[k]
           new == BuildTrait(old, row, <<r, nth>>)
           evd == [row |-> r, nth |-> nth, content |-> row.content]
<1>1. TypeOK
  BY DEF BackedInv
<1>2. /\ evidence' = evidence
      /\ built' = [built EXCEPT ![t] = @ \cup {evd}]
      /\ draft' = [draft EXCEPT ![t][k] = new]
  BY DEF Build, store
<1>3. built[u] \subseteq built'[u]
  BY <1>1, <1>2 DEF TypeOK
<1>4. CASE u = t /\ j = k
  <2>1. k \in Keys /\ row \in Row
    BY <1>1, <1>4 DEF Build, ToBuild, TypeOK
  <2>2. draft'[u][j] = new
    BY <1>1, <1>2, <1>4, <2>1 DEF TypeOK
  <2>3. old \in Trait \cup {NoTrait} /\ <<r, nth>> \in EvidenceId
    BY <1>1, <2>1 DEF TypeOK, EvidenceId
  <2>4. Backs(evidence \cup built[t], old, k)
    <3>1. Backs(evidence, traits[k], k)
      BY <2>1 DEF BackedInv
    <3>2. Backs(evidence \cup built[t], traits[k], k)
      BY <3>1, BacksMonotonic
    <3> QED BY <2>1, <3>2 DEF BackedInv
  <2>5. evidence \cup built[t] \subseteq evidence' \cup built'[t]
    BY <1>2, <1>3, <1>4
  <2>6. Backs(evidence' \cup built'[t], old, k)
    BY <2>4, <2>5, BacksMonotonic
  <2>7. <<r, nth>> \in QuotedIn(evidence' \cup built'[t], k)
    <3>1. evd \in built'[t] /\ evd.row = r /\ evd.nth = nth
             /\ KeyOf(evd.content) = k
      BY <1>1, <1>2 DEF TypeOK
    <3> QED BY <3>1 DEF QuotedIn
  <2>8. \A i \in DOMAIN new.ids :
          new.ids[i] = <<r, nth>>
            \/ (old # NoTrait
                  /\ \E m \in DOMAIN old.ids : new.ids[i] = old.ids[m])
    <3> HIDE DEF row, nth, old, k
    <3> QED BY <2>1, <2>3, BuildTraitKeeps
  <2> HIDE DEF row, nth, old, new, k
  <2> QED BY <1>4, <2>2, <2>6, <2>7, <2>8 DEF Backs
<1>5. CASE ~(u = t /\ j = k)
  <2>1. draft'[u][j] = draft[u][j]
    <3> HIDE DEF new, k
    <3> QED BY <1>1, <1>2, <1>5 DEF TypeOK
  <2>2. Backs(evidence \cup built[u], draft[u][j], j)
    BY DEF BackedInv
  <2>3. evidence \cup built[u] \subseteq evidence' \cup built'[u]
    BY <1>2, <1>3
  <2> QED BY <2>1, <2>2, <2>3, BacksMonotonic
<1> QED BY <1>4, <1>5

LEMMA BackedStep ==
    "clear" \notin Operations /\ BackedInv /\ [Next]_vars => BackedInv'
<1> SUFFICES ASSUME "clear" \notin Operations, BackedInv, [Next]_vars
             PROVE  BackedInv'
  OBVIOUS
<1>0. TypeOK /\ TypeOK'
  BY TypeStep DEF BackedInv
<1> USE DEF store, locals
(* A step that touches neither evidence nor traits, built or draft, and    *)
(* lets no thread into the phase of upserts.                               *)
<1>a. ASSUME UNCHANGED <<evidence, traits, built, draft>>,
             \A t \in Threads : pc'[t] = "upsert" => pc[t] = "upsert"
      PROVE  BackedInv'
  BY <1>0, <1>a DEF BackedInv
<1>1. ASSUME NEW t \in Threads, NEW c \in Statements,
             Remember(t, c) \/ Capture(t, c)
      PROVE  BackedInv'
  BY <1>0, <1>1, <1>a DEF Remember, Capture, Moves, TypeOK
<1>2. ASSUME NEW t \in Threads, NEW c \in Contents, RecordChoice(t, c)
      PROVE  BackedInv'
  BY <1>2, <1>a DEF RecordChoice
<1>3. ASSUME NEW t \in Threads, Clear(t)
      PROVE  FALSE
  BY <1>3 DEF Clear, Issue
<1>4. ASSUME NEW t \in Threads,
             AutoConsolidate(t) \/ Consolidate(t) \/ ScanMemories(t)
               \/ ScanChoices(t)
      PROVE  BackedInv'
  BY <1>0, <1>4, <1>a
     DEF AutoConsolidate, Consolidate, ScanMemories, ScanChoices, Moves, TypeOK
<1>5. ASSUME NEW t \in Threads, NEW r \in RowIds, Build(t, r)
      PROVE  BackedInv'
  <2>1. \A u \in Threads, j \in Keys :
          Backs(evidence' \cup built'[u], draft'[u][j], j)
    BY <1>5, BackedBuild
  <2>2. UNCHANGED <<evidence, traits, pc>> /\ pc[t] = "build"
    BY <1>5 DEF Build
  <2>3. \A u \in Threads : u # t => built'[u] = built[u]
    BY <1>0, <1>5 DEF Build, TypeOK
  <2>4. \A u \in Threads : pc'[u] = "upsert" => built'[u] \subseteq evidence'
    BY <2>2, <2>3 DEF BackedInv
  <2> QED BY <1>0, <2>1, <2>2, <2>4 DEF BackedInv
<1>6. ASSUME NEW t \in Threads, AddEvidence(t)
      PROVE  BackedInv'
  <2>1. /\ evidence' = evidence \cup built[t]
        /\ UNCHANGED <<traits, built, draft>>
        /\ pc' = [pc EXCEPT ![t] = "upsert"]
    BY <1>6 DEF AddEvidence, Moves
  <2>2. \A k \in Keys : Backs(evidence', traits'[k], k)
    BY <2>1, BacksMonotonic DEF BackedInv
  <2>3. \A u \in Threads, k \in Keys :
          Backs(evidence' \cup built'[u], draft'[u][k], k)
    <3> SUFFICES ASSUME NEW u \in Threads, NEW k \in Keys
                 PROVE  Backs(evidence' \cup built'[u], draft'[u][k], k)
      OBVIOUS
    <3>1. evidence \cup built[u] \subseteq evidence' \cup built'[u]
      BY <2>1
    <3>2. Backs(evidence \cup built[u], draft[u][k], k)
      BY DEF BackedInv
    <3> QED BY <2>1, <3>1, <3>2, BacksMonotonic
  <2>4. \A u \in Threads : pc'[u] = "upsert" => built'[u] \subseteq evidence'
    BY <1>0, <2>1 DEF BackedInv, TypeOK
  <2> QED BY <1>0, <2>2, <2>3, <2>4 DEF BackedInv
<1>7. ASSUME NEW t \in Threads, NEW k \in Keys, UpsertTrait(t, k)
      PROVE  BackedInv'
  <2>1. /\ traits' = [traits EXCEPT ![k] = draft[t][k]]
        /\ draft' = [draft EXCEPT ![t][k] = NoTrait]
        /\ pc[t] = "upsert"
        /\ UNCHANGED <<evidence, built, pc>>
    BY <1>7 DEF UpsertTrait
  <2>2. evidence \cup built[t] = evidence
    BY <2>1 DEF BackedInv
  <2>3. Backs(evidence, draft[t][k], k)
    <3>1. Backs(evidence \cup built[t], draft[t][k], k)
      BY DEF BackedInv
    <3> QED BY <2>2, <3>1
  <2>4. \A j \in Keys : Backs(evidence', traits'[j], j)
    BY <1>0, <2>1, <2>3 DEF BackedInv, TypeOK
  <2>5. \A u \in Threads, j \in Keys :
          draft'[u][j] = draft[u][j] \/ draft'[u][j] = NoTrait
    BY <1>0, <2>1 DEF TypeOK
  <2>6. \A u \in Threads, j \in Keys :
          Backs(evidence' \cup built'[u], draft'[u][j], j)
    BY <2>1, <2>5 DEF BackedInv, Backs
  <2> QED BY <1>0, <2>1, <2>4, <2>6 DEF BackedInv
<1>8. ASSUME NEW t \in Threads, MarkChoices(t) \/ Fail(t)
      PROVE  BackedInv'
  <2>1. /\ UNCHANGED <<evidence, traits>>
        /\ built' = [built EXCEPT ![t] = {}]
        /\ pc' = [pc EXCEPT ![t] = "idle"]
        /\ \A k \in Keys : draft'[t][k] = NoTrait
        /\ \A u \in Threads : u # t => draft'[u] = draft[u]
    BY <1>0, <1>8 DEF MarkChoices, Fail, Moves, NoTraits, TypeOK
  <2>2. \A u \in Threads : u # t => built'[u] = built[u]
    BY <1>0, <2>1 DEF TypeOK
  <2>3. \A u \in Threads, k \in Keys :
          Backs(evidence' \cup built'[u], draft'[u][k], k)
    BY <2>1, <2>2 DEF BackedInv, Backs
  <2>4. \A u \in Threads : pc'[u] = "upsert" => built'[u] \subseteq evidence'
    BY <1>0, <2>1, <2>2 DEF BackedInv, TypeOK
  <2> QED BY <1>0, <2>1, <2>3, <2>4 DEF BackedInv
<1>9. CASE UNCHANGED vars
  BY <1>9, <1>a DEF vars
<1> QED
  BY <1>1, <1>2, <1>3, <1>4, <1>5, <1>6, <1>7, <1>8, <1>9
     DEF Next, Store, Continue

(* Whatever consolidations overlap and whichever of them die between two   *)
(* transactions, a stored trait names only stored evidence of its own key, *)
(* as long as clients do not clear the database.                           *)
THEOREM TraitsBacked ==
    ASSUME "clear" \notin Operations
    PROVE  Spec => []TraitsBackedByEvidence
<1>1. Init => BackedInv
  BY BackedInit
<1>2. BackedInv /\ [Next]_vars => BackedInv'
  BY BackedStep
<1>3. BackedInv => TraitsBackedByEvidence
  BY DEF BackedInv, Backs, TraitsBackedByEvidence, Quoted
<1> QED BY <1>1, <1>2, <1>3, PTL DEF Spec

-----------------------------------------------------------------------------
(* Marked choices have evidence, even if the database is cleared under a   *)
(* running consolidation.                                                  *)
(*                                                                         *)
(* MarkChoices marks what its thread has built from, if the row is still   *)
(* there.  It has evidence then: the evidence was stored before, and only  *)
(* Clear removes it, which removes the row as well; the row cannot come    *)
(* back, because rows are numbered by requests and every row a thread      *)
(* holds on to is numbered already.                                        *)

MarkedInv ==
    /\ TypeOK
    /\ MarkedHasEvidence
    /\ \A t \in Threads : \A e \in built[t] :
         /\ e.row <= requests
         /\ pc[t] = "upsert" /\ rows[e.row] # Absent => e \in evidence
    /\ \A t \in Threads, r \in RowIds : scanned[t][r] # Absent => r <= requests
    /\ \A r \in RowIds : rows[r] # Absent => r <= requests

LEMMA MarkedInit == Init => MarkedInv
<1> QED BY TypeInit DEF Init, MarkedInv, MarkedHasEvidence, NoRows

LEMMA MarkedStep == MarkedInv /\ [Next]_vars => MarkedInv'
<1> SUFFICES ASSUME MarkedInv, [Next]_vars PROVE MarkedInv'
  OBVIOUS
<1>0. TypeOK /\ TypeOK'
  BY TypeStep DEF MarkedInv
<1> USE DEF store, locals, MarkedHasEvidence, HasEvidence
(* A request that only writes rows, at most the one it is numbered by.     *)
<1>a. ASSUME UNCHANGED <<marked, evidence, built, scanned>>,
             \A u \in Threads : pc'[u] = "upsert" => pc[u] = "upsert",
             requests' = requests + 1,
             \A r \in RowIds :
               rows'[r] # Absent => rows[r] # Absent \/ r = requests + 1
      PROVE  MarkedInv'
  <2>1. ASSUME NEW t \in Threads, NEW e \in built'[t]
        PROVE  /\ e.row <= requests'
               /\ pc'[t] = "upsert" /\ rows'[e.row] # Absent => e \in evidence'
    <3>1. e \in built[t] /\ e.row <= requests /\ e.row \in RowIds
      BY <1>0, <1>a, <2>1 DEF MarkedInv, TypeOK, Evidence
    <3>2. e.row # requests + 1 /\ e.row <= requests + 1
      BY <1>0, <3>1 DEF RowIds, TypeOK
    <3> QED BY <1>a, <3>1, <3>2 DEF MarkedInv
  <2>2. \A t \in Threads, r \in RowIds : scanned'[t][r] # Absent => r <= requests'
    BY <1>0, <1>a DEF MarkedInv, TypeOK, RowIds
  <2>3. \A r \in RowIds : rows'[r] # Absent => r <= requests'
    BY <1>0, <1>a DEF MarkedInv, TypeOK, RowIds
  <2> QED BY <1>0, <1>a, <2>1, <2>2, <2>3 DEF MarkedInv
(* A transaction that writes none of these tables.                         *)
<1>b. ASSUME UNCHANGED <<requests, rows, marked, evidence, built>>,
             \A u \in Threads : pc'[u] = "upsert" => pc[u] = "upsert",
             \A u \in Threads, r \in RowIds :
               scanned'[u][r] # Absent
                 => scanned[u][r] # Absent \/ rows[r] # Absent
      PROVE  MarkedInv'
  BY <1>0, <1>b DEF MarkedInv
<1>1. ASSUME NEW t \in Threads, NEW c \in Statements, Remember(t, c)
      PROVE  MarkedInv'
  BY <1>0, <1>1, <1>a DEF Remember, Issue, Insert, TypeOK
<1>2. ASSUME NEW t \in Threads, NEW c \in Statements, Capture(t, c)
      PROVE  MarkedInv'
  <2>1. \A r \in RowIds :
          rows'[r] # Absent => rows[r] # Absent \/ r = requests + 1
    BY <1>0, <1>2 DEF Capture, Insert, Reinforce, SimilarRows, MemoryRows, TypeOK
  <2> QED BY <1>0, <1>2, <1>a, <2>1 DEF Capture, Issue, Moves, TypeOK
<1>3. ASSUME NEW t \in Threads, NEW c \in Contents, RecordChoice(t, c)
      PROVE  MarkedInv'
  BY <1>0, <1>3, <1>a DEF RecordChoice, Issue, Insert, TypeOK
<1>4. ASSUME NEW t \in Threads, Clear(t)
      PROVE  MarkedInv'
  <2>1. /\ requests' = requests + 1 /\ rows' = NoRows /\ marked' = {}
        /\ UNCHANGED <<built, scanned>>
    BY <1>4 DEF Clear, Issue
  <2>2. \A r \in RowIds : rows'[r] = Absent
    BY <2>1 DEF NoRows
  <2>3. \A t1 \in Threads : \A e \in built[t1] : e.row \in RowIds
    BY <1>0 DEF TypeOK, Evidence
  <2> QED BY <1>0, <2>1, <2>2, <2>3 DEF MarkedInv, TypeOK, RowIds
<1>5. ASSUME NEW t \in Threads, AutoConsolidate(t) \/ Consolidate(t)
      PROVE  MarkedInv'
  BY <1>0, <1>5, <1>b DEF AutoConsolidate, Consolidate, Moves, TypeOK
<1>6. ASSUME NEW t \in Threads, ScanMemories(t) \/ ScanChoices(t)
      PROVE  MarkedInv'
  <2>1. \A u \in Threads, r \in RowIds :
          scanned'[u][r] # Absent => scanned[u][r] # Absent \/ rows[r] # Absent
    <3>1. PICK W \in SUBSET RowIds :
            /\ \A r \in W : rows[r] # Absent
            /\ scanned' = [scanned EXCEPT ![t] =
                 [r \in RowIds |-> IF r \in Candidates(W) THEN rows[r]
                                                          ELSE scanned'[t][r]]]
            /\ \A r \in RowIds :
                 r \notin Candidates(W) => scanned'[t][r] \in {Absent, scanned[t][r]}
      <4>1. CASE ScanMemories(t)
        <5>1. PICK W \in Newest(UnconsolidatedMemories, RecentLimit) :
                scanned' = [scanned EXCEPT ![t] =
                  [r \in RowIds |-> IF r \in Candidates(W) THEN rows[r]
                                                           ELSE Absent]]
          BY <4>1 DEF ScanMemories
        <5>2. W \subseteq RowIds /\ \A r \in W : rows[r] # Absent
          BY DEF Newest, UnconsolidatedMemories, MemoryRows
        <5> QED BY <1>0, <5>1, <5>2 DEF TypeOK
      <4>2. CASE ScanChoices(t)
        <5>1. PICK W \in Newest(UnconsolidatedChoices, RecentLimit) :
                scanned' = [scanned EXCEPT ![t] =
                  [r \in RowIds |-> IF r \in Candidates(W) THEN rows[r]
                                                           ELSE @[r]]]
          BY <4>2 DEF ScanChoices
        <5>2. W \subseteq RowIds /\ \A r \in W : rows[r] # Absent
          BY DEF Newest, UnconsolidatedChoices, ChoiceRows
        <5> QED BY <1>0, <5>1, <5>2 DEF TypeOK
      <4> QED BY <1>6, <4>1, <4>2
    <3>2. \A r \in Candidates(W) : rows[r] # Absent
      BY <3>1 DEF Candidates
    <3> QED BY <1>0, <3>1, <3>2 DEF TypeOK
  <2> QED BY <1>0, <1>6, <1>b, <2>1 DEF ScanMemories, ScanChoices, Moves, TypeOK
<1>7. ASSUME NEW t \in Threads, NEW r \in RowIds, Build(t, r)
      PROVE  MarkedInv'
  <2> DEFINE evd == [row |-> r, nth |-> minted[r] + 1,
                     content |-> scanned[t][r].content]
  <2>1. /\ built' = [built EXCEPT ![t] = @ \cup {evd}]
        /\ scanned' = [scanned EXCEPT ![t][r] = Absent]
        /\ pc[t] = "build" /\ r <= requests
        /\ UNCHANGED <<requests, rows, marked, evidence, pc>>
    BY <1>7 DEF Build, ToBuild, MarkedInv
  <2>2. evd.row = r
    OBVIOUS
  <2>3. ASSUME NEW u \in Threads, NEW e \in built'[u]
        PROVE  /\ e.row <= requests'
               /\ pc'[u] = "upsert" /\ rows'[e.row] # Absent => e \in evidence'
    <3> HIDE DEF evd
    <3> QED BY <1>0, <2>1, <2>2, <2>3 DEF MarkedInv, TypeOK
  <2>4. \A u \in Threads, q \in RowIds : scanned'[u][q] # Absent => q <= requests'
    BY <1>0, <2>1 DEF MarkedInv, TypeOK
  <2> QED BY <1>0, <2>1, <2>3, <2>4 DEF MarkedInv
<1>8. ASSUME NEW t \in Threads, AddEvidence(t)
      PROVE  MarkedInv'
  <2>1. /\ evidence' = evidence \cup built[t]
        /\ UNCHANGED <<requests, rows, marked, built, scanned>>
        /\ pc' = [pc EXCEPT ![t] = "upsert"]
    BY <1>8 DEF AddEvidence, Moves
  <2> QED BY <1>0, <2>1 DEF MarkedInv, TypeOK
<1>9. ASSUME NEW t \in Threads, NEW k \in Keys, UpsertTrait(t, k)
      PROVE  MarkedInv'
  BY <1>9, <1>b DEF UpsertTrait
<1>10. ASSUME NEW t \in Threads, MarkChoices(t)
       PROVE  MarkedInv'
  <2>1. /\ UNCHANGED <<requests, rows, evidence, scanned>>
        /\ built' = [built EXCEPT ![t] = {}]
        /\ pc[t] = "upsert" /\ pc' = [pc EXCEPT ![t] = "idle"]
        /\ marked' = marked \cup
                       {r \in ChoiceRows : \E e \in built[t] : e.row = r}
    BY <1>10 DEF MarkChoices, Moves
  <2>2. \A r \in marked' : HasEvidence(r)'
    <3>1. ASSUME NEW e \in built[t], e.row \in ChoiceRows
          PROVE  e \in evidence
      BY <2>1, <3>1 DEF MarkedInv, ChoiceRows
    <3> QED BY <2>1, <3>1 DEF MarkedInv
  <2>3. \A u \in Threads : built'[u] \subseteq built[u]
    BY <1>0, <2>1 DEF TypeOK
  <2>4. \A u \in Threads : pc'[u] = "upsert" => pc[u] = "upsert"
    BY <1>0, <2>1 DEF TypeOK
  <2> QED BY <1>0, <2>1, <2>2, <2>3, <2>4 DEF MarkedInv
<1>11. ASSUME NEW t \in Threads, Fail(t)
       PROVE  MarkedInv'
  <2>1. /\ UNCHANGED <<requests, rows, marked, evidence>>
        /\ \A u \in Threads : built'[u] \subseteq built[u]
        /\ \A u \in Threads : pc'[u] = "upsert" => pc[u] = "upsert"
        /\ \A u \in Threads, r \in RowIds :
             scanned'[u][r] # Absent => scanned[u][r] # Absent
    BY <1>0, <1>11 DEF Fail, NoRows, TypeOK
  <2> QED BY <1>0, <2>1 DEF MarkedInv
<1>12. CASE UNCHANGED vars
  BY <1>12, <1>b DEF vars
<1> QED
  BY <1>1, <1>2, <1>3, <1>4, <1>5, <1>6, <1>7, <1>8, <1>9, <1>10, <1>11,
     <1>12 DEF Next, Store, Continue

(* A behavior event marked consolidated has evidence, whatever requests    *)
(* overlap, fail, or clear the database under a consolidation.             *)
THEOREM MarkedConsolidated == Spec => []MarkedHasEvidence
<1>1. Init => MarkedInv
  BY MarkedInit
<1>2. MarkedInv /\ [Next]_vars => MarkedInv'
  BY MarkedStep
<1>3. MarkedInv => MarkedHasEvidence
  BY DEF MarkedInv
<1> QED BY <1>1, <1>2, <1>3, PTL DEF Spec

-----------------------------------------------------------------------------
(* A trait never claims more support than there is evidence for it, while  *)
(* nobody clears the database.                                             *)
(*                                                                         *)
(* A draft may count, besides stored evidence, the evidence its thread has *)
(* built.  One turn of the loops adds one to the count, and one piece of   *)
(* evidence that is neither stored nor built yet: its number is new for    *)
(* its row.                                                                *)

Bearing(E, k) == {e \in E : KeyOf(e.content) = k}

Within(E, trait, k) ==
    trait # NoTrait => trait.count <= Cardinality(Bearing(E, k))

Numbered(E) == \A e \in E : e.nth <= minted[e.row]

CountInv ==
    /\ IsFiniteSet(evidence)
    /\ \A t \in Threads : IsFiniteSet(built[t])
    /\ Numbered(evidence)
    /\ \A t \in Threads : Numbered(built[t])
    /\ \A k \in Keys : Within(evidence, traits[k], k)
    /\ \A t \in Threads, k \in Keys : Within(evidence \cup built[t], draft[t][k], k)

LEMMA CountInit == Init => CountInv
<1> QED BY FS_EmptySet DEF Init, CountInv, Numbered, Within, NoTraits

(* More evidence supports whatever less evidence supported.                *)
LEMMA WithinMonotonic ==
    ASSUME NEW F, IsFiniteSet(F), NEW E, E \subseteq F,
           NEW trait \in Trait \cup {NoTrait}, NEW k, Within(E, trait, k)
    PROVE  Within(F, trait, k)
<1>1. Bearing(E, k) \subseteq Bearing(F, k) /\ Bearing(F, k) \subseteq F
  BY DEF Bearing
<1>2. IsFiniteSet(Bearing(F, k)) /\ IsFiniteSet(Bearing(E, k))
  BY <1>1, FS_Subset
<1>3. /\ Cardinality(Bearing(E, k)) <= Cardinality(Bearing(F, k))
      /\ Cardinality(Bearing(E, k)) \in Nat /\ Cardinality(Bearing(F, k)) \in Nat
  BY <1>1, <1>2, FS_Subset, FS_CardinalityType
<1>4. trait # NoTrait => trait.count \in Nat
  BY DEF Trait
<1> QED BY <1>3, <1>4 DEF Within

(* A new piece of evidence for a key supports one more.                    *)
LEMMA WithinAdded ==
    ASSUME NEW E, IsFiniteSet(E), NEW evd, evd \notin E,
           NEW trait \in Trait \cup {NoTrait}, NEW row \in Row, NEW id,
           KeyOf(evd.content) = KeyOf(row.content),
           Within(E, trait, KeyOf(row.content))
    PROVE  Within(E \cup {evd}, BuildTrait(trait, row, id), KeyOf(row.content))
<1> DEFINE k == KeyOf(row.content)
           new == BuildTrait(trait, row, id)
<1>1. Bearing(E \cup {evd}, k) = Bearing(E, k) \cup {evd} /\ evd \notin Bearing(E, k)
  BY DEF Bearing
<1>2. IsFiniteSet(Bearing(E, k))
  BY FS_Subset DEF Bearing
<1>3. /\ Cardinality(Bearing(E \cup {evd}, k)) = Cardinality(Bearing(E, k)) + 1
      /\ Cardinality(Bearing(E, k)) \in Nat
  BY <1>1, <1>2, FS_AddElement, FS_CardinalityType
<1>4. CASE trait = NoTrait
  <2>1. new.count = 1
    BY <1>4 DEF BuildTrait, NewTrait
  <2> QED BY <1>3, <2>1 DEF Within
<1>5. CASE trait # NoTrait
  <2>1. new.count = trait.count + 1
    BY <1>5 DEF BuildTrait, MergedTrait
  <2>2. trait.count \in Nat
    BY <1>5 DEF Trait
  <2>3. trait.count <= Cardinality(Bearing(E, k))
    BY <1>5 DEF Within
  <2> HIDE DEF new, k
  <2> QED BY <1>3, <2>1, <2>2, <2>3 DEF Within, new, k
<1> QED BY <1>4, <1>5

LEMMA CountBuild ==
    ASSUME TypeOK, TypeOK', CountInv, NEW t \in Threads, NEW r \in RowIds,
           Build(t, r)
    PROVE  CountInv'
<1> DEFINE row == scanned[t][r]
           k   == KeyOf(row.content)
           nth == minted[r] + 1
           old == IF draft[t][k] # NoTrait THEN draft[t][k] ELSE traits[k]
           new == BuildTrait(old, row, <<r, nth>>)
           evd == [row |-> r, nth |-> nth, content |-> row.content]
<1>1. /\ evidence' = evidence /\ traits' = traits
      /\ built' = [built EXCEPT ![t] = @ \cup {evd}]
      /\ draft' = [draft EXCEPT ![t][k] = new]
      /\ minted' = [minted EXCEPT ![r] = nth]
      /\ row \in Row
  BY DEF Build, store, ToBuild, TypeOK
<1>2. evd.row = r /\ evd.nth = nth /\ KeyOf(evd.content) = k
  OBVIOUS
<1>3. minted[r] \in Nat /\ nth = minted[r] + 1 /\ \A q \in RowIds : minted[q] \in Nat
  BY DEF TypeOK
<1>4. evd \notin evidence \cup built[t]
  <2> HIDE DEF evd, nth
  <2> QED BY <1>2, <1>3 DEF CountInv, Numbered
<1> HIDE DEF evd, nth, new, old, k, row
<1>5. Numbered(evidence)' /\ \A u \in Threads : Numbered(built[u])'
  <2>1. \A q \in RowIds : minted[q] <= minted'[q] /\ minted'[r] = nth
    BY <1>1, <1>3 DEF TypeOK
  <2>2. ASSUME NEW e \in Evidence, e.nth <= minted[e.row]
        PROVE  e.nth <= minted'[e.row]
    <3>1. e.row \in RowIds /\ e.nth \in Nat
      BY DEF Evidence
    <3>2. minted[e.row] \in Nat /\ minted'[e.row] \in Nat
      BY <3>1 DEF TypeOK
    <3> QED BY <2>1, <2>2, <3>1, <3>2
  <2>3. Numbered(evidence)'
    BY <1>1, <2>2 DEF CountInv, Numbered, TypeOK
  <2>4. ASSUME NEW u \in Threads, NEW e \in built'[u]
        PROVE  e.nth <= minted'[e.row]
    <3>1. CASE e \in built[u]
      BY <2>2, <3>1 DEF CountInv, Numbered, TypeOK
    <3>2. CASE e = evd
      BY <1>2, <1>3, <2>1, <3>2
    <3> QED BY <1>1, <2>4, <3>1, <3>2 DEF TypeOK
  <2> QED BY <2>3, <2>4 DEF Numbered
<1>6. \A u \in Threads :
        /\ IsFiniteSet(built[u])'
        /\ built[u] \subseteq built'[u]
        /\ IsFiniteSet(evidence \cup built[u]) /\ IsFiniteSet(evidence' \cup built'[u])
  <2>1. \A u \in Threads : built'[u] = IF u = t THEN built[u] \cup {evd} ELSE built[u]
    BY <1>1 DEF TypeOK
  <2>2. ASSUME NEW u \in Threads PROVE IsFiniteSet(built'[u])
    <3>1. IsFiniteSet(built[u])
      BY DEF CountInv
    <3>2. IsFiniteSet(built[u] \cup {evd})
      BY <3>1, FS_AddElement
    <3> QED BY <2>1, <3>1, <3>2
  <2>3. IsFiniteSet(evidence)
    BY DEF CountInv
  <2>4. ASSUME NEW S, IsFiniteSet(S) PROVE IsFiniteSet(evidence \cup S)
    BY <2>3, <2>4, FS_Union
  <2>5. ASSUME NEW u \in Threads
        PROVE  IsFiniteSet(evidence \cup built[u])
    BY <2>4 DEF CountInv
  <2> QED BY <1>1, <2>1, <2>2, <2>4, <2>5
<1>7. ASSUME NEW u \in Threads, NEW j \in Keys
      PROVE  Within(evidence' \cup built'[u], draft'[u][j], j)
  <2>1. Within(evidence \cup built[u], draft[u][j], j)
    BY DEF CountInv
  <2>2. CASE u = t /\ j = k
    <3>1. draft'[u][j] = new
      BY <1>1, <2>2 DEF TypeOK
    <3>2. evidence' \cup built'[u] = (evidence \cup built[t]) \cup {evd}
      BY <1>1, <2>2 DEF TypeOK
    <3>3. old \in Trait \cup {NoTrait}
      BY <2>2 DEF old, TypeOK
    <3>4. Within(evidence \cup built[t], traits[j], j)
      <4>1. Within(evidence, traits[j], j)
        BY DEF CountInv
      <4>2. traits[j] \in Trait \cup {NoTrait}
        BY DEF TypeOK
      <4>3. evidence \subseteq evidence \cup built[t]
        OBVIOUS
      <4> QED BY <1>6, <4>1, <4>2, <4>3, WithinMonotonic
    <3>5. Within(evidence \cup built[t], old, k)
      BY <2>1, <2>2, <3>4 DEF old
    <3>6. Within((evidence \cup built[t]) \cup {evd}, new, k)
      <4>1. KeyOf(evd.content) = KeyOf(row.content) /\ k = KeyOf(row.content)
        BY <1>2 DEF k
      <4>2. IsFiniteSet(evidence \cup built[t])
        BY <1>6
      <4> QED BY <1>1, <1>4, <3>3, <3>5, <4>1, <4>2, WithinAdded DEF new
    <3> QED BY <2>2, <3>1, <3>2, <3>6
  <2>3. CASE ~(u = t /\ j = k)
    <3>1. draft'[u][j] = draft[u][j]
      BY <1>1, <2>3 DEF TypeOK
    <3>2. draft[u][j] \in Trait \cup {NoTrait}
      BY DEF TypeOK
    <3>3. evidence \cup built[u] \subseteq evidence' \cup built'[u]
      BY <1>1, <1>6
    <3> QED BY <1>6, <2>1, <3>1, <3>2, <3>3, WithinMonotonic
  <2> QED BY <2>2, <2>3
<1> QED BY <1>1, <1>5, <1>6, <1>7 DEF CountInv

LEMMA CountStep ==
    "clear" \notin Operations /\ BackedInv /\ CountInv /\ [Next]_vars => CountInv'
<1> SUFFICES ASSUME "clear" \notin Operations, BackedInv, CountInv, [Next]_vars
             PROVE  CountInv'
  OBVIOUS
<1>0. TypeOK /\ TypeOK'
  BY TypeStep DEF BackedInv
<1> USE DEF store, locals
(* A step that touches neither evidence nor traits, built or draft.        *)
<1>a. ASSUME UNCHANGED <<evidence, traits, built, draft, minted>>
      PROVE  CountInv'
  BY <1>a DEF CountInv, Numbered
<1>1. ASSUME NEW t \in Threads, NEW c \in Contents,
             Remember(t, c) \/ Capture(t, c) \/ RecordChoice(t, c)
      PROVE  CountInv'
  BY <1>1, <1>a DEF Remember, Capture, RecordChoice
<1>2. ASSUME NEW t \in Threads, Clear(t)
      PROVE  FALSE
  BY <1>2 DEF Clear, Issue
<1>3. ASSUME NEW t \in Threads,
             AutoConsolidate(t) \/ Consolidate(t) \/ ScanMemories(t)
               \/ ScanChoices(t)
      PROVE  CountInv'
  BY <1>3, <1>a DEF AutoConsolidate, Consolidate, ScanMemories, ScanChoices
<1>4. ASSUME NEW t \in Threads, NEW r \in RowIds, Build(t, r)
      PROVE  CountInv'
  BY <1>0, <1>4, CountBuild
<1>5. ASSUME NEW t \in Threads, AddEvidence(t)
      PROVE  CountInv'
  <2>1. /\ evidence' = evidence \cup built[t]
        /\ UNCHANGED <<traits, built, draft, minted>>
    BY <1>5 DEF AddEvidence
  <2>2. IsFiniteSet(evidence') /\ \A u \in Threads : IsFiniteSet(evidence' \cup built[u])
    <3>1. IsFiniteSet(evidence')
      BY <2>1, FS_Union DEF CountInv
    <3>2. ASSUME NEW S, IsFiniteSet(S) PROVE IsFiniteSet(evidence' \cup S)
      BY <3>1, <3>2, FS_Union
    <3> QED BY <3>1, <3>2 DEF CountInv
  <2>3. Numbered(evidence)' /\ \A u \in Threads : Numbered(built[u])'
    BY <2>1 DEF CountInv, Numbered
  <2>4. ASSUME NEW k \in Keys PROVE Within(evidence', traits[k], k)
    <3>1. traits[k] \in Trait \cup {NoTrait} /\ Within(evidence, traits[k], k)
      BY <1>0 DEF CountInv, TypeOK
    <3> QED BY <2>1, <2>2, <3>1, WithinMonotonic
  <2>5. ASSUME NEW u \in Threads, NEW k \in Keys
        PROVE  Within(evidence' \cup built[u], draft[u][k], k)
    <3>1. draft[u][k] \in Trait \cup {NoTrait}
      BY <1>0 DEF TypeOK
    <3>2. Within(evidence \cup built[u], draft[u][k], k)
      BY DEF CountInv
    <3>3. evidence \cup built[u] \subseteq evidence' \cup built[u]
      BY <2>1
    <3> QED BY <2>2, <3>1, <3>2, <3>3, WithinMonotonic
  <2> QED BY <2>1, <2>2, <2>3, <2>4, <2>5 DEF CountInv
<1>6. ASSUME NEW t \in Threads, NEW k \in Keys, UpsertTrait(t, k)
      PROVE  CountInv'
  <2>1. /\ traits' = [traits EXCEPT ![k] = draft[t][k]]
        /\ draft' = [draft EXCEPT ![t][k] = NoTrait]
        /\ pc[t] = "upsert"
        /\ UNCHANGED <<evidence, built, minted>>
    BY <1>6 DEF UpsertTrait
  <2>2. evidence \cup built[t] = evidence
    BY <2>1 DEF BackedInv
  <2>3. Within(evidence, draft[t][k], k)
    BY <2>2 DEF CountInv
  <2>4. \A j \in Keys : Within(evidence', traits'[j], j)
    BY <1>0, <2>1, <2>3 DEF CountInv, TypeOK
  <2>5. \A u \in Threads, j \in Keys :
          draft'[u][j] = draft[u][j] \/ draft'[u][j] = NoTrait
    BY <1>0, <2>1 DEF TypeOK
  <2>6. \A u \in Threads, j \in Keys :
          Within(evidence' \cup built'[u], draft'[u][j], j)
    BY <2>1, <2>5 DEF CountInv, Within
  <2> QED BY <2>1, <2>4, <2>6 DEF CountInv, Numbered
<1>7. ASSUME NEW t \in Threads, MarkChoices(t) \/ Fail(t)
      PROVE  CountInv'
  <2>1. /\ UNCHANGED <<evidence, traits, minted>>
        /\ built' = [built EXCEPT ![t] = {}]
        /\ \A k \in Keys : draft'[t][k] = NoTrait
        /\ \A u \in Threads : u # t => draft'[u] = draft[u]
    BY <1>0, <1>7 DEF MarkChoices, Fail, NoTraits, TypeOK
  <2>2. \A u \in Threads : built'[u] = IF u = t THEN {} ELSE built[u]
    BY <1>0, <2>1 DEF TypeOK
  <2>3. \A u \in Threads : IsFiniteSet(built'[u]) /\ Numbered(built[u])'
    BY <2>1, <2>2, FS_EmptySet DEF CountInv, Numbered
  <2>4. \A u \in Threads, k \in Keys :
          Within(evidence' \cup built'[u], draft'[u][k], k)
    BY <2>1, <2>2 DEF CountInv, Within
  <2> QED BY <2>1, <2>3, <2>4 DEF CountInv, Numbered
<1>8. CASE UNCHANGED vars
  BY <1>8, <1>a DEF vars
<1> QED
  BY <1>1, <1>2, <1>3, <1>4, <1>5, <1>6, <1>7, <1>8
     DEF Next, Store, Continue, Statements

(* However many consolidations overlap and whichever of them die, no trait *)
(* claims more support than there is evidence for its key, as long as      *)
(* clients do not clear the database.                                      *)
THEOREM SupportWithinEvidence ==
    ASSUME "clear" \notin Operations
    PROVE  Spec => []CountWithinEvidence
<1>1. Init => BackedInv /\ CountInv
  BY BackedInit, CountInit
<1>2. BackedInv /\ CountInv /\ [Next]_vars => (BackedInv /\ CountInv)'
  BY BackedStep, CountStep
<1>3. CountInv => CountWithinEvidence
  BY DEF CountInv, Within, CountWithinEvidence, Bearing, EvidenceFor
<1> QED BY <1>1, <1>2, <1>3, PTL DEF Spec

-----------------------------------------------------------------------------
(* Every key with evidence has a trait, once all consolidations have run   *)
(* to their end.                                                           *)
(*                                                                         *)
(* Until then the trait may be in the draft of a thread that has stored    *)
(* its evidence.  A thread has drafted a trait for every key of what it    *)
(* has built, until it stores the evidence; it leaves the phase of upserts *)
(* when its draft is empty.  A clear takes evidence and traits at once;    *)
(* drafts of threads that were not done survive it, and so does what they  *)
(* have built.                                                             *)

Drafted(t) == \A e \in built[t] : draft[t][KeyOf(e.content)] # NoTrait

KeyStored(k) ==
    \/ traits[k] # NoTrait
    \/ \E t \in Threads : pc[t] = "upsert" /\ draft[t][k] # NoTrait

KeyedInv ==
    /\ \A e \in evidence : KeyOf(e.content) \in Keys
    /\ \A t \in Threads, r \in RowIds :
         scanned[t][r] # Absent => KeyOf(scanned[t][r].content) \in Keys
    /\ \A t \in Threads : \A e \in built[t] : KeyOf(e.content) \in Keys
    /\ \A t \in Threads :
         /\ built[t] # {} => pc[t] \in {"build", "upsert"}
         /\ pc[t] = "build" => Drafted(t)
    /\ failures = 0 => \A e \in evidence : KeyStored(KeyOf(e.content))

LEMMA KeyedInit == Init => KeyedInv
<1> QED BY DEF Init, KeyedInv, NoRows, Drafted

(* What a scan takes over bears on a key.                                  *)
LEMMA ScannedKeyed ==
    ASSUME TypeOK, KeyedInv, NEW t \in Threads,
           ScanMemories(t) \/ ScanChoices(t)
    PROVE  \A u \in Threads, r \in RowIds :
             scanned'[u][r] # Absent => KeyOf(scanned'[u][r].content) \in Keys
<1>1. ASSUME NEW r \in RowIds, rows[r] # Absent, KeyOf(rows[r].content) # NoKey
      PROVE  KeyOf(rows[r].content) \in Keys
  BY <1>1 DEF TypeOK, Row, Claims, KeyOf
<1>2. \A u \in Threads, r \in RowIds :
        \/ scanned'[u][r] \in {Absent, scanned[u][r]}
        \/ /\ scanned'[u][r] = rows[r]
           /\ KeyOf(rows[r].content) # NoKey
  <2>1. PICK W :
          \/ scanned' = [scanned EXCEPT ![t] =
                           [r \in RowIds |-> IF r \in Candidates(W)
                                             THEN rows[r] ELSE Absent]]
          \/ scanned' = [scanned EXCEPT ![t] =
                           [r \in RowIds |-> IF r \in Candidates(W)
                                             THEN rows[r] ELSE @[r]]]
    BY DEF ScanMemories, ScanChoices
  <2>2. ASSUME NEW u \in Threads, u # t PROVE scanned'[u] = scanned[u]
    BY <2>1, <2>2 DEF TypeOK
  <2>3. ASSUME NEW r \in RowIds
        PROVE  \/ scanned'[t][r] \in {Absent, scanned[t][r]}
               \/ r \in Candidates(W) /\ scanned'[t][r] = rows[r]
    BY <2>1 DEF TypeOK
  <2>4. \A r \in Candidates(W) : KeyOf(rows[r].content) # NoKey
    BY DEF Candidates
  <2> QED BY <2>2, <2>3, <2>4
<1> QED BY <1>1, <1>2 DEF KeyedInv

LEMMA KeyedStep == TypeOK /\ KeyedInv /\ [Next]_vars => KeyedInv'
<1> SUFFICES ASSUME TypeOK, KeyedInv, [Next]_vars PROVE KeyedInv'
  OBVIOUS
<1>0. TypeOK'
  BY TypeStep
<1> USE DEF store, locals
(* A step that touches no table of consolidation and nothing built.        *)
<1>a. ASSUME UNCHANGED <<evidence, traits, built, draft, failures>>,
             \A u \in Threads :
               /\ pc[u] = "upsert" <=> pc'[u] = "upsert"
               /\ pc[u] = "build" => pc'[u] = "build"
               /\ pc'[u] = "build" /\ pc[u] # "build" => built[u] = {},
             \A u \in Threads, r \in RowIds :
               scanned'[u][r] # Absent => KeyOf(scanned'[u][r].content) \in Keys
      PROVE  KeyedInv'
  BY <1>a DEF KeyedInv, Drafted, KeyStored
<1>1. ASSUME NEW t \in Threads, NEW c \in Contents,
             Remember(t, c) \/ Capture(t, c) \/ RecordChoice(t, c)
      PROVE  KeyedInv'
  BY <1>1, <1>a DEF Remember, Capture, RecordChoice, Moves, TypeOK, KeyedInv
<1>2. ASSUME NEW t \in Threads, Clear(t)
      PROVE  KeyedInv'
  BY <1>2 DEF Clear, KeyedInv, Drafted
<1>3. ASSUME NEW t \in Threads, AutoConsolidate(t) \/ Consolidate(t)
      PROVE  KeyedInv'
  BY <1>3, <1>a DEF AutoConsolidate, Consolidate, Moves, TypeOK, KeyedInv
<1>4. ASSUME NEW t \in Threads, ScanMemories(t) \/ ScanChoices(t)
      PROVE  KeyedInv'
  <2>1. /\ UNCHANGED <<evidence, traits, built, draft, failures>>
        /\ pc[t] \in {"scan_memories", "scan_choices"}
        /\ pc' = [pc EXCEPT ![t] = IF pc[t] = "scan_memories"
                                   THEN "scan_choices" ELSE "build"]
    BY <1>4 DEF ScanMemories, ScanChoices, Moves
  <2>2. built[t] = {}
    BY <2>1 DEF KeyedInv
  <2> QED BY <1>4, <1>a, <2>1, <2>2, ScannedKeyed DEF TypeOK
<1>5. ASSUME NEW t \in Threads, NEW r \in RowIds, Build(t, r)
      PROVE  KeyedInv'
  <2> DEFINE row == scanned[t][r]
             k   == KeyOf(row.content)
             nth == minted[r] + 1
             old == IF draft[t][k] # NoTrait THEN draft[t][k] ELSE traits[k]
             new == BuildTrait(old, row, <<r, nth>>)
             evd == [row |-> r, nth |-> nth, content |-> row.content]
  <2>1. /\ UNCHANGED <<failures, evidence, traits, pc>> /\ pc[t] = "build"
        /\ built' = [built EXCEPT ![t] = @ \cup {evd}]
        /\ draft' = [draft EXCEPT ![t][k] = new]
        /\ scanned' = [scanned EXCEPT ![t][r] = Absent]
        /\ row # Absent
    BY <1>5 DEF Build, ToBuild
  <2>2. KeyOf(evd.content) = k /\ k \in Keys
    BY <2>1 DEF KeyedInv
  <2>3. new # NoTrait
    <3>1. row \in Row /\ old \in Trait \cup {NoTrait}
      BY <2>1, <2>2 DEF TypeOK
    <3>2. <<r, nth>> \in EvidenceId
      BY DEF TypeOK, EvidenceId
    <3> HIDE DEF row, old, nth
    <3>3. new \in Trait
      BY <3>1, <3>2, BuildTraitKeeps
    <3> QED BY <3>3
  <2> HIDE DEF row, k, nth, old, new, evd
  <2>4. \A u \in Threads : built'[u] = IF u = t THEN built[u] \cup {evd} ELSE built[u]
    BY <2>1 DEF TypeOK
  <2>5. \A u \in Threads, j \in Keys :
          draft'[u][j] = IF u = t /\ j = k THEN new ELSE draft[u][j]
    BY <2>1, <2>2 DEF TypeOK
  <2>6. \A u \in Threads, q \in RowIds : scanned'[u][q] \in {Absent, scanned[u][q]}
    BY <2>1 DEF TypeOK
  <2>7. ASSUME NEW u \in Threads, pc[u] = "build", NEW e \in built'[u]
        PROVE  draft'[u][KeyOf(e.content)] # NoTrait
    <3>1. CASE e \in built[u]
      BY <2>3, <2>5, <2>7, <3>1 DEF KeyedInv, Drafted
    <3>2. CASE e \notin built[u]
      BY <2>2, <2>3, <2>4, <2>5, <2>7, <3>2
    <3> QED BY <3>1, <3>2
  <2>8. failures' = 0 => \A e \in evidence' : KeyStored(KeyOf(e.content))'
    BY <2>1, <2>5, <2>3 DEF KeyedInv, KeyStored
  <2> QED BY <2>1, <2>2, <2>4, <2>6, <2>7, <2>8 DEF KeyedInv, Drafted
<1>6. ASSUME NEW t \in Threads, AddEvidence(t)
      PROVE  KeyedInv'
  <2>1. /\ UNCHANGED <<failures, traits, built, draft, scanned>>
        /\ pc[t] = "build" /\ pc' = [pc EXCEPT ![t] = "upsert"]
        /\ evidence' = evidence \cup built[t]
    BY <1>6 DEF AddEvidence, Moves
  <2>2. \A u \in Threads : pc'[u] = IF u = t THEN "upsert" ELSE pc[u]
    BY <2>1 DEF TypeOK
  <2>3. \A k \in Keys : KeyStored(k) => KeyStored(k)'
    BY <2>1, <2>2 DEF KeyStored
  <2>4. \A e \in built[t] : KeyStored(KeyOf(e.content))'
    BY <2>1, <2>2 DEF KeyedInv, Drafted, KeyStored
  <2> QED BY <2>1, <2>2, <2>3, <2>4 DEF KeyedInv, Drafted
<1>7. ASSUME NEW t \in Threads, NEW k \in Keys, UpsertTrait(t, k)
      PROVE  KeyedInv'
  <2>1. /\ UNCHANGED <<failures, evidence, built, scanned, pc>>
        /\ pc[t] = "upsert" /\ draft[t][k] # NoTrait
        /\ traits' = [traits EXCEPT ![k] = draft[t][k]]
        /\ draft' = [draft EXCEPT ![t][k] = NoTrait]
    BY <1>7 DEF UpsertTrait
  <2>2. \A u \in Threads : u # t => draft'[u] = draft[u]
    BY <2>1 DEF TypeOK
  <2>3. \A j \in Keys : j # k => traits'[j] = traits[j] /\ draft'[t][j] = draft[t][j]
    BY <2>1 DEF TypeOK
  <2>4. traits'[k] # NoTrait
    BY <2>1 DEF TypeOK
  <2>5. \A j \in Keys : KeyStored(j) => KeyStored(j)'
    BY <2>1, <2>2, <2>3, <2>4 DEF KeyStored
  <2> QED BY <2>1, <2>2, <2>5 DEF KeyedInv, Drafted
<1>8. ASSUME NEW t \in Threads, MarkChoices(t)
      PROVE  KeyedInv'
  <2>1. /\ UNCHANGED <<failures, evidence, traits, scanned, draft>>
        /\ draft[t] = NoTraits
        /\ built' = [built EXCEPT ![t] = {}]
        /\ pc' = [pc EXCEPT ![t] = "idle"]
    BY <1>8 DEF MarkChoices, Moves
  <2>2. \A u \in Threads :
          /\ built'[u] = IF u = t THEN {} ELSE built[u]
          /\ pc'[u] = IF u = t THEN "idle" ELSE pc[u]
    BY <2>1 DEF TypeOK
  <2>3. \A k \in Keys : KeyStored(k) => KeyStored(k)'
    BY <2>1, <2>2 DEF KeyStored, NoTraits
  <2> QED BY <2>1, <2>2, <2>3 DEF KeyedInv, Drafted
<1>9. ASSUME NEW t \in Threads, Fail(t)
      PROVE  KeyedInv'
  <2>1. /\ UNCHANGED <<evidence, traits>> /\ failures' # 0
        /\ \A u \in Threads :
             IF u = t THEN scanned'[u] = NoRows /\ built'[u] = {} /\ pc'[u] = "idle"
             ELSE /\ scanned'[u] = scanned[u] /\ built'[u] = built[u]
                  /\ pc'[u] = pc[u] /\ draft'[u] = draft[u]
    BY <1>9 DEF Fail, TypeOK
  <2> QED BY <2>1 DEF KeyedInv, Drafted, NoRows
<1>10. CASE UNCHANGED vars
  BY <1>10, <1>a DEF vars, KeyedInv
<1> QED
  BY <1>1, <1>2, <1>3, <1>4, <1>5, <1>6, <1>7, <1>8, <1>9, <1>10
     DEF Next, Store, Continue, Statements

(* When every consolidation has run to its end, each key that has evidence *)
(* has a trait, whatever overlapped and whatever was cleared.              *)
THEOREM EvidenceHasTraits == Spec => []EvidencedKeysHaveTraits
<1>1. KeyedInv => EvidencedKeysHaveTraits
  BY DEF KeyedInv, KeyStored, EvidencedKeysHaveTraits, Quiescent
<1> QED BY <1>1, TypeInit, TypeStep, KeyedInit, KeyedStep, PTL DEF Spec
=============================================================================
