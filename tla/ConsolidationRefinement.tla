---------------------- MODULE ConsolidationRefinement ----------------------
(***************************************************************************)
(* When one thread serves the user and no request dies, Consolidation      *)
(* implements ProfileLedger: proof, for every set of contents, every       *)
(* claim the rules may read in them and every bound.                       *)
(***************************************************************************)
EXTENDS ConsolidationProofs

USE ContentsAssumption, LimitsAssumption, SentinelAssumption

-----------------------------------------------------------------------------
(* The ledger's variables, as Consolidation reads them.                    *)

SupportOf(trait) == IF trait = NoTrait THEN 0 ELSE trait.count

Archived(trait) == trait # NoTrait /\ trait.status = "archived"

Stated == [r \in RowIds |-> IF rows[r] = Absent THEN Absent
                                                ELSE rows[r].content]

Counted == {e.row : e \in evidence}

Support == [k \in Keys |-> SupportOf(Settled(k))]

Revoked == {k \in Keys : Archived(Settled(k))}

Speaks(r, k) == Stated[r] # Absent /\ Claim[Stated[r]].key = k

(* With one thread, a settled trait is its draft or the stored one.        *)
LEMMA SettledIs ==
    ASSUME NEW t, Threads = {t}, NEW k \in Keys
    PROVE  /\ Settled(k) = IF EvidenceStored(t) /\ draft[t][k] # NoTrait
                           THEN draft[t][k] ELSE traits[k]
           /\ Settled(k)' = IF EvidenceStored(t)' /\ draft'[t][k] # NoTrait
                            THEN draft'[t][k] ELSE traits'[k]
<1> QED BY DEF Settled

LEMMA LedgerInit ==
    ASSUME NEW t, Threads = {t}
    PROVE  Init => Ledger!Init
<1> SUFFICES ASSUME Init PROVE Ledger!Init
  OBVIOUS
<1>1. \A k \in Keys : Settled(k) = NoTrait
  BY SettledIs DEF Init, NoTraits, EvidenceStored
<1> QED BY <1>1 DEF Init, Ledger!Init, NoRows

(* What a step must do to these four to be a step of the ledger.           *)
LEMMA StutterMaps ==
    ASSUME Stated' = Stated, Counted' = Counted, Support' = Support,
           Revoked' = Revoked
    PROVE  [Ledger!Next]_Ledger!ledgerVars
<1> QED BY DEF Stated, Counted, Support, Revoked, SupportOf, Archived,
               Ledger!ledgerVars

LEMMA StateMaps ==
    ASSUME NEW r \in RowIds, NEW c \in Contents,
           Stated' = [Stated EXCEPT ![r] = c], Counted' = Counted,
           Support' = Support, Revoked' = Revoked
    PROVE  [Ledger!Next]_Ledger!ledgerVars
<1>1. Ledger!State(r, c)
  BY DEF Stated, Counted, Support, Revoked, SupportOf, Archived, Ledger!State
<1> QED BY <1>1 DEF Ledger!Next

LEMMA ClearMaps ==
    ASSUME Stated' = [r \in RowIds |-> Absent], Counted' = {},
           Support' = [k \in Keys |-> 0], Revoked' = {}
    PROVE  [Ledger!Next]_Ledger!ledgerVars
<1>1. Ledger!Clear
  BY DEF Stated, Counted, Support, Revoked, SupportOf, Archived, Ledger!Clear
<1> QED BY <1>1 DEF Ledger!Next

(* The ledger's own copy of Cardinality is Cardinality.                    *)
LEMMA SameCardinality == \A S : Ledger!Cardinality(S) = Cardinality(S)
<1> QED BY DEF Cardinality, Ledger!Cardinality

LEMMA AbsorbMaps ==
    ASSUME NEW batch, batch # {}, batch \subseteq RowIds,
           batch \cap Counted = {},
           \A r \in batch : \E k \in Keys : Speaks(r, k),
           Stated' = Stated, Counted' = Counted \cup batch,
           Support' = [k \in Keys |->
                         Support[k] + Cardinality({r \in batch : Speaks(r, k)})],
           Revoked' = Revoked \cup
                        {k \in Keys : \E r \in batch :
                           /\ Speaks(r, k)
                           /\ Claim[Stated[r]].nature = "revocation"}
    PROVE  [Ledger!Next]_Ledger!ledgerVars
<1>1. \A r, k : Ledger!BearsOn(r, k) <=> Speaks(r, k)
  BY DEF Speaks, Ledger!BearsOn, Stated
<1>2. batch \in SUBSET Ledger!Uncounted
  BY <1>1 DEF Ledger!Uncounted, Counted
<1>3. Ledger!Absorb(batch)
  <2>1. \A k : Cardinality({r \in batch : Speaks(r, k)})
                 = Ledger!Cardinality({r \in batch : Ledger!BearsOn(r, k)})
    BY <1>1, SameCardinality
  <2>2. Support' = [k \in Keys |->
                      Support[k]
                        + Ledger!Cardinality({r \in batch : Ledger!BearsOn(r, k)})]
    BY <2>1
  <2>3. Revoked' = Revoked \cup
                     {k \in Keys : \E r \in batch :
                        /\ Ledger!BearsOn(r, k)
                        /\ Claim[Stated[r]].nature = "revocation"}
    BY <1>1
  <2> QED BY <2>2, <2>3
          DEF Stated, Counted, Support, Revoked, SupportOf, Archived,
              Ledger!Absorb
<1> QED BY <1>2, <1>3 DEF Ledger!Next

-----------------------------------------------------------------------------
(* What holds of the only thread between its transactions: the rows it has *)
(* read are still as it read them and not quoted by any evidence, what it  *)
(* has built is about other such rows, and a draft counts the stored trait *)
(* plus the rows built for its key.                                        *)

BuiltFor(t, k) == {e \in built[t] : KeyOf(e.content) = k}

RowsFor(t, k) == {e.row : e \in BuiltFor(t, k)}

Revokes(E) == \E x \in E : Claim[x.content].nature = "revocation"

Fresh(r) ==
    rows[r] # Absent /\ KeyOf(rows[r].content) \in Keys /\ ~HasEvidence(r)

NumberedRows ==
    /\ \A r \in RowIds : rows[r] # Absent => r <= requests
    /\ \A e \in evidence : e.row <= requests

ScannedFresh(t) ==
    /\ pc[t] \notin {"scan_choices", "build"} => scanned[t] = NoRows
    /\ \A r \in RowIds : scanned[t][r] # Absent =>
         scanned[t][r] = rows[r] /\ Fresh(r)

BuiltFresh(t) ==
    /\ pc[t] \notin {"build", "upsert"} => built[t] = {} /\ draft[t] = NoTraits
    /\ pc[t] = "build" =>
         \A e \in built[t] :
            /\ Fresh(e.row)
            /\ e.content = rows[e.row].content
            /\ scanned[t][e.row] = Absent

DraftOf(t, k) ==
    IF draft[t][k] = NoTrait
    THEN BuiltFor(t, k) = {}
    ELSE /\ draft[t][k].count = SupportOf(traits[k]) + Cardinality(RowsFor(t, k))
         /\ Archived(draft[t][k])
              <=> Archived(traits[k]) \/ Revokes(BuiltFor(t, k))

DraftCounts(t) == pc[t] = "build" => \A k \in Keys : DraftOf(t, k)

ChoicesMarked(t) ==
    \A r \in ChoiceRows : HasEvidence(r) =>
        r \in marked \/ (EvidenceStored(t) /\ \E e \in built[t] : e.row = r)

LoneInv(t) ==
    /\ NumberedRows
    /\ ScannedFresh(t)
    /\ BuiltFresh(t)
    /\ DraftCounts(t)
    /\ ChoicesMarked(t)

LEMMA LoneInit == ASSUME NEW t, Threads = {t} PROVE Init => LoneInv(t)
<1> QED BY DEF Init, LoneInv, NumberedRows, ScannedFresh, BuiltFresh,
               DraftCounts, ChoicesMarked, ChoiceRows, NoRows, HasEvidence

(* What a step that has nothing scanned or built leaves to show.           *)
Resting == {"idle", "check", "scan_memories"}

LEMMA RestingKeeps ==
    ASSUME NEW t, LoneInv(t), pc[t] \in Resting, pc'[t] \in Resting,
           UNCHANGED locals
    PROVE  ScannedFresh(t)' /\ BuiltFresh(t)' /\ DraftCounts(t)'
<1>1. /\ scanned[t] = NoRows /\ built[t] = {} /\ draft[t] = NoTraits
      /\ scanned' = scanned /\ built' = built /\ draft' = draft
      /\ pc[t] \notin {"scan_choices", "build", "upsert"}
      /\ pc'[t] \notin {"scan_choices", "build", "upsert"}
  BY DEF LoneInv, ScannedFresh, BuiltFresh, Resting, locals
<1> QED BY <1>1 DEF ScannedFresh, BuiltFresh, DraftCounts, NoRows

LEMMA SettledSame ==
    ASSUME \A k \in Keys : Settled(k)' = Settled(k)
    PROVE  Support' = Support /\ Revoked' = Revoked
<1> QED BY DEF Support, Revoked, SupportOf, Archived

(* A row inserted under a new id, or reworded.                             *)
LEMMA InsertMaps ==
    ASSUME TypeOK, NEW c \in Contents, requests < MaxRequests, Insert(c)
    PROVE  /\ requests + 1 \in RowIds
           /\ Stated' = [Stated EXCEPT ![requests + 1] = c]
           /\ \A r \in RowIds : rows'[r] = IF r = requests + 1 THEN NewRow(c)
                                                              ELSE rows[r]
<1>1. requests + 1 \in RowIds
  BY DEF TypeOK, RowIds
<1>2. \A r \in RowIds : rows'[r] = IF r = requests + 1 THEN NewRow(c) ELSE rows[r]
  BY <1>1 DEF Insert, TypeOK
<1>3. NewRow(c) # Absent /\ NewRow(c).content = c
  <2>1. Claim[c].confidence \in Nat
    BY DEF Claims
  <2> QED BY <2>1 DEF NewRow, Row
<1> QED BY <1>1, <1>2, <1>3 DEF Stated

LEMMA StoreKeeps ==
    ASSUME NEW t, Threads = {t}, TypeOK, LoneInv(t), NEW c \in Contents,
           Remember(t, c) \/ RecordChoice(t, c)
    PROVE  LoneInv(t)' /\ [Ledger!Next]_Ledger!ledgerVars
<1>1. /\ pc[t] = "idle" /\ requests < MaxRequests /\ requests' = requests + 1
      /\ Insert(c) /\ UNCHANGED <<marked, evidence, traits, pc, locals>>
  BY DEF Remember, RecordChoice, Issue
<1>2. ScannedFresh(t)' /\ BuiltFresh(t)' /\ DraftCounts(t)'
  BY <1>1, RestingKeeps DEF Resting
<1>3. \A r \in RowIds : rows'[r] = IF r = requests + 1 THEN NewRow(c) ELSE rows[r]
  BY <1>1, InsertMaps
<1>4. requests \in Nat /\ \A e \in evidence : e.row \in RowIds /\ e.row \in Int
  BY DEF TypeOK, Evidence, RowIds
<1>5. NumberedRows'
  <2>1. \A r \in RowIds : r \in Int
    BY DEF RowIds
  <2> QED BY <1>1, <1>3, <1>4, <2>1 DEF LoneInv, NumberedRows
<1>6. ChoicesMarked(t)'
  <2> SUFFICES ASSUME NEW r \in ChoiceRows', HasEvidence(r)' PROVE r \in marked
    BY <1>1 DEF ChoicesMarked
  <2>1. HasEvidence(r)
    BY <1>1 DEF HasEvidence
  <2>2. r # requests + 1
    BY <1>4, <2>1 DEF HasEvidence, LoneInv, NumberedRows
  <2>3. r \in ChoiceRows
    BY <1>3, <2>2 DEF ChoiceRows, IsChoice
  <2> QED BY <1>1, <2>1, <2>3 DEF LoneInv, ChoicesMarked, EvidenceStored
<1>7. [Ledger!Next]_Ledger!ledgerVars
  <2>1. \A k \in Keys : Settled(k)' = Settled(k)
    BY <1>1, SettledIs DEF EvidenceStored, locals
  <2>2. Counted' = Counted
    BY <1>1 DEF Counted
  <2> QED BY <1>1, <2>1, <2>2, InsertMaps, SettledSame, StateMaps
<1> QED BY <1>2, <1>5, <1>6, <1>7 DEF LoneInv

LEMMA CaptureKeeps ==
    ASSUME NEW t, Threads = {t}, TypeOK, LoneInv(t), NEW c \in Statements,
           Capture(t, c)
    PROVE  LoneInv(t)' /\ [Ledger!Next]_Ledger!ledgerVars
<1>1. /\ pc[t] = "idle" /\ pc'[t] = "check"
      /\ requests < MaxRequests /\ requests' = requests + 1
      /\ UNCHANGED <<marked, evidence, traits, locals>>
  BY DEF Capture, Issue, Moves, TypeOK
<1>2. ScannedFresh(t)' /\ BuiltFresh(t)' /\ DraftCounts(t)'
  BY <1>1, RestingKeeps DEF Resting
<1>3. requests \in Nat /\ \A e \in evidence : e.row \in RowIds /\ e.row \in Int
  BY DEF TypeOK, Evidence, RowIds
<1>4. \A r \in RowIds : r \in Int
  BY DEF RowIds
<1>5. \A k \in Keys : Settled(k)' = Settled(k)
  BY <1>1, SettledIs DEF EvidenceStored, locals
<1>6. Counted' = Counted
  BY <1>1 DEF Counted
<1>7. c \in Contents /\ Claim[c].nature # "choice"
  BY DEF Statements
<1>8. CASE Insert(c)
  <2>1. \A r \in RowIds : rows'[r] = IF r = requests + 1 THEN NewRow(c) ELSE rows[r]
    BY <1>1, <1>7, <1>8, InsertMaps
  <2>2. NumberedRows'
    BY <1>1, <1>3, <1>4, <2>1 DEF LoneInv, NumberedRows
  <2>3. ChoicesMarked(t)'
    <3> SUFFICES ASSUME NEW r \in ChoiceRows', HasEvidence(r)' PROVE r \in marked
      BY <1>1 DEF ChoicesMarked
    <3>1. HasEvidence(r)
      BY <1>1 DEF HasEvidence
    <3>2. r # requests + 1
      BY <1>3, <3>1 DEF HasEvidence, LoneInv, NumberedRows
    <3>3. r \in ChoiceRows
      BY <2>1, <3>2 DEF ChoiceRows, IsChoice
    <3> QED BY <1>1, <3>1, <3>3 DEF LoneInv, ChoicesMarked, EvidenceStored
  <2>4. [Ledger!Next]_Ledger!ledgerVars
    BY <1>1, <1>5, <1>6, <1>7, <1>8, InsertMaps, SettledSame, StateMaps
  <2> QED BY <1>2, <2>2, <2>3, <2>4 DEF LoneInv
<1>9. CASE \E r \in SimilarRows(c) : Reinforce(r, c)
  <2>1. PICK r \in SimilarRows(c) : Reinforce(r, c)
    BY <1>9
  <2>2. /\ r \in RowIds /\ rows[r] # Absent /\ rows[r] \in Row
        /\ Claim[rows[r].content].nature # "choice"
    BY <2>1 DEF SimilarRows, MemoryRows, IsChoice, TypeOK
  <2>3. PICK d \in {c, rows[r].content} :
          /\ rows'[r].content = d /\ rows'[r] # Absent
          /\ \A u \in RowIds \ {r} : rows'[u] = rows[u]
    BY <1>7, <2>1, ReinforceType
  <2>4. d \in Contents /\ Claim[d].nature # "choice"
    BY <1>7, <2>2, <2>3 DEF Row
  <2>5. Stated' = [Stated EXCEPT ![r] = d]
    BY <2>2, <2>3 DEF Stated
  <2>6. NumberedRows'
    <3>1. \A u \in RowIds : rows'[u] # Absent => rows[u] # Absent
      BY <2>2, <2>3
    <3> QED BY <1>1, <1>3, <1>4, <3>1 DEF LoneInv, NumberedRows
  <2>7. ChoicesMarked(t)'
    <3> SUFFICES ASSUME NEW u \in ChoiceRows', HasEvidence(u)' PROVE u \in marked
      BY <1>1 DEF ChoicesMarked
    <3>1. HasEvidence(u)
      BY <1>1 DEF HasEvidence
    <3>2. u # r
      BY <2>3, <2>4 DEF ChoiceRows, IsChoice
    <3>3. u \in ChoiceRows
      BY <2>3, <3>2 DEF ChoiceRows, IsChoice
    <3> QED BY <1>1, <3>1, <3>3 DEF LoneInv, ChoicesMarked, EvidenceStored
  <2>8. [Ledger!Next]_Ledger!ledgerVars
    BY <1>5, <1>6, <2>2, <2>4, <2>5, SettledSame, StateMaps
  <2> QED BY <1>2, <2>6, <2>7, <2>8 DEF LoneInv
<1> QED BY <1>8, <1>9 DEF Capture

LEMMA ClearKeeps ==
    ASSUME NEW t, Threads = {t}, LoneInv(t), Clear(t)
    PROVE  LoneInv(t)' /\ [Ledger!Next]_Ledger!ledgerVars
<1>1. /\ pc[t] = "idle" /\ rows' = NoRows /\ evidence' = {}
      /\ traits' = NoTraits /\ UNCHANGED <<pc, locals>>
  BY DEF Clear, Issue
<1>2. ScannedFresh(t)' /\ BuiltFresh(t)' /\ DraftCounts(t)'
  BY <1>1, RestingKeeps DEF Resting
<1>3. NumberedRows' /\ ChoicesMarked(t)'
  BY <1>1 DEF NumberedRows, ChoicesMarked, HasEvidence, NoRows
<1>4. \A k \in Keys : Settled(k)' = NoTrait
  BY <1>1, SettledIs DEF EvidenceStored, NoTraits
<1>5. Support' = [k \in Keys |-> 0] /\ Revoked' = {}
  BY <1>4 DEF Support, Revoked, SupportOf, Archived
<1>6. Stated' = [r \in RowIds |-> Absent] /\ Counted' = {}
  BY <1>1 DEF Stated, Counted, NoRows
<1> QED BY <1>2, <1>3, <1>5, <1>6, ClearMaps DEF LoneInv

-----------------------------------------------------------------------------
(* The steps of a consolidation.                                           *)

(* A step that rests and leaves the tables alone.                          *)
LEMMA PauseKeeps ==
    ASSUME NEW t, Threads = {t}, LoneInv(t), pc[t] \in Resting,
           pc'[t] \in Resting,
           UNCHANGED <<requests, rows, marked, evidence, traits, locals>>
    PROVE  LoneInv(t)' /\ [Ledger!Next]_Ledger!ledgerVars
<1>1. ScannedFresh(t)' /\ BuiltFresh(t)' /\ DraftCounts(t)'
  BY RestingKeeps
<1>2. NumberedRows'
  BY DEF LoneInv, NumberedRows
<1>3. ~EvidenceStored(t) /\ ~EvidenceStored(t)'
  BY DEF EvidenceStored, Resting
<1>4. ChoicesMarked(t)'
  BY <1>3 DEF LoneInv, ChoicesMarked, ChoiceRows, IsChoice, HasEvidence
<1>5. \A k \in Keys : Settled(k)' = Settled(k)
  BY <1>3, SettledIs
<1>6. Stated' = Stated /\ Counted' = Counted
  BY DEF Stated, Counted
<1> QED BY <1>1, <1>2, <1>4, <1>5, <1>6, SettledSame, StutterMaps DEF LoneInv

(* A scan takes over fresh rows only.                                      *)
LEMMA ScanKeeps ==
    ASSUME NEW t, Threads = {t}, TypeOK, LoneInv(t),
           ScanMemories(t) \/ ScanChoices(t)
    PROVE  LoneInv(t)' /\ [Ledger!Next]_Ledger!ledgerVars
<1>1. /\ pc[t] \in {"scan_memories", "scan_choices"}
      /\ pc'[t] \in {"scan_choices", "build"}
      /\ UNCHANGED <<requests, rows, marked, evidence, traits, built, draft>>
  BY DEF ScanMemories, ScanChoices, Moves, store, TypeOK
<1>2. built[t] = {} /\ draft[t] = NoTraits
  BY <1>1 DEF LoneInv, BuiltFresh
<1>3. ASSUME NEW W, NEW r \in Candidates(W), r \in RowIds, rows[r] # Absent
      PROVE  KeyOf(rows[r].content) \in Keys
  BY <1>3 DEF Candidates, TypeOK, Row, Claims, KeyOf
<1>4. ASSUME NEW r \in RowIds, scanned'[t][r] # Absent,
             scanned'[t][r] # scanned[t][r]
      PROVE  scanned'[t][r] = rows[r] /\ Fresh(r)
  <2>1. CASE ScanMemories(t)
    <3>1. PICK W \in Newest(UnconsolidatedMemories, RecentLimit) :
            scanned' = [scanned EXCEPT ![t] =
                          [u \in RowIds |-> IF u \in Candidates(W) THEN rows[u]
                                                                   ELSE Absent]]
      BY <2>1 DEF ScanMemories
    <3>2. r \in Candidates(W) /\ scanned'[t][r] = rows[r]
      BY <1>4, <3>1 DEF TypeOK
    <3>3. r \in UnconsolidatedMemories
      BY <3>2 DEF Candidates, Newest
    <3> QED BY <1>3, <3>2, <3>3 DEF Fresh, UnconsolidatedMemories, MemoryRows
  <2>2. CASE ScanChoices(t)
    <3>1. PICK W \in Newest(UnconsolidatedChoices, RecentLimit) :
            scanned' = [scanned EXCEPT ![t] =
                          [u \in RowIds |-> IF u \in Candidates(W) THEN rows[u]
                                                                   ELSE @[u]]]
      BY <2>2 DEF ScanChoices
    <3>2. r \in Candidates(W) /\ scanned'[t][r] = rows[r]
      BY <1>4, <3>1 DEF TypeOK
    <3>3. r \in ChoiceRows \ marked
      BY <3>2 DEF Candidates, Newest, UnconsolidatedChoices
    <3>4. ~HasEvidence(r)
      BY <1>1, <3>3 DEF LoneInv, ChoicesMarked, EvidenceStored
    <3> QED BY <1>3, <3>2, <3>3, <3>4 DEF Fresh, ChoiceRows
  <2> QED BY <2>1, <2>2
<1>5. \A r \in RowIds : Fresh(r)' <=> Fresh(r)
  BY <1>1 DEF Fresh, HasEvidence
<1>6. ScannedFresh(t)'
  BY <1>1, <1>4, <1>5 DEF LoneInv, ScannedFresh
<1>7. BuiltFresh(t)' /\ DraftCounts(t)'
  BY <1>1, <1>2 DEF BuiltFresh, DraftCounts, DraftOf, BuiltFor, NoTraits
<1>8. ~EvidenceStored(t) /\ ~EvidenceStored(t)'
  BY <1>1 DEF EvidenceStored
<1>9. ChoicesMarked(t)' /\ NumberedRows'
  BY <1>1, <1>8 DEF LoneInv, ChoicesMarked, ChoiceRows, IsChoice, HasEvidence,
                    NumberedRows
<1>10. [Ledger!Next]_Ledger!ledgerVars
  <2>1. \A k \in Keys : Settled(k)' = Settled(k)
    BY <1>1, <1>8, SettledIs
  <2>2. Stated' = Stated /\ Counted' = Counted
    BY <1>1 DEF Stated, Counted
  <2> QED BY <2>1, <2>2, SettledSame, StutterMaps
<1> QED BY <1>6, <1>7, <1>9, <1>10 DEF LoneInv

(* A built trait counts one more, and is archived if it was or if what it  *)
(* is built from revokes.                                                  *)
LEMMA BuildTraitCounts ==
    ASSUME NEW old \in Trait \cup {NoTrait}, NEW row \in Row, NEW id
    PROVE  /\ BuildTrait(old, row, id).count = SupportOf(old) + 1
           /\ BuildTrait(old, row, id).status = "archived"
                <=> \/ Archived(old)
                    \/ Claim[row.content].nature = "revocation"
<1>1. /\ row.content \in Contents
      /\ Claim[row.content].weak \in BOOLEAN
  BY DEF Row, Claims
<1>2. InitialStatus(row.content) = "archived"
        <=> Claim[row.content].nature = "revocation"
  BY DEF InitialStatus
<1>3. CASE old = NoTrait
  <2>1. BuildTrait(old, row, id).count = 1
    BY <1>3 DEF BuildTrait, NewTrait
  <2>2. BuildTrait(old, row, id).status = InitialStatus(row.content)
    BY <1>3 DEF BuildTrait, NewTrait
  <2> QED BY <1>2, <1>3, <2>1, <2>2 DEF SupportOf, Archived
<1>4. CASE old # NoTrait
  <2> DEFINE confidence == Raised(old.confidence, row.confidence, 4)
             status == MergedStatus(old, row.content, old.count + 1, confidence)
  <2>1. BuildTrait(old, row, id).count = old.count + 1
    BY <1>4 DEF BuildTrait, MergedTrait
  <2>2. BuildTrait(old, row, id).status = status
    BY <1>4 DEF BuildTrait, MergedTrait
  <2>3. status = "archived" <=> \/ old.status = "archived"
                                \/ Claim[row.content].nature = "revocation"
    <3> HIDE DEF confidence
    <3> QED BY <1>2 DEF MergedStatus
  <2> HIDE DEF status
  <2> QED BY <1>4, <2>1, <2>2, <2>3 DEF SupportOf, Archived
<1> QED BY <1>3, <1>4

LEMMA LoneBuildKeeps ==
    ASSUME NEW t, Threads = {t}, TypeOK, LoneInv(t), NEW r \in RowIds,
           Build(t, r)
    PROVE  LoneInv(t)' /\ [Ledger!Next]_Ledger!ledgerVars
<1> DEFINE row == scanned[t][r]
<1>0. PICK k : k = KeyOf(row.content)
  OBVIOUS
<1> DEFINE nth == minted[r] + 1
           old == IF draft[t][k] # NoTrait THEN draft[t][k] ELSE traits[k]
           new == BuildTrait(old, row, <<r, nth>>)
           evd == [row |-> r, nth |-> nth, content |-> row.content]
<1>1. /\ pc[t] = "build" /\ row # Absent
      /\ UNCHANGED <<requests, rows, marked, evidence, traits, pc>>
      /\ built' = [built EXCEPT ![t] = @ \cup {evd}]
      /\ draft' = [draft EXCEPT ![t][k] = new]
      /\ scanned' = [scanned EXCEPT ![t][r] = Absent]
  BY <1>0 DEF Build, store, ToBuild
<1>2. row = rows[r] /\ Fresh(r) /\ k \in Keys /\ row \in Row
  BY <1>0, <1>1 DEF LoneInv, ScannedFresh, Fresh, TypeOK
<1>3. old \in Trait \cup {NoTrait} /\ <<r, nth>> \in EvidenceId
  BY <1>2 DEF TypeOK, EvidenceId
<1>4. /\ new # NoTrait
      /\ new.count = SupportOf(old) + 1
      /\ new.status = "archived"
           <=> Archived(old) \/ Claim[row.content].nature = "revocation"
  <2> HIDE DEF row, old, nth
  <2> QED BY <1>2, <1>3, BuildTraitKeeps, BuildTraitCounts
<1>5. evd.row = r /\ evd.content = row.content /\ KeyOf(evd.content) = k
  BY <1>0
<1>6. built'[t] = built[t] \cup {evd}
  BY <1>1 DEF TypeOK
<1>7. \A j \in Keys : draft'[t][j] = IF j = k THEN new ELSE draft[t][j]
  BY <1>1, <1>2 DEF TypeOK
<1>8. \A q \in RowIds : scanned'[t][q] = IF q = r THEN Absent ELSE scanned[t][q]
  BY <1>1 DEF TypeOK
<1> HIDE DEF evd, new, old, nth
<1>9. \A q : Fresh(q)' <=> Fresh(q)
  BY <1>1 DEF Fresh, HasEvidence
<1>10. /\ \A q \in RowIds : scanned[t][q] # Absent =>
            scanned[t][q] = rows[q] /\ Fresh(q)
       /\ \A e \in built[t] : /\ e.row \in RowIds
                              /\ Fresh(e.row)
                              /\ e.content = rows[e.row].content
                              /\ scanned[t][e.row] = Absent
       /\ \A j \in Keys : DraftOf(t, j)
  BY <1>1 DEF LoneInv, ScannedFresh, BuiltFresh, DraftCounts, TypeOK, Evidence
<1>11. ScannedFresh(t)'
  BY <1>1, <1>8, <1>9, <1>10 DEF ScannedFresh
<1>12. BuiltFresh(t)'
  BY <1>1, <1>2, <1>5, <1>6, <1>8, <1>9, <1>10 DEF BuiltFresh
<1>13. ASSUME NEW j \in Keys, j # k PROVE DraftOf(t, j)'
  <2>1. BuiltFor(t, j)' = BuiltFor(t, j)
    BY <1>5, <1>6, <1>13 DEF BuiltFor
  <2>2. RowsFor(t, j)' = RowsFor(t, j)
    BY <2>1 DEF RowsFor
  <2> QED BY <1>1, <1>7, <1>10, <1>13, <2>1, <2>2 DEF DraftOf, Revokes
<1>14. DraftOf(t, k)'
  <2>1. BuiltFor(t, k)' = BuiltFor(t, k) \cup {evd}
    BY <1>5, <1>6 DEF BuiltFor
  <2>2. RowsFor(t, k)' = RowsFor(t, k) \cup {r}
    BY <1>5, <2>1 DEF RowsFor
  <2>3. r \notin RowsFor(t, k) /\ RowsFor(t, k) \subseteq 1..MaxRequests
    BY <1>1, <1>10 DEF RowsFor, BuiltFor, RowIds
  <2>4. IsFiniteSet(RowsFor(t, k))
    <3>1. IsFiniteSet(1..MaxRequests)
      BY FS_Interval
    <3> QED BY <2>3, <3>1, FS_Subset
  <2>5. /\ Cardinality(RowsFor(t, k)') = Cardinality(RowsFor(t, k)) + 1
        /\ Cardinality(RowsFor(t, k)) \in Nat
    BY <2>2, <2>3, <2>4, FS_AddElement, FS_CardinalityType
  <2>6. Revokes(BuiltFor(t, k))'
          <=> \/ Revokes(BuiltFor(t, k))
              \/ Claim[row.content].nature = "revocation"
    BY <1>5, <2>1 DEF Revokes
  <2>7. DraftOf(t, k) /\ traits[k] \in Trait \cup {NoTrait}
    BY <1>2, <1>10 DEF TypeOK
  <2>8. SupportOf(traits[k]) \in Nat
    BY <2>7 DEF SupportOf, Trait
  <2>9. draft'[t][k] = new /\ traits' = traits
    BY <1>1, <1>2, <1>7
  <2>10. /\ new.count = SupportOf(traits[k]) + Cardinality(RowsFor(t, k)')
         /\ new.status = "archived"
              <=> Archived(traits[k]) \/ Revokes(BuiltFor(t, k))'
    <3>1. CASE draft[t][k] = NoTrait
      <4>1. old = traits[k] /\ BuiltFor(t, k) = {}
        BY <2>7, <3>1 DEF old, DraftOf
      <4>2. RowsFor(t, k) = {} /\ ~Revokes(BuiltFor(t, k))
        BY <4>1 DEF RowsFor, Revokes
      <4>3. Cardinality(RowsFor(t, k)) = 0
        BY <4>2, FS_EmptySet
      <4> QED BY <1>4, <2>5, <2>6, <2>8, <4>1, <4>2, <4>3
    <3>2. CASE draft[t][k] # NoTrait
      <4>1. old = draft[t][k]
        BY <3>2 DEF old
      <4>2. /\ old.count = SupportOf(traits[k]) + Cardinality(RowsFor(t, k))
            /\ Archived(old)
                 <=> Archived(traits[k]) \/ Revokes(BuiltFor(t, k))
        BY <2>7, <3>2, <4>1 DEF DraftOf
      <4>3. SupportOf(old) = old.count
        BY <3>2, <4>1 DEF SupportOf
      <4> QED BY <1>4, <2>5, <2>6, <2>8, <4>2, <4>3
    <3> QED BY <3>1, <3>2
  <2>11. Archived(new) <=> new.status = "archived"
    BY <1>4 DEF Archived
  <2> QED BY <1>4, <2>9, <2>10, <2>11 DEF DraftOf, Archived
<1>15. DraftCounts(t)'
  BY <1>13, <1>14 DEF DraftCounts
<1>16. ~EvidenceStored(t) /\ ~EvidenceStored(t)'
  BY <1>1 DEF EvidenceStored
<1>17. ChoicesMarked(t)' /\ NumberedRows'
  BY <1>1, <1>16 DEF LoneInv, ChoicesMarked, ChoiceRows, IsChoice, HasEvidence,
                     NumberedRows
<1>18. [Ledger!Next]_Ledger!ledgerVars
  <2>1. \A j \in Keys : Settled(j)' = Settled(j)
    BY <1>1, <1>16, SettledIs
  <2>2. Stated' = Stated /\ Counted' = Counted
    BY <1>1 DEF Stated, Counted
  <2> QED BY <2>1, <2>2, SettledSame, StutterMaps
<1> QED BY <1>11, <1>12, <1>15, <1>17, <1>18 DEF LoneInv

(* Storing the evidence is the moment the ledger counts.                   *)
LEMMA AddEvidenceKeeps ==
    ASSUME NEW t, Threads = {t}, TypeOK, LoneInv(t), AddEvidence(t)
    PROVE  LoneInv(t)' /\ [Ledger!Next]_Ledger!ledgerVars
<1> DEFINE batch == {e.row : e \in built[t]}
<1>1. /\ ToBuild(t) = {} /\ pc[t] = "build" /\ pc'[t] = "upsert"
      /\ evidence' = evidence \cup built[t]
      /\ UNCHANGED <<requests, rows, marked, traits, locals>>
  BY DEF AddEvidence, Moves, TypeOK
<1>2. scanned[t] = NoRows
  BY <1>1 DEF ToBuild, NoRows, TypeOK
<1>3. \A e \in built[t] : /\ e.row \in RowIds
                          /\ Fresh(e.row)
                          /\ e.content = rows[e.row].content
                          /\ rows[e.row] \in Row
  BY <1>1 DEF LoneInv, BuiltFresh, TypeOK, Evidence, Fresh
<1>4. ScannedFresh(t)' /\ BuiltFresh(t)' /\ DraftCounts(t)'
  BY <1>1, <1>2 DEF ScannedFresh, BuiltFresh, DraftCounts, locals, NoRows
<1>5. NumberedRows'
  BY <1>1, <1>3 DEF LoneInv, NumberedRows, Fresh
<1>6. ChoicesMarked(t)'
  <2> SUFFICES ASSUME NEW r \in ChoiceRows, HasEvidence(r)', r \notin marked
               PROVE  \E e \in built[t] : e.row = r
    BY <1>1 DEF ChoicesMarked, ChoiceRows, IsChoice, EvidenceStored, locals
  <2>1. ~HasEvidence(r)
    BY <1>1 DEF LoneInv, ChoicesMarked, EvidenceStored
  <2> QED BY <1>1, <2>1 DEF HasEvidence
<1>7. Stated' = Stated /\ Counted' = Counted \cup batch
  BY <1>1 DEF Stated, Counted
<1>8. /\ batch \subseteq RowIds /\ batch \cap Counted = {}
      /\ \A r \in batch : \E k \in Keys : Speaks(r, k)
  BY <1>3 DEF Fresh, HasEvidence, Counted, Speaks, Stated, KeyOf, Row
<1>9. \A k \in Keys : RowsFor(t, k) = {r \in batch : Speaks(r, k)}
  <2> SUFFICES ASSUME NEW k \in Keys, NEW e \in built[t]
               PROVE  KeyOf(e.content) = k <=> Speaks(e.row, k)
    BY DEF RowsFor, BuiltFor
  <2> QED BY <1>3 DEF Speaks, Stated, KeyOf, Row
<1>10. \A k \in Keys :
         Revokes(BuiltFor(t, k))
           <=> \E r \in batch :
                 Speaks(r, k) /\ Claim[Stated[r]].nature = "revocation"
  <2>1. \A e \in built[t] : Stated[e.row] = e.content
    BY <1>3 DEF Stated, Fresh
  <2>2. \A k \in Keys : \A e \in built[t] :
          KeyOf(e.content) = k <=> Speaks(e.row, k)
    BY <1>3 DEF Speaks, Stated, KeyOf, Row
  <2> QED BY <2>1, <2>2 DEF Revokes, BuiltFor
<1>11. \A k \in Keys :
         /\ SupportOf(Settled(k))'
              = SupportOf(Settled(k)) + Cardinality(RowsFor(t, k))
         /\ Archived(Settled(k))'
              <=> Archived(Settled(k)) \/ Revokes(BuiltFor(t, k))
  <2> SUFFICES ASSUME NEW k \in Keys
               PROVE  /\ SupportOf(Settled(k)')
                           = SupportOf(Settled(k)) + Cardinality(RowsFor(t, k))
                      /\ Archived(Settled(k)')
                           <=> Archived(Settled(k)) \/ Revokes(BuiltFor(t, k))
    BY DEF SupportOf, Archived
  <2>1. Settled(k) = traits[k]
    BY <1>1, SettledIs DEF EvidenceStored
  <2>2. Settled(k)' = IF draft[t][k] # NoTrait THEN draft[t][k] ELSE traits[k]
    BY <1>1, SettledIs DEF EvidenceStored, locals
  <2>3. DraftOf(t, k) /\ SupportOf(traits[k]) \in Nat
    BY <1>1 DEF LoneInv, DraftCounts, SupportOf, TypeOK, Trait
  <2>4. CASE draft[t][k] = NoTrait
    <3>1. RowsFor(t, k) = {} /\ ~Revokes(BuiltFor(t, k))
      BY <2>3, <2>4 DEF DraftOf, RowsFor, Revokes
    <3>2. Cardinality(RowsFor(t, k)) = 0
      BY <3>1, FS_EmptySet
    <3> QED BY <2>1, <2>2, <2>3, <2>4, <3>1, <3>2
  <2>5. CASE draft[t][k] # NoTrait
    <3>1. SupportOf(draft[t][k]) = draft[t][k].count
      BY <2>5 DEF SupportOf
    <3> QED BY <2>1, <2>2, <2>3, <2>5, <3>1 DEF DraftOf
  <2> QED BY <2>4, <2>5
<1>12. Support' = [k \in Keys |->
                     Support[k] + Cardinality({r \in batch : Speaks(r, k)})]
  <2>1. Support' = [k \in Keys |-> SupportOf(Settled(k))']
    BY DEF Support, SupportOf
  <2> QED BY <1>9, <1>11, <2>1 DEF Support
<1>13. Revoked' = Revoked \cup
                    {k \in Keys : \E r \in batch :
                       Speaks(r, k) /\ Claim[Stated[r]].nature = "revocation"}
  <2>1. Revoked' = {k \in Keys : Archived(Settled(k))'}
    BY DEF Revoked, Archived
  <2> QED BY <1>10, <1>11, <2>1 DEF Revoked
<1>14. [Ledger!Next]_Ledger!ledgerVars
  <2>1. CASE batch = {}
    <3>1. Counted' = Counted /\ Stated' = Stated
      BY <1>7, <2>1
    <3>2. built[t] = {}
      BY <2>1
    <3>3. \A k \in Keys : RowsFor(t, k) = {} /\ ~Revokes(BuiltFor(t, k))
      BY <3>2 DEF RowsFor, Revokes, BuiltFor
    <3>4. \A k \in Keys : SupportOf(Settled(k)) \in Nat
      BY <1>1, SettledIs DEF EvidenceStored, SupportOf, TypeOK, Trait
    <3>5. \A k \in Keys : /\ SupportOf(Settled(k))' = SupportOf(Settled(k))
                          /\ Archived(Settled(k))' <=> Archived(Settled(k))
      BY <1>11, <3>3, <3>4, FS_EmptySet
    <3>6. Support' = Support /\ Revoked' = Revoked
      BY <3>5 DEF Support, Revoked, SupportOf, Archived
    <3> QED BY <3>1, <3>6, StutterMaps
  <2>2. CASE batch # {}
    <3> HIDE DEF batch
    <3> QED BY <1>7, <1>8, <1>12, <1>13, <2>2, AbsorbMaps
  <2> QED BY <2>1, <2>2
<1> QED BY <1>4, <1>5, <1>6, <1>14 DEF LoneInv

(* The upserts and the marking only carry out what has been counted.       *)
LEMMA UpsertKeeps ==
    ASSUME NEW t, Threads = {t}, TypeOK, LoneInv(t), NEW k \in Keys,
           UpsertTrait(t, k)
    PROVE  LoneInv(t)' /\ [Ledger!Next]_Ledger!ledgerVars
<1>1. /\ pc[t] = "upsert" /\ draft[t][k] # NoTrait
      /\ traits' = [traits EXCEPT ![k] = draft[t][k]]
      /\ draft' = [draft EXCEPT ![t][k] = NoTrait]
      /\ UNCHANGED <<requests, rows, marked, evidence, pc, scanned, built>>
  BY DEF UpsertTrait
<1>2. ScannedFresh(t)' /\ BuiltFresh(t)' /\ DraftCounts(t)'
  BY <1>1 DEF LoneInv, ScannedFresh, BuiltFresh, DraftCounts, Fresh, HasEvidence
<1>3. ChoicesMarked(t)' /\ NumberedRows'
  BY <1>1 DEF LoneInv, ChoicesMarked, ChoiceRows, IsChoice, HasEvidence,
              NumberedRows, EvidenceStored
<1>4. \A j \in Keys : /\ draft'[t][j] = IF j = k THEN NoTrait ELSE draft[t][j]
                      /\ traits'[j] = IF j = k THEN draft[t][k] ELSE traits[j]
  BY <1>1 DEF TypeOK
<1>5. \A j \in Keys : Settled(j)' = Settled(j)
  BY <1>1, <1>4, SettledIs DEF EvidenceStored
<1>6. Stated' = Stated /\ Counted' = Counted
  BY <1>1 DEF Stated, Counted
<1> QED BY <1>2, <1>3, <1>5, <1>6, SettledSame, StutterMaps DEF LoneInv

LEMMA MarkKeeps ==
    ASSUME NEW t, Threads = {t}, TypeOK, LoneInv(t), MarkChoices(t)
    PROVE  LoneInv(t)' /\ [Ledger!Next]_Ledger!ledgerVars
<1>1. /\ pc[t] = "upsert" /\ pc'[t] = "idle" /\ draft[t] = NoTraits
      /\ marked' = marked \cup {r \in ChoiceRows : \E e \in built[t] : e.row = r}
      /\ built'[t] = {}
      /\ UNCHANGED <<requests, rows, evidence, traits, scanned, draft>>
  BY DEF MarkChoices, Moves, TypeOK
<1>2. ScannedFresh(t)' /\ BuiltFresh(t)' /\ DraftCounts(t)'
  BY <1>1 DEF LoneInv, ScannedFresh, BuiltFresh, DraftCounts, NoRows
<1>3. NumberedRows'
  BY <1>1 DEF LoneInv, NumberedRows
<1>4. ChoicesMarked(t)'
  BY <1>1 DEF LoneInv, ChoicesMarked, ChoiceRows, IsChoice, HasEvidence,
              EvidenceStored
<1>5. \A k \in Keys : Settled(k)' = Settled(k)
  BY <1>1, SettledIs DEF EvidenceStored, NoTraits
<1>6. Stated' = Stated /\ Counted' = Counted
  BY <1>1 DEF Stated, Counted
<1> QED BY <1>2, <1>3, <1>4, <1>5, <1>6, SettledSame, StutterMaps DEF LoneInv

-----------------------------------------------------------------------------
(* The refinement.                                                         *)

LEMMA LoneStep ==
    ASSUME NEW t, Threads = {t}, MaxFailures = 0, TypeOK, LoneInv(t),
           [Next]_vars
    PROVE  LoneInv(t)' /\ [Ledger!Next]_Ledger!ledgerVars
<1>1. CASE UNCHANGED vars
  <2>1. UNCHANGED <<requests, rows, marked, evidence, traits, pc, scanned,
                    built, draft>>
    BY <1>1 DEF vars
  <2>2. LoneInv(t)'
    BY <2>1 DEF LoneInv, NumberedRows, ScannedFresh, BuiltFresh, DraftCounts,
                DraftOf, RowsFor, BuiltFor, ChoicesMarked, Fresh, HasEvidence,
                ChoiceRows, IsChoice, EvidenceStored
  <2>3. \A k \in Keys : Settled(k)' = Settled(k)
    BY <2>1, SettledIs DEF EvidenceStored
  <2>4. Stated' = Stated /\ Counted' = Counted
    BY <2>1 DEF Stated, Counted
  <2> QED BY <2>2, <2>3, <2>4, SettledSame, StutterMaps
<1>2. CASE Next
  <2>1. ~Fail(t)
    BY DEF Fail, TypeOK
  <2>2. CASE Store(t)
    BY <2>2, StoreKeeps, CaptureKeeps, ClearKeeps DEF Store, Statements
  <2>3. CASE Consolidate(t) \/ AutoConsolidate(t)
    <3>1. /\ pc[t] \in Resting /\ pc'[t] \in Resting
          /\ UNCHANGED <<requests, rows, marked, evidence, traits, locals>>
      BY <2>3 DEF Consolidate, AutoConsolidate, Moves, Resting, store, TypeOK
    <3> QED BY <3>1, PauseKeeps
  <2>4. CASE ScanMemories(t) \/ ScanChoices(t)
    BY <2>4, ScanKeeps
  <2>5. CASE \E r \in RowIds : Build(t, r)
    BY <2>5, LoneBuildKeeps
  <2>6. CASE AddEvidence(t)
    BY <2>6, AddEvidenceKeeps
  <2>7. CASE \E k \in Keys : UpsertTrait(t, k)
    BY <2>7, UpsertKeeps
  <2>8. CASE MarkChoices(t)
    BY <2>8, MarkKeeps
  <2> QED BY <1>2, <2>1, <2>2, <2>3, <2>4, <2>5, <2>6, <2>7, <2>8
          DEF Next, Continue
<1> QED BY <1>1, <1>2

(* Consolidation!RefinesLedger.  With one thread and no failure, the steps *)
(* of store.py and rule_provider.py add up to the ledger's: whatever is    *)
(* said, and however it is read, nothing is counted twice, nothing counted *)
(* is lost from a trait's support, and a counted revocation keeps its key  *)
(* revoked until everything is cleared.                                    *)
THEOREM OneThreadKeepsLedger ==
    ASSUME NEW t, Threads = {t}, MaxFailures = 0
    PROVE  Spec => RefinesLedger
<1>1. Init => LoneInv(t) /\ Ledger!Init
  BY LoneInit, LedgerInit
<1>2. TypeOK /\ LoneInv(t) /\ [Next]_vars
        => LoneInv(t)' /\ [Ledger!Next]_Ledger!ledgerVars
  BY LoneStep
<1> QED BY <1>1, <1>2, TypeCorrect, PTL DEF Spec, RefinesLedger, Ledger!Spec

=============================================================================
