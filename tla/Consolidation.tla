--------------------------- MODULE Consolidation ---------------------------
(***************************************************************************)
(* One user's memory database and the request threads that store           *)
(* statements in it and consolidate them into a profile                    *)
(* (store.py, runtime.py, orchestrator.py, rule_provider.py).              *)
(*                                                                         *)
(* Every method of MemoryStore opens a connection of its own and commits   *)
(* before it returns, so a request is a sequence of transactions and other *)
(* requests run between any two of them.  One action below is one          *)
(* transaction together with the computation that follows it; what a       *)
(* request carries from one transaction to the next is in the per-thread   *)
(* variables scanned, built and draft.                                     *)
(*                                                                         *)
(* Text is abstracted to a finite set of Contents.  Claim says what the    *)
(* keyword rules of rule_provider.py make of each one, Similar which ones  *)
(* MemoryStore takes for restatements of each other.  Confidences are in   *)
(* hundredths.                                                             *)
(***************************************************************************)
EXTENDS Integers, Sequences, FiniteSets

CONSTANTS
    Threads,         \* request threads serving this user
    Contents,        \* what a memory or a behavior choice may say
    Keys,            \* trait keys
    NoKey,           \* the key of a content that yields no candidate
    Claim,           \* content -> what the rules read in it
    Similar,         \* pairs <<stored, new>> with similarity >= 0.82
    Opposed,         \* pairs of opposite polarity that share a word
    CreatedAt,       \* row -> its created_at, in seconds
    RecentLimit,     \* recent_limit
    Threshold,       \* auto_consolidate_min_memories
    EvidenceWindow,  \* evidence ids a trait remembers (20 in the code)
    Operations,      \* the requests clients issue
    MaxRequests,     \* bound: writes and clears, over all threads
    MaxFailures,     \* bound: requests that die between two transactions
    Absent,          \* a row that does not exist
    NoTrait          \* a trait that does not exist

RowIds == 1..MaxRequests

Natures == {"statement", "correction", "revocation", "choice"}

Statuses == {"active", "weak", "contradicted", "archived"}

Claims == [key        : Keys \cup {NoKey},
           nature     : Natures,
           weak       : BOOLEAN,
           length     : Nat,
           confidence : Nat]

(* A row of memories or of behavior_events.                                *)
Row == [content : Contents, confidence : Nat]

(* profile_evidence: the row it quotes, as it read when it was scanned.    *)
(* A row quoted again gets another id, because every id is a new uuid.     *)
EvidenceId == RowIds \X Nat

Evidence == [row : RowIds, nth : Nat, content : Contents]

(* profile_traits: one per trait key.                                      *)
Trait == [count      : Nat,
          ids        : Seq(EvidenceId),
          status     : Statuses,
          statement  : Contents,
          confidence : Nat]

ASSUME ContentsAssumption ==
    /\ Claim \in [Contents -> Claims]
    /\ NoKey \notin Keys
    /\ Similar \subseteq Contents \X Contents
    /\ Opposed \subseteq Contents \X Contents

ASSUME LimitsAssumption ==
    /\ MaxRequests \in Nat
    /\ MaxFailures \in Nat
    /\ RecentLimit \in Nat
    /\ Threshold \in Nat \ {0}
    /\ EvidenceWindow \in Nat \ {0}
    /\ CreatedAt \in [RowIds -> Nat]

ASSUME SentinelAssumption ==
    /\ Absent \notin Row /\ Absent \notin Contents
    /\ NoTrait \notin Trait

VARIABLES
    requests,   \* number of writes and clears issued so far
    failures,   \* number of requests that died so far
    events,     \* contents of the events table
    rows,       \* the tables memories and behavior_events
    marked,     \* behavior events whose consolidated_at is set
    evidence,   \* the table profile_evidence
    minted,     \* row -> number of evidence ids generated for it
    traits,     \* the table profile_traits
    pc,         \* thread -> the next transaction of its request
    scanned,    \* thread -> rows read and not yet built from
    built,      \* thread -> evidence built by its consolidation
    draft       \* thread -> traits built and not yet stored (trait_cache)

store == <<events, rows, marked, evidence, traits>>

locals == <<scanned, built, draft>>

vars == <<requests, failures, events, rows, marked, evidence, minted,
          traits, pc, scanned, built, draft>>

NoRows == [r \in RowIds |-> Absent]

NoTraits == [k \in Keys |-> NoTrait]

Init ==
    /\ requests = 0
    /\ failures = 0
    /\ events = {}
    /\ rows = NoRows
    /\ marked = {}
    /\ evidence = {}
    /\ minted = [r \in RowIds |-> 0]
    /\ traits = NoTraits
    /\ pc = [t \in Threads |-> "idle"]
    /\ scanned = [t \in Threads |-> NoRows]
    /\ built = [t \in Threads |-> {}]
    /\ draft = [t \in Threads |-> NoTraits]

-----------------------------------------------------------------------------
(* Reading the tables.                                                     *)

KeyOf(c) == Claim[c].key

IsChoice(row) == Claim[row.content].nature = "choice"

MemoryRows == {r \in RowIds : rows[r] # Absent /\ ~IsChoice(rows[r])}

ChoiceRows == {r \in RowIds : rows[r] # Absent /\ IsChoice(rows[r])}

HasEvidence(r) == \E e \in evidence : e.row = r

(* Faulty variant: the query without its NOT EXISTS.                       *)
AllMemories == MemoryRows

(* recent_unconsolidated_memories, before its LIMIT: no evidence quotes    *)
(* the memory.                                                             *)
UnconsolidatedMemories == {r \in MemoryRows : ~HasEvidence(r)}

(* recent_unconsolidated_behavior_events: consolidated_at IS NULL.         *)
UnconsolidatedChoices == ChoiceRows \ marked

(* Faulty variant: the limit is off by one.                                *)
NewestButOne(S, n) ==
    {W \in SUBSET S :
        /\ Cardinality(W) = IF Cardinality(S) < n THEN Cardinality(S) ELSE n - 1
        /\ \A r \in W, u \in S \ W : CreatedAt[r] >= CreatedAt[u]}

(* ORDER BY created_at DESC LIMIT n.  created_at has whole seconds, so     *)
(* rows of one second come in any order.                                   *)
Newest(S, n) ==
    {W \in SUBSET S :
        /\ Cardinality(W) = IF Cardinality(S) < n THEN Cardinality(S) ELSE n
        /\ \A r \in W, u \in S \ W : CreatedAt[r] >= CreatedAt[u]}

(* _candidate_from_memory and _candidate_from_behavior_event give None for *)
(* the types and the choices that bear on no trait.                        *)
Candidates(W) == {r \in W : KeyOf(rows[r].content) # NoKey}

-----------------------------------------------------------------------------
(* Building a trait from one candidate.                                    *)

(* Faulty variant: a status of policy signals, unknown to traits.          *)
CandidateStatus(c) == "candidate"

InitialStatus(c) ==
    CASE Claim[c].nature = "revocation" -> "archived"
      [] Claim[c].nature = "correction" -> "active"
      [] Claim[c].nature = "choice"     -> "weak"
      [] OTHER                          -> IF Claim[c].weak THEN "weak"
                                                            ELSE "active"

MergedStatus(trait, c, count, confidence) ==
    IF trait.status = "archived" \/ Claim[c].nature = "revocation"
    THEN "archived"
    ELSE IF Claim[c].nature = "correction"                THEN "active"
    ELSE IF <<trait.statement, c>> \in Opposed            THEN "contradicted"
    ELSE IF confidence >= 68 /\ count >= 2                THEN "active"
    ELSE IF trait.status \in {"active", "contradicted"}   THEN trait.status
    ELSE InitialStatus(c)

Larger(a, b) == IF a >= b THEN a ELSE b

Raised(a, b, step) == IF Larger(a, b) + step <= 98 THEN Larger(a, b) + step
                                                   ELSE 98

LastIds(ids) ==
    IF Len(ids) > EvidenceWindow
    THEN SubSeq(ids, Len(ids) - EvidenceWindow + 1, Len(ids))
    ELSE ids

NewTrait(row, id) ==
    [count |-> 1, ids |-> <<id>>, status |-> InitialStatus(row.content),
     statement |-> row.content, confidence |-> row.confidence]

MergedTrait(trait, row, id) ==
    LET confidence == Raised(trait.confidence, row.confidence, 4)
        longer     == Claim[row.content].length >= Claim[trait.statement].length
    IN  [count      |-> trait.count + 1,
         ids        |-> LastIds(Append(trait.ids, id)),
         status     |-> MergedStatus(trait, row.content, trait.count + 1,
                                     confidence),
         statement  |-> IF longer THEN row.content ELSE trait.statement,
         confidence |-> confidence]

BuildTrait(trait, row, id) ==
    IF trait = NoTrait THEN NewTrait(row, id) ELSE MergedTrait(trait, row, id)

-----------------------------------------------------------------------------
(* Requests that store a statement or a choice.                            *)

Issue(op) ==
    /\ op \in Operations
    /\ requests < MaxRequests
    /\ requests' = requests + 1

Moves(t, from, to) ==
    /\ pc[t] = from
    /\ pc' = [pc EXCEPT ![t] = to]

NewRow(c) == [content |-> c, confidence |-> Claim[c].confidence]

Insert(c) == rows' = [rows EXCEPT ![requests + 1] = NewRow(c)]

(* _reinforce_memory: the stored row keeps its identity and takes the new  *)
(* wording only if that is longer by more than eight characters.           *)
Reinforce(r, c) ==
    LET longer == Claim[c].length > Claim[rows[r].content].length + 8
    IN  rows' = [rows EXCEPT
                   ![r].content = IF longer THEN c ELSE @,
                   ![r].confidence = Raised(@, Claim[c].confidence, 3)]

SimilarRows(c) == {r \in MemoryRows : <<rows[r].content, c>> \in Similar}

(* POST /v2/events: the event and its memory, with no look at what is      *)
(* stored already.                                                         *)
Remember(t, c) ==
    /\ Issue("remember")
    /\ pc[t] = "idle"
    /\ events' = events \cup {c}
    /\ Insert(c)
    /\ UNCHANGED <<failures, marked, evidence, minted, traits, pc, locals>>

(* POST /v2/memory/capture: the event, and a new memory or a reinforced    *)
(* one, in one transaction.                                                *)
Capture(t, c) ==
    /\ Issue("capture")
    /\ Moves(t, "idle", "check")
    /\ events' = events \cup {c}
    /\ IF SimilarRows(c) = {}
       THEN Insert(c)
       ELSE \E r \in SimilarRows(c) : Reinforce(r, c)
    /\ UNCHANGED <<failures, marked, evidence, minted, traits, locals>>

(* _maybe_auto_consolidate_after_capture.  With auto_consolidate off the   *)
(* request ends here, as it does with a Threshold that is never reached.   *)
AutoConsolidate(t) ==
    /\ Moves(t, "check",
             IF Cardinality(UnconsolidatedMemories) >= Threshold
             THEN "scan_memories" ELSE "idle")
    /\ UNCHANGED <<requests, failures, store, minted, locals>>

(* POST /v2/behavior/choice.                                               *)
RecordChoice(t, c) ==
    /\ Issue("choice")
    /\ pc[t] = "idle"
    /\ Insert(c)
    /\ UNCHANGED <<failures, events, marked, evidence, minted, traits, pc,
                   locals>>

(* POST /v2/memory/clear: every table, in one transaction.                 *)
Clear(t) ==
    /\ Issue("clear")
    /\ pc[t] = "idle"
    /\ events' = {}
    /\ rows' = NoRows
    /\ marked' = {}
    /\ evidence' = {}
    /\ traits' = NoTraits
    /\ UNCHANGED <<failures, minted, pc, locals>>

-----------------------------------------------------------------------------
(* RuleProfileConsolidator.consolidate, one transaction at a time.         *)

(* POST /v2/memory/consolidate.                                            *)
Consolidate(t) ==
    /\ "consolidate" \in Operations
    /\ Moves(t, "idle", "scan_memories")
    /\ UNCHANGED <<requests, failures, store, minted, locals>>

ScanMemories(t) ==
    /\ Moves(t, "scan_memories", "scan_choices")
    /\ \E W \in Newest(UnconsolidatedMemories, RecentLimit) :
         scanned' = [scanned EXCEPT ![t] =
                       [r \in RowIds |-> IF r \in Candidates(W) THEN rows[r]
                                                                ELSE Absent]]
    /\ UNCHANGED <<requests, failures, store, minted, built, draft>>

(* Faulty variant: choices are claimed when they are read.                 *)
ScanAndMarkChoices(t) ==
    /\ Moves(t, "scan_choices", "build")
    /\ \E W \in Newest(UnconsolidatedChoices, RecentLimit) :
         /\ scanned' = [scanned EXCEPT ![t] =
                          [r \in RowIds |-> IF r \in Candidates(W)
                                            THEN rows[r] ELSE @[r]]]
         /\ marked' = marked \cup Candidates(W)
    /\ UNCHANGED <<requests, failures, events, rows, evidence, minted, traits,
                   built, draft>>

ScanChoices(t) ==
    /\ Moves(t, "scan_choices", "build")
    /\ \E W \in Newest(UnconsolidatedChoices, RecentLimit) :
         scanned' = [scanned EXCEPT ![t] =
                       [r \in RowIds |-> IF r \in Candidates(W) THEN rows[r]
                                                                ELSE @[r]]]
    /\ UNCHANGED <<requests, failures, store, minted, built, draft>>

ToBuild(t) == {r \in RowIds : scanned[t][r] # Absent}

(* Memories come before choices, and the newer before the older.           *)
ComesBefore(t, r, u) ==
    IF IsChoice(scanned[t][r]) = IsChoice(scanned[t][u])
    THEN CreatedAt[r] > CreatedAt[u]
    ELSE IsChoice(scanned[t][u])

(* One turn of the loops of consolidate: the trait is read from the        *)
(* database the first time its key comes up, and from the cache after.     *)
Build(t, r) ==
    LET row == scanned[t][r]
        k   == KeyOf(row.content)
        nth == minted[r] + 1
        old == IF draft[t][k] # NoTrait THEN draft[t][k] ELSE traits[k]
    IN  /\ pc[t] = "build"
        /\ r \in ToBuild(t)
        /\ \A u \in ToBuild(t) : ~ComesBefore(t, u, r)
        /\ minted' = [minted EXCEPT ![r] = nth]
        /\ built' = [built EXCEPT ![t] = @ \cup
                       {[row |-> r, nth |-> nth, content |-> row.content]}]
        /\ draft' = [draft EXCEPT ![t][k] = BuildTrait(old, row, <<r, nth>>)]
        /\ scanned' = [scanned EXCEPT ![t][r] = Absent]
        /\ UNCHANGED <<requests, failures, store, pc>>

AddEvidence(t) ==
    /\ ToBuild(t) = {}
    /\ Moves(t, "build", "upsert")
    /\ evidence' = evidence \cup built[t]
    /\ UNCHANGED <<requests, failures, events, rows, marked, minted, traits,
                   locals>>

(* Faulty variant: traits are stored while they are built, before the      *)
(* evidence is.                                                            *)
UpsertTraitEarly(t, k) ==
    /\ pc[t] \in {"build", "upsert"}
    /\ draft[t][k] # NoTrait
    /\ traits' = [traits EXCEPT ![k] = draft[t][k]]
    /\ draft' = [draft EXCEPT ![t][k] = NoTrait]
    /\ UNCHANGED <<requests, failures, events, rows, marked, evidence, minted,
                   pc, scanned, built>>

(* One transaction per trait.                                              *)
UpsertTrait(t, k) ==
    /\ pc[t] = "upsert"
    /\ draft[t][k] # NoTrait
    /\ traits' = [traits EXCEPT ![k] = draft[t][k]]
    /\ draft' = [draft EXCEPT ![t][k] = NoTrait]
    /\ UNCHANGED <<requests, failures, events, rows, marked, evidence, minted,
                   pc, scanned, built>>

(* Faulty variant: events are marked before all traits are stored.         *)
MarkChoicesEarly(t) ==
    /\ Moves(t, "upsert", "idle")
    /\ marked' = marked \cup {r \in ChoiceRows : \E e \in built[t] : e.row = r}
    /\ built' = [built EXCEPT ![t] = {}]
    /\ draft' = [draft EXCEPT ![t] = NoTraits]
    /\ UNCHANGED <<requests, failures, events, rows, evidence, minted, traits,
                   scanned>>

(* UPDATE ... WHERE id = ?: a row that is gone stays gone.                 *)
MarkChoices(t) ==
    /\ draft[t] = NoTraits
    /\ Moves(t, "upsert", "idle")
    /\ marked' = marked \cup {r \in ChoiceRows : \E e \in built[t] : e.row = r}
    /\ built' = [built EXCEPT ![t] = {}]
    /\ UNCHANGED <<requests, failures, events, rows, evidence, minted, traits,
                   scanned, draft>>

(* Faulty variant: the trait cache outlives the request that filled it.    *)
FailKeepingCache(t) ==
    /\ failures < MaxFailures
    /\ failures' = failures + 1
    /\ pc[t] # "idle"
    /\ pc' = [pc EXCEPT ![t] = "idle"]
    /\ scanned' = [scanned EXCEPT ![t] = NoRows]
    /\ built' = [built EXCEPT ![t] = {}]
    /\ UNCHANGED <<requests, store, minted, draft>>

(* A transaction that cannot get the lock raises, and a process may be     *)
(* killed: the request ends, and what it committed so far stays.           *)
Fail(t) ==
    /\ failures < MaxFailures
    /\ failures' = failures + 1
    /\ pc[t] # "idle"
    /\ pc' = [pc EXCEPT ![t] = "idle"]
    /\ scanned' = [scanned EXCEPT ![t] = NoRows]
    /\ built' = [built EXCEPT ![t] = {}]
    /\ draft' = [draft EXCEPT ![t] = NoTraits]
    /\ UNCHANGED <<requests, store, minted>>

-----------------------------------------------------------------------------

Statements == {c \in Contents : Claim[c].nature # "choice"}

Store(t) ==
    \/ \E c \in Statements : Remember(t, c) \/ Capture(t, c)
    \/ \E c \in Contents \ Statements : RecordChoice(t, c)
    \/ Clear(t)

(* The transactions that a request already under way goes on with.         *)
Continue(t) ==
    \/ AutoConsolidate(t)
    \/ ScanMemories(t)
    \/ ScanChoices(t)
    \/ \E r \in RowIds : Build(t, r)
    \/ AddEvidence(t)
    \/ \E k \in Keys : UpsertTrait(t, k)
    \/ MarkChoices(t)

Next ==
    \E t \in Threads :
        \/ Store(t)
        \/ Consolidate(t)
        \/ Continue(t)
        \/ Fail(t)

Spec == Init /\ [][Next]_vars

(* A thread goes on with the request it has started; clients (and captures *)
(* past the threshold) keep asking for a consolidation.  Nobody has to     *)
(* store or clear anything.                                                *)
Fairness ==
    /\ \A t \in Threads : WF_vars(Continue(t))
    /\ WF_vars(\E t \in Threads : Consolidate(t))

FairSpec == Spec /\ Fairness

-----------------------------------------------------------------------------
(* Types.                                                                  *)

Phases == {"idle", "check", "scan_memories", "scan_choices", "build", "upsert"}

(* Every table and every local variable holds what its code puts there.    *)
TypeOK ==
    /\ requests \in 0..MaxRequests
    /\ failures \in 0..MaxFailures
    /\ events \subseteq Contents
    /\ rows \in [RowIds -> Row \cup {Absent}]
    /\ marked \subseteq RowIds
    /\ evidence \subseteq Evidence
    /\ minted \in [RowIds -> Nat]
    /\ traits \in [Keys -> Trait \cup {NoTrait}]
    /\ pc \in [Threads -> Phases]
    /\ scanned \in [Threads -> [RowIds -> Row \cup {Absent}]]
    /\ built \in [Threads -> SUBSET Evidence]
    /\ draft \in [Threads -> [Keys -> Trait \cup {NoTrait}]]

(* Safety with any number of threads, whichever of them die.               *)

EvidenceFor(k) == {e \in evidence : KeyOf(e.content) = k}

QuotedIn(E, k) == {<<e.row, e.nth>> : e \in {x \in E : KeyOf(x.content) = k}}

Quoted(k) == QuotedIn(evidence, k)

(* A stored trait names only evidence that is stored, and evidence of its  *)
(* own key: consolidate commits the evidence before the traits built on    *)
(* it.  Holds while nobody clears the database.                            *)
TraitsBackedByEvidence ==
    \A k \in Keys : traits[k] # NoTrait =>
        \A i \in DOMAIN traits[k].ids : traits[k].ids[i] \in Quoted(k)

(* A behavior event is marked consolidated only once evidence quotes it,   *)
(* so that a consolidation that dies half-way never loses a choice.  Holds *)
(* even when the database is cleared under a running consolidation.        *)
MarkedHasEvidence == \A r \in marked : HasEvidence(r)

(* However consolidations overlap, a trait never claims more support than  *)
(* there is evidence for it: what is lost is lost on the side of caution.  *)
CountWithinEvidence ==
    \A k \in Keys : traits[k] # NoTrait =>
        traits[k].count <= Cardinality(EvidenceFor(k))

Quiescent == \A t \in Threads : pc[t] = "idle"

(* When every consolidation has run to its end, each key that has evidence *)
(* has a trait: overlapping upserts may overwrite, never drop, a key.      *)
EvidencedKeysHaveTraits ==
    Quiescent /\ failures = 0 =>
        \A e \in evidence : traits[KeyOf(e.content)] # NoTrait

(* One thread at a time.                                                   *)

EvidenceStored(t) == pc[t] = "upsert"

(* A trait as it reads once the consolidation that has stored its evidence *)
(* has stored its traits too.                                              *)
Settled(k) ==
    IF \E t \in Threads : EvidenceStored(t) /\ draft[t][k] # NoTrait
    THEN draft[CHOOSE t \in Threads :
                 EvidenceStored(t) /\ draft[t][k] # NoTrait][k]
    ELSE traits[k]

Ledger == INSTANCE ProfileLedger WITH
    stated  <- [r \in RowIds |-> IF rows[r] = Absent THEN Absent
                                                    ELSE rows[r].content],
    counted <- {e.row : e \in evidence},
    support <- [k \in Keys |-> IF Settled(k) = NoTrait THEN 0
                                                      ELSE Settled(k).count],
    revoked <- {k \in Keys : Settled(k) # NoTrait
                            /\ Settled(k).status = "archived"}

(* The transactions of a consolidation add up to one atomic step of the    *)
(* ledger, taken when its evidence is committed: nothing is counted twice, *)
(* nothing is left out, and a revoked key stays revoked.                   *)
RefinesLedger == Ledger!Spec

(* Every statement and choice that bears on a key is quoted by evidence in *)
(* the end (or cleared), whatever else is stored meanwhile.  Needs the     *)
(* windows of consolidate to be wider than the rows that never get any.    *)
CandidatesConsolidated ==
    \A r \in RowIds :
        (r \in Candidates(MemoryRows \cup ChoiceRows))
            ~> (rows[r] = Absent \/ HasEvidence(r))

-----------------------------------------------------------------------------
(* What the documentation says and the code does not do.                   *)

(* "Repeated or high-quality evidence raises trait confidence and          *)
(* stability": support above one takes two different statements.           *)
RaisedOnlyByRepetition ==
    \A k \in Keys : traits[k] # NoTrait /\ traits[k].count > 1 =>
        Cardinality({e.row : e \in EvidenceFor(k)}) > 1

(* Every piece of evidence that a consolidation has stored, one that died  *)
(* afterwards included, has been built into the trait of its key.          *)
EvidenceReachesTrait ==
    Quiescent => \A e \in evidence : traits[KeyOf(e.content)] # NoTrait

(* A revocation the user has stated archives the trait, once nothing is    *)
(* left to consolidate.                                                    *)
RevocationReachesProfile ==
    Quiescent /\ Candidates(UnconsolidatedMemories) = {} =>
        \A c \in events :
            Claim[c].nature = "revocation" /\ KeyOf(c) # NoKey =>
                /\ traits[KeyOf(c)] # NoTrait
                /\ traits[KeyOf(c)].status = "archived"
=============================================================================
