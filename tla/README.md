# PAM-OS: specification and proofs

PAM-OS is a personal memory service. A client sends statements and choices of a
user over a REST API; the service stores them in that user's own SQLite
database, consolidates them into a profile of traits, learns policy signals
from feedback, and hands out context packages. This directory holds TLA+ models
of its core logic, the TLC configurations that check them, and proofs that the
TLA+ proof system (tlapm) checks. Source paths below are relative to
`src/pam_os/` unless they start with another directory.

## Inventory

| Part | State | Operations | Hard behaviour |
| --- | --- | --- | --- |
| Memory store (`store.py`) | one SQLite file per user: events, memories, behavior events, evidence, traits, policy signals, quality traces, packages, a full-text index | one method = one connection = one transaction | any other request may run between two methods; `SQLITE_BUSY` after 5 s ends a request half-way |
| Runtime (`runtime.py`) | none of its own | remember, capture, record choice, consolidate, observe turn, prepare, clear | a request is a chain of transactions with values carried in Python variables |
| Consolidation (`rule_provider.py`) | a trait cache local to a call | scan, build, add evidence, upsert traits, mark events | read-modify-write across transactions; automatic and explicit runs overlap |
| Policy signals (`adaptive_policy.py`, `adaptive_learning.py`) | the table policy_signals | learn, reinforce, decide | read-modify-write; status thresholds; negative feedback |
| Orchestrator, context (`orchestrator.py`, `context.py`) | none | prepare, merge, budget, compile | limits per type and per character |
| Tenancy (`tenancy.py`) | LRU of runtimes under an RLock; owner row in each database | get, bind | eviction of a runtime in use, two processes binding one file |
| Identity (`identity.py`) | control database: users, principals, keys, audit | create, issue, authenticate, revoke, audit | checks and writes in separate transactions |
| API (`api.py`) | none | authenticate, check scope, act, audit | actions committed before their audit record |
| Rules, extractors | none | text to candidates | keyword lists, no state |
| Quality, config, models, version | none | reports and settings | none |
| Skill client, installers | the file system | HTTP calls; download, build, replace | order of steps in the installers |

How they interact: the API resolves a token to a user (Identity), fetches that
user's runtime (Tenancy) and calls it in a worker thread. The runtime calls the
orchestrator, the extractors and the consolidator, and all of them share one
`MemoryStore`. There are no callbacks and no messages: the database is the only
thing two requests share, and it serialises single transactions, not requests.

What makes each part correct:

- consolidation: what is stated is counted once and in the end; what a trait
  shows is backed; a revocation stays; a choice is not lost;
- policy signals: what is stable was repeated; rejected signals leave; feedback
  is never counted twice, and is lost only to requests that tell the same signal;
- context: limits per type and the character budget hold, nothing appears twice;
- tenancy and identity: one file, one owner; a revoked or expired key stops
  authenticating; scopes of a key never exceed what may be granted;
- store: the index and the table name the same memories.

## Modules

| Module | What it is |
| --- | --- |
| `ProfileLedger` | abstract: statements are counted for their key once, revocations stick |
| `Consolidation` | the database of one user and the request threads, one action per transaction |
| `MCConsolidation` | contents, claims and similarity for TLC |
| `ConsolidationProofs` | theorems about `Consolidation` |
| `ConsolidationRefinement` | theorem: one thread of `Consolidation` implements `ProfileLedger` |
| `PolicySignals` | the table of policy signals and the threads that teach it |
| `PolicySignalsProofs` | theorems about `PolicySignals` |
| `PolicyDecisions` | whether to read or capture, as a function of the signals; extends `PolicySignals` |
| `PolicyDecisionsProofs` | theorem about the decisions; extends `PolicyDecisions` and `PolicySignalsProofs` |
| `MCPolicySignals` | messages and texts for TLC |
| `Identity` | users, keys, the audit log, and the order of authenticate, act and audit |
| `MCIdentity` | scope sets and symmetry for TLC |
| `IdentityProofs` | theorems about `Identity` |
| `UserRuntimes` | the cache of runtimes, the owner of a database, the full-text index and search |
| `MCUserRuntimes` | threads, servers and texts for TLC |
| `UserRuntimesProofs` | theorems about `UserRuntimes` |
| `ContextPreparation` | `prepare_context` step by step, beside concurrent writes |
| `MCContextPreparation` | memories, traits and requests for TLC |
| `ContextPreparationProofs` | theorems about `ContextPreparation` |

### Consolidation

State and code:

| Variable | Code |
| --- | --- |
| `events`, `rows`, `marked`, `evidence`, `traits` | the tables; `rows` holds memories and behavior events, `marked` is `consolidated_at` |
| `minted` | how many evidence ids (`new_id("evd")`) were generated for a row |
| `pc` | the next transaction of a thread's request |
| `scanned` | the two lists `consolidate` has read, less the rows it has built from |
| `built` | its list `evidence` |
| `draft` | its `trait_cache` |
| `requests`, `failures` | bounds |

A consolidation is `ScanMemories`, `ScanChoices`, one `Build` per candidate
(which reads the trait from the database the first time its key comes up),
`AddEvidence`, one `UpsertTrait` per key, `MarkChoices`. A capture is `Capture`
then `AutoConsolidate`, which may go on as a consolidation. `Remember`,
`RecordChoice` and `Clear` are single transactions. `Fail` ends a request
between two transactions: a lock timeout surfaces as a 503, a killed process
leaves the same database.

Abstractions, and why they are sound for the properties:

- text is a member of `Contents`; `Claim`, `Similar` and `Opposed` stand for the
  keyword rules, and are arbitrary in the proofs;
- of several similar memories any may be reinforced (the code takes the best
  score), and drafts are stored in any order (the code uses that of the dict):
  both only add behaviours;
- a captured text yields one memory, and a reinforcement keeps the row's key
  (the code unites the tags, so a `fact:` tag may move it);
- `auto_consolidate = false` is a `Threshold` that is never reached; the proofs
  hold for any;
- `stability` is left out: it grows with the count and decides nothing;
- quality traces, context packages and the full-text index are left out: no
  transaction of consolidation reads them;
- created_at is a function of the row, and need not be injective: whole seconds.

### Policy signals

State and code:

| Variable | Code |
| --- | --- |
| `signals` | the table; a pattern names a row, since each comes with one type and one action |
| `pc` | the next transaction of a thread's request |
| `todo` | the admitted candidates of a turn that `observe_turn` has not come to |
| `doing`, `delta` | the arguments of `learn_signal` and `reinforce_policy_signal`, with `confidence_delta` |
| `pending` | the signal in memory about to be upserted |
| `requests`, `failures` | bounds |
| `heard`, `highest` | history, per pattern: feedback received and the highest confidence taught, since the last clear |
| `disturbed` | history: the patterns that two requests bore at once, or one when it died or another cleared |

A request bears a pattern (`Bears`) from when it is issued until it has told the
signal. Two that bear the same one overwrite each other: that is what the code
does, so what is said of losses and of the confidence leaves the `disturbed`
patterns out, and only those. A clear makes a new start for the patterns that
nobody bears.

A candidate of a turn is learnt by `LookUp`, which either prepares a new signal
or computes the step, then `ReadSignal` (a second read, in
`store.reinforce_policy_signal`), then `Write`. A reinforcement skips `LookUp`
and has a fixed step. `MissSignal` is the signal gone between the two reads, or a
reinforcement of one that never was. Learning and reinforcing by call exist on
the runtime only; over REST a signal is learnt from turns and manual captures.

Abstractions:

- a message is the set of features extracted from it, read as a task and as a
  content, whether it complains, whether its wording is durable, and its risk;
- only the four patterns the observer proposes are modelled; a caller of the
  runtime may use any string, and rows do not affect each other;
- the candidates of a turn are looked up in any order: they name different rows;
- confidences are hundredths. The sums that decide (multiples of .05 against .40
  and .62) come out right in floating point; repeated additions may differ from
  the model in the last bit. Callers teach between 0 and .98: the code clips the
  first confidence and the sum;
- scope, intent and source are carried and decide nothing here;
- a pattern with surrounding blanks is looked up as given and stored stripped,
  so each learning of it starts afresh; REST never passes one.

### Policy decisions

`Decide(x)` is what `AdaptiveMemoryPolicy` answers for a text `x`: the opinion of
the learnt signals (`FromSignals`, always a yes), of the weighted features
(`FromReadFeatures`, `FromCaptureFeatures`) and of the keyword rules
(`FromReadRules`, `FromCaptureRules`), merged. A text is abstracted to its
features, the number of rule groups it matches and the cues that add to their
score: the regular expressions and word lists are data. Scores are hundredths;
the sums are those of the code, whose floating point may differ in the last bit
at the thresholds. The module has no variables of its own: the decisions change
when `PolicySignals` writes a signal, and `FeedbackPointsTheRightWay` is about
that.

### Identity

| Variable | Code |
| --- | --- |
| `accounts`, `keys`, `audit` | the tables users, principals with api_keys, audit_logs of control.sqlite3 |
| `pc`, `context`, `request` | a request: its next transaction, its `RequestContext`, its body |
| `done` | what its handler is about to pass to `record_audit` |
| `clock` | the time that `is_expired` compares with |
| `granted`, `effects` | history: scopes administrators have granted, and everything that was done |
| `requests`, `failures` | bounds |

`Authenticate` and `AuthenticateBootstrap` read the key once, check the scope
(`Allowed`) and, for a key to be issued, its scopes (`Grantable`);
`CreateUser`, `IssueKey`, `Revoke` and `ClearMemory` are the handlers'
transactions, each with its refusal; `RecordAudit` is the last transaction of
every handler; `Fail` ends a request before it.

Abstractions: a key stands for its principal, since they are inserted together;
tokens and hashes are left out, a request presents the key itself;
`memory:write` and `memory:inspect` are treated like `memory:read`; a request
that is refused before it does anything is no step; statuses are left out,
because no operation disables anybody; the cleared memory is in `UserRuntimes`.

### User runtimes

| Variable | Code |
| --- | --- |
| `owner`, `memories`, `index` | of each user's database: the row owner_user_id, the tables memories and memories_fts |
| `cache` | a server's `_cache`, the next to be evicted first |
| `runtime` | runtime objects; `fts` is `_fts_available` of their store |
| `pc`, `request`, `held` | a request, and the runtime `for_user` gave it |
| `search` | the results found so far; the rows that were there all along, and at any time, are history |
| `recent`, `abandoned` | history: users by last use, files whose index some runtime has given up |
| `requests`, `errors` | bounds |

`for_user` is `Hit`, or `Miss`, `ReadOwner`, `InsertOwner` or `RefuseOwner`, and
`Open`, under the lock (`Unlocked`): a server runs one at a time, two servers
interleave. `InsertMemory`, `ReinforceMemory`, `KeepNothing` and `Clear` are
single transactions; a search is `SearchIndex`, or `SearchIndexFails`, and
`SearchTable`. A runtime object lives as long as a cache or a request refers to
it (`Collected`), so one that was evicted may still be writing. `Restart` stops a
server with all its requests. The owner of a database is arbitrary at first: a
file may have been copied.

Abstractions: a text is what a memory says, with its tags; a query is the set
of texts that LIKE finds for its words; which rows full-text search finds, and
how they score, is left open, so a limit keeps any of the rows; which memory a
capture resembles is left open; the filters by type and importance are left
out. A search that fails is any `OperationalError`; a query word with one double
quote is one (it becomes an unterminated string of the full-text query).

### Context preparation

| Variable | Code |
| --- | --- |
| `stored`, `profile` | the tables memories and profile_traits; a trait is its stability, 0 if not active |
| `request` | the arguments, the policy's wish (`wanted`), and the classified intent |
| `related`, `shown` | the traits that match the query, the traits for the package |
| `raw`, `ranked` | the retrieved and the reranked results |
| `next`, `selected`, `counts`, `chars` | the loop of `_apply_budget` |
| `package` | the compiled package: its memories and its length |
| `steady` | history: the memories stored ever since the first retrieval |
| `writes` | bound |

One action per read of the database (`ReadRelated`, `ReadStable`, `Retrieve`,
`RetrieveFallback`, `Retry`), per turn of the selection loop (`Take`, `Leave`,
`Exhausted`), `Compile` and `Save`. `Capture`, `Consolidate` and `Clear` are other
threads'. Abstractions: which memories a query finds, and the order the
reranker gives them, are left open; stability stands for the three numbers
traits are sorted by; a retrieval is one action, though its search reads the
index and the table in two transactions (`UserRuntimes` has both); the package is its length and its memories, each line
with a fixed length beside the content, section headings and white space left
out (the cut at the budget does not depend on them).

### Runs

| Run | Bounds | Shows |
| --- | --- | --- |
| `sequential` | 1 thread, 5 contents on 2 keys, 4 requests, windows of 2 | `RefinesLedger`, `CandidatesConsolidated`, `TypeOK` |
| `concurrent` | 2 threads, 2 contents, 3 requests, 1 failure | `TraitsBackedByEvidence`, `MarkedHasEvidence`, `CountWithinEvidence`, `EvidencedKeysHaveTraits` |
| `clear_race` | 2 threads, 2 requests | a trait survives a clear without evidence |
| `overlap` | 2 threads, 1 statement | one statement counts twice |
| `crash` | 1 thread, 1 failure | evidence that no trait ever shows |
| `revocation` | 1 thread, 2 captures | a revocation swallowed by deduplication |
| `signals` | 2 threads, 5 messages, 8 texts, confidences .72 and .84, 4 requests, 1 failure | `CountedAtMostOnce`, `NothingLost`, `NeverSurerThanTaught`, `StableIsRepeated`, `FeedbackPointsTheRightWay`, `TypeOK` |
| `complaint` | 1 thread, 2 turns | a second complaint strengthens its signal |
| `identity` | 2 threads, 2 users, 3 keys, 4 requests, 2 scope sets, 1 failure | `GrantedScopesOnly`, `EffectsEntitled`, `EffectsAudited`, `DeadKeysStaySilent`, `TypeOK` |
| `runtimes` | 2 servers, 3 threads, 3 users, caches of 2, 2 memories, 2 texts, a search limit of 2, 3 requests, 1 error or restart | `CacheIsMostRecent`, `ServedByOwner`, `IndexMirrors`, `SearchComplete`, `SearchTruthful`, `TypeOK` |
| `clear_index` | as `runtimes`, 2 users, caches of 1, a search limit of 1 | a clear leaves texts in the index |
| `context` | 4 memories of 2 types, 3 traits, 2 writes of others | `WithinBudget`, `NothingMoreFits`, `RankRespected`, `IntentRespected`, `PackageFits`, `ProfileIsMostStable`, `TypeOK` |

The bounds: four requests allow a statement, its restatement, its revocation
and a clear, in every order around the consolidations; windows of two rows make
the limit bite with three; two threads suffice for every overlap of two
consolidations, and the third would only repeat one of them. `EvidenceWindow` is
2 instead of 20 so that ids are dropped. The threshold of automatic
consolidation is 2 instead of 5. In `signals`, four requests reach every status:
.84 needs one step of .08 to pass .85 and .72 needs two, three supports make either
stable, and two rejections archive it; a fourth request may overlap, reject or
clear. The messages are admitted as active or candidate, rejected for risk, or
support what they complain about. Every run sets `CHECK_DEADLOCK FALSE`: clients may stop.

In `identity`, three keys allow a chain of issue, issue and use beside a
revocation; the clock reaches one expiry. In `runtimes`, caches of two have an
order, and a third user evicts one of the two, perhaps while it is in use; three
requests let a hit change the order (one user, another, the first again) or the
third user evict; three runtimes allow two of one user, one on each server, and
one error is enough for these to disagree on the index. With a search
limit of two, answers are empty, half full, full with one memory from the index
and one from the table, or full with one memory that both have found and another.
In `context`, the lengths and the limits are such that a
memory too long for the budget, a full type and a full package all occur, with
several memories behind them in the ranking; two writes put a clear and a
capture, or two changes of the profile, between any two reads.

`sequential` stops at one `weather` memory, because the code starves with more:
memories that bear on no trait never get evidence and stay among the newest
unconsolidated rows. `CandidatesConsolidated` therefore needs `RecentLimit`
above the number of such rows, as its comment says.

Threads are interchangeable; `concurrent` and `signals` use their symmetry,
`identity` and `runtimes` that of their users, keys or runtime objects (no run with symmetry has
a liveness property). Symmetry is not used under `FairSpec`.

Fairness: a thread that has started a request goes on with it (`WF` of
`Continue` per thread: it runs straight-line code, and in `sequential` nothing
fails), and consolidations keep being asked for. The second is an assumption on
clients: `auto_consolidate` and the skill's instructions provide it. No client
has to store or clear.

The violation runs are differences between what a document says and what the
code does; `PROJECT.json` quotes the lines. `clear_race`, `overlap`, `crash` and
`revocation` are about `docs/design/people-understanding-profile-memory.md`,
`complaint` is about `docs/design/adaptive-learning-interaction-design.md`, and
`clear_index` about the README of PAM-OS.

Two more differences have no run; a condition of a checked property leaves them out:

- a signal that a caller of the runtime teaches with .85 or more is stable at once:
  its first status comes from the confidence alone (`_initial_status`,
  `adaptive_policy.py:589`). The design document asks for three supports
  (`docs/design/adaptive-learning-interaction-design.md:195`, which by line 201
  "matches the existing `policy_signals` status machine") and says that "one turn
  creates a candidate, not a stable rule" (line 14). `StableIsRepeated` holds
  where nobody does so: a turn is admitted as active or candidate, however sure, and
  a manual capture teaches .72;
- with a budget below 32, which the API accepts (`api.py:95`), truncation cuts at a
  negative index and appends its mark (`context.py:61`): the package is longer
  than the budget, which `config/pam-os.example.toml:40` calls "Maximum characters in
  the final prompt-ready context package". `PackageFits` is about the other budgets.

### Proofs

Every theorem holds for any constants that satisfy the named assumptions of its
module, and every property of a passing run is a theorem but for one, which is
liveness. A property is seldom inductive: what a transaction writes was computed
from what an earlier one has read. So each proof has an invariant that says of
the local variables of the threads what the property says of the tables, and it
is that invariant the steps preserve, one case per action.

`Consolidation`, if the claims are well-formed, the limits are naturals, and the
sentinels are not rows, traits or contents:

- `TypeCorrect`: `Spec => []TypeOK`. `TypeOK` is inductive; `BuildTraitKeeps` says
  that a trait built from a trait is one.
- `TraitsBacked`: if clients do not clear, `Spec => []TraitsBackedByEvidence`.
  `BackedInv`: a draft names only evidence that is stored or in the thread's own
  `built`, and nothing is left in `built` unstored once the thread is in its
  upsert phase.
- `SupportWithinEvidence`: if clients do not clear, `Spec => []CountWithinEvidence`.
  `CountInv` bounds the count of a stored trait by the evidence for its key, and
  that of a draft by the stored evidence together with what the thread has built
  (`Within`). Evidence ids are fresh, since they are numbered by `minted`, so what
  is built next adds one to both sides.
- `EvidenceHasTraits`: `Spec => []EvidencedKeysHaveTraits`, clears included.
  `KeyedInv`: a thread has a draft for every key of what it has built until it
  stores the evidence, and until no request has died, evidence has a trait that
  is stored or drafted by a thread in its upsert phase (`KeyStored`). An upsert may
  overwrite a trait, but never takes one away.
- `MarkedConsolidated`: `Spec => []MarkedHasEvidence`, clears and failures allowed.
  `MarkedInv`: a row in `built` of an upserting thread is either gone or quoted.

`ConsolidationRefinement`:

- `OneThreadKeepsLedger`: for a single thread and no failures,
  `Spec => RefinesLedger`. The refinement mapping is that of `Consolidation`: a
  settled trait is the draft of a thread that has stored its evidence, or else
  the stored one. Thus `AddEvidence` is the ledger's `Absorb`, taken for all keys at
  once, or a stutter if nothing was built; `Remember`, `Capture` and `RecordChoice` are
  its `State` (a reinforced memory is restated), `Clear` is its `Clear`; scans, builds,
  upserts and marks stutter.
  That `AddEvidence` is an `Absorb` is what `LoneInv` is for: rows read by the
  thread are still as it read them and not quoted by evidence (`ScannedFresh`,
  `BuiltFresh`), the draft of a key counts the stored trait plus the rows built for
  it, and is archived exactly if the trait was or one of them revokes
  (`DraftCounts`), and a choice with evidence is marked, or is about to be
  (`ChoicesMarked`). The two hypotheses are needed: `overlap` and `crash` are what
  happens without them.

`PolicySignals`, if the messages, confidences and bounds are well-formed and the
sentinels are not signals or feedback:

- `TypeCorrect`: `Spec => []TypeOK`. `Shape`: which local variables are in use in
  which phase.
- `NothingCountedTwice`: for a finite set of threads, `Spec => []CountedAtMostOnce`.
  `CountInv`: the total of a stored signal, and of one about to be written, plus
  the number of threads that still bear its pattern (not counting the writer
  itself, whose signal includes its own) is within what was heard since the last
  clear. A write may lower the stored total, when it overwrites: the bound for the
  other threads does not depend on it. A clear resets the count only where nobody
  could write an older signal back.
- `StableTakesThree`: for a finite set of threads, and if no caller teaches a
  confidence of .85 or more, `Spec => []StableIsRepeated`. `RepeatedInv` says of
  stored signals and of those about to be written that they have the supports, and
  `CountInv` that these were heard. Without the second hypothesis it does not
  hold: a signal taught as certain is stable at once.
- `NothingIsLost`, `SureAsTaught`: `Spec => []NothingLost` and
  `Spec => []NeverSurerThanTaught`, for any set of threads. Both are about the
  patterns that are not disturbed, whatever happens to others: `OneBearer`, then
  at most one thread bears such a pattern, so what it is about to write was
  computed from what is still stored (`ComputedInv`). `Effect` sums up what any
  step may do to it: nothing, take it on, tell it, give it up, or forget it.
  `TallyInv` is then an equation, between what was heard and the total stored plus
  what the bearer still owes (`Tallied`). `SureInv` bounds the confidence stored and
  the one about to be written (`Sure`), and what the step under way may add
  (`Bounded`), which needs that candidates of a turn were all taught (`TaughtInv`).

`PolicyDecisions`:

- `RightWay`: `Spec => FeedbackPointsTheRightWay`, an action property. It combines
  `EarnedInv` (a signal that decisions use is sure enough and not rejected too
  often, and so is one about to be written) with its converse, `GroundedInv`: a signal that decisions do not
  use has too little confidence or too many rejections. Without it a support
  could leave a signal unused that ought to be used, or archive one. `ReinforcedUse`
  is the step of the status machine, `Untaught` the first signal of a pattern, and
  `DecideUse` that the merged decision is monotonic in the opinion of the signals.

`Identity`, if a set of scopes is not empty, lifetimes end before `Never`, and the
sentinels are not keys, users or records:

- `TypeCorrect`: `Spec => []TypeOK`, from `Invariance`: `Spec => []IInv`.
- `NoEscalation`, `Entitlement`, `DeadKeysSilent`. They rest on `IInv`: the context
  of a request is that of a key which was issued to this user with these scopes,
  effects name keys that were issued, and a key never changes its user or its
  scopes. It is needed because a request acts on what it has read in an earlier
  transaction.
- `AuditComplete`: `Spec => []EffectsAudited`. `AuditInv` counts: the effects that are
  neither in the log nor about to be recorded (`Lost`) are no more than the requests
  that died, and the threads about to record (`Auditing`) are finitely many, even
  of infinitely many threads.

`UserRuntimes`, for finite sets of memories and texts:

- `TypeCorrect`: `Spec => []TypeOK`, with `Shape`. A step on the index of a runtime
  needs that the runtime exists, which `Objects` says.
- `CacheOrdered`: `Spec => []CacheIsMostRecent`. `CacheInv`: the entries of a cache
  are the end of the history of users, entry by entry (`Follows`), no user is
  in that history twice (`Distinct`), and under the lock of a server one thread at
  a time opens a runtime, for a user who has none in the cache (`Opening`). The
  last part is needed because the cache is read in one step and written in
  another; the lock lies between.
- `OwnersServed`: `Spec => []ServedByOwner`. `Objects`: runtimes that are cached or
  in use exist, one in use is its user's, and the owner of a database with a
  runtime is its user. An owner never changes once there is one, so the check
  made before a runtime is opened stays true.
- `IndexExact`: `Spec => []IndexMirrors`. `Exact` adds that every runtime of a user
  whose index was never given up uses it; each write then changes both tables
  alike. That a failed search touches no other user needs `Objects`: the runtime
  that gives its index up is that of the user whose file is abandoned.
- `SearchesComplete`, `SearchesTruthful`. `Searching` relates a search under way to
  its table: what was there all along is there now, what is there now is in
  `ever`, what was found was there at some time. The step that answers is
  `AnswerGood`: rows of one table have different memories, so a full first answer
  cannot shrink when it is merged (`NamedRows`, an injection).

`ContextPreparation`, for finite sets of memories and traits:

- `TypeCorrect`: `Spec => []TypeOK`, with `Phases`.
- `BudgetKept`, `NothingLeftOut`: `Spec => []WithinBudget` and
  `Spec => []NothingMoreFits`. `SelectionInv`: the counters are the cardinalities, the
  selection is what the ranking has before `next`, and what was left out does not
  fit now either (`Skipped`), because the counters and the length only grow.
  `CharsInv`: `chars` is the sum of the lengths, within the budget unless the
  selection is a single memory. `EndInv`: a loop that has ended has come to the end
  of the ranking or is full.
- The sum over a set comes from the community modules and is recursive. It is
  shown to be a cardinality: `Cells(S)` has as many pairs to a memory as the memory
  is long, and a least set for which the recursion and the cells differ would have
  a smaller one (`SumIsOfCells`, from the well-foundedness of strict subsets). What
  the selection needs follows from the cardinality of a union (`SumOfMore`).
- `RankKept`, from `SelectionInv`.
- `IntentKept`: `IntentInv` follows the retrievals; with `Skipped` the first memory
  of a ranking is always taken (`FirstIsTaken`).
- `PackagesFit`: from `Cut` alone, whatever the length.
- `MostStableShown`, from three facts on `TopOf`: the top of a top is a
  top, other rows beside a top change nothing, and joined readings of one table
  are their union.

Only model-checked:

- `CandidatesConsolidated`, which is liveness under fairness and out of the
  prover's reach;
- the properties of the violation runs, which do not hold. The hypotheses of the
  theorems (no clears, one thread, no failures) are the lines that
  those runs draw: `clear_race` for `TraitsBacked` and `SupportWithinEvidence`,
  `overlap` and `crash` for `OneThreadKeepsLedger`.

## Not modelled

- Extractors (`extractor.py`, `llm_extractor.py`): functions from text to candidates,
  regular expressions and word lists, without state. What they may yield is a
  choice in `Consolidation`, `PolicySignals` and `UserRuntimes`.
- Quality traces and their evaluation (`quality.py`): appended to a table that
  nothing but a report reads. A trace is a transaction of its own after the work it
  describes (`runtime.py:554`): one that fails ends the request, what was committed
  stays, and what the request still had to do is dropped. That is what `Fail` does.
- Statistics, inspection and listings of the store: single reads.
- `compile_context`: a search and the compiler without a budget. Its search is that
  of `UserRuntimes`, its package that of `ContextPreparation` without a cut.
  `reflect` (`runtime.py:545`) does the same with the most recent memories.
- Configuration, providers, records, version: immutable; they are constants here.
- The skill client: one request per process, no retry, no state.
- The installers: they copy a skill and rewrite settings beside the service, which
  does not depend on them.
- The payloads of the REST API and its web server.

## What is left to do

In this order:

1. `compile_context` and `reflect` as further operations of `ContextPreparation`;
2. the package that outlives a clear (`orchestrator.py:101`), as a run of its own;
3. proofs beyond the runs: that two threads of `Consolidation` which do not overlap
   implement the ledger too, with a history like that of `PolicySignals`.
