---------------------------- MODULE UserRuntimes ----------------------------
(***************************************************************************)
(* One memory database per user, and the runtimes through which a server   *)
(* reaches it: the cache of runtimes and the owner of a database           *)
(* (tenancy.py), and the full-text index that each runtime keeps beside    *)
(* the table of memories as long as it believes there is one (store.py).   *)
(*                                                                         *)
(* A request takes its runtime from the cache and uses it until it ends,   *)
(* though it may have been evicted meanwhile.  Each action is one          *)
(* transaction, or one step under the lock of the cache.                   *)
(*                                                                         *)
(* A text stands for the content and tags of a memory, a query for the     *)
(* texts that LIKE finds for one of its words.  The order of the results   *)
(* is left open: a limit keeps any of them.                                *)
(***************************************************************************)
EXTENDS Integers, FiniteSets, Sequences

CONSTANTS
    Users,         \* users; each has a database of its own
    Servers,       \* processes that serve the same data directory
    Threads,       \* threads that handle requests
    ServerOf,      \* thread -> its server
    Runtimes,      \* runtime objects
    Memories,      \* ids of memories, the same in every database
    Texts,         \* what memories say
    Queries,       \* what searches ask for: sets of texts
    MaxCached,     \* runtime_cache_size
    SearchLimit,   \* limit of a search
    FtsBuiltIn,    \* whether SQLite has FTS5
    Earlier,       \* the table of memories that earlier runs have left
    MaxRequests,   \* bound: requests
    MaxErrors,     \* bound: SQLite errors and restarts
    NoOwner,       \* a database without an owner
    NoRuntime,     \* a runtime object that does not exist
    NoText,        \* a memory that does not exist
    Nothing        \* no request

Files == Users     \* the database of a user

Rows == Memories \X Texts

Runtime == [user : Users, fts : BOOLEAN]

Operations == {"remember", "capture", "search", "clear"}

Request == [user : Users, op : Operations, query : SUBSET Texts]

(* What a search has found, and the rows that were there all along and at  *)
(* any time since it began.                                                *)
Search == [found : SUBSET Rows, always : SUBSET Rows, ever : SUBSET Rows]

NoSearch == [found |-> {}, always |-> {}, ever |-> {}]

ASSUME BoundsAssumption ==
    /\ MaxCached \in Nat \ {0}
    /\ SearchLimit \in Nat \ {0}
    /\ MaxRequests \in Nat /\ MaxErrors \in Nat
    /\ FtsBuiltIn \in BOOLEAN
    /\ Earlier \in [Memories -> Texts \cup {NoText}]
    /\ ServerOf \in [Threads -> Servers]
    /\ Queries \subseteq SUBSET Texts

ASSUME FiniteAssumption == IsFiniteSet(Memories) /\ IsFiniteSet(Texts)

ASSUME NoneAssumption ==
    /\ NoOwner \notin Users
    /\ NoRuntime \notin Runtime \cup Runtimes
    /\ NoText \notin Texts
    /\ Nothing \notin Request

VARIABLES
    owner,      \* file -> owner_user_id
    memories,   \* file -> the table memories
    index,      \* file -> the table memories_fts
    cache,      \* server -> its cache, the next to be evicted first
    runtime,    \* runtime objects that are cached or in use
    pc,         \* thread -> the next step of its request
    request,    \* thread -> its request
    held,       \* thread -> the runtime it uses
    search,     \* thread -> the search it runs
    requests,   \* number of requests so far
    errors,     \* number of errors and restarts so far
    recent,     \* history: server -> users by last use, the latest last
    abandoned   \* history: files whose index a runtime has given up

files == <<owner, memories, index, abandoned>>

vars == <<owner, memories, index, cache, runtime, pc, request, held, search,
          requests, errors, recent, abandoned>>

RowsIn(table) == {row \in Rows : table[row[1]] = row[2]}

(* A database that was copied from another user's keeps its owner.         *)
Init ==
    /\ owner \in [Files -> Users \cup {NoOwner}]
    /\ memories = [u \in Files |-> Earlier]
    /\ index = [u \in Files |-> IF FtsBuiltIn THEN RowsIn(Earlier) ELSE {}]
    /\ cache = [s \in Servers |-> <<>>]
    /\ runtime = [r \in Runtimes |-> NoRuntime]
    /\ pc = [t \in Threads |-> "idle"]
    /\ request = [t \in Threads |-> Nothing]
    /\ held = [t \in Threads |-> NoRuntime]
    /\ search = [t \in Threads |-> NoSearch]
    /\ requests = 0
    /\ errors = 0
    /\ recent = [s \in Servers |-> <<>>]
    /\ abandoned = {}

-----------------------------------------------------------------------------
(* The cache.                                                              *)

Elements(seq) == {seq[i] : i \in DOMAIN seq}

(* The user's runtime in the cache of a server, if there is one.           *)
CachedFor(s, u) == {r \in Elements(cache[s]) : runtime[r].user = u}

(* No entry occurs twice.                                                  *)
Without(seq, x) ==
    IF x \notin Elements(seq) THEN seq
    ELSE LET i == CHOOSE i \in DOMAIN seq : seq[i] = x
         IN  SubSeq(seq, 1, i - 1) \o SubSeq(seq, i + 1, Len(seq))

(* The entry becomes the last one to be evicted.                           *)
Touched(seq, x) == Append(Without(seq, x), x)

Evicted(seq) == IF Len(seq) > MaxCached THEN Tail(seq) ELSE seq

(* for_user holds the lock of the cache while it opens a runtime.          *)
Unlocked(s) ==
    \A t \in Threads : ServerOf[t] = s => pc[t] \notin {"bind", "insert", "open"}

(* Runtime objects that nobody refers to any more are gone.                *)
Collected(objects, entries, users) ==
    [r \in Runtimes |->
        IF \/ \E s \in Servers : r \in Elements(entries[s])
           \/ \E t \in Threads : users[t] = r
        THEN objects[r] ELSE NoRuntime]

-----------------------------------------------------------------------------
(* for_user: a request gets the runtime of its user.                       *)

Asked ==
    [user : Users, op : Operations \ {"search"}, query : {{}}]
    \cup [user : Users, op : {"search"}, query : Queries]

(* Faulty variant: the entry stays where it is.                            *)
HitInPlace(t, q) ==
    LET s == ServerOf[t]
    IN  /\ pc[t] = "idle" /\ requests < MaxRequests
        /\ Unlocked(s)
        /\ \E r \in CachedFor(s, q.user) : held' = [held EXCEPT ![t] = r]
        /\ request' = [request EXCEPT ![t] = q]
        /\ requests' = requests + 1
        /\ pc' = [pc EXCEPT ![t] = "run"]
        /\ recent' = [recent EXCEPT ![s] = Touched(@, q.user)]
        /\ UNCHANGED <<files, cache, runtime, search, errors>>

(* The runtime is in the cache.                                            *)
Hit(t, q) ==
    LET s == ServerOf[t]
    IN  /\ pc[t] = "idle" /\ requests < MaxRequests
        /\ Unlocked(s)
        /\ \E r \in CachedFor(s, q.user) :
              /\ cache' = [cache EXCEPT ![s] = Touched(@, r)]
              /\ held' = [held EXCEPT ![t] = r]
        /\ request' = [request EXCEPT ![t] = q]
        /\ requests' = requests + 1
        /\ pc' = [pc EXCEPT ![t] = "run"]
        /\ recent' = [recent EXCEPT ![s] = Touched(@, q.user)]
        /\ UNCHANGED <<files, runtime, search, errors>>

Miss(t, q) ==
    /\ pc[t] = "idle" /\ requests < MaxRequests
    /\ Unlocked(ServerOf[t])
    /\ CachedFor(ServerOf[t], q.user) = {}
    /\ request' = [request EXCEPT ![t] = q]
    /\ requests' = requests + 1
    /\ pc' = [pc EXCEPT ![t] = "bind"]
    /\ UNCHANGED <<files, cache, runtime, held, search, errors, recent>>

Quit(t) ==
    /\ pc' = [pc EXCEPT ![t] = "idle"]
    /\ request' = [request EXCEPT ![t] = Nothing]
    /\ held' = [held EXCEPT ![t] = NoRuntime]
    /\ search' = [search EXCEPT ![t] = NoSearch]
    /\ runtime' = Collected(runtime, cache', held')

(* Faulty variant: the owner is not compared.                              *)
ReadOwnerUnchecked(t) ==
    /\ pc[t] = "bind"
    /\ pc' = [pc EXCEPT ![t] = IF owner[request[t].user] = NoOwner
                               THEN "insert" ELSE "open"]
    /\ UNCHANGED <<files, cache, runtime, request, held, search, requests,
                   errors, recent>>

(* bind_store_owner reads the owner of the database.                       *)
ReadOwner(t) ==
    /\ pc[t] = "bind"
    /\ \/ /\ owner[request[t].user] = NoOwner
          /\ pc' = [pc EXCEPT ![t] = "insert"]
       \/ /\ owner[request[t].user] = request[t].user
          /\ pc' = [pc EXCEPT ![t] = "open"]
    /\ UNCHANGED <<files, cache, runtime, request, held, search, requests,
                   errors, recent>>

(* It becomes the owner, unless another process has been faster.           *)
InsertOwner(t) ==
    LET u == request[t].user
    IN  /\ pc[t] = "insert"
        /\ owner[u] \in {NoOwner, u}
        /\ owner' = [owner EXCEPT ![u] = u]
        /\ pc' = [pc EXCEPT ![t] = "open"]
        /\ UNCHANGED <<memories, index, cache, runtime, request, held, search,
                       requests, errors, recent, abandoned>>

(* The database belongs to somebody else.                                  *)
RefuseOwner(t) ==
    /\ pc[t] \in {"bind", "insert"}
    /\ owner[request[t].user] \notin {NoOwner, request[t].user}
    /\ UNCHANGED cache
    /\ Quit(t)
    /\ UNCHANGED <<files, requests, errors, recent>>

(* Faulty variant: the flag keeps its initial None.                        *)
NewRuntimeUnset(u) == [user |-> u, fts |-> Nothing]

(* A runtime creates the index, and remembers whether that has worked.     *)
NewRuntime(u) == [user |-> u, fts |-> FtsBuiltIn]

Open(t, r) ==
    LET s == ServerOf[t]
        u == request[t].user
    IN  /\ pc[t] = "open"
        /\ runtime[r] = NoRuntime
        /\ cache' = [cache EXCEPT ![s] = Evicted(Append(@, r))]
        /\ held' = [held EXCEPT ![t] = r]
        /\ runtime' = Collected([runtime EXCEPT ![r] = NewRuntime(u)],
                                cache', held')
        /\ pc' = [pc EXCEPT ![t] = "run"]
        /\ recent' = [recent EXCEPT ![s] = Touched(@, u)]
        /\ UNCHANGED <<files, request, search, requests, errors>>

-----------------------------------------------------------------------------
(* What a request does with its runtime.                                   *)

User(t) == request[t].user

Fts(t) == runtime[held[t]].fts

(* Searches under way notice that a table changes.                         *)
Noticed(u, table) ==
    [t \in Threads |->
        IF pc[t] = "table" /\ User(t) = u
        THEN [search[t] EXCEPT !.always = @ \cap RowsIn(table),
                               !.ever = @ \cup RowsIn(table)]
        ELSE search[t]]

(* A transaction that changes the database of the thread's user.           *)
Write(t, table, rows) ==
    /\ memories' = [memories EXCEPT ![User(t)] = table]
    /\ index' = [index EXCEPT ![User(t)] = rows]
    /\ pc' = [pc EXCEPT ![t] = "end"]
    /\ search' = Noticed(User(t), table)
    /\ UNCHANGED <<owner, cache, runtime, request, held, requests, errors, recent,
                   abandoned>>

(* _insert_memory, of remember or of a capture that resembles nothing.     *)
InsertMemory(t, m, x) ==
    LET u == User(t)
    IN  /\ pc[t] = "run"
        /\ request[t].op \in {"remember", "capture"}
        /\ memories[u][m] = NoText
        /\ Write(t, [memories[u] EXCEPT ![m] = x],
                 IF Fts(t) THEN index[u] \cup {<<m, x>>} ELSE index[u])

(* Faulty variant: the old row stays in the index.                         *)
ReinforceMemoryTwice(t, m, x) ==
    LET u == User(t)
    IN  /\ pc[t] = "run"
        /\ request[t].op = "capture"
        /\ memories[u][m] # NoText
        /\ Write(t, [memories[u] EXCEPT ![m] = x],
                 IF Fts(t) THEN index[u] \cup {<<m, x>>} ELSE index[u])

(* _reinforce_memory, of a capture that resembles a memory: the text stays *)
(* or a more specific one takes its place.                                 *)
ReinforceMemory(t, m, x) ==
    LET u == User(t)
    IN  /\ pc[t] = "run"
        /\ request[t].op = "capture"
        /\ memories[u][m] # NoText
        /\ Write(t, [memories[u] EXCEPT ![m] = x],
                 IF Fts(t) THEN {row \in index[u] : row[1] # m} \cup {<<m, x>>}
                 ELSE index[u])

(* The policy or the extractor finds nothing worth a memory.               *)
KeepNothing(t) ==
    /\ pc[t] = "run"
    /\ request[t].op \in {"remember", "capture"}
    /\ pc' = [pc EXCEPT ![t] = "end"]
    /\ UNCHANGED <<files, cache, runtime, request, held, search, requests,
                   errors, recent>>

(* clear_all empties the index only if the runtime believes there is one.  *)
Clear(t) ==
    /\ pc[t] = "run"
    /\ request[t].op = "clear"
    /\ Write(t, [m \in Memories |-> NoText], IF Fts(t) THEN {} ELSE index[User(t)])

Matching(rows, q) == {row \in rows : row[2] \in q}

(* What the rows become when only as many as the limit are kept.           *)
Limited(rows) ==
    IF Cardinality(rows) <= SearchLimit THEN {rows}
    ELSE {few \in SUBSET rows : Cardinality(few) = SearchLimit}

(* Faulty variant: the texts come from the index.                          *)
IndexedUnjoined(t) == index[User(t)]

(* The memories with a row in the index: the texts come from the table.    *)
Indexed(t) ==
    {row \in RowsIn(memories[User(t)]) :
        \E hit \in index[User(t)] : hit[1] = row[1]}

(* Full-text search takes texts apart in its own way: which rows it finds, *)
(* for a query without words none, is left open.                           *)
FoundIn(rows) == {few \in SUBSET rows : Cardinality(few) <= SearchLimit}

Started(t, rows) ==
    LET now == RowsIn(memories[User(t)])
    IN  /\ search' = [search EXCEPT ![t] = [found |-> rows, always |-> now,
                                            ever |-> now]]
        /\ pc' = [pc EXCEPT ![t] = "table"]

SearchIndex(t) ==
    /\ pc[t] = "run"
    /\ request[t].op = "search"
    /\ \E rows \in FoundIn(IF Fts(t) THEN Indexed(t) ELSE {}) : Started(t, rows)
    /\ UNCHANGED <<files, cache, runtime, request, held, requests, errors, recent>>

(* An OperationalError, say for a word with an odd number of quotes: the   *)
(* runtime never uses the index again.                                     *)
SearchIndexFails(t) ==
    /\ pc[t] = "run"
    /\ request[t].op = "search"
    /\ Fts(t)
    /\ errors < MaxErrors
    /\ errors' = errors + 1
    /\ runtime' = [runtime EXCEPT ![held[t]].fts = FALSE]
    /\ abandoned' = abandoned \cup {User(t)}
    /\ Started(t, {})
    /\ UNCHANGED <<owner, memories, index, cache, request, held, requests, recent>>

(* Several rows of one memory: the better one is kept, whichever it is.    *)
Merged(rows) ==
    {some \in SUBSET rows :
        \A m \in {row[1] : row \in rows} :
            Cardinality({row \in some : row[1] = m}) = 1}

(* Faulty variant: the table is searched only if the index found nothing.  *)
SearchTableIfNothing(t) ==
    LET table == RowsIn(memories[User(t)])
    IN  /\ pc[t] = "table"
        /\ \E like \in Limited(Matching(table, request[t].query)) :
              search' = [search EXCEPT ![t].found = IF @ # {} THEN @ ELSE like]
        /\ pc' = [pc EXCEPT ![t] = "end"]
        /\ UNCHANGED <<files, cache, runtime, request, held, requests, errors, recent>>

(* The table is searched in any case, and the results are merged.          *)
SearchTable(t) ==
    LET table == RowsIn(memories[User(t)])
    IN  /\ pc[t] = "table"
        /\ \E like \in Limited(Matching(table, request[t].query)) :
              \E rows \in UNION {Limited(some) : some \in Merged(search[t].found \cup like)} :
                 search' = [search EXCEPT ![t].found = rows]
        /\ pc' = [pc EXCEPT ![t] = "end"]
        /\ UNCHANGED <<files, cache, runtime, request, held, requests, errors, recent>>

Return(t) ==
    /\ pc[t] = "end"
    /\ UNCHANGED cache
    /\ Quit(t)
    /\ UNCHANGED <<files, requests, errors, recent>>

(* A statement fails or the database is locked too long: its transaction   *)
(* is rolled back, and the request ends with an error.                     *)
Fail(t) ==
    /\ pc[t] \notin {"idle", "end"}
    /\ errors < MaxErrors
    /\ errors' = errors + 1
    /\ UNCHANGED cache
    /\ Quit(t)
    /\ UNCHANGED <<files, requests, recent>>

(* A server stops and starts again.                                        *)
Restart(s) ==
    LET Idle(t) == ServerOf[t] = s
    IN  /\ errors < MaxErrors
        /\ errors' = errors + 1
        /\ cache' = [cache EXCEPT ![s] = <<>>]
        /\ recent' = [recent EXCEPT ![s] = <<>>]
        /\ pc' = [t \in Threads |-> IF Idle(t) THEN "idle" ELSE pc[t]]
        /\ request' = [t \in Threads |-> IF Idle(t) THEN Nothing ELSE request[t]]
        /\ held' = [t \in Threads |-> IF Idle(t) THEN NoRuntime ELSE held[t]]
        /\ search' = [t \in Threads |-> IF Idle(t) THEN NoSearch ELSE search[t]]
        /\ runtime' = Collected(runtime, cache', held')
        /\ UNCHANGED <<files, requests>>

-----------------------------------------------------------------------------

Next ==
    \/ \E t \in Threads :
          \/ \E q \in Asked : Hit(t, q) \/ Miss(t, q)
          \/ ReadOwner(t)
          \/ InsertOwner(t)
          \/ RefuseOwner(t)
          \/ \E r \in Runtimes : Open(t, r)
          \/ \E m \in Memories, x \in Texts :
                InsertMemory(t, m, x) \/ ReinforceMemory(t, m, x)
          \/ KeepNothing(t)
          \/ Clear(t)
          \/ SearchIndex(t)
          \/ SearchIndexFails(t)
          \/ SearchTable(t)
          \/ Return(t)
          \/ Fail(t)
    \/ \E s \in Servers : Restart(s)

Spec == Init /\ [][Next]_vars

-----------------------------------------------------------------------------
(* Properties.                                                             *)

(* The databases, the caches and the threads hold what they should.        *)
TypeOK ==
    /\ owner \in [Files -> Users \cup {NoOwner}]
    /\ memories \in [Files -> [Memories -> Texts \cup {NoText}]]
    /\ index \in [Files -> SUBSET Rows]
    /\ cache \in [Servers -> Seq(Runtimes)]
    /\ recent \in [Servers -> Seq(Users)]
    /\ runtime \in [Runtimes -> Runtime \cup {NoRuntime}]
    /\ pc \in [Threads -> {"idle", "bind", "insert", "open", "run", "table", "end"}]
    /\ request \in [Threads -> Request \cup {Nothing}]
    /\ held \in [Threads -> Runtimes \cup {NoRuntime}]
    /\ search \in [Threads -> Search]
    /\ requests \in 0..MaxRequests
    /\ errors \in 0..MaxErrors
    /\ abandoned \subseteq Files

LastOf(seq, n) == SubSeq(seq, 1 + (IF Len(seq) > n THEN Len(seq) - n ELSE 0), Len(seq))

(* The cache holds one runtime for each of the users served last, in the   *)
(* order in which they were served.                                        *)
CacheIsMostRecent ==
    \A s \in Servers :
        [i \in DOMAIN cache[s] |-> runtime[cache[s][i]].user] = LastOf(recent[s], MaxCached)

(* Evicted or not, the runtime that a request uses is its user's, and so   *)
(* is the database, even if it was copied there or another process has     *)
(* opened it at the same time.                                             *)
ServedByOwner ==
    \A t \in Threads : held[t] # NoRuntime =>
        /\ runtime[held[t]] # NoRuntime
        /\ runtime[held[t]].user = User(t)
        /\ owner[User(t)] = User(t)

(* An index that no runtime has ever given up says what the table says,    *)
(* whichever runtimes wrote to them, and whatever failed, was evicted or   *)
(* restarted, or was given up in another database.                         *)
IndexMirrors ==
    FtsBuiltIn => \A u \in Files \ abandoned : index[u] = RowsIn(memories[u])

Answered(t) == pc[t] = "end" /\ request[t].op = "search"

(* However far the index and the table have drifted apart, and whatever is *)
(* written while a search is under way, a memory that matched all the time *)
(* is in the answer unless the answer is full.                             *)
SearchComplete ==
    \A t \in Threads : Answered(t) =>
        \/ Cardinality(search[t].found) = SearchLimit
        \/ \A row \in Matching(search[t].always, request[t].query) :
              \E answer \in search[t].found : answer[1] = row[1]

(* What the index still holds of a memory that is gone, or of a text that  *)
(* was replaced, is never in an answer.                                    *)
SearchTruthful ==
    \A t \in Threads : Answered(t) =>
        /\ search[t].found \subseteq search[t].ever
        /\ Cardinality(search[t].found) <= SearchLimit
        /\ \A a, b \in search[t].found : a[1] = b[1] => a = b

(* The README's "Clear all memory": once the table is empty, the full-text *)
(* index holds no text of it either.                                       *)
ClearLeavesNothing ==
    \A u \in Files : RowsIn(memories[u]) = {} => index[u] = {}
=============================================================================
