------------------------- MODULE ContextPreparation -------------------------
(***************************************************************************)
(* Preparing the context of a task: the orchestrator asks the policy,      *)
(* reads the profile, retrieves memories, ranks them, selects what fits    *)
(* the budget, and has the compiler write the package that is saved        *)
(* (orchestrator.py, context.py, rule_provider.py, store.py).              *)
(*                                                                         *)
(* Each read and the final save are transactions of their own; captures,   *)
(* consolidations and clears of other threads come in between.  Which      *)
(* memories a query finds and how they are ranked is left open.  Stability *)
(* stands for all that traits are sorted by.                               *)
(***************************************************************************)
EXTENDS Integers, FiniteSets, Sequences, FiniteSetsExt

CONSTANTS
    Memories,        \* memories
    Types,           \* types of memories
    TypeOf,          \* memory -> its type
    Length,          \* memory -> the length of its content
    TextOf,          \* memory -> its content without case and spacing
    TypeLimit,       \* limit_for: type -> how many of it are selected
    Traits,          \* profile traits
    Profile,         \* trait -> its stability at first; 0 is not active
    MaxStability,    \* greatest stability
    ProfileLimit,    \* profile_limit
    StableLimit,     \* how many of the most stable traits are read
    Requests,        \* the requests to prepare
    Multiplier,      \* candidate_multiplier
    Header, Line,    \* length of the header, and of a line but its content
    Reserve, Mark,   \* what truncation takes away, and what it appends
    MaxWrites,       \* bound: writes of other threads
    Nothing          \* no package

(* What a preparation is asked for, what the policy says of it (wanted),   *)
(* and which types and traits the intent of its query is about.            *)
Request == [wanted : BOOLEAN, force : BOOLEAN, types : SUBSET Types,
            traits : SUBSET Traits, limit : Nat \ {0}, maxChars : Nat \ {0}]

ASSUME DataAssumption ==
    /\ TypeOf \in [Memories -> Types]
    /\ Length \in [Memories -> Nat]
    /\ TypeLimit \in [Types -> Nat \ {0}]
    /\ Profile \in [Traits -> 0..MaxStability]
    /\ IsFiniteSet(Memories)
    /\ IsFiniteSet(Traits)

ASSUME NumbersAssumption ==
    /\ MaxStability \in Nat /\ Multiplier \in Nat
    /\ ProfileLimit \in Nat /\ StableLimit \in Nat /\ ProfileLimit <= StableLimit
    /\ Header \in Nat /\ Line \in Nat
    /\ Reserve \in Nat /\ Mark \in Nat /\ Mark <= Reserve
    /\ MaxWrites \in Nat
    /\ Requests \subseteq Request

VARIABLES
    stored,      \* the table memories
    profile,     \* the table profile_traits
    pc,          \* the next step of the preparation
    request,     \* what it is asked for
    related,     \* traits found for the query, with their stability
    shown,       \* traits for the package, with their stability
    raw,         \* memories retrieved
    ranked,      \* memories by rank
    next,        \* the position in the ranking
    selected,    \* memories selected
    counts,      \* type -> how many of it are selected
    chars,       \* length of the contents selected
    package,     \* the package compiled
    writes,      \* number of writes of other threads
    steady       \* history: memories stored ever since they were looked for

tables == <<stored, profile>>

profiling == <<related, shown>>

selection == <<next, selected, counts, chars>>

vars == <<tables, pc, request, profiling, raw, ranked, selection, package,
          writes, steady>>

Init ==
    /\ stored \in SUBSET Memories
    /\ profile = Profile
    /\ pc = "decide"
    /\ request \in Requests
    /\ related = {}
    /\ shown = {}
    /\ raw = {}
    /\ ranked = <<>>
    /\ next = 1
    /\ selected = {}
    /\ counts = [ty \in Types |-> 0]
    /\ chars = 0
    /\ package = Nothing
    /\ writes = 0
    /\ steady = {}

-----------------------------------------------------------------------------
(* Whether to read memory at all.                                          *)

(* Without the policy's wish, an intent or force the request is skipped.   *)
Decide ==
    /\ pc = "decide"
    /\ pc' = IF request.wanted \/ request.types # {} \/ request.force
             THEN "related" ELSE "skipped"
    /\ UNCHANGED <<tables, request, profiling, raw, ranked, selection, package,
                   writes, steady>>

-----------------------------------------------------------------------------
(* The profile: _profile_traits_for.                                       *)

Readings == [trait : Traits, stability : 1..MaxStability]

(* What ORDER BY stability DESC LIMIT n may leave of some rows.            *)
TopOf(rows, n) ==
    {top \in SUBSET rows :
        /\ Cardinality(top) = Min({n, Cardinality(rows)})
        /\ \A row \in top, other \in rows \ top : row.stability >= other.stability}

(* The active traits and their stability.                                  *)
Active == {row \in Readings : profile[row.trait] = row.stability}

(* The traits that have one of the words of the query.                     *)
ReadRelated ==
    /\ pc = "related"
    /\ \E rows \in SUBSET Active : related' \in TopOf(rows, ProfileLimit)
    /\ pc' = "stable"
    /\ UNCHANGED <<tables, request, shown, raw, ranked, selection, package,
                   writes, steady>>

(* dict.update: the rows replace those of the same traits.                 *)
Updated(old, new) ==
    new \cup {row \in old : \A other \in new : other.trait # row.trait}

(* Faulty variant: what the query is about comes first.                    *)
ShownRelated(top, intended) ==
    {rows \in SUBSET Updated(Updated(top, related), intended) :
        /\ Cardinality(rows) <= ProfileLimit
        /\ related \cup intended \subseteq rows}

(* Traits the query or its intent asks for join the most stable ones, and  *)
(* all are sorted by stability and cut again.                              *)
ShownOf(top, intended) ==
    TopOf(Updated(Updated(top, related), intended), ProfileLimit)

ReadStable ==
    /\ pc = "stable"
    /\ \E stable \in TopOf(Active, StableLimit) :
          \E top \in TopOf(stable, ProfileLimit) :
             shown' \in ShownOf(top, {row \in stable : row.trait \in request.traits})
    /\ pc' = "retrieve"
    /\ UNCHANGED <<tables, request, related, raw, ranked, selection, package,
                   writes, steady>>

-----------------------------------------------------------------------------
(* The candidates.                                                         *)

CandidateLimit == Max({request.limit * Multiplier, request.limit})

Stored(types) == {m \in stored : TypeOf[m] \in types}

Limited(found) ==
    IF Cardinality(found) <= CandidateLimit THEN {found}
    ELSE {few \in SUBSET found : Cardinality(few) = CandidateLimit}

(* What a search for the query may find among some memories.               *)
Matches(among) == {found \in SUBSET among : Cardinality(found) <= CandidateLimit}

(* Memories of the intended types, or of any type without an intent.       *)
Retrieve ==
    /\ pc = "retrieve"
    /\ steady' = stored
    /\ raw' \in Matches(IF request.types = {} THEN stored ELSE Stored(request.types))
    /\ pc' = IF request.types = {} THEN "rank" ELSE "fallback"
    /\ UNCHANGED <<tables, request, profiling, ranked, selection, package, writes>>

(* Faulty variant: the search for the query alone comes at once.           *)
RetrieveUntyped ==
    /\ pc = "fallback"
    /\ \E found \in Matches(stored) : raw' = raw \cup found
    /\ pc' = "rank"
    /\ UNCHANGED <<tables, request, profiling, ranked, selection, package,
                   writes, steady>>

(* Memories of the intended types without the query; if there are none at  *)
(* all, the query without the types.                                       *)
RetrieveFallback ==
    /\ pc = "fallback"
    /\ \E found \in Limited(Stored(request.types)) : raw' = raw \cup found
    /\ pc' = IF raw' = {} THEN "retry" ELSE "rank"
    /\ UNCHANGED <<tables, request, profiling, ranked, selection, package,
                   writes, steady>>

Retry ==
    /\ pc = "retry"
    /\ raw' \in Matches(stored)
    /\ pc' = "rank"
    /\ UNCHANGED <<tables, request, profiling, ranked, selection, package,
                   writes, steady>>

(* The reranker puts the memories in an order.                             *)
Rank ==
    /\ pc = "rank"
    /\ ranked' \in {order \in [1..Cardinality(raw) -> raw] :
                       \A i, j \in DOMAIN order : order[i] = order[j] => i = j}
    /\ pc' = "select"
    /\ UNCHANGED <<tables, request, profiling, raw, selection, package, writes,
                   steady>>

-----------------------------------------------------------------------------
(* _apply_budget: one turn of the loop takes the next memory or leaves it. *)

(* Faulty variant: the worst comes first.                                  *)
CurrentLast == ranked[Len(ranked) + 1 - next]

Current == ranked[next]

TypeFull(m) == counts[TypeOf[m]] >= TypeLimit[TypeOf[m]]

(* Faulty variant: the length of the memory itself is forgotten.           *)
TooLongBefore(m) == selected # {} /\ chars > request.maxChars

(* The first memory is taken however long it is.                           *)
TooLong(m) == selected # {} /\ chars + Length[m] > request.maxChars

(* Faulty variant: the loop ends at the first memory that does not fit.    *)
LeaveAndStop ==
    /\ pc = "select"
    /\ next <= Len(ranked)
    /\ TypeFull(Current) \/ TooLong(Current)
    /\ next' = next + 1
    /\ pc' = "compile"
    /\ UNCHANGED <<tables, request, profiling, raw, ranked, selected, counts,
                   chars, package, writes, steady>>

Leave ==
    /\ pc = "select"
    /\ next <= Len(ranked)
    /\ TypeFull(Current) \/ TooLong(Current)
    /\ next' = next + 1
    /\ UNCHANGED <<tables, pc, request, profiling, raw, ranked, selected, counts,
                   chars, package, writes, steady>>

Take ==
    /\ pc = "select"
    /\ next <= Len(ranked)
    /\ ~TypeFull(Current) /\ ~TooLong(Current)
    /\ next' = next + 1
    /\ selected' = selected \cup {Current}
    /\ counts' = [counts EXCEPT ![TypeOf[Current]] = @ + 1]
    /\ chars' = chars + Length[Current]
    /\ pc' = IF Cardinality(selected') >= request.limit THEN "compile" ELSE "select"
    /\ UNCHANGED <<tables, request, profiling, raw, ranked, package, writes, steady>>

Exhausted ==
    /\ pc = "select"
    /\ next > Len(ranked)
    /\ pc' = "compile"
    /\ UNCHANGED <<tables, request, profiling, raw, ranked, selection, package,
                   writes, steady>>

-----------------------------------------------------------------------------
(* The package.                                                            *)

SumOfLengths(found) == MapThenSumSet(LAMBDA m : Length[m], found)

(* _dedupe: of several memories that say the same, the first one.          *)
Distinct ==
    {ranked[i] : i \in {i \in DOMAIN ranked :
        /\ ranked[i] \in selected
        /\ \A j \in 1..(i - 1) :
              ranked[j] \in selected => TextOf[ranked[j]] # TextOf[ranked[i]]}}

(* The header, a line for every trait and one for every memory.            *)
FullLength ==
    Header + Line * (Cardinality(shown) + Cardinality(Distinct))
           + SumOfLengths(Distinct)

(* Faulty variant: the mark comes on top of the budget.                    *)
CutAtBudget(n) == IF n > request.maxChars THEN request.maxChars + Mark ELSE n

(* Faulty variant: the slice is taken for a subtraction.                   *)
CutBelowZero(n) ==
    IF n <= request.maxChars THEN n ELSE request.maxChars - Reserve + Mark

(* content[: max_chars - 32] and the mark.  Python counts a negative index *)
(* from the end.                                                           *)
Cut(n) ==
    IF n <= request.maxChars THEN n
    ELSE IF request.maxChars >= Reserve THEN request.maxChars - Reserve + Mark
    ELSE Max({0, n - (Reserve - request.maxChars)}) + Mark

Compile ==
    /\ pc = "compile"
    /\ package' = [memories |-> Distinct, length |-> Cut(FullLength)]
    /\ pc' = "save"
    /\ UNCHANGED <<tables, request, profiling, raw, ranked, selection, writes,
                   steady>>

(* The row in context_packages.                                            *)
Save ==
    /\ pc = "save"
    /\ pc' = "saved"
    /\ UNCHANGED <<tables, request, profiling, raw, ranked, selection, package,
                   writes, steady>>

-----------------------------------------------------------------------------
(* What other threads do to the tables.                                    *)

OtherWrite ==
    /\ writes < MaxWrites
    /\ writes' = writes + 1
    /\ UNCHANGED <<pc, request, related, shown, raw, ranked, selection, package>>

Capture(m) ==
    /\ OtherWrite
    /\ m \notin stored
    /\ stored' = stored \cup {m}
    /\ UNCHANGED <<profile, steady>>

Consolidate(trait, stability) ==
    /\ OtherWrite
    /\ profile[trait] # stability
    /\ profile' = [profile EXCEPT ![trait] = stability]
    /\ UNCHANGED <<stored, steady>>

Clear ==
    /\ OtherWrite
    /\ stored' = {}
    /\ profile' = [trait \in Traits |-> 0]
    /\ steady' = {}

-----------------------------------------------------------------------------

Next ==
    \/ Decide
    \/ ReadRelated
    \/ ReadStable
    \/ Retrieve
    \/ RetrieveFallback
    \/ Retry
    \/ Rank
    \/ Leave
    \/ Take
    \/ Exhausted
    \/ Compile
    \/ Save
    \/ \E m \in Memories : Capture(m)
    \/ \E trait \in Traits, stability \in 0..MaxStability :
          Consolidate(trait, stability)
    \/ Clear

Spec == Init /\ [][Next]_vars

-----------------------------------------------------------------------------
(* Properties.                                                             *)

(* The tables and the local variables hold what they should.               *)
TypeOK ==
    /\ stored \subseteq Memories
    /\ profile \in [Traits -> 0..MaxStability]
    /\ pc \in {"decide", "related", "stable", "retrieve", "fallback", "retry",
               "rank", "select", "compile", "save", "saved", "skipped"}
    /\ request \in Request
    /\ related \subseteq Readings
    /\ shown \subseteq Readings
    /\ raw \subseteq Memories
    /\ ranked \in Seq(Memories)
    /\ next \in 1..(Len(ranked) + 1)
    /\ selected \subseteq Memories
    /\ counts \in [Types -> Nat]
    /\ chars \in Nat
    /\ \/ package = Nothing
       \/ package \in [memories : SUBSET Memories, length : Nat]
    /\ writes \in 0..MaxWrites
    /\ steady \subseteq Memories

Finished == pc \in {"compile", "save", "saved"}

(* The selection keeps within the limit, the limits of the types and the   *)
(* budget of characters, but for a single memory that is too long itself.  *)
WithinBudget ==
    /\ Cardinality(selected) <= request.limit
    /\ \A ty \in Types :
          Cardinality({m \in selected : TypeOf[m] = ty}) <= TypeLimit[ty]
    /\ SumOfLengths(selected) > request.maxChars => Cardinality(selected) = 1

(* Of what was retrieved, nothing that was left out would still fit.       *)
NothingMoreFits ==
    Finished =>
        \A m \in raw \ selected :
            \/ Cardinality(selected) = request.limit
            \/ Cardinality({o \in selected : TypeOf[o] = TypeOf[m]}) = TypeLimit[TypeOf[m]]
            \/ SumOfLengths(selected) + Length[m] > request.maxChars

(* No memory is left out for one of the same type that ranks behind it     *)
(* and is not shorter.                                                     *)
RankRespected ==
    \A i, j \in DOMAIN ranked :
        /\ i < j
        /\ TypeOf[ranked[i]] = TypeOf[ranked[j]]
        /\ Length[ranked[i]] <= Length[ranked[j]]
        /\ ranked[j] \in selected
        => ranked[i] \in selected

(* If the query's intent names types and a memory of these types is there  *)
(* all the time, then some memory is selected and all are of these types.  *)
IntentRespected ==
    Finished /\ request.types # {} /\ (\E m \in steady : TypeOf[m] \in request.types)
        => selected # {} /\ \A m \in selected : TypeOf[m] \in request.types

(* Whatever the query and its intent are about, and whatever is written    *)
(* between the two reads of the profile, the package shows the most stable *)
(* traits, unless what the first read has found is out of date.            *)
ProfileIsMostStable ==
    [][pc = "stable" /\ pc' = "retrieve" /\ related \subseteq Active
          => shown' \in TopOf(Active, ProfileLimit)]_vars

(* A package is not longer than the budget, if the budget has room for     *)
(* what truncation takes away.  A smaller one, which the API accepts as    *)
(* well, may be exceeded.                                                  *)
PackageFits ==
    package # Nothing /\ request.maxChars >= Reserve
        => package.length <= request.maxChars
=============================================================================
