------------------------- MODULE UserRuntimesProofs -------------------------
(***************************************************************************)
(* What holds of databases, runtimes and searches for every number of      *)
(* users, servers, threads, requests and errors, and every size of the     *)
(* cache.                                                                  *)
(***************************************************************************)
EXTENDS UserRuntimes, FiniteSetTheorems, SequenceTheorems, TLAPS

-----------------------------------------------------------------------------
(* Sequences of the cache.                                                 *)

LEMMA AppendElements ==
    ASSUME NEW S, NEW seq \in Seq(S), NEW x \in S
    PROVE  /\ Append(seq, x) \in Seq(S)
           /\ Append(seq, x) # <<>>
           /\ Elements(Append(seq, x)) = Elements(seq) \cup {x}
<1> DEFINE a == Append(seq, x)
<1>1. /\ a \in Seq(S)
      /\ Len(a) = Len(seq) + 1
      /\ \A i \in 1..Len(seq) : a[i] = seq[i]
      /\ a[Len(seq) + 1] = x
  OBVIOUS
<1> HIDE DEF a
<1>2. DOMAIN a = DOMAIN seq \cup {Len(seq) + 1} /\ DOMAIN seq = 1..Len(seq)
  BY <1>1
<1>3. Elements(a) = Elements(seq) \cup {x}
  BY <1>1, <1>2 DEF Elements
<1>4. a # <<>>
  BY <1>1
<1> QED
  BY <1>1, <1>3, <1>4 DEF a

LEMMA TailElements ==
    ASSUME NEW S, NEW seq \in Seq(S), seq # <<>>
    PROVE  Tail(seq) \in Seq(S) /\ Elements(Tail(seq)) \subseteq Elements(seq)
<1> DEFINE a == Tail(seq)
<1>1. /\ a \in Seq(S)
      /\ Len(a) = Len(seq) - 1
      /\ \A i \in 1..Len(a) : a[i] = seq[i + 1]
  OBVIOUS
<1> HIDE DEF a
<1>2. \A i \in DOMAIN a : i \in 1..Len(a) /\ i + 1 \in DOMAIN seq
  BY <1>1
<1>3. Elements(a) \subseteq Elements(seq)
  BY <1>1, <1>2 DEF Elements
<1> QED
  BY <1>1, <1>3 DEF a

(* Where an entry was taken out, the later ones move up.                   *)
LEMMA WithoutAt ==
    ASSUME NEW S, NEW seq \in Seq(S), NEW x \in Elements(seq)
    PROVE  \E i \in 1..Len(seq) :
             /\ seq[i] = x
             /\ Without(seq, x) \in Seq(S)
             /\ Len(Without(seq, x)) = Len(seq) - 1
             /\ \A j \in 1..Len(Without(seq, x)) :
                  Without(seq, x)[j] = IF j <= i - 1 THEN seq[j] ELSE seq[j + 1]
<1> DEFINE i == CHOOSE i \in DOMAIN seq : seq[i] = x
<1>1. i \in 1..Len(seq)
  BY DEF Elements
<1>6. seq[i] = x
  BY DEF Elements
<1>2. Without(seq, x) = SubSeq(seq, 1, i - 1) \o SubSeq(seq, i + 1, Len(seq))
  BY DEF Without
<1> HIDE DEF i
<1>3. /\ SubSeq(seq, 1, i - 1) \in Seq(S)
      /\ Len(SubSeq(seq, 1, i - 1)) = i - 1
      /\ \A j \in 1..(i - 1) : SubSeq(seq, 1, i - 1)[j] = seq[j]
  BY <1>1
<1>4. /\ SubSeq(seq, i + 1, Len(seq)) \in Seq(S)
      /\ Len(SubSeq(seq, i + 1, Len(seq))) = Len(seq) - i
      /\ \A j \in 1..(Len(seq) - i) :
            SubSeq(seq, i + 1, Len(seq))[j] = seq[i + j]
  BY <1>1
<1> DEFINE w == SubSeq(seq, 1, i - 1) \o SubSeq(seq, i + 1, Len(seq))
<1>5. /\ w \in Seq(S)
      /\ Len(w) = Len(seq) - 1
      /\ \A j \in 1..Len(w) : w[j] = IF j <= i - 1 THEN seq[j] ELSE seq[j + 1]
  <2> DEFINE p == SubSeq(seq, 1, i - 1)
             q == SubSeq(seq, i + 1, Len(seq))
  <2> HIDE DEF p, q
  <2>1. /\ p \in Seq(S) /\ Len(p) = i - 1
        /\ q \in Seq(S) /\ Len(q) = Len(seq) - i
    BY <1>3, <1>4 DEF p, q
  <2>2. /\ p \o q \in Seq(S)
        /\ Len(p \o q) = Len(p) + Len(q)
        /\ \A j \in 1..(Len(p) + Len(q)) :
              (p \o q)[j] = IF j <= Len(p) THEN p[j] ELSE q[j - Len(p)]
    BY <2>1
  <2>3. \A j \in 1..(i - 1) : p[j] = seq[j]
    BY <1>3 DEF p
  <2>4. \A j \in i..(Len(seq) - 1) : q[j - (i - 1)] = seq[j + 1]
    <3> SUFFICES ASSUME NEW j \in i..(Len(seq) - 1)
                 PROVE  q[j - (i - 1)] = seq[j + 1]
      OBVIOUS
    <3>1. j - (i - 1) \in 1..(Len(seq) - i) /\ i + (j - (i - 1)) = j + 1
      BY <1>1
    <3> QED
      BY <1>4, <3>1 DEF q
  <2>5. w = p \o q
    BY DEF p, q
  <2> HIDE DEF w
  <2>6. Len(w) = Len(seq) - 1
    <3>1. i \in Int /\ Len(seq) \in Int
      BY <1>1
    <3>2. Len(w) = Len(p) + Len(q)
      BY <2>2, <2>5
    <3> QED
      BY <2>1, <3>1, <3>2
  <2>7. ASSUME NEW j \in 1..Len(w)
        PROVE  w[j] = IF j <= i - 1 THEN seq[j] ELSE seq[j + 1]
    <3>1. CASE j <= i - 1
      BY <1>1, <2>1, <2>2, <2>3, <2>5, <2>6, <3>1
    <3>2. CASE ~(j <= i - 1)
      <4>1. j \in i..(Len(seq) - 1)
        BY <1>1, <2>6, <3>2
      <4>2. w[j] = q[j - (i - 1)]
        BY <1>1, <2>1, <2>2, <2>5, <2>6, <3>2
      <4> QED
        BY <2>4, <3>2, <4>1, <4>2
    <3> QED
      BY <3>1, <3>2
  <2> QED
    BY <2>2, <2>5, <2>6, <2>7
<1> HIDE DEF w
<1>7. Without(seq, x) = w
  BY <1>2 DEF w
<1> QED
  BY <1>1, <1>5, <1>6, <1>7

LEMMA WithoutIsSeq ==
    ASSUME NEW S, NEW seq \in Seq(S), NEW x
    PROVE  /\ Without(seq, x) \in Seq(S)
           /\ Elements(Without(seq, x)) \subseteq Elements(seq)
<1>1. CASE x \notin Elements(seq)
  BY <1>1 DEF Without
<1>2. CASE x \in Elements(seq)
  <2> DEFINE w == Without(seq, x)
  <2>1. PICK i \in 1..Len(seq) :
          /\ w \in Seq(S)
          /\ Len(w) = Len(seq) - 1
          /\ \A j \in 1..Len(w) : w[j] = IF j <= i - 1 THEN seq[j] ELSE seq[j + 1]
    BY <1>2, WithoutAt
  <2> HIDE DEF w
  <2>2. ASSUME NEW j \in DOMAIN w PROVE \E k \in DOMAIN seq : w[j] = seq[k]
    <3>1. j \in 1..Len(w)
      BY <2>1
    <3>2. j \in 1..Len(seq) /\ j + 1 \in 1..Len(seq)
      BY <2>1, <3>1
    <3> QED
      BY <2>1, <3>1, <3>2
  <2>3. w \in Seq(S) /\ Elements(w) \subseteq Elements(seq)
    BY <2>1, <2>2 DEF Elements
  <2> QED
    BY <2>3 DEF w
<1> QED
  BY <1>1, <1>2

LEMMA TouchedIsSeq ==
    ASSUME NEW S, NEW seq \in Seq(S), NEW x \in S
    PROVE  /\ Touched(seq, x) \in Seq(S)
           /\ Elements(Touched(seq, x)) \subseteq Elements(seq) \cup {x}
<1>1. Without(seq, x) \in Seq(S) /\ Elements(Without(seq, x)) \subseteq Elements(seq)
  BY WithoutIsSeq
<1> QED
  BY <1>1, AppendElements DEF Touched

LEMMA EvictedIsSeq ==
    ASSUME NEW S, NEW seq \in Seq(S), NEW x \in S
    PROVE  /\ Evicted(Append(seq, x)) \in Seq(S)
           /\ Elements(Evicted(Append(seq, x))) \subseteq Elements(seq) \cup {x}
<1> DEFINE a == Append(seq, x)
<1>1. a \in Seq(S) /\ Elements(a) = Elements(seq) \cup {x} /\ a # <<>>
  BY AppendElements
<1> HIDE DEF a
<1>2. Tail(a) \in Seq(S) /\ Elements(Tail(a)) \subseteq Elements(a)
  BY <1>1, TailElements
<1> QED
  BY <1>1, <1>2 DEF Evicted, a

-----------------------------------------------------------------------------
(* Types.                                                                  *)

(* Which local variables are in use in which phase.                        *)
Shape ==
    \A t \in Threads :
        /\ pc[t] # "idle" => request[t] \in Request
        /\ held[t] # NoRuntime => pc[t] \in {"run", "table", "end"}
        /\ pc[t] \in {"run", "table", "end"} => held[t] \in Runtimes

TypeInv == TypeOK /\ Shape

(* Runtime objects that are cached or in use exist; one in use is its      *)
(* user's; and whoever has a runtime, or is about to open one, owns the    *)
(* database.                                                               *)
Objects ==
    /\ \A s \in Servers : \A r \in Elements(cache[s]) : runtime[r] # NoRuntime
    /\ \A t \in Threads : held[t] # NoRuntime =>
          runtime[held[t]] # NoRuntime /\ runtime[held[t]].user = User(t)
    /\ \A r \in Runtimes : runtime[r] # NoRuntime =>
          owner[runtime[r].user] = runtime[r].user
    /\ \A t \in Threads : pc[t] = "open" => owner[User(t)] = User(t)

LEMMA AskedIsRequest == Asked \subseteq Request
BY BoundsAssumption DEF Asked, Request, Operations

LEMMA RowsInIsRows == ASSUME NEW table PROVE RowsIn(table) \subseteq Rows
BY DEF RowsIn

LEMMA CollectedType ==
    ASSUME NEW objects \in [Runtimes -> Runtime \cup {NoRuntime}], NEW entries, NEW users
    PROVE  Collected(objects, entries, users) \in [Runtimes -> Runtime \cup {NoRuntime}]
BY DEF Collected

LEMMA NoSearchType == NoSearch \in Search
BY DEF NoSearch, Search

LEMMA InitTypeInv == Init => TypeInv
<1> SUFFICES ASSUME Init PROVE TypeInv
  OBVIOUS
<1>1. index \in [Files -> SUBSET Rows]
  BY RowsInIsRows, BoundsAssumption DEF Init
<1>2. search \in [Threads -> Search]
  BY NoSearchType DEF Init
<1>3. <<>> \in Seq(Runtimes) /\ <<>> \in Seq(Users)
  OBVIOUS
<1>4. requests \in 0..MaxRequests /\ errors \in 0..MaxErrors
  BY BoundsAssumption DEF Init
<1> QED
  BY <1>1, <1>2, <1>3, <1>4, BoundsAssumption DEF Init, TypeInv, TypeOK, Shape, Files

LEMMA QuitType ==
    ASSUME TypeInv, NEW t \in Threads, Quit(t)
    PROVE  /\ pc' \in [Threads -> {"idle", "bind", "insert", "open", "run", "table", "end"}]
           /\ request' \in [Threads -> Request \cup {Nothing}]
           /\ held' \in [Threads -> Runtimes \cup {NoRuntime}]
           /\ search' \in [Threads -> Search]
           /\ runtime' \in [Runtimes -> Runtime \cup {NoRuntime}]
           /\ Shape'
<1>1. search' \in [Threads -> Search]
  BY NoSearchType DEF TypeInv, TypeOK, Quit
<1>2. runtime' \in [Runtimes -> Runtime \cup {NoRuntime}]
  BY CollectedType DEF TypeInv, TypeOK, Quit
<1> QED
  BY <1>1, <1>2 DEF TypeInv, TypeOK, Shape, Quit

LEMMA WriteType ==
    ASSUME TypeInv, NEW t \in Threads, pc[t] = "run",
           NEW table \in [Memories -> Texts \cup {NoText}], NEW rows \in SUBSET Rows,
           Write(t, table, rows)
    PROVE  TypeInv'
<1>1. User(t) \in Files
  BY DEF TypeInv, Shape, User, Request, Files
<1>2. memories' \in [Files -> [Memories -> Texts \cup {NoText}]]
  BY DEF Write, TypeInv, TypeOK
<1>3. index' \in [Files -> SUBSET Rows]
  BY DEF Write, TypeInv, TypeOK
<1>4. search' \in [Threads -> Search]
  <2>1. ASSUME NEW u \in Threads
        PROVE  [search[u] EXCEPT !.always = @ \cap RowsIn(table),
                                 !.ever = @ \cup RowsIn(table)] \in Search
    <3>1. search[u] \in Search
      BY DEF TypeInv, TypeOK
    <3> QED
      BY <3>1, RowsInIsRows DEF Search
  <2>2. search' = Noticed(User(t), table)
    BY DEF Write
  <2>3. search \in [Threads -> Search]
    BY DEF TypeInv, TypeOK
  <2> QED
    BY <2>1, <2>2, <2>3 DEF Noticed
<1>5. pc' \in [Threads -> {"idle", "bind", "insert", "open", "run", "table", "end"}]
  BY DEF Write, TypeInv, TypeOK
<1>6. Shape'
  BY DEF Write, TypeInv, TypeOK, Shape
<1>7. UNCHANGED <<owner, cache, runtime, request, held, requests, errors, recent,
                  abandoned>>
  BY DEF Write
<1> QED
  BY <1>2, <1>3, <1>4, <1>5, <1>6, <1>7 DEF TypeInv, TypeOK

LEMMA StartedType ==
    ASSUME TypeInv, NEW t \in Threads, NEW rows \in SUBSET Rows, Started(t, rows)
    PROVE  /\ search' \in [Threads -> Search]
           /\ pc' \in [Threads -> {"idle", "bind", "insert", "open", "run", "table", "end"}]
<1>1. [found |-> rows, always |-> RowsIn(memories[User(t)]),
       ever |-> RowsIn(memories[User(t)])] \in Search
  BY RowsInIsRows DEF Search
<1> QED
  BY <1>1 DEF TypeInv, TypeOK, Started

LEMMA LimitedIsSubset ==
    ASSUME NEW rows, NEW few \in Limited(rows)
    PROVE  few \subseteq rows
BY DEF Limited

LEMMA HitType ==
    ASSUME TypeInv, NEW t \in Threads, NEW q \in Asked, Hit(t, q)
    PROVE  TypeInv'
<1> DEFINE s == ServerOf[t]
<1>1. s \in Servers /\ q \in Request
  BY BoundsAssumption, AskedIsRequest
<1>2. PICK r \in CachedFor(s, q.user) :
         /\ cache' = [cache EXCEPT ![s] = Touched(@, r)]
         /\ held' = [held EXCEPT ![t] = r]
  BY DEF Hit
<1>3. cache[s] \in Seq(Runtimes) /\ recent[s] \in Seq(Users)
  BY <1>1 DEF TypeInv, TypeOK
<1>4. r \in Runtimes
  BY <1>2, <1>3 DEF CachedFor, Elements
<1>5. cache' \in [Servers -> Seq(Runtimes)]
  BY <1>2, <1>3, <1>4, TouchedIsSeq DEF TypeInv, TypeOK
<1>6. q.user \in Users
  BY <1>1 DEF Request
<1>7. recent' \in [Servers -> Seq(Users)]
  BY <1>3, <1>6, TouchedIsSeq DEF TypeInv, TypeOK, Hit
<1>8. requests' \in 0..MaxRequests
  BY BoundsAssumption DEF TypeInv, TypeOK, Hit
<1>9. /\ held' \in [Threads -> Runtimes \cup {NoRuntime}]
      /\ request' \in [Threads -> Request \cup {Nothing}]
      /\ pc' \in [Threads -> {"idle", "bind", "insert", "open", "run", "table", "end"}]
  BY <1>1, <1>2, <1>4 DEF TypeInv, TypeOK, Hit
<1>10. Shape'
  BY <1>1, <1>2, <1>4 DEF TypeInv, TypeOK, Shape, Hit
<1>11. UNCHANGED <<owner, memories, index, runtime, search, errors, abandoned>>
  BY DEF Hit, files
<1> QED
  BY <1>5, <1>7, <1>8, <1>9, <1>10, <1>11 DEF TypeInv, TypeOK

LEMMA OpenType ==
    ASSUME TypeInv, NEW t \in Threads, NEW r \in Runtimes, Open(t, r)
    PROVE  TypeInv'
<1> DEFINE s == ServerOf[t]
           u == request[t].user
<1>1. s \in Servers /\ u \in Users
  BY BoundsAssumption DEF TypeInv, Shape, Open, Request
<1>2. cache[s] \in Seq(Runtimes) /\ recent[s] \in Seq(Users)
  BY <1>1 DEF TypeInv, TypeOK
<1>3. cache' \in [Servers -> Seq(Runtimes)]
  BY <1>2, EvictedIsSeq DEF TypeInv, TypeOK, Open
<1>4. recent' \in [Servers -> Seq(Users)]
  BY <1>1, <1>2, TouchedIsSeq DEF TypeInv, TypeOK, Open
<1>5. NewRuntime(u) \in Runtime
  BY <1>1, BoundsAssumption DEF NewRuntime, Runtime
<1>6. runtime' \in [Runtimes -> Runtime \cup {NoRuntime}]
  <2>1. [runtime EXCEPT ![r] = NewRuntime(u)] \in [Runtimes -> Runtime \cup {NoRuntime}]
    BY <1>5 DEF TypeInv, TypeOK
  <2> QED
    BY <2>1, CollectedType DEF Open
<1>7. /\ held' \in [Threads -> Runtimes \cup {NoRuntime}]
      /\ pc' \in [Threads -> {"idle", "bind", "insert", "open", "run", "table", "end"}]
      /\ Shape'
  BY DEF TypeInv, TypeOK, Shape, Open
<1>8. UNCHANGED <<owner, memories, index, request, search, requests, errors, abandoned>>
  BY DEF Open, files
<1> QED
  BY <1>3, <1>4, <1>6, <1>7, <1>8 DEF TypeInv, TypeOK

(* What the answer of a search is made of.                                 *)
LEMMA SearchTableParts ==
    ASSUME NEW t \in Threads, SearchTable(t)
    PROVE  \E like \in Limited(Matching(RowsIn(memories[User(t)]), request[t].query)) :
           \E some \in Merged(search[t].found \cup like) :
           \E rows \in Limited(some) :
              search' = [search EXCEPT ![t].found = rows]
<1>1. PICK like \in Limited(Matching(RowsIn(memories[User(t)]), request[t].query)) :
         \E rows \in UNION {Limited(some) : some \in Merged(search[t].found \cup like)} :
            search' = [search EXCEPT ![t].found = rows]
  BY DEF SearchTable
<1>2. PICK rows \in UNION {Limited(some) : some \in Merged(search[t].found \cup like)} :
         search' = [search EXCEPT ![t].found = rows]
  BY <1>1
<1>3. PICK some \in Merged(search[t].found \cup like) : rows \in Limited(some)
  BY <1>2
<1> QED
  BY <1>1, <1>2, <1>3

LEMMA SearchTableType ==
    ASSUME TypeInv, NEW t \in Threads, SearchTable(t)
    PROVE  TypeInv'
<1>1. PICK like \in Limited(Matching(RowsIn(memories[User(t)]), request[t].query)) :
         \E rows \in SUBSET (search[t].found \cup like) :
            search' = [search EXCEPT ![t].found = rows]
  BY SearchTableParts, LimitedIsSubset DEF Merged
<1>r. PICK rows \in SUBSET (search[t].found \cup like) :
         search' = [search EXCEPT ![t].found = rows]
  BY <1>1
<1>2. like \subseteq Rows
  BY <1>1, LimitedIsSubset, RowsInIsRows DEF Matching
<1>3. search[t] \in Search
  BY DEF TypeInv, TypeOK
<1>4. rows \subseteq Rows
  BY <1>r, <1>2, <1>3 DEF Search
<1>5. [search[t] EXCEPT !.found = rows] \in Search
  BY <1>3, <1>4 DEF Search
<1>6. search' \in [Threads -> Search]
  BY <1>r, <1>5 DEF TypeInv, TypeOK
<1>7. pc' \in [Threads -> {"idle", "bind", "insert", "open", "run", "table", "end"}]
  BY DEF TypeInv, TypeOK, SearchTable
<1>8. Shape'
  BY DEF TypeInv, TypeOK, Shape, SearchTable
<1>9. UNCHANGED <<owner, memories, index, cache, runtime, request, held, requests,
                  errors, recent, abandoned>>
  BY DEF SearchTable, files
<1> QED
  BY <1>6, <1>7, <1>8, <1>9 DEF TypeInv, TypeOK

LEMMA RestartType ==
    ASSUME TypeInv, NEW s \in Servers, Restart(s)
    PROVE  TypeInv'
<1>1. <<>> \in Seq(Runtimes) /\ <<>> \in Seq(Users)
  OBVIOUS
<1>2. cache' \in [Servers -> Seq(Runtimes)] /\ recent' \in [Servers -> Seq(Users)]
  BY <1>1 DEF TypeInv, TypeOK, Restart
<1>3. runtime' \in [Runtimes -> Runtime \cup {NoRuntime}]
  BY CollectedType DEF TypeInv, TypeOK, Restart
<1>4. search' \in [Threads -> Search]
  BY NoSearchType DEF TypeInv, TypeOK, Restart
<1>5. errors' \in 0..MaxErrors
  BY BoundsAssumption DEF TypeInv, TypeOK, Restart
<1>6. /\ held' \in [Threads -> Runtimes \cup {NoRuntime}]
      /\ request' \in [Threads -> Request \cup {Nothing}]
      /\ pc' \in [Threads -> {"idle", "bind", "insert", "open", "run", "table", "end"}]
      /\ Shape'
  BY DEF TypeInv, TypeOK, Shape, Restart
<1>7. UNCHANGED <<owner, memories, index, requests, abandoned>>
  BY DEF Restart, files
<1> QED
  BY <1>2, <1>3, <1>4, <1>5, <1>6, <1>7 DEF TypeInv, TypeOK

LEMMA NextTypeInv == TypeInv /\ Objects /\ [Next]_vars => TypeInv'
<1> SUFFICES ASSUME TypeInv, Objects, [Next]_vars PROVE TypeInv'
  OBVIOUS
<1> USE DEF TypeInv
<1>1. ASSUME NEW t \in Threads, NEW q \in Asked, Miss(t, q) PROVE TypeInv'
  <2>1. q \in Request
    BY AskedIsRequest
  <2>2. requests' \in 0..MaxRequests
    BY <1>1, BoundsAssumption DEF TypeOK, Miss
  <2>3. TypeOK'
    BY <1>1, <2>1, <2>2 DEF TypeOK, Miss, files
  <2>4. Shape'
    BY <1>1, <2>1 DEF TypeOK, Shape, Miss
  <2> QED
    BY <2>3, <2>4
<1>2. ASSUME NEW t \in Threads, ReadOwner(t) PROVE TypeInv'
  <2>1. TypeOK'
    BY <1>2 DEF TypeOK, ReadOwner, files
  <2>2. Shape'
    BY <1>2 DEF TypeOK, Shape, ReadOwner
  <2> QED
    BY <2>1, <2>2
<1>3. ASSUME NEW t \in Threads, InsertOwner(t) PROVE TypeInv'
  <2>1. request[t].user \in Users
    BY <1>3 DEF Shape, InsertOwner, Request
  <2>2. TypeOK'
    BY <1>3, <2>1 DEF TypeOK, InsertOwner
  <2>3. Shape'
    BY <1>3 DEF TypeOK, Shape, InsertOwner
  <2> QED
    BY <2>2, <2>3
<1>4. ASSUME NEW t \in Threads, RefuseOwner(t) PROVE TypeInv'
  BY <1>4, QuitType DEF TypeOK, RefuseOwner, files
<1>5. ASSUME NEW t \in Threads, NEW m \in Memories, NEW x \in Texts,
             InsertMemory(t, m, x) \/ ReinforceMemory(t, m, x)
      PROVE  TypeInv'
  <2>1. User(t) \in Files /\ pc[t] = "run"
    BY <1>5 DEF InsertMemory, ReinforceMemory, Shape, User, Request, Files
  <2>2. [memories[User(t)] EXCEPT ![m] = x] \in [Memories -> Texts \cup {NoText}]
    BY <2>1 DEF TypeOK
  <2>3. index[User(t)] \in SUBSET Rows /\ <<m, x>> \in Rows
    BY <2>1 DEF TypeOK, Rows
  <2>4. CASE InsertMemory(t, m, x)
    <3> DEFINE rows == IF Fts(t) THEN index[User(t)] \cup {<<m, x>>} ELSE index[User(t)]
    <3>1. rows \in SUBSET Rows
      BY <2>3
    <3>2. Write(t, [memories[User(t)] EXCEPT ![m] = x], rows)
      BY <2>4 DEF InsertMemory
    <3> QED
      BY <2>1, <2>2, <3>1, <3>2, WriteType
  <2>5. CASE ReinforceMemory(t, m, x)
    <3> DEFINE rows == IF Fts(t) THEN {row \in index[User(t)] : row[1] # m} \cup {<<m, x>>}
                       ELSE index[User(t)]
    <3>1. rows \in SUBSET Rows
      BY <2>3
    <3>2. Write(t, [memories[User(t)] EXCEPT ![m] = x], rows)
      BY <2>5 DEF ReinforceMemory
    <3> QED
      BY <2>1, <2>2, <3>1, <3>2, WriteType
  <2> QED
    BY <1>5, <2>4, <2>5
<1>6. ASSUME NEW t \in Threads, KeepNothing(t) PROVE TypeInv'
  <2>1. TypeOK'
    BY <1>6 DEF TypeOK, KeepNothing, files
  <2>2. Shape'
    BY <1>6 DEF TypeOK, Shape, KeepNothing
  <2> QED
    BY <2>1, <2>2
<1>7. ASSUME NEW t \in Threads, Clear(t) PROVE TypeInv'
  <2> DEFINE rows == IF Fts(t) THEN {} ELSE index[User(t)]
  <2>1. User(t) \in Files /\ pc[t] = "run"
    BY <1>7 DEF Clear, Shape, User, Request, Files
  <2>2. rows \in SUBSET Rows
    BY <2>1 DEF TypeOK
  <2>3. Write(t, [m \in Memories |-> NoText], rows)
    BY <1>7 DEF Clear
  <2>4. [m \in Memories |-> NoText] \in [Memories -> Texts \cup {NoText}]
    OBVIOUS
  <2> QED
    BY <2>1, <2>2, <2>3, <2>4, WriteType
<1>8. ASSUME NEW t \in Threads, SearchIndex(t) \/ SearchIndexFails(t) PROVE TypeInv'
  <2>1. PICK rows \in SUBSET Rows : Started(t, rows)
    <3>1. CASE SearchIndex(t)
      <4>1. PICK rows \in FoundIn(IF Fts(t) THEN Indexed(t) ELSE {}) : Started(t, rows)
        BY <3>1 DEF SearchIndex
      <4>2. rows \subseteq Rows
        BY <4>1, RowsInIsRows DEF FoundIn, Indexed
      <4> QED
        BY <4>1, <4>2
    <3>2. CASE SearchIndexFails(t)
      BY <3>2 DEF SearchIndexFails
    <3> QED
      BY <1>8, <3>1, <3>2
  <2>2. pc[t] = "run" /\ held[t] \in Runtimes
    BY <1>8 DEF Shape, SearchIndex, SearchIndexFails
  <2>3. runtime' \in [Runtimes -> Runtime \cup {NoRuntime}]
    <3>1. CASE SearchIndex(t)
      BY <3>1 DEF TypeOK, SearchIndex
    <3>2. CASE SearchIndexFails(t)
      <4>1. runtime[held[t]] \in Runtime
        BY <2>2, NoneAssumption DEF TypeOK, Objects
      <4>2. [runtime[held[t]] EXCEPT !.fts = FALSE] \in Runtime
        BY <4>1 DEF Runtime
      <4> QED
        BY <2>2, <3>2, <4>2 DEF TypeOK, SearchIndexFails
    <3> QED
      BY <1>8, <3>1, <3>2
  <2>4. errors' \in 0..MaxErrors
    BY <1>8, BoundsAssumption DEF TypeOK, SearchIndex, SearchIndexFails
  <2>5. Shape'
    BY <1>8, <2>2 DEF TypeOK, Shape, SearchIndex, SearchIndexFails, Started
  <2>6. UNCHANGED <<owner, memories, index, cache, request, held, requests, recent>>
    BY <1>8 DEF SearchIndex, SearchIndexFails, files
  <2>7. abandoned' \subseteq Files
    <3>1. User(t) \in Files
      BY <2>2 DEF Shape, User, Request, Files
    <3>2. abandoned' \subseteq abandoned \cup {User(t)}
      BY <1>8 DEF SearchIndex, SearchIndexFails, files
    <3> QED
      BY <3>1, <3>2 DEF TypeOK
  <2> QED
    BY <2>1, <2>3, <2>4, <2>5, <2>6, <2>7, StartedType DEF TypeOK
<1>9. ASSUME NEW t \in Threads, Return(t) PROVE TypeInv'
  BY <1>9, QuitType DEF TypeOK, Return, files
<1>10. ASSUME NEW t \in Threads, Fail(t) PROVE TypeInv'
  <2>1. errors' \in 0..MaxErrors
    BY <1>10, BoundsAssumption DEF TypeOK, Fail
  <2> QED
    BY <1>10, <2>1, QuitType DEF TypeOK, Fail, files
<1>11. CASE UNCHANGED vars
  BY <1>11 DEF vars, files, TypeOK, Shape
<1> QED
  BY <1>1, <1>2, <1>3, <1>4, <1>5, <1>6, <1>7, <1>8, <1>9, <1>10, <1>11,
     HitType, OpenType, SearchTableType, RestartType DEF Next

-----------------------------------------------------------------------------
(* Runtime objects and owners.                                             *)

LEMMA InitObjects == Init => Objects
<1> SUFFICES ASSUME Init PROVE Objects
  OBVIOUS
<1>1. \A s \in Servers : Elements(cache[s]) = {}
  BY DEF Init, Elements
<1> QED
  BY <1>1 DEF Init, Objects

(* Collection spares what is cached or in use.                             *)
LEMMA CollectedKeeps ==
    ASSUME NEW objects, NEW entries, NEW users, NEW r \in Runtimes,
           \/ \E s \in Servers : r \in Elements(entries[s])
           \/ \E t \in Threads : users[t] = r
    PROVE  Collected(objects, entries, users)[r] = objects[r]
BY DEF Collected

LEMMA CollectedSome ==
    ASSUME NEW objects, NEW entries, NEW users, NEW r \in Runtimes,
           Collected(objects, entries, users)[r] # NoRuntime
    PROVE  Collected(objects, entries, users)[r] = objects[r]
BY DEF Collected

(* Entries of a cache are runtimes.                                        *)
LEMMA EntriesAreRuntimes ==
    ASSUME TypeInv, NEW s \in Servers
    PROVE  Elements(cache[s]) \subseteq Runtimes
BY DEF TypeInv, TypeOK, Elements

(* Threads that end or stop, caches that shrink.                           *)
LEMMA DropObjects ==
    ASSUME TypeInv, Objects, UNCHANGED owner,
           runtime' = Collected(runtime, cache', held'),
           \A s \in Servers : Elements(cache'[s]) \subseteq Elements(cache[s]),
           \A t \in Threads : held'[t] # NoRuntime =>
               held'[t] = held[t] /\ User(t)' = User(t),
           \A t \in Threads : pc'[t] = "open" =>
               pc[t] = "open" /\ User(t)' = User(t)
    PROVE  Objects'
<1>1. ASSUME NEW s \in Servers, NEW r \in Elements(cache'[s])
      PROVE  runtime'[r] # NoRuntime
  <2>1. r \in Elements(cache[s]) /\ r \in Runtimes
    BY <1>1, EntriesAreRuntimes
  <2>2. runtime'[r] = runtime[r]
    BY <1>1, <2>1, CollectedKeeps
  <2> QED
    BY <2>1, <2>2 DEF Objects
<1>2. ASSUME NEW t \in Threads, held'[t] # NoRuntime
      PROVE  runtime'[held'[t]] # NoRuntime /\ runtime'[held'[t]].user = User(t)'
  <2>1. held'[t] \in Runtimes
    BY <1>2 DEF TypeInv, TypeOK
  <2>2. runtime'[held'[t]] = runtime[held'[t]]
    BY <2>1, CollectedKeeps
  <2> QED
    BY <1>2, <2>2 DEF Objects
<1>3. ASSUME NEW r \in Runtimes, runtime'[r] # NoRuntime
      PROVE  owner'[runtime'[r].user] = runtime'[r].user
  BY <1>3, CollectedSome DEF Objects
<1>4. ASSUME NEW t \in Threads, pc'[t] = "open"
      PROVE  owner'[User(t)'] = User(t)'
  BY <1>4 DEF Objects
<1> QED
  BY <1>1, <1>2, <1>3, <1>4 DEF Objects

LEMMA QuitObjects ==
    ASSUME TypeInv, Objects, NEW t \in Threads, Quit(t), UNCHANGED <<owner, cache>>
    PROVE  Objects'
<1>1. \A u \in Threads : held'[u] # NoRuntime => held'[u] = held[u] /\ User(u)' = User(u)
  BY DEF Quit, TypeInv, TypeOK, User
<1>2. \A u \in Threads : pc'[u] = "open" => pc[u] = "open" /\ User(u)' = User(u)
  BY DEF Quit, TypeInv, TypeOK, User
<1>3. runtime' = Collected(runtime, cache', held')
  BY DEF Quit
<1> QED
  BY <1>1, <1>2, <1>3, DropObjects

(* Steps of a request that neither get nor open a runtime.                 *)
LEMMA RunObjects ==
    ASSUME TypeInv, Objects, UNCHANGED <<owner, cache, request, held>>,
           \A r \in Runtimes :
               \/ runtime'[r] = runtime[r]
               \/ runtime[r] # NoRuntime /\ runtime'[r] # NoRuntime
                   /\ runtime'[r].user = runtime[r].user,
           \A t \in Threads : pc'[t] = "open" => pc[t] = "open"
    PROVE  Objects'
<1>1. \A t \in Threads : held[t] # NoRuntime => held[t] \in Runtimes
  BY DEF TypeInv, TypeOK
<1>2. \A s \in Servers : Elements(cache[s]) \subseteq Runtimes
  BY EntriesAreRuntimes
<1>3. \A t \in Threads : User(t)' = User(t)
  BY DEF User
<1> QED
  BY <1>1, <1>2, <1>3 DEF Objects

LEMMA HitObjects ==
    ASSUME TypeInv, Objects, NEW t \in Threads, NEW q \in Asked, Hit(t, q)
    PROVE  Objects'
<1> DEFINE s == ServerOf[t]
<1>1. s \in Servers
  BY BoundsAssumption
<1>2. PICK r \in CachedFor(s, q.user) :
         /\ cache' = [cache EXCEPT ![s] = Touched(@, r)]
         /\ held' = [held EXCEPT ![t] = r]
  BY DEF Hit
<1>3. r \in Elements(cache[s]) /\ r \in Runtimes /\ runtime[r].user = q.user
  BY <1>1, <1>2, EntriesAreRuntimes DEF CachedFor
<1>4. runtime[r] # NoRuntime
  BY <1>1, <1>3 DEF Objects
<1>5. \A z \in Servers : Elements(cache'[z]) \subseteq Elements(cache[z]) \cup {r}
  <2>1. cache[s] \in Seq(Runtimes)
    BY <1>1 DEF TypeInv, TypeOK
  <2>2. Elements(Touched(cache[s], r)) \subseteq Elements(cache[s]) \cup {r}
    BY <1>3, <2>1, TouchedIsSeq
  <2> QED
    BY <1>1, <1>2, <2>2 DEF TypeInv, TypeOK
<1>6. \A z \in Servers : \A e \in Elements(cache'[z]) : runtime'[e] # NoRuntime
  BY <1>4, <1>5 DEF Objects, Hit
<1>7. \A u \in Threads : held'[u] # NoRuntime =>
         runtime'[held'[u]] # NoRuntime /\ runtime'[held'[u]].user = User(u)'
  BY <1>2, <1>3, <1>4 DEF Objects, Hit, TypeInv, TypeOK, User
<1>8. \A u \in Threads : pc'[u] = "open" => owner'[User(u)'] = User(u)'
  BY DEF Objects, Hit, TypeInv, TypeOK, User, files
<1>9. UNCHANGED <<owner, runtime>>
  BY DEF Hit, files
<1> QED
  BY <1>6, <1>7, <1>8, <1>9 DEF Objects

LEMMA OpenObjects ==
    ASSUME TypeInv, Objects, NEW t \in Threads, NEW r \in Runtimes, Open(t, r)
    PROVE  Objects'
<1> DEFINE s == ServerOf[t]
           opened == [runtime EXCEPT ![r] = NewRuntime(User(t))]
<1>1. s \in Servers
  BY BoundsAssumption
<1>2. runtime' = Collected(opened, cache', held')
  BY DEF Open, User
<1>3. /\ runtime[r] = NoRuntime
      /\ NewRuntime(User(t)) # NoRuntime
      /\ NewRuntime(User(t)).user = User(t)
      /\ owner[User(t)] = User(t)
  <2>1. User(t) \in Users
    BY DEF TypeInv, Shape, Open, User, Request
  <2>2. NewRuntime(User(t)) \in Runtime
    BY <2>1, BoundsAssumption DEF NewRuntime, Runtime
  <2> QED
    BY <2>2, NoneAssumption DEF Open, Objects, NewRuntime
<1>4. /\ opened[r] = NewRuntime(User(t))
      /\ \A e \in Runtimes \ {r} : opened[e] = runtime[e]
  BY DEF TypeInv, TypeOK
<1> HIDE DEF opened
<1>5. \A z \in Servers : Elements(cache'[z]) \subseteq Elements(cache[z]) \cup {r}
  <2>1. cache[s] \in Seq(Runtimes)
    BY <1>1 DEF TypeInv, TypeOK
  <2>2. Elements(Evicted(Append(cache[s], r))) \subseteq Elements(cache[s]) \cup {r}
    BY <2>1, EvictedIsSeq
  <2> QED
    BY <1>1, <2>2 DEF TypeInv, TypeOK, Open
<1>6. ASSUME NEW z \in Servers, NEW e \in Elements(cache'[z])
      PROVE  runtime'[e] # NoRuntime
  <2>1. e \in Runtimes /\ (e # r => runtime[e] # NoRuntime)
    BY <1>5, <1>6, EntriesAreRuntimes DEF Objects
  <2>2. runtime'[e] = opened[e]
    BY <1>2, <1>6, <2>1, CollectedKeeps
  <2> QED
    BY <1>3, <1>4, <2>1, <2>2
<1>7. ASSUME NEW u \in Threads, held'[u] # NoRuntime
      PROVE  runtime'[held'[u]] # NoRuntime /\ runtime'[held'[u]].user = User(u)'
  <2>1. held'[u] \in Runtimes
    BY <1>7 DEF Open, TypeInv, TypeOK
  <2>2. runtime'[held'[u]] = opened[held'[u]]
    BY <1>2, <2>1, CollectedKeeps
  <2>3. User(u)' = User(u)
    BY DEF Open, User
  <2>4. CASE u = t
    BY <1>3, <1>4, <2>2, <2>3, <2>4 DEF Open, TypeInv, TypeOK
  <2>5. CASE u # t
    <3>1. held'[u] = held[u]
      BY <2>5 DEF Open, TypeInv, TypeOK
    <3>2. runtime[held[u]] # NoRuntime /\ runtime[held[u]].user = User(u)
      BY <1>7, <3>1 DEF Objects
    <3> QED
      BY <1>3, <1>4, <2>1, <2>2, <2>3, <3>1, <3>2
  <2> QED
    BY <2>4, <2>5
<1>8. ASSUME NEW e \in Runtimes, runtime'[e] # NoRuntime
      PROVE  owner'[runtime'[e].user] = runtime'[e].user
  <2>1. runtime'[e] = opened[e]
    BY <1>2, <1>8, CollectedSome
  <2>2. UNCHANGED owner
    BY DEF Open, files
  <2> QED
    BY <1>3, <1>4, <1>8, <2>1, <2>2 DEF Objects
<1>9. \A u \in Threads : pc'[u] = "open" => owner'[User(u)'] = User(u)'
  BY DEF Objects, Open, TypeInv, TypeOK, User, files
<1> QED
  BY <1>6, <1>7, <1>8, <1>9 DEF Objects

LEMMA InsertOwnerObjects ==
    ASSUME TypeInv, Objects, NEW t \in Threads, InsertOwner(t)
    PROVE  Objects'
<1>1. /\ User(t) \in Files
      /\ owner[User(t)] \in {NoOwner, User(t)}
      /\ owner' = [owner EXCEPT ![User(t)] = User(t)]
  BY DEF InsertOwner, User, TypeInv, Shape, Request, Files
<1>2. \A u \in Files : owner[u] = u => owner'[u] = u
  BY <1>1 DEF TypeInv, TypeOK
<1>3. \A r \in Runtimes : runtime[r] # NoRuntime => runtime[r].user \in Files
  BY DEF TypeInv, TypeOK, Runtime, Files
<1>4. \A u \in Threads : User(u)' = User(u)
  BY DEF InsertOwner, User
<1>5. \A u \in Threads : pc'[u] = "open" => owner'[User(u)] = User(u)
  <2> SUFFICES ASSUME NEW u \in Threads, pc'[u] = "open"
               PROVE  owner'[User(u)] = User(u)
    OBVIOUS
  <2>1. CASE u = t
    BY <1>1, <2>1 DEF TypeInv, TypeOK
  <2>2. CASE u # t
    <3>1. pc[u] = "open"
      BY <2>2 DEF InsertOwner, TypeInv, TypeOK
    <3>2. User(u) \in Files
      BY <3>1 DEF TypeInv, Shape, Request, User, Files
    <3> QED
      BY <1>2, <3>1, <3>2 DEF Objects
  <2> QED
    BY <2>1, <2>2
<1>6. UNCHANGED <<cache, runtime, held>>
  BY DEF InsertOwner
<1> QED
  BY <1>2, <1>3, <1>4, <1>5, <1>6 DEF Objects

LEMMA NextObjects == TypeInv /\ Objects /\ [Next]_vars => Objects'
<1> SUFFICES ASSUME TypeInv, Objects, [Next]_vars PROVE Objects'
  OBVIOUS
<1>1. ASSUME NEW t \in Threads, NEW q \in Asked, Miss(t, q) PROVE Objects'
  <2>1. \A u \in Threads : held[u] # NoRuntime => User(u)' = User(u)
    BY <1>1 DEF Miss, TypeInv, TypeOK, Shape, User
  <2>2. \A u \in Threads : pc'[u] = "open" => pc[u] = "open" /\ User(u)' = User(u)
    BY <1>1 DEF Miss, TypeInv, TypeOK, User
  <2>3. UNCHANGED <<owner, cache, runtime, held>>
    BY <1>1 DEF Miss, files
  <2> QED
    BY <2>1, <2>2, <2>3 DEF Objects
<1>2. ASSUME NEW t \in Threads, ReadOwner(t) PROVE Objects'
  <2>1. \A u \in Threads : pc'[u] = "open" => owner[User(u)] = User(u)
    BY <1>2 DEF ReadOwner, TypeInv, TypeOK, Objects, User
  <2>2. UNCHANGED <<owner, cache, runtime, held, request>>
    BY <1>2 DEF ReadOwner, files
  <2>3. \A u \in Threads : User(u)' = User(u)
    BY <2>2 DEF User
  <2> QED
    BY <2>1, <2>2, <2>3 DEF Objects
<1>3. ASSUME NEW t \in Threads, RefuseOwner(t) \/ Return(t) \/ Fail(t) PROVE Objects'
  BY <1>3, QuitObjects DEF RefuseOwner, Return, Fail, files
<1>4. ASSUME NEW t \in Threads, NEW table, NEW rows, Write(t, table, rows) PROVE Objects'
  <2>1. \A u \in Threads : pc'[u] = "open" => pc[u] = "open"
    BY <1>4 DEF Write, TypeInv, TypeOK
  <2> QED
    BY <1>4, <2>1, RunObjects DEF Write
<1>5. ASSUME NEW t \in Threads, KeepNothing(t) \/ SearchIndex(t) \/ SearchTable(t)
      PROVE  Objects'
  <2>1. \A u \in Threads : pc'[u] = "open" => pc[u] = "open"
    BY <1>5 DEF KeepNothing, SearchIndex, SearchTable, Started, TypeInv, TypeOK
  <2> QED
    BY <1>5, <2>1, RunObjects DEF KeepNothing, SearchIndex, SearchTable, files
<1>6. ASSUME NEW t \in Threads, SearchIndexFails(t) PROVE Objects'
  <2>1. \A u \in Threads : pc'[u] = "open" => pc[u] = "open"
    BY <1>6 DEF SearchIndexFails, Started, TypeInv, TypeOK
  <2>2. held[t] \in Runtimes /\ runtime[held[t]] \in Runtime
    BY <1>6, NoneAssumption DEF SearchIndexFails, TypeInv, TypeOK, Shape, Objects
  <2>3. /\ [runtime[held[t]] EXCEPT !.fts = FALSE] \in Runtime
        /\ [runtime[held[t]] EXCEPT !.fts = FALSE].user = runtime[held[t]].user
    BY <2>2 DEF Runtime
  <2>4. \A r \in Runtimes :
           \/ runtime'[r] = runtime[r]
           \/ runtime[r] # NoRuntime /\ runtime'[r] # NoRuntime
               /\ runtime'[r].user = runtime[r].user
    BY <1>6, <2>2, <2>3, NoneAssumption DEF SearchIndexFails, TypeInv, TypeOK
  <2> QED
    BY <1>6, <2>1, <2>4, RunObjects DEF SearchIndexFails, files
<1>7. ASSUME NEW s \in Servers, Restart(s) PROVE Objects'
  <2>1. \A z \in Servers : Elements(cache'[z]) \subseteq Elements(cache[z])
    BY <1>7 DEF Restart, TypeInv, TypeOK, Elements
  <2>2. \A u \in Threads : held'[u] # NoRuntime => held'[u] = held[u] /\ User(u)' = User(u)
    BY <1>7 DEF Restart, User
  <2>3. \A u \in Threads : pc'[u] = "open" => pc[u] = "open" /\ User(u)' = User(u)
    BY <1>7 DEF Restart, User
  <2>4. runtime' = Collected(runtime, cache', held') /\ UNCHANGED owner
    BY <1>7 DEF Restart, files
  <2> QED
    BY <2>1, <2>2, <2>3, <2>4, DropObjects
<1>8. CASE UNCHANGED vars
  BY <1>8 DEF vars, files, Objects, User
<1> QED
  BY <1>1, <1>2, <1>3, <1>4, <1>5, <1>6, <1>7, <1>8, HitObjects, OpenObjects,
     InsertOwnerObjects DEF Next, InsertMemory, ReinforceMemory, Clear

(* The database, the tables and the local variables have their types, for  *)
(* every number of users, servers, threads, runtimes and memories.         *)
THEOREM TypeCorrect == Spec => []TypeOK
<1>1. Init => TypeInv /\ Objects
  BY InitTypeInv, InitObjects
<1>2. TypeInv /\ Objects /\ [Next]_vars => (TypeInv /\ Objects)'
  BY NextTypeInv, NextObjects
<1>3. TypeInv => TypeOK
  BY DEF TypeInv
<1> QED
  BY <1>1, <1>2, <1>3, PTL DEF Spec

(* A request is served by a runtime of its user, on a database that this   *)
(* user owns, even if the runtime was evicted, other processes open the    *)
(* database at the same time, or the file was copied from someone else's.  *)
THEOREM OwnersServed == Spec => []ServedByOwner
<1>1. Init => TypeInv /\ Objects
  BY InitTypeInv, InitObjects
<1>2. TypeInv /\ Objects /\ [Next]_vars => (TypeInv /\ Objects)'
  BY NextTypeInv, NextObjects
<1>3. TypeInv /\ Objects => ServedByOwner
  <2> SUFFICES ASSUME TypeInv, Objects, NEW t \in Threads, held[t] # NoRuntime
               PROVE  /\ runtime[held[t]] # NoRuntime
                      /\ runtime[held[t]].user = User(t)
                      /\ owner[User(t)] = User(t)
    BY DEF ServedByOwner
  <2>1. held[t] \in Runtimes
    BY DEF TypeInv, TypeOK
  <2> QED
    BY <2>1 DEF Objects
<1> QED
  BY <1>1, <1>2, <1>3, PTL DEF Spec

-----------------------------------------------------------------------------
(* The index and the table.                                                *)

(* Where no runtime has given up the index, every runtime uses it, and it  *)
(* is exact.                                                               *)
Exact ==
    /\ \A r \in Runtimes :
          runtime[r] # NoRuntime /\ runtime[r].user \notin abandoned => runtime[r].fts
    /\ \A u \in Files \ abandoned : index[u] = RowsIn(memories[u])

Mirror == FtsBuiltIn => Exact

LEMMA InitMirror == Init => Mirror
BY BoundsAssumption DEF Init, Mirror, Exact

(* The rows of a table in which one memory has got another text.           *)
LEMMA RowsOfChanged ==
    ASSUME NEW table \in [Memories -> Texts \cup {NoText}],
           NEW m \in Memories, NEW x \in Texts
    PROVE  RowsIn([table EXCEPT ![m] = x])
               = {row \in RowsIn(table) : row[1] # m} \cup {<<m, x>>}
<1> DEFINE new == [table EXCEPT ![m] = x]
<1>1. new[m] = x /\ \A n \in Memories \ {m} : new[n] = table[n]
  OBVIOUS
<1> HIDE DEF new
<1>2. ASSUME NEW row \in Rows
      PROVE  row \in RowsIn(new)
                 <=> row \in {r \in RowsIn(table) : r[1] # m} \cup {<<m, x>>}
  <2>1. row[1] \in Memories /\ row[2] \in Texts /\ row = <<row[1], row[2]>>
    BY DEF Rows
  <2>2. row = <<m, x>> <=> row[1] = m /\ row[2] = x
    BY <2>1
  <2> QED
    BY <1>1, <2>1, <2>2 DEF RowsIn
<1>3. <<m, x>> \in Rows
  BY DEF Rows
<1>4. RowsIn(new) \subseteq Rows /\ RowsIn(table) \subseteq Rows
  BY RowsInIsRows
<1> QED
  BY <1>2, <1>3, <1>4 DEF new

LEMMA WriteMirror ==
    ASSUME TypeInv, Objects, Exact, NEW t \in Threads, pc[t] = "run",
           NEW table, NEW rows, Write(t, table, rows),
           User(t) \notin abandoned /\ Fts(t) => rows = RowsIn(table)
    PROVE  Exact'
<1>1. held[t] \in Runtimes /\ held[t] # NoRuntime
  BY NoneAssumption DEF TypeInv, Shape
<1>2. User(t) \notin abandoned => Fts(t)
  BY <1>1 DEF Fts, Exact, Objects
<1>3. \A u \in Files \ abandoned : index'[u] = RowsIn(memories'[u])
  BY <1>2 DEF Write, TypeInv, TypeOK, Exact
<1> QED
  BY <1>3 DEF Write, Exact

(* Runtime objects that go leave the others as they are.                   *)
LEMMA DropMirror ==
    ASSUME Exact, UNCHANGED files, runtime' = Collected(runtime, cache', held')
    PROVE  Exact'
<1>1. \A r \in Runtimes : runtime'[r] # NoRuntime => runtime'[r] = runtime[r]
  BY CollectedSome
<1> QED
  BY <1>1 DEF files, Exact

LEMMA NextMirror == TypeInv /\ Objects /\ Mirror /\ [Next]_vars => Mirror'
<1> SUFFICES ASSUME TypeInv, Objects, Exact, FtsBuiltIn, [Next]_vars
             PROVE  Exact'
  BY DEF Mirror
<1>1. ASSUME NEW t \in Threads, NEW q \in Asked, Hit(t, q) \/ Miss(t, q) PROVE Exact'
  BY <1>1 DEF Hit, Miss, files, Exact
<1>2. ASSUME NEW t \in Threads, ReadOwner(t) \/ InsertOwner(t) PROVE Exact'
  BY <1>2 DEF ReadOwner, InsertOwner, files, Exact
<1>3. ASSUME NEW t \in Threads, RefuseOwner(t) \/ Return(t) \/ Fail(t) PROVE Exact'
  BY <1>3, DropMirror DEF RefuseOwner, Return, Fail, Quit
<1>4. ASSUME NEW t \in Threads, NEW r \in Runtimes, Open(t, r) PROVE Exact'
  <2> DEFINE opened == [runtime EXCEPT ![r] = NewRuntime(request[t].user)]
  <2>1. UNCHANGED files /\ runtime' = Collected(opened, cache', held')
    BY <1>4 DEF Open
  <2>2. /\ opened[r] = NewRuntime(request[t].user)
        /\ \A e \in Runtimes \ {r} : opened[e] = runtime[e]
    BY DEF TypeInv, TypeOK
  <2> HIDE DEF opened
  <2>3. \A e \in Runtimes : runtime'[e] # NoRuntime => runtime'[e] = opened[e]
    BY <2>1, CollectedSome
  <2>4. NewRuntime(request[t].user).fts
    BY DEF NewRuntime
  <2>5. ASSUME NEW e \in Runtimes, runtime'[e] # NoRuntime,
               runtime'[e].user \notin abandoned
        PROVE  runtime'[e].fts
    <3>1. CASE e = r
      BY <2>2, <2>3, <2>4, <2>5, <3>1
    <3>2. CASE e # r
      BY <2>2, <2>3, <2>5, <3>2 DEF Exact
    <3> QED
      BY <3>1, <3>2
  <2> QED
    BY <2>1, <2>5 DEF files, Exact
<1>5. ASSUME NEW t \in Threads, NEW m \in Memories, NEW x \in Texts, InsertMemory(t, m, x)
      PROVE  Exact'
  <2> DEFINE u == User(t)
             table == [memories[u] EXCEPT ![m] = x]
             rows == IF Fts(t) THEN index[u] \cup {<<m, x>>} ELSE index[u]
  <2>1. Write(t, table, rows) /\ pc[t] = "run" /\ memories[u][m] = NoText
    BY <1>5 DEF InsertMemory
  <2>2. u \in Files /\ memories[u] \in [Memories -> Texts \cup {NoText}]
    BY <2>1 DEF TypeInv, TypeOK, Shape, User, Request, Files
  <2>3. \A row \in RowsIn(memories[u]) : row[1] # m
    BY <2>1, NoneAssumption DEF RowsIn, Rows
  <2>4. RowsIn(table) = RowsIn(memories[u]) \cup {<<m, x>>}
    BY <2>2, <2>3, RowsOfChanged
  <2>5. u \notin abandoned /\ Fts(t) => rows = RowsIn(table)
    BY <2>2, <2>4 DEF Exact
  <2> HIDE DEF table, rows
  <2> QED
    BY <2>1, <2>5, WriteMirror
<1>6. ASSUME NEW t \in Threads, NEW m \in Memories, NEW x \in Texts, ReinforceMemory(t, m, x)
      PROVE  Exact'
  <2> DEFINE u == User(t)
             table == [memories[u] EXCEPT ![m] = x]
             rows == IF Fts(t) THEN {row \in index[u] : row[1] # m} \cup {<<m, x>>}
                     ELSE index[u]
  <2>1. Write(t, table, rows) /\ pc[t] = "run"
    BY <1>6 DEF ReinforceMemory
  <2>2. u \in Files /\ memories[u] \in [Memories -> Texts \cup {NoText}]
    BY <2>1 DEF TypeInv, TypeOK, Shape, User, Request, Files
  <2>3. u \notin abandoned /\ Fts(t) => rows = RowsIn(table)
    BY <2>2, RowsOfChanged DEF Exact
  <2> HIDE DEF table, rows
  <2> QED
    BY <2>1, <2>3, WriteMirror
<1>7. ASSUME NEW t \in Threads, Clear(t) PROVE Exact'
  <2> DEFINE table == [m \in Memories |-> NoText]
             rows == IF Fts(t) THEN {} ELSE index[User(t)]
  <2>1. Write(t, table, rows) /\ pc[t] = "run"
    BY <1>7 DEF Clear
  <2>2. RowsIn(table) = {}
    BY NoneAssumption DEF RowsIn, Rows
  <2>3. Fts(t) => rows = RowsIn(table)
    BY <2>2
  <2> HIDE DEF table, rows
  <2> QED
    BY <2>1, <2>3, WriteMirror
<1>8. ASSUME NEW t \in Threads, KeepNothing(t) \/ SearchIndex(t) \/ SearchTable(t)
      PROVE  Exact'
  BY <1>8 DEF KeepNothing, SearchIndex, SearchTable, files, Exact
<1>9. ASSUME NEW t \in Threads, SearchIndexFails(t) PROVE Exact'
  (* The runtime that loses the index is that of the user whose file is    *)
  (* abandoned.                                                            *)
  <2>1. held[t] \in Runtimes /\ held[t] # NoRuntime
    BY <1>9, NoneAssumption DEF SearchIndexFails, TypeInv, Shape
  <2>2. runtime[held[t]] \in Runtime /\ runtime[held[t]].user = User(t)
    BY <2>1 DEF Objects, TypeInv, TypeOK
  <2>3. runtime'[held[t]].user \in abandoned'
    BY <1>9, <2>1, <2>2 DEF SearchIndexFails, TypeInv, TypeOK, Runtime
  <2>4. \A r \in Runtimes \ {held[t]} : runtime'[r] = runtime[r]
    BY <1>9 DEF SearchIndexFails, TypeInv, TypeOK
  <2>5. abandoned \subseteq abandoned' /\ UNCHANGED <<memories, index>>
    BY <1>9 DEF SearchIndexFails
  <2> QED
    BY <2>3, <2>4, <2>5 DEF Exact
<1>10. ASSUME NEW s \in Servers, Restart(s) PROVE Exact'
  BY <1>10, DropMirror DEF Restart
<1>11. CASE UNCHANGED vars
  BY <1>11 DEF vars, files, Exact
<1> QED
  BY <1>1, <1>2, <1>3, <1>4, <1>5, <1>6, <1>7, <1>8, <1>9, <1>10, <1>11 DEF Next

(* An index that no runtime has ever given up holds exactly the rows of    *)
(* the table, however many runtimes write to them, fail or are restarted,  *)
(* and whatever became of the other databases.                             *)
THEOREM IndexExact == Spec => []IndexMirrors
<1>1. Init => TypeInv /\ Objects /\ Mirror
  BY InitTypeInv, InitObjects, InitMirror
<1>2. TypeInv /\ Objects /\ Mirror /\ [Next]_vars => (TypeInv /\ Objects /\ Mirror)'
  BY NextTypeInv, NextObjects, NextMirror
<1>3. Mirror => IndexMirrors
  BY DEF Mirror, Exact, IndexMirrors
<1> QED
  BY <1>1, <1>2, <1>3, PTL DEF Spec

-----------------------------------------------------------------------------
(* Searches.                                                               *)

(* What the two properties say of an answer.                               *)
Good(t) ==
    /\ search[t].found \subseteq search[t].ever
    /\ Cardinality(search[t].found) <= SearchLimit
    /\ \A a, b \in search[t].found : a[1] = b[1] => a = b
    /\ \/ Cardinality(search[t].found) = SearchLimit
       \/ \A row \in Matching(search[t].always, request[t].query) :
             \E answer \in search[t].found : answer[1] = row[1]

(* A search under way knows what was there all along and what was there at *)
(* some time; an answered one is as it should be.                          *)
Searching ==
    \A t \in Threads :
        /\ pc[t] = "table" =>
             /\ request[t].op = "search"
             /\ search[t].always \subseteq RowsIn(memories[User(t)])
             /\ RowsIn(memories[User(t)]) \subseteq search[t].ever
             /\ search[t].found \subseteq search[t].ever
        /\ Answered(t) => Good(t)

LEMMA InitSearching == Init => Searching
BY DEF Init, Searching, Answered

LEMMA RowsFinite == ASSUME NEW S \in SUBSET Rows
                    PROVE  IsFiniteSet(S) /\ Cardinality(S) \in Nat
<1>1. IsFiniteSet(Rows)
  BY FiniteAssumption, FS_Product DEF Rows
<1> QED
  BY <1>1, FS_Subset, FS_CardinalityType

LEMMA LimitedIsShort ==
    ASSUME NEW S \in SUBSET Rows, NEW few \in Limited(S)
    PROVE  Cardinality(few) <= SearchLimit /\ (few = S \/ Cardinality(few) = SearchLimit)
BY RowsFinite, BoundsAssumption DEF Limited

(* Merging keeps one row of each memory.                                   *)
LEMMA MergedRows ==
    ASSUME NEW S \in SUBSET Rows, NEW some \in Merged(S)
    PROVE  /\ some \subseteq S
           /\ \A a, b \in some : a[1] = b[1] => a = b
           /\ \A row \in S : \E answer \in some : answer[1] = row[1]
<1> DEFINE Of(m) == {row \in some : row[1] = m}
<1>1. some \subseteq S /\ \A row \in S : Cardinality(Of(row[1])) = 1
  BY DEF Merged
<1>2. ASSUME NEW row \in S PROVE \E x : Of(row[1]) = {x}
  <2>1. IsFiniteSet(Of(row[1]))
    BY <1>1, RowsFinite
  <2> QED
    BY <1>1, <2>1, FS_Singleton
<1>3. ASSUME NEW a \in some, NEW b \in some, a[1] = b[1] PROVE a = b
  <2>1. a \in Of(a[1]) /\ b \in Of(a[1])
    BY <1>3
  <2> QED
    BY <1>1, <1>2, <2>1
<1>4. ASSUME NEW row \in S PROVE \E answer \in some : answer[1] = row[1]
  <2>1. PICK x : Of(row[1]) = {x}
    BY <1>2
  <2>2. x \in Of(row[1])
    BY <2>1
  <2> QED
    BY <2>2
<1> QED
  BY <1>1, <1>3, <1>4

(* Rows of one table that another set names cannot be more than it has.    *)
LEMMA NamedRows ==
    ASSUME NEW table, NEW few \in SUBSET RowsIn(table), NEW some \in SUBSET Rows,
           \A row \in few : \E answer \in some : answer[1] = row[1]
    PROVE  Cardinality(few) <= Cardinality(some)
<1> DEFINE f == [row \in few |-> CHOOSE answer \in some : answer[1] = row[1]]
<1>1. \A row \in few : f[row] \in some /\ f[row][1] = row[1]
  OBVIOUS
<1>2. f \in [few -> some]
  BY <1>1
<1> HIDE DEF f
<1>3. ASSUME NEW a \in few, NEW b \in few, f[a] = f[b] PROVE a = b
  <2>1. a[1] = b[1]
    BY <1>1, <1>3
  <2>2. /\ a = <<a[1], a[2]>> /\ a[2] = table[a[1]]
        /\ b = <<b[1], b[2]>> /\ b[2] = table[b[1]]
    BY DEF RowsIn, Rows
  <2> QED
    BY <2>1, <2>2
<1>4. f \in Injection(few, some)
  BY <1>2, <1>3, Zenon DEF Injection, IsInjective
<1> QED
  BY <1>4, FS_Injection, RowsFinite

LEMMA AnswerGood ==
    ASSUME TypeInv, Searching, NEW t \in Threads, SearchTable(t)
    PROVE  Good(t)'
<1> DEFINE table == memories[User(t)]
           q == request[t].query
           found == search[t].found
<1>1. /\ found \subseteq search[t].ever
      /\ search[t].always \subseteq RowsIn(table)
      /\ RowsIn(table) \subseteq search[t].ever
      /\ search[t].ever \subseteq Rows
      /\ search[t] \in Search
  BY DEF SearchTable, Searching, TypeInv, TypeOK, Search
<1>2. PICK like \in Limited(Matching(RowsIn(table), q)) :
      \E some \in Merged(found \cup like) : \E rows \in Limited(some) :
         search' = [search EXCEPT ![t].found = rows]
  BY SearchTableParts
<1>3. PICK some \in Merged(found \cup like) : \E rows \in Limited(some) :
         search' = [search EXCEPT ![t].found = rows]
  BY <1>2
<1>4. PICK rows \in Limited(some) : search' = [search EXCEPT ![t].found = rows]
  BY <1>3
<1>5. /\ search'[t].found = rows
      /\ search'[t].always = search[t].always
      /\ search'[t].ever = search[t].ever
      /\ request'[t] = request[t]
  BY <1>1, <1>4 DEF TypeInv, TypeOK, SearchTable, Search
<1> HIDE DEF table, q, found
<1>6. Matching(RowsIn(table), q) \subseteq RowsIn(table)
  BY DEF Matching
<1>7. /\ like \subseteq Matching(RowsIn(table), q)
      /\ like = Matching(RowsIn(table), q) \/ Cardinality(like) = SearchLimit
  BY <1>1, <1>2, <1>6, LimitedIsSubset, LimitedIsShort
<1>8. found \cup like \subseteq search[t].ever /\ found \cup like \in SUBSET Rows
  BY <1>1, <1>6, <1>7
<1>9. /\ some \subseteq found \cup like
      /\ \A a, b \in some : a[1] = b[1] => a = b
      /\ \A row \in found \cup like : \E answer \in some : answer[1] = row[1]
  BY <1>3, <1>8, MergedRows
<1>10. /\ some \in SUBSET Rows
       /\ rows \subseteq some
       /\ Cardinality(rows) <= SearchLimit
       /\ rows = some \/ Cardinality(rows) = SearchLimit
  BY <1>4, <1>8, <1>9, LimitedIsSubset, LimitedIsShort
<1>11. \/ Cardinality(rows) = SearchLimit
       \/ \A row \in Matching(search[t].always, q) : \E answer \in rows : answer[1] = row[1]
  <2> SUFFICES ASSUME Cardinality(rows) # SearchLimit,
                      NEW row \in Matching(search[t].always, q)
               PROVE  \E answer \in rows : answer[1] = row[1]
    OBVIOUS
  <2>1. rows = some
    BY <1>10
  <2>2. Cardinality(like) <= Cardinality(some)
    BY <1>6, <1>7, <1>9, <1>10, NamedRows
  <2>3. Cardinality(some) \in Nat /\ Cardinality(like) \in Nat
    BY <1>8, <1>10, RowsFinite
  <2>4. like = Matching(RowsIn(table), q)
    BY <1>7, <1>10, <2>1, <2>2, <2>3, BoundsAssumption
  <2>5. row \in like
    BY <1>1, <2>4 DEF Matching
  <2> QED
    BY <1>9, <2>1, <2>5
<1>12. q = request'[t].query
  BY <1>5 DEF q
<1> QED
  BY <1>5, <1>8, <1>9, <1>10, <1>11, <1>12 DEF Good

(* Threads whose search and request stay as they are, while their table    *)
(* does.                                                                   *)
LEMMA SameSearching ==
    ASSUME Searching, NEW t \in Threads, UNCHANGED memories,
           search'[t] = search[t], request'[t] = request[t], pc'[t] = pc[t]
    PROVE  /\ pc'[t] = "table" =>
                /\ request'[t].op = "search"
                /\ search'[t].always \subseteq RowsIn(memories'[User(t)'])
                /\ RowsIn(memories'[User(t)']) \subseteq search'[t].ever
                /\ search'[t].found \subseteq search'[t].ever
           /\ Answered(t)' => Good(t)'
BY DEF Searching, Answered, Good, User

(* A step of one thread that leaves the tables alone: what it says of the  *)
(* others follows.                                                         *)
LEMMA OneSearching ==
    ASSUME Searching, NEW t \in Threads, UNCHANGED memories,
           \A u \in Threads \ {t} :
               search'[u] = search[u] /\ request'[u] = request[u] /\ pc'[u] = pc[u],
           \/ pc'[t] \notin {"table", "end"}
           \/ pc'[t] = "end" /\ request'[t].op # "search"
           \/ pc'[t] = "end" /\ Good(t)'
           \/ pc'[t] = "table" /\ request'[t].op = "search"
               /\ search'[t].always = RowsIn(memories'[User(t)'])
               /\ search'[t].ever = RowsIn(memories'[User(t)'])
               /\ search'[t].found \subseteq search'[t].ever
    PROVE  Searching'
<1>1. \A u \in Threads \ {t} :
           /\ pc'[u] = "table" =>
                /\ request'[u].op = "search"
                /\ search'[u].always \subseteq RowsIn(memories'[User(u)'])
                /\ RowsIn(memories'[User(u)']) \subseteq search'[u].ever
                /\ search'[u].found \subseteq search'[u].ever
           /\ Answered(u)' => Good(u)'
  BY SameSearching
<1>2. Answered(t)' => pc'[t] = "end" /\ request'[t].op = "search"
  BY DEF Answered
<1> QED
  BY <1>1, <1>2 DEF Searching

LEMMA WriteSearching ==
    ASSUME TypeInv, Searching, NEW t \in Threads, pc[t] = "run", request[t].op # "search",
           NEW table, NEW rows, Write(t, table, rows)
    PROVE  Searching'
<1> SUFFICES ASSUME NEW u \in Threads
             PROVE  /\ pc'[u] = "table" =>
                         /\ request'[u].op = "search"
                         /\ search'[u].always \subseteq RowsIn(memories'[User(u)'])
                         /\ RowsIn(memories'[User(u)']) \subseteq search'[u].ever
                         /\ search'[u].found \subseteq search'[u].ever
                    /\ Answered(u)' => Good(u)'
  BY DEF Searching
<1>1. /\ memories' = [memories EXCEPT ![User(t)] = table]
      /\ search' = Noticed(User(t), table)
      /\ pc' = [pc EXCEPT ![t] = "end"]
      /\ UNCHANGED request
  BY DEF Write
<1>2. User(u)' = User(u) /\ request'[u] = request[u]
  BY <1>1 DEF User
<1>3. CASE u = t
  <2>1. pc'[u] = "end" /\ request'[u].op # "search"
    BY <1>1, <1>3 DEF TypeInv, TypeOK
  <2> QED
    BY <2>1 DEF Answered
<1>4. CASE u # t /\ pc[u] # "table"
  <2>1. pc'[u] = pc[u] /\ search'[u] = search[u]
    BY <1>1, <1>4 DEF TypeInv, TypeOK, Noticed
  <2> QED
    BY <1>2, <1>4, <2>1 DEF Searching, Answered, Good
<1>5. CASE u # t /\ pc[u] = "table"
  <2>1. pc'[u] = "table" /\ User(u) \in Files
    BY <1>1, <1>5 DEF TypeInv, TypeOK, Shape, User, Request, Files
  <2>2. CASE User(u) = User(t)
    <3>1. /\ search'[u] = [search[u] EXCEPT !.always = @ \cap RowsIn(table),
                                            !.ever = @ \cup RowsIn(table)]
          /\ memories'[User(u)] = table
      BY <1>1, <1>5, <2>1, <2>2 DEF TypeInv, TypeOK, Noticed
    <3>2. search[u] \in Search
      BY DEF TypeInv, TypeOK
    <3>3. /\ search'[u].always = search[u].always \cap RowsIn(table)
          /\ search'[u].ever = search[u].ever \cup RowsIn(table)
          /\ search'[u].found = search[u].found
      BY <3>1, <3>2 DEF Search
    <3> QED
      BY <1>2, <1>5, <2>1, <3>1, <3>3 DEF Searching, Answered
  <2>3. CASE User(u) # User(t)
    <3>1. search'[u] = search[u] /\ memories'[User(u)] = memories[User(u)]
      BY <1>1, <2>1, <2>3 DEF TypeInv, TypeOK, Noticed
    <3> QED
      BY <1>2, <1>5, <2>1, <3>1 DEF Searching, Answered
  <2> QED
    BY <2>2, <2>3
<1> QED
  BY <1>3, <1>4, <1>5

LEMMA NextSearching == TypeInv /\ Searching /\ [Next]_vars => Searching'
<1> SUFFICES ASSUME TypeInv, Searching, [Next]_vars PROVE Searching'
  OBVIOUS
<1> USE DEF TypeInv, TypeOK
<1>1. ASSUME NEW t \in Threads, NEW q \in Asked, Hit(t, q) \/ Miss(t, q)
      PROVE  Searching'
  <2>1. /\ pc'[t] \notin {"table", "end"}
        /\ \A u \in Threads \ {t} :
              search'[u] = search[u] /\ request'[u] = request[u] /\ pc'[u] = pc[u]
        /\ UNCHANGED memories
    BY <1>1 DEF Hit, Miss, files
  <2> QED
    BY <2>1, OneSearching
<1>2. ASSUME NEW t \in Threads,
             ReadOwner(t) \/ InsertOwner(t) \/ \E r \in Runtimes : Open(t, r)
      PROVE  Searching'
  <2>1. /\ pc'[t] \notin {"table", "end"}
        /\ \A u \in Threads \ {t} :
              search'[u] = search[u] /\ request'[u] = request[u] /\ pc'[u] = pc[u]
        /\ UNCHANGED memories
    BY <1>2 DEF ReadOwner, InsertOwner, Open, files
  <2> QED
    BY <2>1, OneSearching
<1>3. ASSUME NEW t \in Threads, RefuseOwner(t) \/ Return(t) \/ Fail(t) PROVE Searching'
  <2>1. /\ pc'[t] \notin {"table", "end"}
        /\ \A u \in Threads \ {t} :
              search'[u] = search[u] /\ request'[u] = request[u] /\ pc'[u] = pc[u]
        /\ UNCHANGED memories
    BY <1>3 DEF RefuseOwner, Return, Fail, Quit, files
  <2> QED
    BY <2>1, OneSearching
<1>4. ASSUME NEW t \in Threads,
             \/ \E m \in Memories, x \in Texts :
                   InsertMemory(t, m, x) \/ ReinforceMemory(t, m, x)
             \/ Clear(t)
      PROVE  Searching'
  BY <1>4, WriteSearching DEF InsertMemory, ReinforceMemory, Clear
<1>5. ASSUME NEW t \in Threads, KeepNothing(t) PROVE Searching'
  <2>1. /\ pc'[t] = "end" /\ request'[t].op # "search"
        /\ \A u \in Threads \ {t} :
              search'[u] = search[u] /\ request'[u] = request[u] /\ pc'[u] = pc[u]
        /\ UNCHANGED memories
    BY <1>5 DEF KeepNothing, files
  <2> QED
    BY <2>1, OneSearching
<1>6. ASSUME NEW t \in Threads, SearchIndex(t) \/ SearchIndexFails(t) PROVE Searching'
  <2> DEFINE now == RowsIn(memories[User(t)])
  <2>1. PICK rows \in SUBSET now : Started(t, rows)
    <3>1. CASE SearchIndex(t)
      <4>1. PICK rows \in FoundIn(IF Fts(t) THEN Indexed(t) ELSE {}) : Started(t, rows)
        BY <3>1 DEF SearchIndex
      <4> QED
        BY <4>1 DEF FoundIn, Indexed
    <3>2. CASE SearchIndexFails(t)
      BY <3>2 DEF SearchIndexFails
    <3> QED
      BY <1>6, <3>1, <3>2
  <2>2. /\ request[t].op = "search" /\ request'[t].op = "search"
        /\ UNCHANGED <<memories, request>>
    BY <1>6 DEF SearchIndex, SearchIndexFails, files
  <2>3. now = RowsIn(memories'[User(t)'])
    BY <2>2 DEF User
  <2> HIDE DEF now
  <2>4. /\ search' = [search EXCEPT ![t] = [found |-> rows, always |-> now, ever |-> now]]
        /\ pc' = [pc EXCEPT ![t] = "table"]
    BY <2>1 DEF Started, now
  <2>5. search'[t] = [found |-> rows, always |-> now, ever |-> now] /\ pc'[t] = "table"
    BY <2>4
  <2>6. \A u \in Threads \ {t} :
           search'[u] = search[u] /\ request'[u] = request[u] /\ pc'[u] = pc[u]
    BY <2>2, <2>4
  <2>7. /\ search'[t].always = RowsIn(memories'[User(t)'])
        /\ search'[t].ever = RowsIn(memories'[User(t)'])
        /\ search'[t].found \subseteq search'[t].ever
    BY <2>1, <2>3, <2>5 DEF now
  <2> HIDE DEF TypeInv, TypeOK
  <2> QED
    BY <2>2, <2>5, <2>6, <2>7, OneSearching
<1>7. ASSUME NEW t \in Threads, SearchTable(t) PROVE Searching'
  <2>1. Good(t)'
    BY <1>7, AnswerGood
  <2>2. \E rows : search' = [search EXCEPT ![t].found = rows]
    BY <1>7, SearchTableParts
  <2>3. /\ pc'[t] = "end"
        /\ \A u \in Threads \ {t} :
              search'[u] = search[u] /\ request'[u] = request[u] /\ pc'[u] = pc[u]
        /\ UNCHANGED memories
    BY <1>7, <2>2 DEF SearchTable, files
  <2> QED
    BY <2>1, <2>3, OneSearching
<1>8. ASSUME NEW s \in Servers, Restart(s) PROVE Searching'
  <2> SUFFICES ASSUME NEW t \in Threads
               PROVE  /\ pc'[t] = "table" =>
                           /\ request'[t].op = "search"
                           /\ search'[t].always \subseteq RowsIn(memories'[User(t)'])
                           /\ RowsIn(memories'[User(t)']) \subseteq search'[t].ever
                           /\ search'[t].found \subseteq search'[t].ever
                      /\ Answered(t)' => Good(t)'
    BY DEF Searching
  <2>1. CASE ServerOf[t] = s
    <3>1. pc'[t] = "idle"
      BY <1>8, <2>1 DEF Restart
    <3> QED
      BY <3>1 DEF Answered
  <2>2. CASE ServerOf[t] # s
    <3>1. /\ search'[t] = search[t] /\ request'[t] = request[t] /\ pc'[t] = pc[t]
          /\ UNCHANGED memories
      BY <1>8, <2>2 DEF Restart, files
    <3> QED
      BY <3>1, SameSearching
  <2> QED
    BY <2>1, <2>2
<1>9. CASE UNCHANGED vars
  BY <1>9, SameSearching DEF vars, files, Searching
<1> QED
  BY <1>1, <1>2, <1>3, <1>4, <1>5, <1>6, <1>7, <1>8, <1>9 DEF Next

LEMMA SearchingAlways == Spec => []Searching
<1>1. Init => TypeInv /\ Objects /\ Searching
  BY InitTypeInv, InitObjects, InitSearching
<1>2. TypeInv /\ Objects /\ Searching /\ [Next]_vars
         => (TypeInv /\ Objects /\ Searching)'
  BY NextTypeInv, NextObjects, NextSearching
<1> QED
  BY <1>1, <1>2, PTL DEF Spec

(* A memory that matched from the beginning of a search to its end is in   *)
(* the answer unless the answer is full, however far index and table have  *)
(* drifted apart and whatever others write meanwhile.                      *)
THEOREM SearchesComplete == Spec => []SearchComplete
<1>1. Searching => SearchComplete
  BY DEF Searching, SearchComplete, Good
<1> QED
  BY <1>1, SearchingAlways, PTL

(* An answer has only rows that the table had at some time during the      *)
(* search, one of each memory, and no more than the limit.                 *)
THEOREM SearchesTruthful == Spec => []SearchTruthful
<1>1. Searching => SearchTruthful
  BY DEF Searching, SearchTruthful, Good
<1> QED
  BY <1>1, SearchingAlways, PTL
-----------------------------------------------------------------------------
(* The cache and the order of use.                                         *)

(* The entries are those of the users used last, in that order.            *)
Follows(entries, objects, seq) ==
    /\ Len(entries) = IF Len(seq) <= MaxCached THEN Len(seq) ELSE MaxCached
    /\ \A i \in 1..Len(entries) :
         objects[entries[i]].user = seq[i + (Len(seq) - Len(entries))]

Distinct(seq) == \A i, j \in 1..Len(seq) : seq[i] = seq[j] => i = j

(* What a user's return to the end of the line, and a newcomer, change.    *)
LEMMA TouchedAt ==
    ASSUME NEW S, NEW seq \in Seq(S), NEW x \in S, x \in Elements(seq)
    PROVE  \E i \in 1..Len(seq) :
             /\ seq[i] = x
             /\ Touched(seq, x) \in Seq(S)
             /\ Len(Touched(seq, x)) = Len(seq)
             /\ \A j \in 1..Len(seq) :
                  Touched(seq, x)[j] = IF j < i THEN seq[j]
                                       ELSE IF j < Len(seq) THEN seq[j + 1]
                                       ELSE x
<1> DEFINE w == Without(seq, x)
<1>1. PICK i \in 1..Len(seq) :
        /\ seq[i] = x /\ w \in Seq(S) /\ Len(w) = Len(seq) - 1
        /\ \A j \in 1..Len(w) : w[j] = IF j <= i - 1 THEN seq[j] ELSE seq[j + 1]
  BY WithoutAt
<1>2. Touched(seq, x) = Append(w, x)
  BY DEF Touched
<1> HIDE DEF w
<1>3. /\ Append(w, x) \in Seq(S) /\ Len(Append(w, x)) = Len(w) + 1
      /\ \A j \in 1..Len(w) : Append(w, x)[j] = w[j]
      /\ Append(w, x)[Len(w) + 1] = x
  BY <1>1
<1>4. Len(seq) \in Nat /\ i \in Int /\ i <= Len(seq)
  BY <1>1
<1>5. ASSUME NEW j \in 1..Len(seq)
      PROVE  Append(w, x)[j] = IF j < i THEN seq[j]
                               ELSE IF j < Len(seq) THEN seq[j + 1] ELSE x
  <2>1. CASE j = Len(seq)
    BY <1>1, <1>3, <1>4, <2>1
  <2>2. CASE j < Len(seq)
    <3>1. j \in 1..Len(w)
      BY <1>1, <1>4, <2>2
    <3>2. Append(w, x)[j] = IF j <= i - 1 THEN seq[j] ELSE seq[j + 1]
      BY <1>1, <1>3, <3>1
    <3> QED BY <1>4, <2>2, <3>2
  <2>3. j = Len(seq) \/ j < Len(seq)
    BY <1>4
  <2> QED BY <2>1, <2>2, <2>3
<1>6. Len(Append(w, x)) = Len(seq)
  BY <1>1, <1>3, <1>4
<1> QED BY <1>1, <1>2, <1>3, <1>5, <1>6

LEMMA TouchedNew ==
    ASSUME NEW S, NEW seq \in Seq(S), NEW x \in S, x \notin Elements(seq)
    PROVE  /\ Touched(seq, x) \in Seq(S)
           /\ Len(Touched(seq, x)) = Len(seq) + 1
           /\ \A j \in 1..Len(seq) : Touched(seq, x)[j] = seq[j]
           /\ Touched(seq, x)[Len(seq) + 1] = x
<1>1. Touched(seq, x) = Append(seq, x)
  BY DEF Touched, Without
<1> QED BY <1>1

LEMMA TouchedDistinct ==
    ASSUME NEW S, NEW seq \in Seq(S), NEW x \in S, Distinct(seq)
    PROVE  Distinct(Touched(seq, x))
<1> DEFINE new == Touched(seq, x)
<1>1. CASE x \in Elements(seq)
  <2>1. PICK i \in 1..Len(seq) :
          /\ seq[i] = x /\ Len(new) = Len(seq)
          /\ \A j \in 1..Len(seq) :
               new[j] = IF j < i THEN seq[j]
                        ELSE IF j < Len(seq) THEN seq[j + 1] ELSE x
    BY <1>1, TouchedAt
  <2>2. Len(seq) \in Nat
    OBVIOUS
  <2> HIDE DEF new
  (* The old place of each entry.                                          *)
  <2> DEFINE from(j) == IF j < i THEN j ELSE IF j < Len(seq) THEN j + 1 ELSE i
  <2>3. \A j \in 1..Len(seq) : from(j) \in 1..Len(seq) /\ new[j] = seq[from(j)]
    BY <2>1, <2>2
  <2>4. \A j, k \in 1..Len(seq) : from(j) = from(k) => j = k
    BY <2>1, <2>2
  <2> HIDE DEF from
  <2>5. Distinct(new)
    BY <2>1, <2>3, <2>4 DEF Distinct
  <2> QED BY <2>5 DEF new
<1>2. CASE x \notin Elements(seq)
  <2>1. /\ Len(new) = Len(seq) + 1
        /\ \A j \in 1..Len(seq) : new[j] = seq[j]
        /\ new[Len(seq) + 1] = x
    BY <1>2, TouchedNew
  <2>2. Len(seq) \in Nat /\ \A j \in 1..Len(seq) : seq[j] # x
    BY <1>2 DEF Elements
  <2> HIDE DEF new
  <2>3. Distinct(new)
    BY <2>1, <2>2 DEF Distinct
  <2> QED BY <2>3 DEF new
<1> QED BY <1>1, <1>2

(* A hit moves runtime and user to the end alike.                          *)
LEMMA HitFollows ==
    ASSUME NEW entries \in Seq(Runtimes), NEW objects, NEW seq \in Seq(Users),
           Follows(entries, objects, seq), Distinct(seq),
           NEW r \in Elements(entries), NEW u \in Users, objects[r].user = u
    PROVE  Follows(Touched(entries, r), objects, Touched(seq, u))
<1> DEFINE d == Len(seq) - Len(entries)
           E == Touched(entries, r)
           Q == Touched(seq, u)
<1>0. r \in Runtimes
  BY DEF Elements
<1>1. PICK i \in 1..Len(entries) :
        /\ entries[i] = r /\ Len(E) = Len(entries)
        /\ \A j \in 1..Len(entries) :
             E[j] = IF j < i THEN entries[j]
                    ELSE IF j < Len(entries) THEN entries[j + 1] ELSE r
  BY <1>0, TouchedAt
<1>2. /\ Len(entries) \in Nat /\ Len(seq) \in Nat /\ i \in Int
      /\ d \in Nat /\ Len(entries) + d = Len(seq)
      /\ i + d \in 1..Len(seq)
  <2>1. /\ Len(entries) \in Nat /\ Len(seq) \in Nat /\ MaxCached \in Nat
        /\ i \in 1..Len(entries)
    BY BoundsAssumption
  <2>2. Len(entries) <= Len(seq)
    BY <2>1 DEF Follows
  <2> QED BY <2>1, <2>2
<1>3. \A j \in 1..Len(entries) : objects[entries[j]].user = seq[j + d]
  BY DEF Follows
<1>4. u \in Elements(seq) /\ seq[i + d] = u
  <2> HIDE DEF d
  <2>1. objects[entries[i]].user = seq[i + d]
    BY <1>3
  <2> QED BY <1>1, <1>2, <2>1 DEF Elements
<1>5. PICK k \in 1..Len(seq) :
        /\ seq[k] = u /\ Len(Q) = Len(seq)
        /\ \A j \in 1..Len(seq) :
             Q[j] = IF j < k THEN seq[j]
                    ELSE IF j < Len(seq) THEN seq[j + 1] ELSE u
  <2>1. seq \in Seq(Users) /\ u \in Users /\ u \in Elements(seq)
    BY <1>4
  <2>2. PICK k \in 1..Len(seq) :
          /\ seq[k] = u
          /\ Touched(seq, u) \in Seq(Users)
          /\ Len(Touched(seq, u)) = Len(seq)
          /\ \A j \in 1..Len(seq) :
               Touched(seq, u)[j] = IF j < k THEN seq[j]
                                    ELSE IF j < Len(seq) THEN seq[j + 1] ELSE u
    BY <2>1, TouchedAt
  <2> QED BY <2>2
<1>6. k = i + d
  BY <1>2, <1>4, <1>5 DEF Distinct
<1> HIDE DEF d, E, Q
<1>7. ASSUME NEW j \in 1..Len(entries)
      PROVE  objects[E[j]].user = Q[j + d]
  <2>1. j + d \in 1..Len(seq)
    BY <1>2
  <2>2. Q[j + d] = IF j + d < k THEN seq[j + d]
                   ELSE IF j + d < Len(seq) THEN seq[(j + d) + 1] ELSE u
    BY <1>5, <2>1
  <2>3. E[j] = IF j < i THEN entries[j]
               ELSE IF j < Len(entries) THEN entries[j + 1] ELSE r
    BY <1>1
  <2>4. CASE j < i
    <3>1. j + d < k
      BY <1>2, <1>6, <2>4
    <3> QED BY <1>3, <2>2, <2>3, <2>4, <3>1
  <2>5. CASE ~(j < i) /\ j < Len(entries)
    <3>1. /\ ~(j + d < k) /\ j + d < Len(seq) /\ (j + d) + 1 = (j + 1) + d
          /\ j + 1 \in 1..Len(entries)
      BY <1>2, <1>6, <2>5
    <3>2. objects[entries[j + 1]].user = seq[(j + 1) + d]
      BY <1>3, <3>1
    <3> QED BY <2>2, <2>3, <2>5, <3>1, <3>2
  <2>6. CASE ~(j < i) /\ ~(j < Len(entries))
    <3>1. ~(j + d < k) /\ ~(j + d < Len(seq))
      BY <1>2, <1>6, <2>6
    <3> QED BY <2>2, <2>3, <2>6, <3>1
  <2> QED BY <2>4, <2>5, <2>6
<1>8. Len(E) = Len(entries) /\ Len(Q) = Len(seq)
  BY <1>1, <1>5
<1> QED BY <1>7, <1>8 DEF Follows, E, Q, d

(* A newcomer takes the last place, and the first entry makes room.        *)
LEMMA EvictedAt ==
    ASSUME NEW S, NEW seq \in Seq(S), NEW x \in S, Len(seq) <= MaxCached
    PROVE  /\ Len(seq) < MaxCached =>
                /\ Len(Evicted(Append(seq, x))) = Len(seq) + 1
                /\ \A j \in 1..Len(seq) : Evicted(Append(seq, x))[j] = seq[j]
                /\ Evicted(Append(seq, x))[Len(seq) + 1] = x
           /\ Len(seq) = MaxCached =>
                /\ Len(Evicted(Append(seq, x))) = Len(seq)
                /\ \A j \in 1..Len(seq) :
                     Evicted(Append(seq, x))[j] = IF j < Len(seq) THEN seq[j + 1]
                                                                  ELSE x
<1> DEFINE a == Append(seq, x)
<1>1. /\ a \in Seq(S) /\ Len(a) = Len(seq) + 1 /\ Len(seq) \in Nat
      /\ \A j \in 1..Len(seq) : a[j] = seq[j]
      /\ a[Len(seq) + 1] = x
  OBVIOUS
<1> HIDE DEF a
<1>2. Len(seq) < MaxCached => Evicted(a) = a
  BY <1>1, BoundsAssumption DEF Evicted
<1>3. Len(seq) = MaxCached => Evicted(a) = Tail(a)
  BY <1>1, BoundsAssumption DEF Evicted
<1>4. a # <<>>
  BY <1>1
<1>5. /\ Len(Tail(a)) = Len(a) - 1
      /\ \A j \in 1..(Len(a) - 1) : Tail(a)[j] = a[j + 1]
  BY <1>1, <1>4
<1>6. /\ Len(Tail(a)) = Len(seq)
      /\ \A j \in 1..Len(seq) : Tail(a)[j] = IF j < Len(seq) THEN seq[j + 1] ELSE x
  BY <1>1, <1>5
<1> QED BY <1>1, <1>2, <1>3, <1>6 DEF a

LEMMA OpenFollows ==
    ASSUME NEW entries \in Seq(Runtimes), NEW objects, NEW seq \in Seq(Users),
           Follows(entries, objects, seq),
           NEW r \in Runtimes, NEW u \in Users, objects[r].user = u,
           \A e \in Elements(entries) : objects[e].user # u
    PROVE  Follows(Evicted(Append(entries, r)), objects, Touched(seq, u))
<1> DEFINE d == Len(seq) - Len(entries)
           E == Evicted(Append(entries, r))
           Q == Touched(seq, u)
<1>1. /\ Len(entries) \in Nat /\ Len(seq) \in Nat /\ MaxCached \in Nat
      /\ d \in Nat /\ Len(entries) + d = Len(seq)
      /\ Len(entries) <= MaxCached
      /\ Len(entries) < MaxCached => d = 0
  BY BoundsAssumption DEF Follows
<1>2. \A j \in 1..Len(entries) : objects[entries[j]].user = seq[j + d]
  BY DEF Follows
<1>3. /\ Len(entries) < MaxCached =>
            /\ Len(E) = Len(entries) + 1
            /\ \A j \in 1..Len(entries) : E[j] = entries[j]
            /\ E[Len(entries) + 1] = r
      /\ Len(entries) = MaxCached =>
            /\ Len(E) = Len(entries)
            /\ \A j \in 1..Len(entries) :
                 E[j] = IF j < Len(entries) THEN entries[j + 1] ELSE r
  BY <1>1, EvictedAt
<1>4. CASE u \notin Elements(seq)
  <2>1. /\ Len(Q) = Len(seq) + 1
        /\ \A j \in 1..Len(seq) : Q[j] = seq[j]
        /\ Q[Len(seq) + 1] = u
    BY <1>4, TouchedNew
  <2> HIDE DEF E, Q, d
  <2>2. CASE Len(entries) < MaxCached
    <3>1. d = 0 /\ Len(E) = Len(entries) + 1 /\ Len(Q) = Len(E)
      BY <1>1, <1>3, <2>1, <2>2
    <3>2. \A j \in 1..Len(E) : objects[E[j]].user = Q[j]
      BY <1>1, <1>2, <1>3, <2>1, <2>2, <3>1
    <3>3. Len(E) <= MaxCached /\ Len(E) \in Nat
      BY <1>1, <2>2, <3>1
    <3>4. \A j \in 1..Len(E) : j + (Len(Q) - Len(E)) = j
      BY <3>1, <3>3
    <3>5. Follows(E, objects, Q)
      BY <3>1, <3>2, <3>3, <3>4 DEF Follows
    <3> QED BY <3>5 DEF E, Q
  <2>3. CASE Len(entries) = MaxCached
    <3>1. Len(E) = Len(entries) /\ Len(Q) - Len(E) = d + 1
      BY <1>1, <1>3, <2>1, <2>3
    <3>2. ASSUME NEW j \in 1..Len(E)
          PROVE  objects[E[j]].user = Q[j + (d + 1)]
      <4>1. CASE j < Len(entries)
        <5>1. E[j] = entries[j + 1] /\ j + 1 \in 1..Len(entries)
          BY <1>1, <1>3, <2>3, <3>1, <4>1
        <5>2. (j + 1) + d = j + (d + 1) /\ (j + 1) + d \in 1..Len(seq)
          BY <1>1, <4>1
        <5> QED BY <1>2, <2>1, <5>1, <5>2
      <4>2. CASE j = Len(entries)
        <5>1. E[j] = r /\ j + (d + 1) = Len(seq) + 1
          BY <1>1, <1>3, <2>3, <3>1, <4>2
        <5> QED BY <2>1, <5>1
      <4> QED BY <1>1, <3>1, <4>1, <4>2
    <3>3. Len(Q) > MaxCached /\ Len(E) = MaxCached /\ Len(Q) \in Nat
      <4>1. Len(seq) >= MaxCached
        BY <1>1, <2>3
      <4> QED BY <1>1, <2>1, <2>3, <3>1, <4>1
    <3>4. \A j \in 1..Len(E) : objects[E[j]].user = Q[j + (Len(Q) - Len(E))]
      BY <3>1, <3>2
    <3>5. ~(Len(Q) <= MaxCached)
      BY <1>1, <3>3
    <3>6. Follows(E, objects, Q)
      BY <3>3, <3>4, <3>5 DEF Follows
    <3> QED BY <3>6 DEF E, Q
  <2> QED BY <1>1, <2>2, <2>3
<1>5. CASE u \in Elements(seq)
  <2>1. PICK k \in 1..Len(seq) :
          /\ seq[k] = u /\ Len(Q) = Len(seq)
          /\ \A j \in 1..Len(seq) :
               Q[j] = IF j < k THEN seq[j]
                      ELSE IF j < Len(seq) THEN seq[j + 1] ELSE u
    BY <1>5, TouchedAt
  <2>2. k <= d
    <3> SUFFICES ASSUME k > d PROVE FALSE
      BY <1>1
    <3>1. k - d \in 1..Len(entries) /\ (k - d) + d = k
      BY <1>1
    <3>2. objects[entries[k - d]].user = u
      BY <1>2, <2>1, <3>1
    <3>3. entries[k - d] \in Elements(entries)
      BY <3>1 DEF Elements
    <3> QED BY <3>2, <3>3
  <2> HIDE DEF E, Q, d
  <2>3. Len(entries) = MaxCached /\ d >= 1 /\ k >= 1 /\ k \in Int
    BY <1>1, <2>2
  <2>4. Len(E) = Len(entries) /\ Len(Q) - Len(E) = d
    BY <1>1, <1>3, <2>1, <2>3
  <2>5. ASSUME NEW j \in 1..Len(E)
        PROVE  objects[E[j]].user = Q[j + d]
    <3>1. j + d \in 1..Len(seq) /\ ~(j + d < k)
      BY <1>1, <2>2, <2>3, <2>4
    <3>2. Q[j + d] = IF j + d < Len(seq) THEN seq[(j + d) + 1] ELSE u
      BY <2>1, <3>1
    <3>3. CASE j < Len(entries)
      <4>1. /\ E[j] = entries[j + 1] /\ j + 1 \in 1..Len(entries)
            /\ j + d < Len(seq) /\ (j + d) + 1 = (j + 1) + d
        BY <1>1, <1>3, <2>3, <2>4, <3>3
      <4>2. objects[entries[j + 1]].user = seq[(j + 1) + d]
        BY <1>2, <4>1
      <4> QED BY <3>2, <4>1, <4>2
    <3>4. CASE j = Len(entries)
      <4>1. E[j] = r /\ ~(j + d < Len(seq))
        BY <1>1, <1>3, <2>3, <2>4, <3>4
      <4> QED BY <3>2, <4>1
    <3> QED BY <1>1, <2>4, <3>3, <3>4
  <2>6. Len(Q) = Len(seq) /\ Len(seq) > MaxCached
    BY <1>1, <2>1, <2>3
  <2>7. Follows(E, objects, Q)
    BY <1>1, <2>3, <2>4, <2>5, <2>6 DEF Follows
  <2> QED BY <2>7 DEF E, Q
<1> QED BY <1>4, <1>5

(* A runtime is opened under the lock of the cache, by one thread of a     *)
(* server at a time, and only for a user that has none in it.              *)
Opening(t) == pc[t] \in {"bind", "insert", "open"}

CacheInv ==
    /\ \A s \in Servers : Follows(cache[s], runtime, recent[s])
    /\ \A s \in Servers : Distinct(recent[s])
    /\ \A t, u \in Threads :
         Opening(t) /\ Opening(u) /\ ServerOf[t] = ServerOf[u] => t = u
    /\ \A t \in Threads : Opening(t) =>
         \A r \in Elements(cache[ServerOf[t]]) : runtime[r].user # User(t)

LEMMA EmptyFollows == \A objects : Follows(<<>>, objects, <<>>) /\ Distinct(<<>>)
<1>1. Len(<<>>) = 0 /\ \A i : i \notin 1..0
  OBVIOUS
<1>2. 0 <= MaxCached
  BY BoundsAssumption
<1> QED BY <1>1, <1>2 DEF Follows, Distinct

LEMMA InitCacheInv == Init => CacheInv
<1> SUFFICES ASSUME Init PROVE CacheInv
  OBVIOUS
<1>1. \A s \in Servers : cache[s] = <<>> /\ recent[s] = <<>>
  BY DEF Init
<1>3. \A s \in Servers : Follows(cache[s], runtime, recent[s]) /\ Distinct(recent[s])
  BY <1>1, EmptyFollows
<1>4. \A t \in Threads : ~Opening(t)
  BY DEF Init, Opening
<1> QED BY <1>3, <1>4 DEF CacheInv

(* Only the users of the entries matter.                                   *)
LEMMA SameFollows ==
    ASSUME NEW entries \in Seq(Runtimes), NEW seq, NEW objects, NEW others,
           Follows(entries, objects, seq),
           \A r \in Elements(entries) : others[r].user = objects[r].user
    PROVE  Follows(entries, others, seq)
<1>1. \A i \in 1..Len(entries) : entries[i] \in Elements(entries)
  BY DEF Elements
<1> QED BY <1>1 DEF Follows

(* Steps that leave the caches alone, and begin no opening.                *)
LEMMA KeepCacheInv ==
    ASSUME TypeInv, CacheInv, UNCHANGED <<cache, recent>>,
           \A s \in Servers : \A r \in Elements(cache[s]) :
              runtime'[r].user = runtime[r].user,
           \A t \in Threads : Opening(t)' => Opening(t) /\ User(t)' = User(t)
    PROVE  CacheInv'
<1>1. ASSUME NEW s \in Servers
      PROVE  Follows(cache[s], runtime', recent[s])
  <2>1. cache[s] \in Seq(Runtimes) /\ Follows(cache[s], runtime, recent[s])
    BY DEF TypeInv, TypeOK, CacheInv
  <2> QED BY <2>1, SameFollows
<1>2. \A s \in Servers : Follows(cache[s], runtime, recent[s])'
  BY <1>1 DEF Follows
<1>3. \A s \in Servers : Distinct(recent[s])'
  BY DEF CacheInv, Distinct
<1>4. \A t \in Threads : Opening(t)' =>
         \A r \in Elements(cache'[ServerOf[t]]) : runtime'[r].user # User(t)'
  BY BoundsAssumption DEF CacheInv
<1> QED BY <1>2, <1>3, <1>4 DEF CacheInv

(* Collection spares the entries.                                          *)
LEMMA CollectedUsers ==
    ASSUME TypeInv, UNCHANGED cache, runtime' = Collected(runtime, cache', held')
    PROVE  \A s \in Servers : \A r \in Elements(cache[s]) : runtime'[r] = runtime[r]
<1> SUFFICES ASSUME NEW s \in Servers, NEW r \in Elements(cache[s])
             PROVE  runtime'[r] = runtime[r]
  OBVIOUS
<1>1. r \in Runtimes
  BY EntriesAreRuntimes
<1> QED BY <1>1, CollectedKeeps

LEMMA QuitCacheInv ==
    ASSUME TypeInv, CacheInv, NEW t \in Threads, Quit(t), UNCHANGED <<cache, recent>>
    PROVE  CacheInv'
<1>1. \A s \in Servers : \A r \in Elements(cache[s]) : runtime'[r].user = runtime[r].user
  BY CollectedUsers DEF Quit
<1>2. \A u \in Threads : Opening(u)' => Opening(u) /\ User(u)' = User(u)
  BY DEF Quit, TypeInv, TypeOK, Opening, User
<1> QED BY <1>1, <1>2, KeepCacheInv

LEMMA HitCacheInv ==
    ASSUME TypeInv, CacheInv, NEW t \in Threads, NEW q \in Asked, Hit(t, q)
    PROVE  CacheInv'
<1> DEFINE s == ServerOf[t]
<1>1. s \in Servers /\ q.user \in Users
  BY BoundsAssumption DEF Asked
<1>2. PICK r \in CachedFor(s, q.user) :
         cache' = [cache EXCEPT ![s] = Touched(@, r)]
  BY DEF Hit
<1>3. /\ r \in Elements(cache[s]) /\ runtime[r].user = q.user
      /\ recent' = [recent EXCEPT ![s] = Touched(@, q.user)]
      /\ runtime' = runtime /\ Unlocked(s)
      /\ pc' = [pc EXCEPT ![t] = "run"]
      /\ request' = [request EXCEPT ![t] = q]
  BY <1>2 DEF Hit, CachedFor
<1>4. /\ cache[s] \in Seq(Runtimes) /\ recent[s] \in Seq(Users)
      /\ Follows(cache[s], runtime, recent[s]) /\ Distinct(recent[s])
  BY <1>1 DEF TypeInv, TypeOK, CacheInv
<1>5. /\ Follows(Touched(cache[s], r), runtime, Touched(recent[s], q.user))
      /\ Distinct(Touched(recent[s], q.user))
  BY <1>1, <1>3, <1>4, HitFollows, TouchedDistinct
<1>6. \A z \in Servers :
        /\ cache'[z] = IF z = s THEN Touched(cache[s], r) ELSE cache[z]
        /\ recent'[z] = IF z = s THEN Touched(recent[s], q.user) ELSE recent[z]
  BY <1>1, <1>2, <1>3 DEF TypeInv, TypeOK
<1> HIDE DEF s
<1>7. \A z \in Servers : Follows(cache'[z], runtime', recent'[z]) /\ Distinct(recent'[z])
  BY <1>3, <1>5, <1>6 DEF CacheInv
<1>8. \A z \in Servers : Follows(cache[z], runtime, recent[z])' /\ Distinct(recent[z])'
  BY <1>7 DEF Follows, Distinct
<1>9. \A u \in Threads : Opening(u)' =>
        Opening(u) /\ User(u)' = User(u) /\ ServerOf[u] # s
  BY <1>3 DEF Opening, Unlocked, TypeInv, TypeOK, User
<1>10. \A u \in Threads : Opening(u)' =>
         \A e \in Elements(cache'[ServerOf[u]]) : runtime'[e].user # User(u)'
  BY <1>3, <1>6, <1>9, BoundsAssumption DEF CacheInv
<1> QED BY <1>8, <1>9, <1>10 DEF CacheInv

LEMMA MissCacheInv ==
    ASSUME TypeInv, CacheInv, NEW t \in Threads, NEW q \in Asked, Miss(t, q)
    PROVE  CacheInv'
<1>1. /\ Unlocked(ServerOf[t]) /\ CachedFor(ServerOf[t], q.user) = {}
      /\ pc' = [pc EXCEPT ![t] = "bind"]
      /\ request' = [request EXCEPT ![t] = q]
      /\ UNCHANGED <<cache, recent, runtime>>
  BY DEF Miss
<1>2. \A u \in Threads : Opening(u)' =>
        \/ u = t
        \/ Opening(u) /\ User(u)' = User(u) /\ ServerOf[u] # ServerOf[t]
  BY <1>1 DEF Opening, Unlocked, TypeInv, TypeOK, User
<1>3. User(t)' = q.user
  BY <1>1 DEF User, TypeInv, TypeOK
<1>4. \A u \in Threads : Opening(u)' =>
         \A e \in Elements(cache[ServerOf[u]]) : runtime[e].user # User(u)'
  BY <1>1, <1>2, <1>3 DEF CacheInv, CachedFor
<1>5. \A t1, u1 \in Threads :
         Opening(t1)' /\ Opening(u1)' /\ ServerOf[t1] = ServerOf[u1] => t1 = u1
  BY <1>2 DEF CacheInv
<1>6. \A s \in Servers : Follows(cache[s], runtime, recent[s])' /\ Distinct(recent[s])'
  BY <1>1 DEF CacheInv, Follows, Distinct
<1> QED BY <1>1, <1>4, <1>5, <1>6 DEF CacheInv

LEMMA OpenCacheInv ==
    ASSUME TypeInv, Objects, CacheInv, NEW t \in Threads, NEW r \in Runtimes, Open(t, r)
    PROVE  CacheInv'
<1> DEFINE s == ServerOf[t]
           u == User(t)
           opened == [runtime EXCEPT ![r] = NewRuntime(u)]
<1>1. s \in Servers /\ u \in Users
  BY BoundsAssumption DEF TypeInv, Shape, Open, User, Request
<1>2. /\ Opening(t) /\ runtime[r] = NoRuntime
      /\ cache' = [cache EXCEPT ![s] = Evicted(Append(@, r))]
      /\ recent' = [recent EXCEPT ![s] = Touched(@, u)]
      /\ runtime' = Collected(opened, cache', held')
      /\ pc' = [pc EXCEPT ![t] = "run"] /\ request' = request
  BY DEF Open, User, Opening
<1>3. /\ cache[s] \in Seq(Runtimes) /\ recent[s] \in Seq(Users)
      /\ Follows(cache[s], runtime, recent[s]) /\ Distinct(recent[s])
      /\ \A e \in Elements(cache[s]) : runtime[e].user # u
  BY <1>1, <1>2 DEF TypeInv, TypeOK, CacheInv
<1>4. /\ opened[r].user = u
      /\ \A e \in Runtimes \ {r} : opened[e] = runtime[e]
  BY DEF TypeInv, TypeOK, NewRuntime
<1>5. \A z \in Servers : \A e \in Elements(cache[z]) :
        e \in Runtimes /\ opened[e] = runtime[e]
  <2> SUFFICES ASSUME NEW z \in Servers, NEW e \in Elements(cache[z])
               PROVE  e \in Runtimes /\ opened[e] = runtime[e]
    OBVIOUS
  <2>1. e \in Runtimes /\ runtime[e] # NoRuntime
    BY EntriesAreRuntimes DEF Objects
  <2> QED BY <1>2, <1>4, <2>1
<1> HIDE DEF opened
<1>6. Follows(Evicted(Append(cache[s], r)), opened, Touched(recent[s], u))
  <2>1. Follows(cache[s], opened, recent[s])
    BY <1>1, <1>3, <1>5, SameFollows
  <2>2. \A e \in Elements(cache[s]) : opened[e].user # u
    BY <1>1, <1>3, <1>5
  <2> QED BY <1>1, <1>3, <1>4, <2>1, <2>2, OpenFollows
<1>7. Distinct(Touched(recent[s], u))
  BY <1>1, <1>3, TouchedDistinct
<1>8. \A z \in Servers :
        /\ cache'[z] = IF z = s THEN Evicted(Append(cache[s], r)) ELSE cache[z]
        /\ recent'[z] = IF z = s THEN Touched(recent[s], u) ELSE recent[z]
        /\ cache'[z] \in Seq(Runtimes)
  <2>1. Evicted(Append(cache[s], r)) \in Seq(Runtimes)
    BY <1>3, EvictedIsSeq
  <2> QED BY <1>1, <1>2, <2>1 DEF TypeInv, TypeOK
<1> HIDE DEF s, u
<1>9. \A z \in Servers : \A e \in Elements(cache'[z]) :
        e \in Runtimes /\ runtime'[e] = opened[e]
  <2> SUFFICES ASSUME NEW z \in Servers, NEW e \in Elements(cache'[z])
               PROVE  e \in Runtimes /\ runtime'[e] = opened[e]
    OBVIOUS
  <2>1. e \in Runtimes
    BY <1>8 DEF Elements
  <2> QED BY <1>2, <2>1, CollectedKeeps
<1>10. \A z \in Servers : Follows(cache'[z], runtime', recent'[z]) /\ Distinct(recent'[z])
  <2> SUFFICES ASSUME NEW z \in Servers
               PROVE  Follows(cache'[z], runtime', recent'[z]) /\ Distinct(recent'[z])
    OBVIOUS
  <2>1. Follows(cache'[z], opened, recent'[z]) /\ Distinct(recent'[z])
    <3>1. CASE z = s
      BY <1>6, <1>7, <1>8, <3>1
    <3>2. CASE z # s
      <4>1. /\ cache[z] \in Seq(Runtimes)
            /\ Follows(cache[z], runtime, recent[z]) /\ Distinct(recent[z])
        BY DEF CacheInv, TypeInv, TypeOK
      <4>2. Follows(cache[z], opened, recent[z])
        BY <1>5, <4>1, SameFollows
      <4> QED BY <1>8, <3>2, <4>1, <4>2
    <3> QED BY <3>1, <3>2
  <2>2. \A e \in Elements(cache'[z]) : runtime'[e].user = opened[e].user
    BY <1>9
  <2> QED BY <1>8, <2>1, <2>2, SameFollows
<1>11. \A z \in Servers : Follows(cache[z], runtime, recent[z])' /\ Distinct(recent[z])'
  BY <1>10 DEF Follows, Distinct
<1>12. \A v \in Threads : Opening(v)' =>
         Opening(v) /\ User(v)' = User(v) /\ ServerOf[v] # s
  <2>1. \A v \in Threads : Opening(v)' => Opening(v) /\ v # t /\ User(v)' = User(v)
    BY <1>2 DEF Opening, TypeInv, TypeOK, User
  <2> QED BY <1>2, <2>1 DEF CacheInv, s
<1>13. \A v \in Threads : Opening(v)' =>
         \A e \in Elements(cache'[ServerOf[v]]) : runtime'[e].user # User(v)'
  <2> SUFFICES ASSUME NEW v \in Threads, Opening(v)',
                      NEW e \in Elements(cache'[ServerOf[v]])
               PROVE  runtime'[e].user # User(v)'
    OBVIOUS
  <2>1. ServerOf[v] \in Servers /\ ServerOf[v] # s /\ Opening(v) /\ User(v)' = User(v)
    BY <1>12, BoundsAssumption
  <2>2. e \in Elements(cache[ServerOf[v]])
    BY <1>8, <2>1
  <2>3. runtime'[e] = runtime[e]
    BY <1>5, <1>9, <2>1, <2>2
  <2> QED BY <2>1, <2>2, <2>3 DEF CacheInv
<1> QED BY <1>11, <1>12, <1>13 DEF CacheInv

LEMMA RestartCacheInv ==
    ASSUME TypeInv, CacheInv, NEW s \in Servers, Restart(s)
    PROVE  CacheInv'
<1>1. /\ cache' = [cache EXCEPT ![s] = <<>>] /\ recent' = [recent EXCEPT ![s] = <<>>]
      /\ runtime' = Collected(runtime, cache', held')
  BY DEF Restart
<1>2. \A t \in Threads : Opening(t)' =>
        Opening(t) /\ User(t)' = User(t) /\ ServerOf[t] # s
  BY DEF Restart, Opening, User
<1>3. \A z \in Servers \ {s} : cache'[z] = cache[z] /\ recent'[z] = recent[z]
  BY <1>1 DEF TypeInv, TypeOK
<1>4. cache'[s] = <<>> /\ recent'[s] = <<>>
  BY <1>1 DEF TypeInv, TypeOK
<1>5. \A z \in Servers \ {s} : \A e \in Elements(cache[z]) : runtime'[e] = runtime[e]
  <2> SUFFICES ASSUME NEW z \in Servers \ {s}, NEW e \in Elements(cache[z])
               PROVE  runtime'[e] = runtime[e]
    OBVIOUS
  <2>1. e \in Runtimes /\ e \in Elements(cache'[z])
    BY <1>3, EntriesAreRuntimes
  <2> QED BY <1>1, <2>1, CollectedKeeps
<1>6. ASSUME NEW z \in Servers
      PROVE  Follows(cache'[z], runtime', recent'[z]) /\ Distinct(recent'[z])
  <2>1. CASE z = s
    BY <1>4, <2>1, EmptyFollows
  <2>2. CASE z # s
    <3>1. /\ cache[z] \in Seq(Runtimes)
          /\ Follows(cache[z], runtime, recent[z]) /\ Distinct(recent[z])
      BY DEF CacheInv, TypeInv, TypeOK
    <3>2. Follows(cache[z], runtime', recent[z])
      BY <1>5, <2>2, <3>1, SameFollows
    <3> QED BY <1>3, <2>2, <3>1, <3>2
  <2> QED BY <2>1, <2>2
<1>7. \A z \in Servers : Follows(cache[z], runtime, recent[z])' /\ Distinct(recent[z])'
  BY <1>6 DEF Follows, Distinct
<1>8. \A t \in Threads : Opening(t)' =>
         \A e \in Elements(cache'[ServerOf[t]]) : runtime'[e].user # User(t)'
  BY <1>2, <1>3, <1>5, BoundsAssumption DEF CacheInv
<1> QED BY <1>2, <1>7, <1>8 DEF CacheInv

LEMMA NextCacheInv == TypeInv /\ Objects /\ CacheInv /\ [Next]_vars => CacheInv'
<1> SUFFICES ASSUME TypeInv, Objects, CacheInv, [Next]_vars PROVE CacheInv'
  OBVIOUS
<1>1. ASSUME NEW t \in Threads, \/ ReadOwner(t) \/ InsertOwner(t) \/ KeepNothing(t)
                                \/ SearchIndex(t) \/ SearchTable(t)
      PROVE  CacheInv'
  <2>1. \A u \in Threads : Opening(u)' => Opening(u) /\ User(u)' = User(u)
    BY <1>1 DEF ReadOwner, InsertOwner, KeepNothing, SearchIndex, SearchTable,
                Started, Opening, User, TypeInv, TypeOK
  <2>2. UNCHANGED <<cache, recent, runtime>>
    BY <1>1 DEF ReadOwner, InsertOwner, KeepNothing, SearchIndex, SearchTable
  <2> QED BY <2>1, <2>2, KeepCacheInv
<1>2. ASSUME NEW t \in Threads, NEW table, NEW rows, Write(t, table, rows)
      PROVE  CacheInv'
  <2>1. \A u \in Threads : Opening(u)' => Opening(u) /\ User(u)' = User(u)
    BY <1>2 DEF Write, Opening, User, TypeInv, TypeOK
  <2>2. UNCHANGED <<cache, recent, runtime>>
    BY <1>2 DEF Write
  <2> QED BY <2>1, <2>2, KeepCacheInv
<1>3. ASSUME NEW t \in Threads, SearchIndexFails(t) PROVE CacheInv'
  <2>1. \A u \in Threads : Opening(u)' => Opening(u) /\ User(u)' = User(u)
    BY <1>3 DEF SearchIndexFails, Started, Opening, User, TypeInv, TypeOK
  <2>2. UNCHANGED <<cache, recent>>
    BY <1>3 DEF SearchIndexFails
  <2>3. \A r \in Runtimes : runtime[r] # NoRuntime => runtime'[r].user = runtime[r].user
    BY <1>3 DEF SearchIndexFails, TypeInv, TypeOK, Runtime
  <2>4. \A s \in Servers : \A r \in Elements(cache[s]) :
          runtime'[r].user = runtime[r].user
    BY <2>3, EntriesAreRuntimes DEF Objects
  <2> QED BY <2>1, <2>2, <2>4, KeepCacheInv
<1>4. ASSUME NEW t \in Threads, RefuseOwner(t) \/ Return(t) \/ Fail(t) PROVE CacheInv'
  BY <1>4, QuitCacheInv DEF RefuseOwner, Return, Fail
<1>5. CASE UNCHANGED vars
  <2>1. UNCHANGED <<cache, recent, runtime, pc, request>>
    BY <1>5 DEF vars
  <2>2. \A t \in Threads : Opening(t)' => Opening(t) /\ User(t)' = User(t)
    BY <2>1 DEF Opening, User
  <2> QED BY <2>1, <2>2, KeepCacheInv
<1> QED
  BY <1>1, <1>2, <1>3, <1>4, <1>5, HitCacheInv, MissCacheInv, OpenCacheInv,
     RestartCacheInv DEF Next, InsertMemory, ReinforceMemory, Clear

LEMMA WindowSize ==
    ASSUME NEW m \in Nat, NEW n \in Nat, NEW max \in Nat,
           n = IF m <= max THEN m ELSE max
    PROVE  \E d \in Nat : m = n + d /\ d = IF m > max THEN m - max ELSE 0
<1>1. CASE m <= max
  <2>1. m = n + 0 /\ 0 = IF m > max THEN m - max ELSE 0
    BY <1>1
  <2> QED BY <2>1
<1>2. CASE ~(m <= max)
  <2>1. m - max \in Nat /\ m = n + (m - max)
    BY <1>2
  <2>2. m - max = IF m > max THEN m - max ELSE 0
    BY <1>2
  <2> QED BY <2>1, <2>2
<1> QED BY <1>1, <1>2

(* What is left of a sequence when its first d elements are dropped.       *)
LEMMA SuffixIs ==
    ASSUME NEW S, NEW seq \in Seq(S), NEW n \in Nat, NEW d \in Nat, NEW m \in Nat,
           NEW k \in Nat, Len(seq) = m, m = n + d, k = 1 + d
    PROVE  /\ SubSeq(seq, k, m) \in Seq(S)
           /\ Len(SubSeq(seq, k, m)) = n
           /\ \A i \in 1..n : SubSeq(seq, k, m)[i] = seq[i + d]
<1>1. \A i \in k..m : i \in 1..m
  OBVIOUS
<1>2. \A i \in 1..m : seq[i] \in S
  OBVIOUS
<1>3. \A i \in k..m : seq[i] \in S
  BY <1>1, <1>2
<1>4. k \in Int /\ m \in Int
  OBVIOUS
<1>5. /\ SubSeq(seq, k, m) \in Seq(S)
      /\ Len(SubSeq(seq, k, m)) = IF k <= m THEN m - k + 1 ELSE 0
      /\ \A i \in 1..(m - k + 1) : SubSeq(seq, k, m)[i] = seq[k + i - 1]
  BY <1>3, <1>4, SubSeqProperties
<1>6. m - k + 1 = n /\ (IF k <= m THEN m - k + 1 ELSE 0) = n
  OBVIOUS
<1>7. \A i \in 1..n : k + i - 1 = i + d
  OBVIOUS
<1> QED BY <1>5, <1>6, <1>7

LEMMA FollowsLast ==
    ASSUME NEW entries \in Seq(Runtimes), NEW objects, NEW seq \in Seq(Users),
           Follows(entries, objects, seq)
    PROVE  [i \in DOMAIN entries |-> objects[entries[i]].user] = LastOf(seq, MaxCached)
<1>1. PICK n \in Nat, m \in Nat, max \in Nat :
        n = Len(entries) /\ m = Len(seq) /\ max = MaxCached
  BY BoundsAssumption
<1>2. n = IF m <= max THEN m ELSE max
  BY <1>1 DEF Follows
<1>3. PICK d \in Nat : m = n + d /\ d = IF m > max THEN m - max ELSE 0
  BY <1>2, WindowSize
<1>4. PICK k \in Nat : k = 1 + d
  OBVIOUS
<1> DEFINE L == [i \in DOMAIN entries |-> objects[entries[i]].user]
           R == SubSeq(seq, k, m)
<1>5. LastOf(seq, MaxCached) = R
  BY <1>1, <1>3, <1>4 DEF LastOf
<1>6. DOMAIN entries = 1..n
  BY <1>1
<1>7. \A i \in 1..n : objects[entries[i]].user = seq[i + d]
  <2>1. \A i \in 1..Len(entries) :
          objects[entries[i]].user = seq[i + (Len(seq) - Len(entries))]
    BY DEF Follows
  <2>2. Len(seq) - Len(entries) = d
    BY <1>1, <1>3
  <2> QED BY <1>1, <2>1, <2>2
<1>8. \A i \in 1..n : seq[i + d] \in Users
  <2>1. \A i \in 1..n : i + d \in 1..(n + d)
    OBVIOUS
  <2>2. \A j \in 1..m : seq[j] \in Users
    BY <1>1
  <2>3. m = n + d
    BY <1>3
  <2> QED BY <2>1, <2>2, <2>3
<1>9. /\ R \in Seq(Users) /\ Len(R) = n
      /\ \A i \in 1..n : R[i] = seq[i + d]
  <2>1. Len(seq) = m /\ m = n + d /\ k = 1 + d
    BY <1>1, <1>3, <1>4
  <2> QED BY <2>1, SuffixIs
<1>10. /\ L \in Seq(Users) /\ Len(L) = n
       /\ \A i \in 1..n : L[i] = seq[i + d]
  <2>1. L = [i \in 1..n |-> objects[entries[i]].user]
    BY <1>6
  <2> HIDE DEF L
  <2>2. \A i \in 1..n : L[i] = seq[i + d]
    BY <1>7, <2>1
  <2>3. L \in [1..n -> Users]
    BY <1>7, <1>8, <2>1
  <2> QED BY <2>2, <2>3
<1> HIDE DEF L, R
<1>11. L = R
  <2>1. Len(L) = Len(R) /\ \A i \in 1..Len(L) : L[i] = R[i]
    BY <1>9, <1>10
  <2> QED BY <1>9, <1>10, <2>1, SeqEqual
<1> QED BY <1>5, <1>11 DEF L

(* The cache of a server holds, least recently used first, a runtime for   *)
(* each of the users it has served last, as many as runtime_cache_size     *)
(* allows and never two for one user, however hits, misses, refusals,      *)
(* errors and restarts of its threads interleave (for_user).               *)
THEOREM CacheOrdered == Spec => []CacheIsMostRecent
<1>1. Init => TypeInv /\ Objects /\ CacheInv
  BY InitTypeInv, InitObjects, InitCacheInv
<1>2. TypeInv /\ Objects /\ CacheInv /\ [Next]_vars => (TypeInv /\ Objects /\ CacheInv)'
  BY NextTypeInv, NextObjects, NextCacheInv
<1>3. TypeInv /\ CacheInv => CacheIsMostRecent
  BY FollowsLast DEF TypeInv, TypeOK, CacheInv, CacheIsMostRecent
<1> QED
  BY <1>1, <1>2, <1>3, PTL DEF Spec
=============================================================================
