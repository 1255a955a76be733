--------------------------- MODULE IdentityProofs ---------------------------
(***************************************************************************)
(* What holds of the control plane for every number of users, keys,        *)
(* threads, requests and failures.                                         *)
(***************************************************************************)
EXTENDS Identity, FiniteSetTheorems, TLAPS

-----------------------------------------------------------------------------
(* The inductive invariant.                                                *)

(* A context repeats what the key says of its user and scopes, and that    *)
(* never changes while the key is only revoked.                            *)
Backed(c) ==
    \/ c = BootstrapContext
    \/ /\ c.key \in Keys
       /\ keys[c.key] # NoKey
       /\ c.user = keys[c.key].user
       /\ c.scopes = keys[c.key].scopes

ThreadsInv ==
    \A t \in Threads : pc[t] # "idle" =>
        /\ context[t] \in Context
        /\ Backed(context[t])
        /\ request[t] \in Request
        /\ Allowed(context[t], request[t]) /\ Grantable(context[t], request[t])
        /\ pc[t] = "audit" => done[t] \in effects

(* Effects name keys that exist.                                           *)
Issued(k) == k \in Keys => keys[k] # NoKey

EffectsIssued == \A e \in effects : Issued(e.actor) /\ Issued(e.target)

IInv ==
    /\ TypeOK
    /\ ThreadsInv
    /\ GrantedScopesOnly
    /\ EffectsIssued
    /\ EffectsEntitled
    /\ audit \subseteq effects

(* Every key is kept, with its user and its scopes.                        *)
KeysKept ==
    \A k \in Keys : keys[k] # NoKey =>
        /\ keys'[k] # NoKey
        /\ keys'[k].user = keys[k].user
        /\ keys'[k].scopes = keys[k].scopes

-----------------------------------------------------------------------------
(* Facts about the data.                                                   *)

(* A step that changes the keys fills an empty slot or revokes a key.      *)
LEMMA MintKeeps ==
    ASSUME TypeOK, NEW k \in Keys, keys[k] = NoKey, NEW n \in Key,
           keys' = [keys EXCEPT ![k] = n]
    PROVE  KeysKept /\ keys' \in [Keys -> Key \cup {NoKey}]
BY DEF TypeOK, KeysKept

LEMMA RevokeKeeps ==
    ASSUME TypeOK, NEW k \in Keys, keys[k] # NoKey,
           keys' = [keys EXCEPT ![k].revoked = TRUE]
    PROVE  KeysKept /\ keys' \in [Keys -> Key \cup {NoKey}]
<1>1. keys[k] \in Key
  BY DEF TypeOK
<1>2. [keys[k] EXCEPT !.revoked = TRUE] \in Key
  BY <1>1 DEF Key
<1>3. keys' = [keys EXCEPT ![k] = [keys[k] EXCEPT !.revoked = TRUE]]
  OBVIOUS
<1>4. keys' \in [Keys -> Key \cup {NoKey}]
  BY <1>2, <1>3 DEF TypeOK
<1>5. keys'[k] # NoKey
  BY <1>2, <1>3, NoneAssumption DEF TypeOK
<1>6. keys'[k].user = keys[k].user /\ keys'[k].scopes = keys[k].scopes
  BY <1>1, <1>3 DEF TypeOK, Key
<1> QED
  BY <1>3, <1>4, <1>5, <1>6 DEF TypeOK, KeysKept

LEMMA SameKeysKept ==
    ASSUME UNCHANGED keys
    PROVE  KeysKept
BY DEF KeysKept

(* What holds of contexts and effects survives keeping the keys.           *)
LEMMA BackedKept ==
    ASSUME KeysKept, NEW c, Backed(c)
    PROVE  Backed(c)'
BY DEF Backed, KeysKept, BootstrapContext

LEMMA EffectsKept ==
    ASSUME TypeOK, EffectsIssued, EffectsEntitled, KeysKept, NEW e \in effects
    PROVE  /\ (Issued(e.actor) /\ Issued(e.target))'
           /\ \/ /\ e.action \in {"user.create", "api_key.create"}
                 /\ e.actor = Nobody \/ "admin:users" \in keys'[e.actor].scopes
              \/ /\ e.actor # Nobody
                 /\ keys'[e.actor].user = OwnerOf(e.target)'
<1>1. e.actor \in Keys \cup {Nobody}
  BY DEF TypeOK, Effect
<1>2. Issued(e.actor) /\ Issued(e.target)
  BY DEF EffectsIssued
<1>3. OwnerOf(e.target)' = OwnerOf(e.target)
  BY <1>2 DEF OwnerOf, Issued, KeysKept
<1>4. (Issued(e.actor) /\ Issued(e.target))'
  BY <1>2 DEF Issued, KeysKept
<1> QED
  BY <1>1, <1>2, <1>3, <1>4 DEF EffectsEntitled, Issued, KeysKept

(* The user of a request for a key is a user.                              *)
LEMMA HolderIsUser ==
    ASSUME IInv, NEW t \in Threads, pc[t] = "act",
           request[t].op \in {"grant", "issue"}
    PROVE  /\ Holder(t) \in Users
           /\ request[t].scopes \in SUBSET Scopes
           /\ request[t].expires \in 1..Never
BY DEF IInv, ThreadsInv, Request, Context, Holder, Allowed

-----------------------------------------------------------------------------
(* The initial state and each step.                                        *)

LEMMA InitIInv == Init => IInv
BY BoundsAssumption DEF Init, IInv, TypeOK, ThreadsInv, GrantedScopesOnly, EffectsIssued,
       EffectsEntitled

LEMMA BeginIInv ==
    ASSUME IInv, NEW t \in Threads, NEW r \in Asked, NEW c \in Context,
           Backed(c), Begin(t, c, r)
    PROVE  IInv'
<1> USE DEF IInv
<1>1. r \in Request
  BY ScopeSetsAssumption, BoundsAssumption DEF Asked, Request
<1>2. TypeOK'
  BY <1>1, BoundsAssumption DEF TypeOK, Begin, history
<1>3. KeysKept /\ UNCHANGED <<keys, effects, granted, audit>>
  BY SameKeysKept DEF Begin, history
<1>4. ThreadsInv'
  BY <1>1, <1>3, BackedKept DEF ThreadsInv, Begin, Allowed, Grantable, TypeOK
<1>5. GrantedScopesOnly' /\ EffectsIssued' /\ EffectsEntitled'
  BY <1>3 DEF GrantedScopesOnly, EffectsIssued, EffectsEntitled, Issued, OwnerOf
<1> QED
  BY <1>2, <1>3, <1>4, <1>5

(* Something is done with the key of the context: its effect is entitled.  *)
LEMMA DidIInv ==
    ASSUME IInv, NEW t \in Threads, pc[t] = "act",
           NEW a \in {"user.create", "api_key.create", "api_key.revoke",
                      "memory.clear"},
           NEW g \in Keys \cup Users,
           Did(t, a, g), KeysKept, TypeOK', GrantedScopesOnly',
           UNCHANGED <<audit, context, request>>,
           Issued(g)',
           \/ /\ a \in {"user.create", "api_key.create"}
              /\ "admin:users" \in context[t].scopes
           \/ /\ context[t].user # Nobody
              /\ context[t].user = OwnerOf(g)'
    PROVE  IInv'
<1> USE DEF IInv
<1> DEFINE e == [action |-> a, actor |-> context[t].key, target |-> g]
<1>1. /\ done' = [done EXCEPT ![t] = e]
      /\ effects' = effects \cup {e}
      /\ pc' = [pc EXCEPT ![t] = "audit"]
  BY DEF Did
<1>2. Backed(context[t]) /\ context[t] \in Context
  BY DEF ThreadsInv
<1>3. Backed(context[t])'
  BY <1>2 DEF Backed, KeysKept, BootstrapContext
<1>4. ThreadsInv'
  <2> SUFFICES ASSUME NEW s \in Threads, pc'[s] # "idle"
               PROVE  /\ context'[s] \in Context
                      /\ Backed(context[s])'
                      /\ request'[s] \in Request
                      /\ Allowed(context[s], request[s])'
                      /\ Grantable(context[s], request[s])'
                      /\ pc'[s] = "audit" => done'[s] \in effects'
    BY DEF ThreadsInv
  <2>1. pc[s] # "idle"
    BY <1>1 DEF TypeOK
  <2>2. Backed(context[s])'
    BY <2>1 DEF ThreadsInv, Backed, KeysKept, BootstrapContext
  <2>3. pc'[s] = "audit" => done'[s] \in effects'
    BY <1>1, <2>1 DEF TypeOK, ThreadsInv
  <2> QED
    BY <2>1, <2>2, <2>3 DEF ThreadsInv, Allowed, Grantable
<1>5. Issued(e.actor)' /\ Issued(e.target)'
  BY <1>2, NoneAssumption DEF Backed, KeysKept, Issued, BootstrapContext
<1>6. \/ /\ e.action \in {"user.create", "api_key.create"}
         /\ e.actor = Nobody \/ "admin:users" \in keys'[e.actor].scopes
      \/ /\ e.actor # Nobody
         /\ keys'[e.actor].user = OwnerOf(e.target)'
  BY <1>3, NoneAssumption DEF Backed, BootstrapContext
<1>7. EffectsIssued' /\ EffectsEntitled'
  BY <1>1, <1>5, <1>6, EffectsKept DEF EffectsIssued, EffectsEntitled
<1> QED
  BY <1>1, <1>4, <1>7

LEMMA CreateUserIInv ==
    ASSUME IInv, NEW t \in Threads, NEW k \in Keys, CreateUser(t, k)
    PROVE  IInv'
<1> USE DEF IInv
<1> DEFINE r == request[t]
<1>1. /\ pc[t] = "act" /\ r.op = "create" /\ keys[k] = NoKey
      /\ keys' = [keys EXCEPT ![k] = NewKey(r.user, r)]
      /\ Did(t, "user.create", r.user)
      /\ accounts' = accounts \cup {r.user}
      /\ granted' = [granted EXCEPT ![r.user] = @ \cup r.scopes]
      /\ UNCHANGED <<clock, requests, failures, audit, context, request>>
  BY DEF CreateUser
<1>2. /\ r.user \in Users /\ r.scopes \in SUBSET Scopes /\ r.expires \in 1..Never
      /\ context[t] \in Context
      /\ "admin:users" \in context[t].scopes
  BY <1>1 DEF ThreadsInv, Request, Allowed, Needed
<1>3. NewKey(r.user, r) \in Key
  BY <1>2 DEF NewKey, Key
<1>4. KeysKept /\ keys' \in [Keys -> Key \cup {NoKey}]
  BY <1>1, <1>3, MintKeeps
<1>5. TypeOK'
  BY <1>1, <1>2, <1>4 DEF TypeOK, Did, Effect, Context
<1>6. GrantedScopesOnly'
  BY <1>1, <1>2, <1>3 DEF GrantedScopesOnly, TypeOK, NewKey, Key
<1>7. Issued(r.user)'
  BY <1>1, <1>2, NoneAssumption DEF Issued
<1> QED
  BY <1>1, <1>2, <1>4, <1>5, <1>6, <1>7, DidIInv

LEMMA IssueKeyIInv ==
    ASSUME IInv, NEW t \in Threads, NEW k \in Keys, IssueKey(t, k)
    PROVE  IInv'
<1> USE DEF IInv
<1> DEFINE r == request[t]
           u == Holder(t)
<1>1. /\ pc[t] = "act" /\ r.op \in {"grant", "issue"} /\ keys[k] = NoKey
      /\ keys' = [keys EXCEPT ![k] = NewKey(u, r)]
      /\ Did(t, "api_key.create", k)
      /\ granted' = IF r.op = "grant"
                    THEN [granted EXCEPT ![u] = @ \cup r.scopes]
                    ELSE granted
      /\ UNCHANGED <<clock, requests, failures, accounts, audit, context, request>>
  BY DEF IssueKey
<1>2. u \in Users /\ r.scopes \in SUBSET Scopes /\ r.expires \in 1..Never
  BY <1>1, HolderIsUser
<1>3. NewKey(u, r) \in Key
  BY <1>2 DEF NewKey, Key
<1>4. KeysKept /\ keys' \in [Keys -> Key \cup {NoKey}]
  BY <1>1, <1>3, MintKeeps
<1>5. /\ context[t] \in Context /\ Backed(context[t])
      /\ Allowed(context[t], r) /\ Grantable(context[t], r)
  BY <1>1 DEF ThreadsInv
<1>6. TypeOK'
  BY <1>1, <1>2, <1>4, <1>5 DEF TypeOK, Did, Effect, Context
<1>7. keys'[k] = NewKey(u, r) /\ keys'[k] # NoKey
  BY <1>1, <1>3, NoneAssumption DEF TypeOK
<1>8. keys'[k].user = u /\ keys'[k].scopes = r.scopes
  BY <1>7 DEF NewKey
<1>9. r.scopes \subseteq granted'[u]
  <2>1. CASE r.op = "grant"
    BY <1>1, <1>2, <2>1 DEF TypeOK
  <2>2. CASE r.op = "issue"
    <3>1. r.scopes \subseteq context[t].scopes /\ u = context[t].user /\ u # Nobody
      BY <1>5, <2>2 DEF Allowed, Grantable, Holder
    <3>2. /\ context[t].key \in Keys /\ keys[context[t].key] # NoKey
          /\ u = keys[context[t].key].user
          /\ context[t].scopes = keys[context[t].key].scopes
      BY <1>5, <3>1 DEF Backed, BootstrapContext
    <3>3. context[t].scopes \subseteq granted[u]
      BY <3>2 DEF GrantedScopesOnly
    <3> QED
      BY <1>1, <2>2, <3>1, <3>3
  <2> QED
    BY <1>1, <2>1, <2>2
<1>10. \A v \in Users : granted[v] \subseteq granted'[v]
  BY <1>1, <1>2 DEF TypeOK
<1>11. GrantedScopesOnly'
  <2> SUFFICES ASSUME NEW j \in Keys, keys'[j] # NoKey
               PROVE  keys'[j].scopes \subseteq granted'[keys'[j].user]
    BY DEF GrantedScopesOnly
  <2>1. CASE j = k
    BY <2>1, <1>8, <1>9
  <2>2. CASE j # k
    <3>1. keys'[j] = keys[j] /\ keys[j] \in Key
      BY <1>1, <2>2, NoneAssumption DEF TypeOK
    <3>2. keys[j].user \in Users /\ keys[j].scopes \subseteq granted[keys[j].user]
      BY <3>1, <2>2 DEF GrantedScopesOnly, Key
    <3> QED
      BY <3>1, <3>2, <1>10
  <2> QED
    BY <2>1, <2>2
<1>12. Issued(k)' /\ OwnerOf(k)' = u
  BY <1>7, <1>8 DEF Issued, OwnerOf
<1>13. \/ "admin:users" \in context[t].scopes
       \/ context[t].user # Nobody /\ context[t].user = u
  BY <1>1, <1>5 DEF Allowed, Needed, Holder
<1> QED
  BY <1>1, <1>4, <1>6, <1>11, <1>12, <1>13, DidIInv

LEMMA RevokeIInv ==
    ASSUME IInv, NEW t \in Threads, Revoke(t)
    PROVE  IInv'
<1> USE DEF IInv
<1> DEFINE k == request[t].target
<1>1. /\ pc[t] = "act" /\ request[t].op = "revoke"
      /\ Revocable(context[t], k)
      /\ keys' = [keys EXCEPT ![k].revoked = TRUE]
      /\ Did(t, "api_key.revoke", k)
      /\ UNCHANGED <<clock, requests, failures, accounts, audit, context,
                     request, granted>>
  BY DEF Revoke
<1>2. k \in Keys /\ context[t] \in Context /\ context[t].user # Nobody
  BY <1>1 DEF ThreadsInv, Request, Allowed
<1>3. keys[k] # NoKey /\ keys[k].user = context[t].user
  BY <1>1 DEF Revocable
<1>4. KeysKept /\ keys' \in [Keys -> Key \cup {NoKey}]
  BY <1>1, <1>2, <1>3, RevokeKeeps
<1>5. TypeOK'
  BY <1>1, <1>2, <1>4 DEF TypeOK, Did, Effect, Context
<1>6. GrantedScopesOnly'
  <2> SUFFICES ASSUME NEW j \in Keys, keys'[j] # NoKey
               PROVE  keys'[j].scopes \subseteq granted'[keys'[j].user]
    BY DEF GrantedScopesOnly
  <2>1. keys[j] # NoKey
    BY <1>1, <1>2, <1>3 DEF TypeOK
  <2> QED
    BY <1>1, <1>4, <2>1 DEF KeysKept, GrantedScopesOnly
<1>7. Issued(k)' /\ OwnerOf(k)' = context[t].user
  BY <1>1, <1>2, <1>3, <1>4 DEF Issued, OwnerOf, KeysKept
<1> QED
  BY <1>1, <1>2, <1>4, <1>5, <1>6, <1>7, DidIInv

LEMMA ClearMemoryIInv ==
    ASSUME IInv, NEW t \in Threads, ClearMemory(t)
    PROVE  IInv'
<1> USE DEF IInv
<1> DEFINE u == context[t].user
<1>1. /\ pc[t] = "act" /\ request[t].op = "clear"
      /\ Did(t, "memory.clear", u)
      /\ UNCHANGED <<clock, requests, failures, accounts, keys, audit, context,
                     request, granted>>
  BY DEF ClearMemory
<1>2. u \in Users /\ u # Nobody /\ context[t] \in Context
  BY <1>1 DEF ThreadsInv, Allowed, Context
<1>3. TypeOK'
  BY <1>1, <1>2 DEF TypeOK, Did, Effect, Context
<1>4. GrantedScopesOnly' /\ KeysKept
  BY <1>1, SameKeysKept DEF GrantedScopesOnly
<1>5. Issued(u)' /\ OwnerOf(u)' = u
  BY <1>1, <1>2, NoneAssumption DEF Issued, OwnerOf
<1> QED
  BY <1>1, <1>2, <1>3, <1>4, <1>5, DidIInv

(* A request ends; what was done and who may do what stay as they are.     *)
LEMMA QuitIInv ==
    ASSUME IInv, NEW t \in Threads, Quit(t), TypeOK',
           UNCHANGED <<keys, effects, granted>>, audit' \subseteq effects
    PROVE  IInv'
<1> USE DEF IInv
<1>1. ThreadsInv'
  BY BackedKept, SameKeysKept DEF ThreadsInv, Quit, Allowed, Grantable, TypeOK
<1>2. GrantedScopesOnly' /\ EffectsIssued' /\ EffectsEntitled'
  BY DEF GrantedScopesOnly, EffectsIssued, EffectsEntitled, Issued, OwnerOf
<1> QED
  BY <1>1, <1>2

LEMMA NextIInv == IInv /\ [Next]_vars => IInv'
<1> USE DEF IInv
<1> SUFFICES ASSUME IInv, [Next]_vars
             PROVE  IInv'
  OBVIOUS
<1>1. CASE UNCHANGED vars
  BY <1>1 DEF vars, locals, history, TypeOK, ThreadsInv, Backed, Allowed, Grantable,
       GrantedScopesOnly, EffectsIssued, EffectsEntitled, Issued, OwnerOf
<1>2. CASE Tick
  BY <1>2, BoundsAssumption DEF Tick, locals, history, TypeOK, ThreadsInv, Backed,
       Allowed, Grantable, GrantedScopesOnly, EffectsIssued, EffectsEntitled, Issued, OwnerOf
<1>3. ASSUME NEW t \in Threads, NEW r \in Asked, NEW k \in Keys,
             Authenticate(t, k, r)
      PROVE  IInv'
  <2>1. keys[k] \in Key
    BY <1>3 DEF Authenticate, Authenticates, TypeOK
  <2>2. ContextOf(k) \in Context /\ Backed(ContextOf(k))
    BY <1>3, <2>1 DEF ContextOf, Context, Backed, Key, Authenticate, Authenticates
  <2> QED
    BY <1>3, <2>2, BeginIInv DEF Authenticate
<1>4. ASSUME NEW t \in Threads, NEW r \in Asked, AuthenticateBootstrap(t, r)
      PROVE  IInv'
  <2>1. BootstrapContext \in Context /\ Backed(BootstrapContext)
    BY DEF BootstrapContext, Context, Backed, Scopes
  <2> QED
    BY <1>4, <2>1, BeginIInv DEF AuthenticateBootstrap
<1>5. ASSUME NEW t \in Threads, RefuseUser(t) \/ RefuseKey(t) \/ RefuseRevocation(t)
      PROVE  IInv'
  <2>1. Quit(t) /\ UNCHANGED <<clock, requests, failures, accounts, keys, audit, history>>
    BY <1>5 DEF RefuseUser, RefuseKey, RefuseRevocation
  <2>2. TypeOK'
    BY <2>1 DEF Quit, TypeOK, history
  <2> QED
    BY <2>1, <2>2, QuitIInv DEF history
<1>6. ASSUME NEW t \in Threads, RecordAudit(t)
      PROVE  IInv'
  <2>1. done[t] \in effects
    BY <1>6 DEF RecordAudit, ThreadsInv
  <2>2. TypeOK'
    BY <1>6, <2>1 DEF RecordAudit, Quit, TypeOK, history
  <2> QED
    BY <1>6, <2>1, <2>2, QuitIInv DEF RecordAudit, history
<1>7. ASSUME NEW t \in Threads, Fail(t)
      PROVE  IInv'
  <2>1. TypeOK'
    BY <1>7, BoundsAssumption DEF Fail, Quit, TypeOK, history
  <2> QED
    BY <1>7, <2>1, QuitIInv DEF Fail, history
<1> QED
  BY <1>1, <1>2, <1>3, <1>4, <1>5, <1>6, <1>7, CreateUserIInv, IssueKeyIInv,
     RevokeIInv, ClearMemoryIInv DEF Next

(* The strengthened invariant holds of every behaviour.                    *)
THEOREM Invariance == Spec => []IInv
<1>1. Init => IInv
  BY InitIInv
<1>2. IInv /\ [Next]_vars => IInv'
  BY NextIInv
<1> QED
  BY <1>1, <1>2, PTL DEF Spec

-----------------------------------------------------------------------------
(* The properties.                                                         *)

(* The tables, the local variables and the history hold what they should.  *)
THEOREM TypeCorrect == Spec => []TypeOK
BY Invariance, PTL DEF IInv

(* However long the chain of keys that issue keys, and whatever is revoked *)
(* meanwhile, no key holds a scope its user was not granted (api.py, the   *)
(* subset test of create_current_user_api_key).                            *)
THEOREM NoEscalation == Spec => []GrantedScopesOnly
BY Invariance, PTL DEF IInv

(* Nobody's keys or memory are touched without a key of that user          *)
(* (revoke_api_key_for_user, and the user taken from the context).         *)
THEOREM Entitlement == Spec => []EffectsEntitled
BY Invariance, PTL DEF IInv

(* A revoked or expired key without requests in flight stays that way,     *)
(* whatever other keys and threads do (authenticate).                      *)
LEMMA SilentKept ==
    ASSUME IInv, [Next]_vars, NEW k \in Keys, Silent(k)
    PROVE  Silent(k)'
<1> USE DEF IInv
<1>1. keys[k] # NoKey /\ keys[k] \in Key /\ (keys[k].revoked \/ Expired(k))
  BY DEF Silent, Dead, TypeOK
<1>2. \A t \in Threads : pc[t] # "idle" => context[t].key # k
  BY DEF Silent, InFlight
<1> SUFFICES Dead(k)' /\ (\A t \in Threads : pc'[t] # "idle" => context'[t].key # k)
  BY DEF Silent, InFlight
<1>3. keys[k].expires \in Int /\ clock \in Int
  BY <1>1, BoundsAssumption DEF TypeOK, Key, Never
<1>4. ASSUME UNCHANGED keys, clock' \in Int, clock' >= clock
      PROVE  Dead(k)'
  BY <1>1, <1>3, <1>4 DEF Dead, Expired
<1>5. ASSUME NEW j \in Keys, keys[j] = NoKey, NEW n \in Key,
             keys' = [keys EXCEPT ![j] = n], UNCHANGED clock
      PROVE  Dead(k)'
  BY <1>1, <1>5 DEF Dead, Expired, TypeOK
<1>6. CASE UNCHANGED vars
  BY <1>2, <1>3, <1>4, <1>6 DEF vars, locals
<1>7. CASE Tick
  BY <1>2, <1>3, <1>4, <1>7 DEF Tick, locals
<1>8. ASSUME NEW t \in Threads, NEW r \in Asked, NEW c \in Context,
             c.key # k, Begin(t, c, r)
      PROVE  Silent(k)'
  <2>1. Dead(k)'
    BY <1>3, <1>4, <1>8 DEF Begin
  <2> QED
    BY <2>1, <1>2, <1>8 DEF Begin, TypeOK, Silent, InFlight
<1>9. ASSUME NEW t \in Threads, NEW r \in Asked, NEW j \in Keys,
             Authenticate(t, j, r)
      PROVE  Silent(k)'
  <2>1. j # k
    BY <1>1, <1>9 DEF Authenticate, Authenticates
  <2>2. keys[j] \in Key
    BY <1>9 DEF Authenticate, Authenticates, TypeOK
  <2>3. ContextOf(j) \in Context /\ ContextOf(j).key # k
    BY <2>1, <2>2 DEF ContextOf, Context, Key
  <2> QED
    BY <1>8, <1>9, <2>3 DEF Authenticate
<1>10. ASSUME NEW t \in Threads, NEW r \in Asked, AuthenticateBootstrap(t, r)
       PROVE  Silent(k)'
  <2>1. BootstrapContext \in Context /\ BootstrapContext.key # k
    BY NoneAssumption DEF BootstrapContext, Context, Scopes
  <2> QED
    BY <1>8, <1>10, <2>1 DEF AuthenticateBootstrap
<1>11. ASSUME NEW t \in Threads, pc[t] # "idle",
              pc' = [pc EXCEPT ![t] = "audit"], UNCHANGED context
       PROVE  \A s \in Threads : pc'[s] # "idle" => context'[s].key # k
  BY <1>2, <1>11 DEF TypeOK
<1>12. ASSUME NEW t \in Threads, Quit(t)
       PROVE  \A s \in Threads : pc'[s] # "idle" => context'[s].key # k
  BY <1>2, <1>12 DEF Quit, TypeOK
<1>13. ASSUME NEW t \in Threads, NEW j \in Keys, CreateUser(t, j)
       PROVE  Silent(k)'
  <2>1. NewKey(request[t].user, request[t]) \in Key
    BY <1>13 DEF CreateUser, ThreadsInv, Request, NewKey, Key
  <2>2. Dead(k)'
    BY <1>5, <1>13, <2>1 DEF CreateUser
  <2> QED
    BY <1>11, <1>13, <2>2 DEF CreateUser, Did, Silent, InFlight
<1>14. ASSUME NEW t \in Threads, NEW j \in Keys, IssueKey(t, j)
       PROVE  Silent(k)'
  <2>1. NewKey(Holder(t), request[t]) \in Key
    BY <1>14, HolderIsUser DEF IssueKey, NewKey, Key
  <2>2. Dead(k)'
    BY <1>5, <1>14, <2>1 DEF IssueKey
  <2> QED
    BY <1>11, <1>14, <2>2 DEF IssueKey, Did, Silent, InFlight
<1>15. ASSUME NEW t \in Threads, Revoke(t)
       PROVE  Silent(k)'
  <2>1. request[t].target \in Keys
    BY <1>15 DEF Revoke, ThreadsInv, Request
  <2>2. /\ keys' = [keys EXCEPT ![request[t].target].revoked = TRUE]
        /\ keys[request[t].target] # NoKey
        /\ UNCHANGED clock
    BY <1>15 DEF Revoke, Revocable
  <2>3. keys'[k].expires = keys[k].expires /\ (keys[k].revoked => keys'[k].revoked)
    BY <1>1, <2>1, <2>2 DEF TypeOK, Key
  <2>4. keys'[k] # NoKey
    BY <1>1, <2>1, <2>2, RevokeKeeps DEF KeysKept
  <2>5. Dead(k)'
    BY <1>1, <2>2, <2>3, <2>4 DEF Dead, Expired
  <2> QED
    BY <1>11, <1>15, <2>5 DEF Revoke, Did, Silent, InFlight
<1>16. ASSUME NEW t \in Threads, ClearMemory(t)
       PROVE  Silent(k)'
  <2>1. Dead(k)'
    BY <1>3, <1>4, <1>16 DEF ClearMemory
  <2> QED
    BY <1>11, <1>16, <2>1 DEF ClearMemory, Did, Silent, InFlight
<1>17. ASSUME NEW t \in Threads, \/ RefuseUser(t) \/ RefuseKey(t)
                                 \/ RefuseRevocation(t) \/ RecordAudit(t) \/ Fail(t)
       PROVE  Silent(k)'
  <2>1. Quit(t) /\ UNCHANGED <<keys, clock>>
    BY <1>17 DEF RefuseUser, RefuseKey, RefuseRevocation, RecordAudit, Fail
  <2>2. Dead(k)'
    BY <1>3, <1>4, <2>1
  <2> QED
    BY <1>12, <2>1, <2>2 DEF Silent, InFlight
<1> QED
  BY <1>6, <1>7, <1>9, <1>10, <1>13, <1>14, <1>15, <1>16, <1>17
     DEF Next, Silent, InFlight

(* Once its requests are over, a revoked or expired key never acts again.  *)
THEOREM DeadKeysSilent == Spec => DeadKeysStaySilent
<1>1. IInv /\ [Next]_vars => [\A k \in Keys : Silent(k) => Silent(k)']_vars
  BY SilentKept
<1> QED
  BY <1>1, Invariance, PTL DEF Spec, DeadKeysStaySilent
-----------------------------------------------------------------------------
(* The audit log is complete but for requests that died.                   *)

(* An effect is lost when it is not in the log and nobody is about to put  *)
(* it there.  A request that dies loses one effect at most.                *)
Auditing == {t \in Threads : pc[t] = "audit"}

Lost == {e \in effects \ audit : \A t \in Auditing : done[t] # e}

AuditInv ==
    /\ IsFiniteSet(Auditing)
    /\ IsFiniteSet(Lost)
    /\ Cardinality(Lost) <= failures

LEMMA InitAuditInv == Init => AuditInv
<1> SUFFICES ASSUME Init PROVE AuditInv
  OBVIOUS
<1>1. Auditing = {} /\ Lost = {} /\ failures = 0
  BY DEF Init, Auditing, Lost
<1> QED BY <1>1, FS_EmptySet DEF AuditInv

(* Some effects more are on their way to the log, or some fewer are lost.  *)
LEMMA NothingMoreLost ==
    ASSUME TypeOK, AuditInv, Lost' \subseteq Lost, failures' = failures,
           NEW t, Auditing' \subseteq Auditing \cup {t}
    PROVE  AuditInv'
<1>1. IsFiniteSet(Lost') /\ Cardinality(Lost') <= Cardinality(Lost)
  BY FS_Subset DEF AuditInv
<1>2. Cardinality(Lost) \in Nat /\ Cardinality(Lost') \in Nat /\ failures \in Nat
  BY <1>1, FS_CardinalityType DEF AuditInv, TypeOK
<1>3. IsFiniteSet(Auditing \cup {t})
  BY FS_AddElement DEF AuditInv
<1>4. IsFiniteSet(Auditing')
  BY <1>3, FS_Subset
<1> QED BY <1>1, <1>2, <1>4 DEF AuditInv

LEMMA OneMoreLost ==
    ASSUME TypeOK, AuditInv, NEW e, Lost' \subseteq Lost \cup {e},
           failures' = failures + 1, Auditing' \subseteq Auditing
    PROVE  AuditInv'
<1>1. /\ IsFiniteSet(Lost \cup {e})
      /\ Cardinality(Lost \cup {e}) <= Cardinality(Lost) + 1
  <2>1. IsFiniteSet(Lost) /\ Cardinality(Lost) \in Nat
    BY FS_CardinalityType DEF AuditInv
  <2>2. /\ IsFiniteSet(Lost \cup {e})
        /\ Cardinality(Lost \cup {e})
             = IF e \in Lost THEN Cardinality(Lost) ELSE Cardinality(Lost) + 1
    BY <2>1, FS_AddElement, Zenon
  <2> QED BY <2>1, <2>2
<1>2. IsFiniteSet(Lost') /\ Cardinality(Lost') <= Cardinality(Lost \cup {e})
  BY <1>1, FS_Subset
<1>3. /\ Cardinality(Lost) \in Nat /\ Cardinality(Lost') \in Nat
      /\ Cardinality(Lost \cup {e}) \in Nat /\ failures \in Nat
  BY <1>1, <1>2, FS_CardinalityType DEF AuditInv, TypeOK
<1>4. IsFiniteSet(Auditing')
  BY FS_Subset DEF AuditInv
<1> QED BY <1>1, <1>2, <1>3, <1>4 DEF AuditInv

LEMMA DidAuditInv ==
    ASSUME TypeOK, AuditInv, NEW t \in Threads, pc[t] = "act", NEW a, NEW g,
           Did(t, a, g), UNCHANGED <<audit, failures>>
    PROVE  AuditInv'
<1> DEFINE e == [action |-> a, actor |-> context[t].key, target |-> g]
<1>1. /\ done' = [done EXCEPT ![t] = e] /\ effects' = effects \cup {e}
      /\ pc' = [pc EXCEPT ![t] = "audit"] /\ audit' = audit
  BY DEF Did
<1> HIDE DEF e
<1>2. Auditing' = Auditing \cup {t} /\ t \notin Auditing
  BY <1>1 DEF Auditing, TypeOK
<1>3. done'[t] = e /\ \A s \in Auditing : done'[s] = done[s]
  BY <1>1, <1>2 DEF Auditing, TypeOK
<1>4. Lost' \subseteq Lost
  BY <1>1, <1>2, <1>3 DEF Lost
<1> QED BY <1>2, <1>4, NothingMoreLost

LEMMA QuitAuditInv ==
    ASSUME TypeOK, AuditInv, NEW t \in Threads, Quit(t), effects' = effects,
           \/ audit' = audit /\ failures' = failures + 1
           \/ audit' = audit /\ failures' = failures /\ pc[t] = "act"
           \/ audit' = audit \cup {done[t]} /\ failures' = failures
    PROVE  AuditInv'
<1>1. Auditing' = Auditing \ {t} /\ \A s \in Auditing' : done'[s] = done[s]
  BY DEF Quit, Auditing, TypeOK
<1>2. CASE audit' = audit /\ failures' = failures + 1
  <2>1. Lost' \subseteq Lost \cup {done[t]}
    BY <1>1, <1>2 DEF Lost
  <2> QED BY <1>1, <1>2, <2>1, OneMoreLost
<1>3. CASE audit' = audit /\ failures' = failures /\ pc[t] = "act"
  <2>1. Auditing' = Auditing
    BY <1>1, <1>3 DEF Auditing
  <2>2. Lost' \subseteq Lost
    BY <1>1, <1>3, <2>1 DEF Lost
  <2> QED BY <1>3, <2>1, <2>2, NothingMoreLost
<1>4. CASE audit' = audit \cup {done[t]} /\ failures' = failures
  <2>1. Lost' \subseteq Lost
    BY <1>1, <1>4 DEF Lost
  <2> QED BY <1>1, <1>4, <2>1, NothingMoreLost
<1> QED BY <1>2, <1>3, <1>4

LEMMA NextAuditInv == TypeOK /\ AuditInv /\ [Next]_vars => AuditInv'
<1> SUFFICES ASSUME TypeOK, AuditInv, [Next]_vars PROVE AuditInv'
  OBVIOUS
<1>1. ASSUME UNCHANGED <<failures, audit, pc, done, effects>> PROVE AuditInv'
  BY <1>1 DEF AuditInv, Auditing, Lost
<1>2. CASE UNCHANGED vars \/ Tick
  BY <1>1, <1>2 DEF vars, Tick, locals, history
<1>3. ASSUME NEW t \in Threads, NEW c, NEW r, Begin(t, c, r) PROVE AuditInv'
  <2>1. /\ pc[t] = "idle" /\ pc' = [pc EXCEPT ![t] = "act"]
        /\ UNCHANGED <<failures, audit, done, effects>>
    BY <1>3 DEF Begin, history
  <2>2. Auditing' = Auditing
    BY <2>1 DEF Auditing, TypeOK
  <2>3. Lost' = Lost
    BY <2>1, <2>2 DEF Lost
  <2> QED BY <2>1, <2>2, <2>3 DEF AuditInv
<1>4. ASSUME NEW t \in Threads, NEW k \in Keys, CreateUser(t, k) \/ IssueKey(t, k)
      PROVE  AuditInv'
  BY <1>4, DidAuditInv DEF CreateUser, IssueKey
<1>5. ASSUME NEW t \in Threads, Revoke(t) \/ ClearMemory(t) PROVE AuditInv'
  BY <1>5, DidAuditInv DEF Revoke, ClearMemory
<1>6. ASSUME NEW t \in Threads,
             \/ RefuseUser(t) \/ RefuseKey(t) \/ RefuseRevocation(t)
             \/ RecordAudit(t) \/ Fail(t)
      PROVE  AuditInv'
  BY <1>6, QuitAuditInv
     DEF RefuseUser, RefuseKey, RefuseRevocation, RecordAudit, Fail, history
<1> QED BY <1>2, <1>3, <1>4, <1>5, <1>6
        DEF Next, Authenticate, AuthenticateBootstrap

(* The effects that are about to be recorded are no more than the threads. *)
LEMMA AuditCounted == IInv /\ AuditInv => EffectsAudited
<1> SUFFICES ASSUME IInv, AuditInv PROVE EffectsAudited
  OBVIOUS
<1> DEFINE pending == {done[t] : t \in Auditing}
           f == [t \in Auditing |-> done[t]]
<1>1. f \in Surjection(Auditing, pending)
  BY DEF Surjection
<1>2. /\ IsFiniteSet(Auditing) /\ IsFiniteSet(Lost)
      /\ Cardinality(Lost) <= failures
  BY DEF AuditInv
<1> HIDE DEF pending, f
<1>3. IsFiniteSet(pending) /\ Cardinality(pending) <= Cardinality(Auditing)
  BY <1>1, <1>2, FS_Surjection
<1>4. effects \ audit \subseteq Lost \cup pending
  BY DEF Lost, pending
<1>5. /\ IsFiniteSet(Lost \cup pending)
      /\ Cardinality(Lost \cup pending) <= Cardinality(Lost) + Cardinality(pending)
  <2>1. IsFiniteSet(Lost \cap pending)
    BY <1>2, FS_Subset
  <2>2. /\ Cardinality(Lost \cap pending) \in Nat
        /\ Cardinality(Lost) \in Nat /\ Cardinality(pending) \in Nat
    BY <1>2, <1>3, <2>1, FS_CardinalityType
  <2>3. /\ IsFiniteSet(Lost \cup pending)
        /\ Cardinality(Lost \cup pending)
             = Cardinality(Lost) + Cardinality(pending)
                 - Cardinality(Lost \cap pending)
    BY <1>2, <1>3, FS_Union
  <2> QED BY <2>2, <2>3
<1>6. /\ IsFiniteSet(effects \ audit)
      /\ Cardinality(effects \ audit) <= Cardinality(Lost \cup pending)
  BY <1>4, <1>5, FS_Subset
<1>7. /\ Cardinality(effects \ audit) \in Nat /\ Cardinality(Lost) \in Nat
      /\ Cardinality(Lost \cup pending) \in Nat
      /\ Cardinality(pending) \in Nat /\ Cardinality(Auditing) \in Nat
      /\ failures \in Nat
  BY <1>2, <1>3, <1>5, <1>6, FS_CardinalityType DEF IInv, TypeOK
<1>8. Cardinality(effects \ audit) <= failures + Cardinality(Auditing)
  BY <1>2, <1>3, <1>5, <1>6, <1>7
<1> QED BY <1>8 DEF EffectsAudited, Auditing, IInv

(* Whatever was done is in the audit log, or is about to be, or was done   *)
(* by a request that died between its transaction and the log's: one       *)
(* effect per such request at most, however many threads and users there   *)
(* are (api.py commits an operation before it calls record_audit).         *)
THEOREM AuditComplete == Spec => []EffectsAudited
<1>1. Init => AuditInv
  BY InitAuditInv
<1>2. TypeOK /\ AuditInv /\ [Next]_vars => AuditInv'
  BY NextAuditInv
<1> QED BY <1>1, <1>2, Invariance, TypeCorrect, AuditCounted, PTL DEF Spec
=============================================================================
