------------------------------ MODULE Identity ------------------------------
(***************************************************************************)
(* The control plane: users, API keys and the audit log (identity.py), and *)
(* the order in which a request authenticates, checks scopes, acts and is  *)
(* audited (api.py).  One action is one transaction on control.sqlite3;    *)
(* other requests run in between.                                          *)
(*                                                                         *)
(* Every key comes with a principal of its own, so a key stands for both.  *)
(* memory:write and memory:inspect are treated like memory:read.  The      *)
(* status columns are left out: no operation disables a user or principal. *)
(***************************************************************************)
EXTENDS Integers, FiniteSets

CONSTANTS
    Users,         \* user names
    Keys,          \* ids of keys
    Threads,       \* request threads of the server
    ScopeSets,     \* scopes that requests for keys ask for
    Lifetimes,     \* expiry times that requests for keys ask for
    Bootstrap,     \* whether a bootstrap token is configured
    MaxTime,       \* bound: the clock
    MaxRequests,   \* bound: requests
    MaxFailures,   \* bound: requests that die between two transactions
    NoKey,         \* a key that was not issued
    Nobody,        \* the bootstrap principal, and the user it is bound to
    Nothing        \* no request

Scopes == {"memory:read", "memory:delete", "api_keys:manage", "admin:users"}

(* A key that never expires does so after the last instant of the clock.   *)
Never == MaxTime + 1

Key == [user : Users, scopes : SUBSET Scopes, expires : 1..Never,
        revoked : BOOLEAN]

(* RequestContext: who a request acts for, as of its authentication.       *)
Context == [key : Keys \cup {Nobody}, user : Users \cup {Nobody},
            scopes : SUBSET Scopes]

(* What a request asks for.                                                *)
Request ==
    [op : {"create", "grant"}, user : Users, scopes : SUBSET Scopes,
     expires : 1..Never]
    \cup [op : {"issue"}, scopes : SUBSET Scopes, expires : 1..Never]
    \cup [op : {"revoke"}, target : Keys]
    \cup [op : {"clear"}]

(* Something that was done: with which key, and to which key or user.      *)
Effect == [action : {"user.create", "api_key.create", "api_key.revoke",
                     "memory.clear"},
           actor  : Keys \cup {Nobody},
           target : Keys \cup Users]

ASSUME ScopeSetsAssumption ==
    ScopeSets \subseteq (SUBSET Scopes) \ {{}}

ASSUME BoundsAssumption ==
    /\ MaxTime \in Nat /\ MaxRequests \in Nat /\ MaxFailures \in Nat
    /\ Lifetimes \subseteq 1..Never
    /\ Bootstrap \in BOOLEAN

ASSUME NoneAssumption ==
    /\ NoKey \notin Key
    /\ Nobody \notin Keys \cup Users
    /\ Keys \cap Users = {}
    /\ Nothing \notin Context \cup Request \cup Effect

VARIABLES
    clock,      \* the current time
    requests,   \* number of requests authenticated so far
    failures,   \* number of requests that died so far
    accounts,   \* the table users
    keys,       \* the tables principals and api_keys
    audit,      \* the table audit_logs
    pc,         \* thread -> the next transaction of its request
    context,    \* thread -> the context of its request
    request,    \* thread -> its request
    done,       \* thread -> what its request has done
    granted,    \* history: user -> scopes an administrator has granted
    effects     \* history: everything requests have done

locals == <<pc, context, request, done>>

history == <<granted, effects>>

vars == <<clock, requests, failures, accounts, keys, audit,
          pc, context, request, done, granted, effects>>

Init ==
    /\ clock = 0
    /\ requests = 0
    /\ failures = 0
    /\ accounts = {}
    /\ keys = [k \in Keys |-> NoKey]
    /\ audit = {}
    /\ pc = [t \in Threads |-> "idle"]
    /\ context = [t \in Threads |-> Nothing]
    /\ request = [t \in Threads |-> Nothing]
    /\ done = [t \in Threads |-> Nothing]
    /\ granted = [u \in Users |-> {}]
    /\ effects = {}

-----------------------------------------------------------------------------
(* Who may do what.                                                        *)

Expired(k) == keys[k].expires <= clock

(* Faulty variant: only the expiry is looked at.                           *)
Unexpired(k) == keys[k] # NoKey /\ ~Expired(k)

Authenticates(k) == keys[k] # NoKey /\ ~keys[k].revoked /\ ~Expired(k)

Needed(op) ==
    CASE op \in {"create", "grant"} -> "admin:users"
      [] op \in {"issue", "revoke"} -> "api_keys:manage"
      [] op = "clear"               -> "memory:delete"

(* require_scope: what acts for a user needs a context of a user.          *)
Allowed(c, r) ==
    /\ Needed(r.op) \in c.scopes
    /\ r.op \in {"issue", "revoke", "clear"} => c.user # Nobody

(* Faulty variant: one scope that is held will do.                         *)
GrantableInPart(c, r) == r.op = "issue" => r.scopes \cap c.scopes # {}

(* A key that is issued holds no scope that the issuing key does not.      *)
Grantable(c, r) == r.op = "issue" => r.scopes \subseteq c.scopes

(* The requests that clients send.                                         *)
Asked ==
    [op : {"create", "grant"}, user : Users, scopes : ScopeSets,
     expires : Lifetimes]
    \cup [op : {"issue"}, scopes : ScopeSets, expires : Lifetimes]
    \cup [op : {"revoke"}, target : Keys]
    \cup [op : {"clear"}]

-----------------------------------------------------------------------------
(* A request begins.  One that is refused leaves nothing behind, and is no *)
(* step.                                                                   *)

Begin(t, c, r) ==
    /\ requests < MaxRequests
    /\ pc[t] = "idle"
    /\ Allowed(c, r) /\ Grantable(c, r)
    /\ requests' = requests + 1
    /\ pc' = [pc EXCEPT ![t] = "act"]
    /\ context' = [context EXCEPT ![t] = c]
    /\ request' = [request EXCEPT ![t] = r]
    /\ UNCHANGED <<clock, failures, accounts, keys, audit, done, history>>

ContextOf(k) == [key |-> k, user |-> keys[k].user, scopes |-> keys[k].scopes]

(* ControlStore.authenticate reads the key once, for the whole request.    *)
Authenticate(t, k, r) ==
    /\ Authenticates(k)
    /\ Begin(t, ContextOf(k), r)

BootstrapContext == [key |-> Nobody, user |-> Nobody, scopes |-> {"admin:users"}]

AuthenticateBootstrap(t, r) ==
    /\ Bootstrap
    /\ Begin(t, BootstrapContext, r)

-----------------------------------------------------------------------------
(* The transactions of a request.                                          *)

(* Faulty variant: the user is recorded where the principal belongs.       *)
DidAsUser(t, action, target) ==
    LET e == [action |-> action, actor |-> context[t].user, target |-> target]
    IN  /\ done' = [done EXCEPT ![t] = e]
        /\ effects' = effects \cup {e}
        /\ pc' = [pc EXCEPT ![t] = "audit"]

(* What the thread has done, to be audited next.                           *)
Did(t, action, target) ==
    LET e == [action |-> action, actor |-> context[t].key, target |-> target]
    IN  /\ done' = [done EXCEPT ![t] = e]
        /\ effects' = effects \cup {e}
        /\ pc' = [pc EXCEPT ![t] = "audit"]

Quit(t) ==
    /\ pc' = [pc EXCEPT ![t] = "idle"]
    /\ context' = [context EXCEPT ![t] = Nothing]
    /\ request' = [request EXCEPT ![t] = Nothing]
    /\ done' = [done EXCEPT ![t] = Nothing]

NewKey(u, r) == [user |-> u, scopes |-> r.scopes, expires |-> r.expires,
                 revoked |-> FALSE]

(* The user, its principal and its first key are inserted together.        *)
CreateUser(t, k) ==
    LET r == request[t]
    IN  /\ pc[t] = "act"
        /\ r.op = "create"
        /\ r.user \notin accounts
        /\ keys[k] = NoKey
        /\ accounts' = accounts \cup {r.user}
        /\ keys' = [keys EXCEPT ![k] = NewKey(r.user, r)]
        /\ granted' = [granted EXCEPT ![r.user] = @ \cup r.scopes]
        /\ Did(t, "user.create", r.user)
        /\ UNCHANGED <<clock, requests, failures, audit, context, request>>

(* The name is taken: 409.                                                 *)
RefuseUser(t) ==
    /\ pc[t] = "act"
    /\ request[t].op = "create"
    /\ request[t].user \in accounts
    /\ Quit(t)
    /\ UNCHANGED <<clock, requests, failures, accounts, keys, audit, history>>

(* The user in the path of the request, or the one it is authenticated as. *)
Holder(t) == IF request[t].op = "grant" THEN request[t].user ELSE context[t].user

(* issue_api_key looks the user up, then inserts a principal and a key;    *)
(* no user is ever removed in between.                                     *)
IssueKey(t, k) ==
    LET r == request[t]
        u == Holder(t)
    IN  /\ pc[t] = "act"
        /\ r.op \in {"grant", "issue"}
        /\ u \in accounts
        /\ keys[k] = NoKey
        /\ keys' = [keys EXCEPT ![k] = NewKey(u, r)]
        /\ granted' = IF r.op = "grant"
                      THEN [granted EXCEPT ![u] = @ \cup r.scopes]
                      ELSE granted
        /\ Did(t, "api_key.create", k)
        /\ UNCHANGED <<clock, requests, failures, accounts, audit, context, request>>

(* There is no such user: 400.                                             *)
RefuseKey(t) ==
    /\ pc[t] = "act"
    /\ request[t].op \in {"grant", "issue"}
    /\ Holder(t) \notin accounts
    /\ Quit(t)
    /\ UNCHANGED <<clock, requests, failures, accounts, keys, audit, history>>

Revocable(c, k) ==
    keys[k] # NoKey /\ ~keys[k].revoked /\ keys[k].user = c.user

(* Faulty variant: any key can be revoked.                                 *)
RevokeAny(t) ==
    LET k == request[t].target
    IN  /\ pc[t] = "act"
        /\ request[t].op = "revoke"
        /\ keys[k] # NoKey /\ ~keys[k].revoked
        /\ keys' = [keys EXCEPT ![k].revoked = TRUE]
        /\ Did(t, "api_key.revoke", k)
        /\ UNCHANGED <<clock, requests, failures, accounts, audit, context,
                       request, granted>>

Revoke(t) ==
    LET k == request[t].target
    IN  /\ pc[t] = "act"
        /\ request[t].op = "revoke"
        /\ Revocable(context[t], k)
        /\ keys' = [keys EXCEPT ![k].revoked = TRUE]
        /\ Did(t, "api_key.revoke", k)
        /\ UNCHANGED <<clock, requests, failures, accounts, audit, context,
                       request, granted>>

(* No such key of this user's, or it is revoked already: 404.              *)
RefuseRevocation(t) ==
    /\ pc[t] = "act"
    /\ request[t].op = "revoke"
    /\ ~Revocable(context[t], request[t].target)
    /\ Quit(t)
    /\ UNCHANGED <<clock, requests, failures, accounts, keys, audit, history>>

(* POST /v2/memory/clear: the user's own database, see UserRuntimes.       *)
ClearMemory(t) ==
    /\ pc[t] = "act"
    /\ request[t].op = "clear"
    /\ Did(t, "memory.clear", context[t].user)
    /\ UNCHANGED <<clock, requests, failures, accounts, keys, audit, context,
                   request, granted>>

(* Faulty variant: what an administrator does is not audited.              *)
RecordAuditOfUsers(t) ==
    /\ pc[t] = "audit"
    /\ audit' = IF done[t].actor = Nobody THEN audit ELSE audit \cup {done[t]}
    /\ Quit(t)
    /\ UNCHANGED <<clock, requests, failures, accounts, keys, history>>

RecordAudit(t) ==
    /\ pc[t] = "audit"
    /\ audit' = audit \cup {done[t]}
    /\ Quit(t)
    /\ UNCHANGED <<clock, requests, failures, accounts, keys, history>>

(* A lock timeout or a killed process.                                     *)
Fail(t) ==
    /\ failures < MaxFailures
    /\ failures' = failures + 1
    /\ pc[t] # "idle"
    /\ Quit(t)
    /\ UNCHANGED <<clock, requests, accounts, keys, audit, history>>

Tick ==
    /\ clock < MaxTime
    /\ clock' = clock + 1
    /\ UNCHANGED <<requests, failures, accounts, keys, audit, locals, history>>

-----------------------------------------------------------------------------

Next ==
    \/ Tick
    \/ \E t \in Threads :
          \/ \E r \in Asked : \/ \E k \in Keys : Authenticate(t, k, r)
                              \/ AuthenticateBootstrap(t, r)
          \/ \E k \in Keys : CreateUser(t, k) \/ IssueKey(t, k)
          \/ RefuseUser(t)
          \/ RefuseKey(t)
          \/ Revoke(t)
          \/ RefuseRevocation(t)
          \/ ClearMemory(t)
          \/ RecordAudit(t)
          \/ Fail(t)

Spec == Init /\ [][Next]_vars

-----------------------------------------------------------------------------
(* Properties.                                                             *)

(* The tables, the local variables and the history hold what they should.  *)
TypeOK ==
    /\ clock \in 0..MaxTime
    /\ requests \in 0..MaxRequests
    /\ failures \in 0..MaxFailures
    /\ accounts \subseteq Users
    /\ keys \in [Keys -> Key \cup {NoKey}]
    /\ audit \subseteq Effect
    /\ pc \in [Threads -> {"idle", "act", "audit"}]
    /\ context \in [Threads -> Context \cup {Nothing}]
    /\ request \in [Threads -> Request \cup {Nothing}]
    /\ done \in [Threads -> Effect \cup {Nothing}]
    /\ granted \in [Users -> SUBSET Scopes]
    /\ effects \subseteq Effect

(* However many keys a user's keys issue, and whichever of them are        *)
(* revoked or expire meanwhile, none holds a scope that no administrator   *)
(* has granted to the user.                                                *)
GrantedScopesOnly ==
    \A k \in Keys : keys[k] # NoKey => keys[k].scopes \subseteq granted[keys[k].user]

OwnerOf(target) == IF target \in Keys THEN keys[target].user ELSE target

(* Whatever was done to a user's keys or memory was done with a key of     *)
(* that user, except that administrators create users and keys; they never *)
(* revoke a key or clear a memory of someone else.                         *)
EffectsEntitled ==
    \A e \in effects :
        \/ /\ e.action \in {"user.create", "api_key.create"}
           /\ e.actor = Nobody \/ "admin:users" \in keys[e.actor].scopes
        \/ /\ e.actor # Nobody
           /\ keys[e.actor].user = OwnerOf(e.target)

(* The audit log tells only what happened, and what it lacks is about to   *)
(* be recorded or belongs to a request that died.                          *)
EffectsAudited ==
    /\ audit \subseteq effects
    /\ Cardinality(effects \ audit) <=
          failures + Cardinality({t \in Threads : pc[t] = "audit"})

Dead(k) == keys[k] # NoKey /\ (keys[k].revoked \/ Expired(k))

InFlight(k) == \E t \in Threads : pc[t] # "idle" /\ context[t].key = k

Silent(k) == Dead(k) /\ ~InFlight(k)

(* Requests that a key has authenticated may outlive it.  Once they are    *)
(* over, a revoked or expired key never acts again.                        *)
DeadKeysStaySilent == [][\A k \in Keys : Silent(k) => Silent(k)']_vars
=============================================================================
