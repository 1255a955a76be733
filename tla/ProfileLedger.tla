--------------------------- MODULE ProfileLedger ---------------------------
(***************************************************************************)
(* What profile consolidation promises, with no threads and no             *)
(* transactions: the user states things, each statement that bears on a    *)
(* profile key is counted for that key exactly once, and a key whose       *)
(* revocation has been counted is revoked until everything is cleared.     *)
(*                                                                         *)
(* Consolidation implements this specification when one thread at a time   *)
(* serves the user and no step fails (Consolidation!RefinesLedger).        *)
(***************************************************************************)
EXTENDS Integers, FiniteSets

CONSTANTS
    RowIds,      \* identities of stored statements
    Contents,    \* what a statement may say
    Keys,        \* profile keys a statement may bear on
    Claim,       \* content -> record with fields key and nature
    Absent       \* the content of a row that does not exist

VARIABLES
    stated,      \* row -> content, or Absent
    counted,     \* rows that have been counted for their key
    support,     \* key -> number of statements counted for it
    revoked      \* keys for which a revocation has been counted

ledgerVars == <<stated, counted, support, revoked>>

Init ==
    /\ stated = [r \in RowIds |-> Absent]
    /\ counted = {}
    /\ support = [k \in Keys |-> 0]
    /\ revoked = {}

(* A new statement, or a restatement that replaces the wording of one.     *)
State(r, c) ==
    /\ stated' = [stated EXCEPT ![r] = c]
    /\ UNCHANGED <<counted, support, revoked>>

BearsOn(r, k) == stated[r] # Absent /\ Claim[stated[r]].key = k

Uncounted ==
    {r \in RowIds \ counted : \E k \in Keys : BearsOn(r, k)}

(* Some of the uncounted statements are counted, each for its own key.     *)
Absorb(batch) ==
    /\ batch # {}
    /\ counted' = counted \cup batch
    /\ support' = [k \in Keys |->
                     support[k] + Cardinality({r \in batch : BearsOn(r, k)})]
    /\ revoked' = revoked \cup
                    {k \in Keys : \E r \in batch :
                        BearsOn(r, k) /\ Claim[stated[r]].nature = "revocation"}
    /\ UNCHANGED stated

Clear ==
    /\ stated' = [r \in RowIds |-> Absent]
    /\ counted' = {}
    /\ support' = [k \in Keys |-> 0]
    /\ revoked' = {}

Next ==
    \/ \E r \in RowIds, c \in Contents : State(r, c)
    \/ \E batch \in SUBSET Uncounted : Absorb(batch)
    \/ Clear

Spec == Init /\ [][Next]_ledgerVars
=============================================================================
