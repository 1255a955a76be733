-------------------------- MODULE MCConsolidation --------------------------
(***************************************************************************)
(* Values for TLC.  The contents stand for                                 *)
(*   like    "I like clear wording."           a weak general preference   *)
(*   revoke  "I no longer like clear wording." its revocation              *)
(*   weather "It rained all day."              no trait at all             *)
(*   pick    a choice between two libraries    weak decision style         *)
(*   avoid   "I don't like clear wording."     contradicts like            *)
(***************************************************************************)
EXTENDS Consolidation, TLC

CONSTANTS like, revoke, weather, pick, avoid, wording, deciding

AClaim(key, nature, weak, length, confidence) ==
    [key |-> key, nature |-> nature, weak |-> weak, length |-> length,
     confidence |-> confidence]

MCKeys == {wording, deciding}

AllClaims ==
    (like    :> AClaim(wording, "statement", TRUE, 20, 70)) @@
    (avoid   :> AClaim(wording, "statement", TRUE, 24, 70)) @@
    (revoke  :> AClaim(wording, "revocation", FALSE, 30, 70)) @@
    (weather :> AClaim(NoKey, "statement", FALSE, 18, 60)) @@
    (pick    :> AClaim(deciding, "choice", TRUE, 40, 62))

MCClaim == [c \in Contents |-> AllClaims[c]]

MCSimilar == {<<c, c>> : c \in Contents \ {pick}}

(* Longer wordings of one statement share most of their words.             *)
MCSimilarRevocation == MCSimilar \cup {<<like, revoke>>, <<revoke, like>>}

MCOpposed == {<<like, avoid>>, <<avoid, like>>} \cap (Contents \X Contents)

(* Rows 1 and 2 are stored within one second.                              *)
MCCreatedAt == [r \in RowIds |-> IF r <= 2 THEN 1 ELSE r]

ThreadSymmetry == Permutations(Threads)
=============================================================================
