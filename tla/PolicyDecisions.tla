-------------------------- MODULE PolicyDecisions --------------------------
(***************************************************************************)
(* The decisions whether a task reads memory and whether a content is      *)
(* captured (AdaptiveMemoryPolicy of adaptive_policy.py over               *)
(* RuleMemoryPolicy of rule_provider.py), as functions of the signals that *)
(* feedback has taught.                                                    *)
(*                                                                         *)
(* A text is abstracted to what the two policies see in it: the features   *)
(* of the one, the number of keyword rules and the cues of the other.      *)
(* Scores are in hundredths.                                               *)
(***************************************************************************)
EXTENDS PolicySignals

LOCAL INSTANCE FiniteSetsExt

CONSTANTS
    Texts,              \* the texts to decide about
    ReadThreshold,      \* memory_use_threshold
    CaptureThreshold    \* capture_threshold

ReadFeatures ==
    {"first_person", "question", "generic_question", "explicit_read_request",
     "continuity_reference", "short_followup", "preference_reference",
     "project_context_reference", "task_work_intent", "memory_reference",
     "identity_reference"}

CaptureFeatures ==
    {"first_person", "question", "transient_chat", "explicit_memory_intent",
     "manual_memory_request", "identity_statement", "preference_statement",
     "goal_statement", "decision_statement", "future_instruction",
     "style_instruction", "correction_statement"}

Generic == {"question", "generic_question"}

(* What else the keyword rules look for.                                   *)
Cues == {"generic", "mine", "continue", "work", "durable"}

Text == [kind     : {"read", "capture"},
         empty    : BOOLEAN,
         features : SUBSET (ReadFeatures \cup CaptureFeatures),
         rules    : Nat,
         cues     : SUBSET Cues]

(* A question is generic only if nothing else is found in it.              *)
ASSUME TextsAssumption ==
    /\ Texts \subseteq Text
    /\ \A x \in Texts :
         /\ x.features \subseteq IF x.kind = "read" THEN ReadFeatures
                                                    ELSE CaptureFeatures
         /\ "generic_question" \in x.features => x.features \subseteq Generic

ASSUME ThresholdsAssumption ==
    ReadThreshold \in 0..100 /\ CaptureThreshold \in 0..100

Smaller(a, b) == IF a <= b THEN a ELSE b

Decision == [use : BOOLEAN, confidence : 0..100]

Yes(confidence) == [use |-> TRUE, confidence |-> confidence]

No(confidence) == [use |-> FALSE, confidence |-> confidence]

(* Both policies say no with a floor under their confidence.               *)
AtLeast(threshold, confidence, floor) ==
    IF confidence >= threshold THEN Yes(confidence)
                               ELSE No(Larger(confidence, floor))

-----------------------------------------------------------------------------
(* The adaptive features.                                                  *)

ReadWeight ==
    [explicit_read_request |-> 65, continuity_reference |-> 28,
     preference_reference |-> 28, project_context_reference |-> 22,
     task_work_intent |-> 28, memory_reference |-> 24,
     identity_reference |-> 42, first_person |-> 8]

CaptureWeight ==
    [explicit_memory_intent |-> 65, identity_statement |-> 38,
     preference_statement |-> 32, goal_statement |-> 28,
     decision_statement |-> 34, future_instruction |-> 32,
     style_instruction |-> 30, correction_statement |-> 34,
     first_person |-> 6]

Weighed(base, weight, F) ==
    Smaller(95, base + MapThenSumSet(LAMBDA f : weight[f], F \cap DOMAIN weight))

FromReadFeatures(x) ==
    IF x.empty THEN No(0)
    ELSE IF "generic_question" \in x.features /\ x.features \subseteq Generic
         THEN No(72)
    ELSE AtLeast(ReadThreshold, Weighed(24, ReadWeight, x.features), 30)

FromCaptureFeatures(x) ==
    IF x.empty THEN No(0)
    ELSE IF "transient_chat" \in x.features THEN No(72)
    ELSE AtLeast(CaptureThreshold, Weighed(18, CaptureWeight, x.features), 30)

-----------------------------------------------------------------------------
(* The keyword rules.                                                      *)

Counted(base, x, points) == Smaller(95, Smaller(95, base + 18 * x.rules) + points)

FromReadRules(x) ==
    IF x.empty THEN No(0)
    ELSE IF "generic" \in x.cues /\ x.rules = 0 THEN No(75)
    ELSE AtLeast(ReadThreshold,
                 Counted(25, x, Points("mine", 10, x.cues)
                                  + Points("continue", 12, x.cues)
                                  + Points("work", 12, x.cues)),
                 35)

FromCaptureRules(x) ==
    IF x.empty THEN No(0)
    ELSE AtLeast(CaptureThreshold,
                 Counted(20, x, Points("durable", 15, x.cues)), 30)

-----------------------------------------------------------------------------
(* The learnt signals, and which of the three opinions counts.             *)

(* Faulty variant: stable signals are forgotten.                           *)
MatchingActive(x) ==
    {p \in x.features \cap (IF x.kind = "capture" THEN CapturePatterns
                                        ELSE Patterns \ CapturePatterns) :
        signals[p] # NoSignal /\ signals[p].status = "active"}

(* A signal on features is for texts of its own type: the patterns of      *)
(* captures for captures, the others for reads.                            *)
Matching(x) ==
    {p \in x.features \cap (IF x.kind = "capture" THEN CapturePatterns
                                        ELSE Patterns \ CapturePatterns) :
        /\ signals[p] # NoSignal
        /\ signals[p].status \in {"active", "stable"}}

Learnt(x) == IF x.empty THEN {} ELSE Matching(x)

FromSignals(x) ==
    Yes(Smaller(98, FoldSet(Larger, 0, {signals[p].confidence : p \in Learnt(x)})
                    + 8))

Surer(first, second) ==
    IF first.confidence >= second.confidence THEN first ELSE second

(* _merge_decisions: a learnt signal never says no, so it is never set     *)
(* aside.                                                                  *)
Merged(x, feature, seed) ==
    IF Learnt(x) # {} THEN FromSignals(x) ELSE Surer(feature, seed)

DecideRead(x) == Merged(x, FromReadFeatures(x), FromReadRules(x))

DecideCapture(x) == Merged(x, FromCaptureFeatures(x), FromCaptureRules(x))

Decide(x) == IF x.kind = "read" THEN DecideRead(x) ELSE DecideCapture(x)

-----------------------------------------------------------------------------
(* Properties.                                                             *)

(* The use a user's feedback is put to.  Unless two requests tell the same *)
(* signal at once, one of them dies, or a clear comes in between, a        *)
(* support never makes the policies refuse a text they would have used     *)
(* memory for, and a rejection never makes them use memory where they did  *)
(* not: the confidence, the counts, the status machine and the merge of    *)
(* the three opinions all point the same way.                              *)
FeedbackPointsTheRightWay ==
    [][\A t \in Threads, x \in Texts :
         Write(t) /\ doing[t].pattern \notin disturbed =>
            IF doing[t].verdict = "reject"
            THEN Decide(x).use' => Decide(x).use
            ELSE Decide(x).use => Decide(x).use']_vars
=============================================================================
