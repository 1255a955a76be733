----------------------- MODULE PolicyDecisionsProofs -----------------------
(***************************************************************************)
(* Proof that feedback points the decisions the right way, for any texts,  *)
(* thresholds, messages and confidences, and any number of threads.        *)
(***************************************************************************)
EXTENDS PolicyDecisions, PolicySignalsProofs

USE MessagesAssumption, ConfidencesAssumption, BoundsAssumption, NoneAssumption

-----------------------------------------------------------------------------
(* Why a signal is not used.                                               *)

(* A signal that decisions do not use is not confident enough, or it has   *)
(* been rejected too often: the converse of Earned.                        *)
Grounded(s) ==
    /\ s.support >= 1
    /\ s.status \in {"candidate", "archived"} =>
          s.confidence < 62 \/ s.reject >= Larger(2, s.support)

GroundedInv ==
    /\ \A p \in Patterns : signals[p] # NoSignal => Grounded(signals[p])
    /\ \A t \in Threads :
          /\ \A f \in todo[t] : Grounded(NewSignal(f))
          /\ pc[t] = "write" => Grounded(pending[t])

LEMMA FeedbackOfGrounded ==
    ASSUME NEW m \in Messages, NEW p \in Patterns
    PROVE  Grounded(NewSignal(FeedbackOf(m, p)))
<1> DEFINE f == FeedbackOf(m, p)
<1>1. f \in Feedback /\ f.status = AdmissionStatus(f.confidence)
  BY FeedbackOfType DEF FeedbackOf
<1> HIDE DEF f
<1>2. f.confidence \in Int
  BY <1>1 DEF Feedback, Percent
<1>3. f.status = "candidate" \/ f.status = "archived" => f.confidence < 62
  BY <1>1, <1>2 DEF AdmissionStatus
<1>4. /\ NewSignal(f).support = 1 /\ NewSignal(f).status = f.status
      /\ NewSignal(f).confidence = f.confidence
  BY DEF NewSignal
<1> QED BY <1>3, <1>4 DEF Grounded, f

LEMMA LearnGrounded ==
    ASSUME NEW p \in Patterns, NEW c \in Confidences
    PROVE  Grounded(NewSignal([pattern |-> p, verdict |-> "learn", confidence |-> c,
                               status |-> InitialStatus(c), negative |-> FALSE]))
<1>1. c \in Int
  BY DEF Percent
<1>2. InitialStatus(c) = "candidate" \/ InitialStatus(c) = "archived" => c < 62
  BY <1>1 DEF InitialStatus
<1> DEFINE f == [pattern |-> p, verdict |-> "learn", confidence |-> c,
                 status |-> InitialStatus(c), negative |-> FALSE]
<1>3. /\ NewSignal(f).support = 1 /\ NewSignal(f).status = InitialStatus(c)
      /\ NewSignal(f).confidence = c
  BY DEF NewSignal
<1> QED BY <1>2, <1>3 DEF Grounded

LEMMA ReinforcedGrounded ==
    ASSUME NEW s \in Signal, NEW f \in Feedback, NEW d \in Percent, Grounded(s)
    PROVE  Grounded(Reinforced(s, f, d))
<1> DEFINE r == Reinforced(s, f, d)
<1>1. r \in Signal /\ r.status = SignalStatus(r.confidence, r.support, r.reject)
  BY ReinforcedType DEF Reinforced
<1>2. s.support \in Nat /\ s.support >= 1
  BY DEF Signal, Grounded
<1>3. r.support = s.support \/ r.support = s.support + 1
  BY DEF Reinforced
<1> HIDE DEF r
<1>4. r.support >= 1 /\ r.support \in Nat /\ r.reject \in Nat /\ r.confidence \in Int
  BY <1>1, <1>2, <1>3 DEF Signal, Percent
<1>5. r.status \in {"candidate", "archived"} =>
        r.confidence < 62 \/ r.reject >= Larger(2, r.support)
  BY <1>1, <1>4 DEF SignalStatus
<1> QED BY <1>4, <1>5 DEF Grounded, r

LEMMA GroundedInit == Init => GroundedInv
BY DEF Init, GroundedInv

LEMMA GroundedBegin ==
    ASSUME TypeInv, GroundedInv, NEW t \in Threads, NEW F, Begin(t, F),
           \A f \in F : Grounded(NewSignal(f))
    PROVE  GroundedInv'
<1>1. /\ UNCHANGED <<signals, pending>> /\ pc'[t] # "write" /\ todo'[t] = F
      /\ \A u \in Threads \ {t} : pc'[u] = pc[u] /\ todo'[u] = todo[u]
  BY DEF TypeInv, TypeOK, Begin
<1> QED BY <1>1 DEF GroundedInv

LEMMA GroundedStep == TypeInv /\ GroundedInv /\ [Next]_vars => GroundedInv'
<1> SUFFICES ASSUME TypeInv, GroundedInv, [Next]_vars PROVE GroundedInv'
  OBVIOUS
<1>1. ASSUME NEW t \in Threads, NEW m \in Messages, Observe(t, m)
      PROVE  GroundedInv'
  <2>1. \A f \in {FeedbackOf(m, p) : p \in Admitted(m)} : Grounded(NewSignal(f))
    BY FeedbackOfGrounded DEF Admitted, Proposed, Supported, CapturePatterns, Patterns
  <2> QED BY <1>1, <2>1, GroundedBegin DEF Observe
<1>2. ASSUME NEW t \in Threads, NEW p \in Patterns, NEW c \in Confidences,
             Learn(t, p, c)
      PROVE  GroundedInv'
  BY <1>2, LearnGrounded, GroundedBegin DEF Learn
<1>3. ASSUME NEW t \in Threads, NEW p \in Patterns,
             NEW v \in {"support", "reject"}, Reinforce(t, p, v)
      PROVE  GroundedInv'
  <2>1. /\ UNCHANGED <<signals, todo, pending>> /\ pc'[t] # "write"
        /\ \A u \in Threads \ {t} : pc'[u] = pc[u]
    BY <1>3 DEF TypeInv, TypeOK, Reinforce
  <2> QED BY <2>1 DEF GroundedInv
<1>4. ASSUME NEW t \in Threads, Clear(t)
      PROVE  GroundedInv'
  BY <1>4 DEF GroundedInv, Clear, locals
<1>5. ASSUME NEW t \in Threads, NEW f \in todo[t], LookUp(t, f)
      PROVE  GroundedInv'
  <2>1. Grounded(NewSignal(f)) /\ UNCHANGED signals
    BY <1>5 DEF GroundedInv, LookUp
  <2>2. \A u \in Threads : todo'[u] \subseteq todo[u]
    BY <1>5 DEF TypeInv, TypeOK, LookUp
  <2>3. \A u \in Threads : pc'[u] = "write" => Grounded(pending'[u])
    <3>1. \A u \in Threads \ {t} : pc'[u] = pc[u] /\ pending'[u] = pending[u]
      BY <1>5 DEF TypeInv, TypeOK, LookUp
    <3>2. pc'[t] = "write" => pending'[t] = NewSignal(f)
      BY <1>5 DEF TypeInv, TypeOK, LookUp
    <3> QED BY <2>1, <3>1, <3>2 DEF GroundedInv
  <2> QED BY <2>1, <2>2, <2>3 DEF GroundedInv
<1>6. ASSUME NEW t \in Threads, ReadSignal(t)
      PROVE  GroundedInv'
  <2>1. /\ doing[t] \in Feedback /\ doing[t].pattern \in Patterns
        /\ signals[doing[t].pattern] \in Signal /\ delta[t] \in Percent
    BY <1>6 DEF ReadSignal, TypeInv, TypeOK, Shape, Feedback
  <2>2. Grounded(Reinforced(signals[doing[t].pattern], doing[t], delta[t]))
    BY <1>6, <2>1, ReinforcedGrounded DEF ReadSignal, GroundedInv
  <2>3. /\ UNCHANGED <<signals, todo>>
        /\ pending'[t] = Reinforced(signals[doing[t].pattern], doing[t], delta[t])
        /\ \A u \in Threads \ {t} : pc'[u] = pc[u] /\ pending'[u] = pending[u]
    BY <1>6 DEF TypeInv, TypeOK, ReadSignal
  <2> QED BY <2>2, <2>3 DEF GroundedInv
<1>7. ASSUME NEW t \in Threads, MissSignal(t) \/ Write(t)
      PROVE  GroundedInv'
  <2>1. FinishedType(t) /\ todo' = todo
    BY <1>7, FinishType DEF MissSignal, Write
  <2>2. ASSUME NEW p \in Patterns, signals'[p] # NoSignal
        PROVE  Grounded(signals'[p])
    <3>1. signals'[p] = signals[p] \/ (pc[t] = "write" /\ signals'[p] = pending[t])
      BY <1>7 DEF MissSignal, Write, TypeInv, TypeOK
    <3> QED BY <2>2, <3>1 DEF GroundedInv
  <2> QED BY <2>1, <2>2 DEF GroundedInv, FinishedType
<1>8. ASSUME NEW t \in Threads, Fail(t)
      PROVE  GroundedInv'
  <2>1. /\ UNCHANGED signals /\ pc'[t] = "idle" /\ todo'[t] = {}
        /\ \A u \in Threads \ {t} :
              pc'[u] = pc[u] /\ todo'[u] = todo[u] /\ pending'[u] = pending[u]
    BY <1>8 DEF TypeInv, TypeOK, Fail
  <2> QED BY <2>1 DEF GroundedInv
<1>9. CASE UNCHANGED vars
  BY <1>9 DEF GroundedInv, vars
<1> QED
  BY <1>1, <1>2, <1>3, <1>4, <1>5, <1>6, <1>7, <1>8, <1>9
  DEF Next, Request, Continue

-----------------------------------------------------------------------------
(* What a feedback does to the decisions.                                  *)

Usable(s) == s # NoSignal /\ s.status \in {"active", "stable"}

(* A support keeps a signal in use, a rejection keeps it out of use.       *)
LEMMA ReinforcedUse ==
    ASSUME NEW s \in Signal, NEW f \in Feedback, NEW d \in Percent,
           Grounded(s), Earned(s)
    PROVE  /\ f.verdict = "reject" /\ Usable(Reinforced(s, f, d)) => Usable(s)
           /\ f.verdict # "reject" /\ Usable(s) => Usable(Reinforced(s, f, d))
<1> DEFINE r == Reinforced(s, f, d)
<1>1. /\ r \in Signal /\ Earned(r)
      /\ r.status = SignalStatus(r.confidence, r.support, r.reject)
  BY ReinforcedType DEF Reinforced
<1>2. /\ s.confidence \in Percent /\ s.support \in Nat /\ s.reject \in Nat
      /\ s.status \in Statuses /\ s.support >= 1
  BY DEF Signal, Grounded
<1>3. ASSUME f.verdict = "reject", Usable(r) PROVE Usable(s)
  <2>1. /\ r.confidence = Clipped(s.confidence - d)
        /\ r.support = s.support /\ r.reject = s.reject + 1
    BY <1>3 DEF Reinforced
  <2>2. r.confidence >= 62 /\ r.reject < Larger(2, r.support)
    BY <1>1, <1>3 DEF Earned, Usable
  <2> HIDE DEF r
  <2>3. s.confidence >= 62
    BY <1>2, <2>1, <2>2 DEF Clipped, Percent
  <2>4. s.reject < Larger(2, s.support)
    BY <1>2, <2>1, <2>2 DEF Larger
  <2>5. s.status \notin {"candidate", "archived"}
    BY <1>2, <2>3, <2>4 DEF Grounded, Larger, Percent
  <2> QED BY <1>2, <2>5 DEF Usable, Statuses
<1>4. ASSUME f.verdict # "reject", Usable(s) PROVE Usable(r)
  <2>1. /\ r.confidence = Clipped(s.confidence + d)
        /\ r.support = s.support + 1 /\ r.reject = s.reject
    BY <1>4 DEF Reinforced
  <2>2. s.confidence >= 62 /\ s.reject < Larger(2, s.support)
    BY <1>4 DEF Earned, Usable
  <2> HIDE DEF r
  <2>3. r.confidence >= 62 /\ r.support >= 1 /\ ~(r.reject >= Larger(2, r.support))
    BY <1>2, <2>1, <2>2 DEF Clipped, Percent, Larger
  <2>4. r.status \in {"active", "stable"}
    BY <1>1, <2>3 DEF SignalStatus
  <2> QED BY <1>1, <2>4 DEF Usable
<1> QED BY <1>3, <1>4

(* What the policies say of a text without the signals.                    *)
Untaught(x) ==
    IF x.kind = "read" THEN Surer(FromReadFeatures(x), FromReadRules(x))
                       ELSE Surer(FromCaptureFeatures(x), FromCaptureRules(x))

LEMMA DecideUse ==
    ASSUME NEW x
    PROVE  Decide(x).use = IF Learnt(x) # {} THEN TRUE ELSE Untaught(x).use
BY DEF Decide, DecideRead, DecideCapture, Merged, FromSignals, Yes, Untaught

LEMMA DecideUseNext ==
    ASSUME NEW x
    PROVE  Decide(x).use' = IF Learnt(x)' # {} THEN TRUE ELSE Untaught(x).use
BY DEF Decide, DecideRead, DecideCapture, Merged, FromSignals, Yes, Untaught

LEMMA WritePoints ==
    ASSUME TypeInv, EarnedInv, GroundedInv, ComputedInv, NEW t \in Threads,
           Write(t), doing[t].pattern \notin disturbed, NEW x
    PROVE  /\ doing[t].verdict = "reject" => Learnt(x)' \subseteq Learnt(x)
           /\ doing[t].verdict # "reject" => Learnt(x) \subseteq Learnt(x)'
<1> DEFINE p == doing[t].pattern
<1>1. doing[t] \in Feedback /\ p \in Patterns
  BY DEF Write, TypeInv, Shape, Feedback
<1>2. signals'[p] = pending[t] /\ \A q \in Patterns \ {p} : signals'[q] = signals[q]
  BY <1>1 DEF Write, TypeInv, TypeOK
<1>3. /\ doing[t].verdict = "reject" /\ Usable(pending[t]) => Usable(signals[p])
      /\ doing[t].verdict # "reject" /\ Usable(signals[p]) => Usable(pending[t])
  <2>1. Computed(t)
    BY DEF ComputedInv, Write
  <2>2. CASE signals[p] = NoSignal
    BY <2>1, <2>2 DEF Computed, Usable
  <2>3. CASE signals[p] # NoSignal
    <3>1. PICK d \in Percent : pending[t] = Reinforced(signals[p], doing[t], d)
      BY <2>1, <2>3 DEF Computed
    <3>2. signals[p] \in Signal /\ Grounded(signals[p]) /\ Earned(signals[p])
      BY <1>1, <2>3 DEF TypeInv, TypeOK, GroundedInv, EarnedInv, AllEarned
    <3> QED BY <1>1, <3>1, <3>2, ReinforcedUse
  <2> QED BY <2>2, <2>3
<1> HIDE DEF p
<1>4. /\ doing[t].verdict = "reject" =>
            \A q \in Patterns : Usable(signals'[q]) => Usable(signals[q])
      /\ doing[t].verdict # "reject" =>
            \A q \in Patterns : Usable(signals[q]) => Usable(signals'[q])
  BY <1>2, <1>3
<1> DEFINE K == x.features \cap (IF x.kind = "capture" THEN CapturePatterns
                                                      ELSE Patterns \ CapturePatterns)
<1>5. K \subseteq Patterns
  BY DEF CapturePatterns, Patterns
<1>6. Learnt(x) = IF x.empty THEN {} ELSE {q \in K : Usable(signals[q])}
  BY DEF Learnt, Matching, Usable
<1>7. Learnt(x)' = IF x.empty THEN {} ELSE {q \in K : Usable(signals'[q])}
  BY DEF Learnt, Matching, Usable
<1> HIDE DEF K
<1> QED BY <1>4, <1>5, <1>6, <1>7

(* Unless two requests tell the same signal at once, one of them dies, or  *)
(* a clear comes in between, a support never makes the policies refuse a   *)
(* text they would have used memory for, and a rejection never makes them  *)
(* use memory where they did not, for any texts, thresholds, messages and  *)
(* confidences.                                                            *)
THEOREM RightWay == Spec => FeedbackPointsTheRightWay
<1> DEFINE Right == \A t \in Threads, x \in Texts :
                      Write(t) /\ doing[t].pattern \notin disturbed =>
                         IF doing[t].verdict = "reject"
                         THEN Decide(x).use' => Decide(x).use
                         ELSE Decide(x).use => Decide(x).use'
<1>1. TypeInv /\ EarnedInv /\ GroundedInv /\ ComputedInv => Right
  <2> SUFFICES ASSUME TypeInv, EarnedInv, GroundedInv, ComputedInv,
                      NEW t \in Threads, NEW x \in Texts, Write(t),
                      doing[t].pattern \notin disturbed
               PROVE  IF doing[t].verdict = "reject"
                      THEN Decide(x).use' => Decide(x).use
                      ELSE Decide(x).use => Decide(x).use'
    OBVIOUS
  <2> QED BY WritePoints, DecideUse, DecideUseNext
<1> QED
  BY <1>1, TypeInit, TypeStep, EarnedInit, EarnedStep, GroundedInit, GroundedStep,
     DistinctInit, DistinctStep, OneBearerInit, OneBearerStep, ComputedInit,
     ComputedStep, PTL
  DEF Spec, FeedbackPointsTheRightWay
=============================================================================
