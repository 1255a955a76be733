------------------------ MODULE PolicySignalsProofs ------------------------
(***************************************************************************)
(* Proofs about PolicySignals, for any messages, confidences and bounds,   *)
(* and any number of threads (finitely many where feedback is counted).    *)
(***************************************************************************)
EXTENDS PolicySignals, FiniteSetTheorems, TLAPS

USE MessagesAssumption, ConfidencesAssumption, BoundsAssumption, NoneAssumption

-----------------------------------------------------------------------------
(* What is told to a signal.                                               *)

(* A status that comes with a feedback fits its confidence.                *)
Graded(f) ==
    /\ f.status # "archived"
    /\ f.status = "active" => f.confidence >= 62
    /\ f.status = "stable" => f.confidence >= 85

(* A signal that decisions use (active or stable) is sure enough, and was  *)
(* not rejected twice and as often as supported.                           *)
Earned(s) ==
    s.status \in {"active", "stable"} =>
        s.confidence >= 62 /\ s.reject < Larger(2, s.support)

(* A stable signal is sure and was supported three times.                  *)
Repeated(s) == s.status = "stable" => s.confidence >= 85 /\ s.support >= 3

LEMMA ClippedType == \A n \in Int : Clipped(n) \in Percent
BY DEF Clipped, Percent

LEMMA StepType == \A a, b \in Percent : Larger(2, a - b) \in Percent
BY DEF Larger, Percent

(* What a turn proposes is well-formed and graded.                         *)
LEMMA FeedbackOfType ==
    ASSUME NEW m \in Messages, NEW p \in Patterns
    PROVE  /\ FeedbackOf(m, p) \in Feedback
           /\ FeedbackOf(m, p).pattern = p
           /\ FeedbackOf(m, p).verdict = "learn"
           /\ Graded(FeedbackOf(m, p)) /\ FeedbackOf(m, p).status # "stable"
<1> DEFINE score == Score(SignalsOf(m, p), m.durable)
<1>1. score \in Percent
  <2>1. \A name, S : \A n \in Nat : Points(name, n, S) \in Nat
    BY DEF Points
  <2>2. (IF m.durable THEN 15 ELSE 0) \in Nat
    OBVIOUS
  <2> QED BY <2>1, <2>2, ClippedType DEF Score
<1>2. /\ AdmissionStatus(score) \in Statuses
      /\ AdmissionStatus(score) \notin {"archived", "stable"}
      /\ AdmissionStatus(score) = "active" => score >= 62
  BY DEF AdmissionStatus, Statuses
<1> HIDE DEF score
<1>3. FeedbackOf(m, p) =
        [pattern |-> p, verdict |-> "learn", confidence |-> score,
         status |-> AdmissionStatus(score), negative |-> p \notin Supported(m)]
  BY DEF FeedbackOf, score
<1>4. (p \notin Supported(m)) \in BOOLEAN
  OBVIOUS
<1> QED BY <1>1, <1>2, <1>3, <1>4 DEF Feedback, Graded

LEMMA LearnType ==
    ASSUME NEW p \in Patterns, NEW c \in Confidences
    PROVE  LET f == [pattern |-> p, verdict |-> "learn", confidence |-> c,
                     status |-> InitialStatus(c), negative |-> FALSE]
           IN  f \in Feedback /\ Graded(f) /\ (f.status = "stable" => c >= 85)
<1>1. c \in Percent
  OBVIOUS
<1>2. /\ InitialStatus(c) \in Statuses
      /\ InitialStatus(c) # "archived"
      /\ InitialStatus(c) = "active" => c >= 62
      /\ InitialStatus(c) = "stable" => c >= 85
  BY <1>1 DEF InitialStatus, Statuses, Percent
<1> QED BY <1>1, <1>2 DEF Feedback, Graded

LEMMA NewSignalType ==
    ASSUME NEW f \in Feedback
    PROVE  /\ NewSignal(f) \in Signal
           /\ NewSignal(f).support + NewSignal(f).reject = 1
           /\ Graded(f) => Earned(NewSignal(f))
           /\ f.status # "stable" => Repeated(NewSignal(f))
<1>1. NewSignal(f) \in Signal
  BY DEF NewSignal, Signal, Feedback
<1>2. NewSignal(f).support = 1 /\ NewSignal(f).reject = 0
      /\ NewSignal(f).confidence = f.confidence /\ NewSignal(f).status = f.status
  BY DEF NewSignal
<1>3. f.confidence \in Int
  BY DEF Feedback, Percent
<1> QED BY <1>1, <1>2, <1>3 DEF Graded, Earned, Repeated, Larger

(* The status rule gives active and stable only to signals that have       *)
(* earned it.                                                              *)
LEMMA ReinforcedType ==
    ASSUME NEW s \in Signal, NEW f \in Feedback, NEW d \in Percent
    PROVE  /\ Reinforced(s, f, d) \in Signal
           /\ Reinforced(s, f, d).support + Reinforced(s, f, d).reject
                = s.support + s.reject + 1
           /\ Earned(Reinforced(s, f, d)) /\ Repeated(Reinforced(s, f, d))
<1> DEFINE approved   == f.verdict # "reject"
           confidence == Clipped(IF approved THEN s.confidence + d
                                             ELSE s.confidence - d)
           support    == IF approved THEN s.support + 1 ELSE s.support
           reject     == IF approved THEN s.reject ELSE s.reject + 1
           status     == SignalStatus(confidence, support, reject)
<1>1. s.confidence \in Percent /\ s.support \in Nat /\ s.reject \in Nat
  BY DEF Signal
<1>2. confidence \in Percent
  BY <1>1, ClippedType DEF Percent
<1>3. support \in Nat /\ reject \in Nat /\ support + reject = s.support + s.reject + 1
  BY <1>1
<1>4. Reinforced(s, f, d) = [confidence |-> confidence, support |-> support,
                             reject |-> reject, status |-> status]
  BY DEF Reinforced
<1> HIDE DEF approved, confidence, support, reject
<1>5. status \in Statuses
  BY DEF SignalStatus, Statuses
<1>6. /\ status \in {"active", "stable"} =>
            confidence >= 62 /\ reject < Larger(2, support)
      /\ status = "stable" => confidence >= 85 /\ support >= 3
  BY <1>2, <1>3 DEF SignalStatus, Larger, Percent
<1> HIDE DEF status
<1> QED BY <1>2, <1>3, <1>4, <1>5, <1>6 DEF Signal, Earned, Repeated

-----------------------------------------------------------------------------
(* Type correctness: what a thread works on depends on where it is.        *)

Shape ==
    \A t \in Threads :
        /\ pc[t] = "idle" => todo[t] = {}
        /\ pc[t] \in {"idle", "next"} => doing[t] = Nothing
        /\ pc[t] \in {"read", "write"} => doing[t] \in Feedback
        /\ pc[t] = "write" => pending[t] \in Signal

TypeInv == TypeOK /\ Shape

LEMMA TypeInit == Init => TypeInv
<1> SUFFICES ASSUME Init PROVE TypeInv
  OBVIOUS
<1>1. 0 \in Percent /\ "idle" \in Phases
  BY DEF Percent, Phases
<1>2. TypeOK
  <2>1. requests \in 0..MaxRequests /\ failures \in 0..MaxFailures
    BY DEF Init
  <2>2. disturbed \in SUBSET Patterns
    BY DEF Init
  <2>3. heard \in [Patterns -> Int] /\ highest \in [Patterns -> Percent]
    BY <1>1 DEF Init
  <2>4. /\ signals \in [Patterns -> Signal \cup {NoSignal}]
        /\ pc \in [Threads -> Phases]
        /\ todo \in [Threads -> SUBSET Feedback]
        /\ doing \in [Threads -> Feedback \cup {Nothing}]
        /\ delta \in [Threads -> Percent]
        /\ pending \in [Threads -> Signal \cup {NoSignal}]
    BY <1>1 DEF Init
  <2> QED BY <2>1, <2>2, <2>3, <2>4 DEF TypeOK
<1>3. Shape
  BY DEF Init, Shape
<1> QED BY <1>2, <1>3 DEF TypeInv

(* History keeps its type.                                                 *)
LEMMA HearsType ==
    ASSUME TypeOK, NEW F \in SUBSET Feedback, Hears(F)
    PROVE  /\ heard' \in [Patterns -> Int]
           /\ highest' \in [Patterns -> Percent]
           /\ disturbed' \in SUBSET Patterns
<1>1. heard' \in [Patterns -> Int]
  BY DEF TypeOK, Hears
<1>2. ASSUME NEW p \in Patterns, Told(F, p) # {}
      PROVE  (CHOOSE f \in F : f.pattern = p).confidence \in Percent
  <2>1. \E f \in F : f.pattern = p
    BY <1>2 DEF Told
  <2>2. (CHOOSE f \in F : f.pattern = p) \in Feedback
    BY <2>1
  <2> QED BY <2>2 DEF Feedback
<1>3. \A a, b \in Percent : Larger(a, b) \in Percent
  BY DEF Larger
<1>4. \A p \in Patterns : highest[p] \in Percent
  BY DEF TypeOK
<1>5. highest' \in [Patterns -> Percent]
  BY <1>2, <1>3, <1>4 DEF Hears
<1>6. disturbed' \in SUBSET Patterns
  BY DEF TypeOK, Hears
<1> QED BY <1>1, <1>5, <1>6

LEMMA BeginType ==
    ASSUME TypeInv, NEW t \in Threads, NEW F \in SUBSET Feedback,
           NEW op, Issue(op), Begin(t, F)
    PROVE  TypeInv'
<1>1. requests' \in 0..MaxRequests
  BY DEF TypeInv, TypeOK, Issue
<1>2. /\ heard' \in [Patterns -> Int] /\ highest' \in [Patterns -> Percent]
      /\ disturbed' \in SUBSET Patterns
  BY HearsType DEF Begin, TypeInv
<1>3. pc' \in [Threads -> Phases] /\ todo' \in [Threads -> SUBSET Feedback]
  BY DEF TypeInv, TypeOK, Begin, Phases
<1>4. Shape'
  BY DEF TypeInv, TypeOK, Shape, Begin
<1> QED BY <1>1, <1>2, <1>3, <1>4 DEF TypeInv, TypeOK, Begin

(* What is known of a thread that has done with a feedback.                *)
FinishedType(t) ==
    /\ pc' \in [Threads -> Phases]
    /\ doing' \in [Threads -> Feedback \cup {Nothing}]
    /\ delta' \in [Threads -> Percent]
    /\ pending' \in [Threads -> Signal \cup {NoSignal}]
    /\ doing'[t] = Nothing
    /\ pc'[t] \in {"idle", "next"}
    /\ pc'[t] = "idle" => todo[t] = {}
    /\ \A u \in Threads \ {t} :
          pc'[u] = pc[u] /\ doing'[u] = doing[u] /\ pending'[u] = pending[u]

LEMMA FinishType ==
    ASSUME TypeInv, NEW t \in Threads, Finish(t)
    PROVE  FinishedType(t)
<1>1. 0 \in Percent /\ {"idle", "next"} \subseteq Phases
  BY DEF Percent, Phases
<1>2. /\ pc \in [Threads -> Phases] /\ delta \in [Threads -> Percent]
      /\ doing \in [Threads -> Feedback \cup {Nothing}]
      /\ pending \in [Threads -> Signal \cup {NoSignal}]
  BY DEF TypeInv, TypeOK
<1>3. pc' = [pc EXCEPT ![t] = IF todo[t] = {} THEN "idle" ELSE "next"]
  BY DEF Finish
<1>4. /\ pc' \in [Threads -> Phases] /\ pc'[t] \in {"idle", "next"}
      /\ pc'[t] = "idle" => todo[t] = {}
      /\ \A u \in Threads \ {t} : pc'[u] = pc[u]
  BY <1>1, <1>2, <1>3
<1>5. delta' \in [Threads -> Percent]
  BY <1>1, <1>2 DEF Finish
<1>6. /\ doing' \in [Threads -> Feedback \cup {Nothing}]
      /\ pending' \in [Threads -> Signal \cup {NoSignal}]
      /\ doing'[t] = Nothing
      /\ \A u \in Threads \ {t} :
            doing'[u] = doing[u] /\ pending'[u] = pending[u]
  BY <1>2 DEF Finish
<1> QED BY <1>4, <1>5, <1>6 DEF FinishedType

LEMMA TypeStep == TypeInv /\ [Next]_vars => TypeInv'
<1> SUFFICES ASSUME TypeInv, [Next]_vars PROVE TypeInv'
  OBVIOUS
<1>1. ASSUME NEW t \in Threads, NEW m \in Messages, Observe(t, m)
      PROVE  TypeInv'
  <2>1. {FeedbackOf(m, p) : p \in Admitted(m)} \in SUBSET Feedback
    BY FeedbackOfType DEF Admitted, Proposed, Supported, CapturePatterns, Patterns
  <2> QED BY <1>1, <2>1, BeginType DEF Observe
<1>2. ASSUME NEW t \in Threads, NEW p \in Patterns, NEW c \in Confidences,
             Learn(t, p, c)
      PROVE  TypeInv'
  BY <1>2, LearnType, BeginType DEF Learn
<1>3. ASSUME NEW t \in Threads, NEW p \in Patterns,
             NEW v \in {"support", "reject"}, Reinforce(t, p, v)
      PROVE  TypeInv'
  <2> DEFINE f == [pattern |-> p, verdict |-> v, confidence |-> 0,
                   status |-> "candidate", negative |-> v = "reject"]
  <2>1. f \in Feedback
    BY DEF Feedback, Percent, Statuses
  <2>2. /\ heard' \in [Patterns -> Int] /\ highest' \in [Patterns -> Percent]
        /\ disturbed' \in SUBSET Patterns
    BY <1>3, <2>1, HearsType DEF Reinforce, TypeInv
  <2>3. requests' \in 0..MaxRequests
    BY <1>3 DEF TypeInv, TypeOK, Issue, Reinforce
  <2>4. /\ doing' = [doing EXCEPT ![t] = f] /\ delta' = [delta EXCEPT ![t] = 8]
        /\ pc' = [pc EXCEPT ![t] = "read"]
        /\ UNCHANGED <<failures, signals, todo, pending>>
    BY <1>3 DEF Reinforce
  <2> HIDE DEF f
  <2>5. TypeOK'
    BY <2>1, <2>2, <2>3, <2>4 DEF TypeInv, TypeOK, Phases, Percent
  <2>6. Shape'
    BY <2>1, <2>4 DEF TypeInv, TypeOK, Shape
  <2> QED BY <2>5, <2>6 DEF TypeInv
<1>4. ASSUME NEW t \in Threads, Clear(t)
      PROVE  TypeInv'
  <2>1. /\ heard' \in [Patterns -> Int] /\ highest' \in [Patterns -> Percent]
        /\ disturbed' \in SUBSET Patterns
    <3>1. 0 \in Int /\ 0 \in Percent
      BY DEF Percent
    <3> QED BY <1>4, <3>1 DEF TypeInv, TypeOK, Clear
  <2> QED BY <1>4, <2>1 DEF TypeInv, TypeOK, Shape, Clear, Issue, locals
<1>5. ASSUME NEW t \in Threads, NEW f \in todo[t], LookUp(t, f)
      PROVE  TypeInv'
  <2>1. f \in Feedback /\ f.pattern \in Patterns /\ f.confidence \in Percent
    BY DEF TypeInv, TypeOK, Feedback
  <2>2. signals[f.pattern] # NoSignal => signals[f.pattern].confidence \in Percent
    BY <2>1 DEF TypeInv, TypeOK, Signal
  <2>3. signals[f.pattern] # NoSignal =>
          Larger(2, f.confidence - signals[f.pattern].confidence) \in Percent
    BY <2>1, <2>2, StepType
  <2>4. NewSignal(f) \in Signal
    BY <2>1, NewSignalType
  <2>5. /\ pc' \in [Threads -> Phases]
        /\ delta' \in [Threads -> Percent]
        /\ pending' \in [Threads -> Signal \cup {NoSignal}]
    <3>1. CASE signals[f.pattern] = NoSignal
      BY <1>5, <2>4, <3>1 DEF TypeInv, TypeOK, LookUp, Phases
    <3>2. CASE signals[f.pattern] # NoSignal
      BY <1>5, <2>3, <3>2 DEF TypeInv, TypeOK, LookUp, Phases
    <3> QED BY <3>1, <3>2
  <2>7. TypeOK'
    BY <1>5, <2>1, <2>5 DEF TypeInv, TypeOK, LookUp, history
  <2>6. Shape'
    BY <1>5, <2>1, <2>4 DEF TypeInv, TypeOK, Shape, LookUp
  <2> QED BY <2>6, <2>7 DEF TypeInv
<1>6. ASSUME NEW t \in Threads, ReadSignal(t)
      PROVE  TypeInv'
  <2>1. doing[t] \in Feedback /\ doing[t].pattern \in Patterns
    BY <1>6 DEF ReadSignal, TypeInv, Shape, Feedback
  <2>2. Reinforced(signals[doing[t].pattern], doing[t], delta[t]) \in Signal
    BY <1>6, <2>1, ReinforcedType DEF ReadSignal, TypeInv, TypeOK
  <2>3. TypeOK'
    BY <1>6, <2>2 DEF TypeInv, TypeOK, ReadSignal, Phases, history
  <2>4. Shape'
    BY <1>6, <2>1, <2>2 DEF TypeInv, TypeOK, Shape, ReadSignal
  <2> QED BY <2>3, <2>4 DEF TypeInv
<1>7. ASSUME NEW t \in Threads, MissSignal(t)
      PROVE  TypeInv'
  <2>1. FinishedType(t)
    BY <1>7, FinishType DEF MissSignal
  <2>2. doing[t].pattern \in Patterns
    BY <1>7 DEF MissSignal, TypeInv, Shape, Feedback
  <2>3. heard' \in [Patterns -> Int]
    BY <1>7, <2>2 DEF MissSignal, TypeInv, TypeOK
  <2>4. TypeOK'
    BY <1>7, <2>1, <2>3 DEF MissSignal, TypeInv, TypeOK, FinishedType
  <2>5. Shape'
    BY <1>7, <2>1 DEF MissSignal, TypeInv, Shape, FinishedType
  <2> QED BY <2>4, <2>5 DEF TypeInv
<1>8. ASSUME NEW t \in Threads, Write(t)
      PROVE  TypeInv'
  <2>1. FinishedType(t)
    BY <1>8, FinishType DEF Write
  <2>2. doing[t].pattern \in Patterns /\ pending[t] \in Signal
    BY <1>8 DEF Write, TypeInv, Shape, Feedback
  <2>3. signals' \in [Patterns -> Signal \cup {NoSignal}]
    BY <1>8, <2>2 DEF Write, TypeInv, TypeOK
  <2>4. TypeOK'
    BY <1>8, <2>1, <2>3 DEF Write, TypeInv, TypeOK, FinishedType, history
  <2>5. Shape'
    BY <1>8, <2>1 DEF Write, TypeInv, Shape, FinishedType
  <2> QED BY <2>4, <2>5 DEF TypeInv
<1>9. ASSUME NEW t \in Threads, Fail(t)
      PROVE  TypeInv'
  BY <1>9 DEF TypeInv, TypeOK, Shape, Fail, Phases, Percent
<1>10. CASE UNCHANGED vars
  BY <1>10 DEF TypeInv, TypeOK, Shape, vars
<1> QED
  BY <1>1, <1>2, <1>3, <1>4, <1>5, <1>6, <1>7, <1>8, <1>9, <1>10
  DEF Next, Request, Continue

(* The table of signals and the variables of the request threads keep      *)
(* their types.                                                            *)
THEOREM TypeCorrect == Spec => []TypeOK
<1>1. TypeInv => TypeOK
  BY DEF TypeInv
<1> QED BY <1>1, TypeInit, TypeStep, PTL DEF Spec

-----------------------------------------------------------------------------
(* Statuses are earned.                                                    *)

(* A write may be older than the signal it overwrites, but it was computed *)
(* whole from one reading, so it is earned too.                            *)
AllEarned == \A p \in Patterns : signals[p] # NoSignal => Earned(signals[p])

EarnedInv ==
    /\ AllEarned
    /\ \A t \in Threads :
          /\ \A f \in todo[t] : Graded(f)
          /\ pc[t] = "write" => Earned(pending[t])

LEMMA EarnedInit == Init => EarnedInv
BY DEF Init, EarnedInv, AllEarned

LEMMA EarnedBegin ==
    ASSUME TypeInv, EarnedInv, NEW t \in Threads, NEW F, Begin(t, F),
           \A f \in F : Graded(f)
    PROVE  EarnedInv'
BY DEF TypeInv, TypeOK, EarnedInv, AllEarned, Begin

LEMMA EarnedStep == TypeInv /\ EarnedInv /\ [Next]_vars => EarnedInv'
<1> SUFFICES ASSUME TypeInv, EarnedInv, [Next]_vars PROVE EarnedInv'
  OBVIOUS
<1>1. ASSUME NEW t \in Threads, NEW m \in Messages, Observe(t, m)
      PROVE  EarnedInv'
  <2>1. \A f \in {FeedbackOf(m, p) : p \in Admitted(m)} : Graded(f)
    BY FeedbackOfType DEF Admitted, Proposed, Supported, CapturePatterns, Patterns
  <2> QED BY <1>1, <2>1, EarnedBegin DEF Observe
<1>2. ASSUME NEW t \in Threads, NEW p \in Patterns, NEW c \in Confidences,
             Learn(t, p, c)
      PROVE  EarnedInv'
  BY <1>2, LearnType, EarnedBegin DEF Learn
<1>3. ASSUME NEW t \in Threads, NEW p \in Patterns,
             NEW v \in {"support", "reject"}, Reinforce(t, p, v)
      PROVE  EarnedInv'
  BY <1>3 DEF TypeInv, TypeOK, EarnedInv, AllEarned, Reinforce
<1>4. ASSUME NEW t \in Threads, Clear(t)
      PROVE  EarnedInv'
  BY <1>4 DEF EarnedInv, AllEarned, Clear, locals
<1>5. ASSUME NEW t \in Threads, NEW f \in todo[t], LookUp(t, f)
      PROVE  EarnedInv'
  <2>1. f \in Feedback /\ Graded(f)
    BY DEF TypeInv, TypeOK, EarnedInv
  <2>2. Earned(NewSignal(f))
    BY <2>1, NewSignalType
  <2>3. AllEarned'
    BY <1>5 DEF EarnedInv, AllEarned, LookUp
  <2>4. \A u \in Threads : \A g \in todo'[u] : Graded(g)
    BY <1>5 DEF TypeInv, TypeOK, EarnedInv, LookUp
  <2>5. \A u \in Threads : pc'[u] = "write" => Earned(pending'[u])
    BY <1>5, <2>2 DEF TypeInv, TypeOK, EarnedInv, LookUp
  <2> QED BY <2>3, <2>4, <2>5 DEF EarnedInv
<1>6. ASSUME NEW t \in Threads, ReadSignal(t)
      PROVE  EarnedInv'
  <2>1. doing[t] \in Feedback /\ doing[t].pattern \in Patterns
    BY <1>6 DEF ReadSignal, TypeInv, Shape, Feedback
  <2>2. Earned(Reinforced(signals[doing[t].pattern], doing[t], delta[t]))
    BY <1>6, <2>1, ReinforcedType DEF ReadSignal, TypeInv, TypeOK
  <2> QED BY <1>6, <2>2
          DEF TypeInv, TypeOK, EarnedInv, AllEarned, ReadSignal
<1>7. ASSUME NEW t \in Threads, MissSignal(t)
      PROVE  EarnedInv'
  <2>1. FinishedType(t)
    BY <1>7, FinishType DEF MissSignal
  <2> QED BY <1>7, <2>1 DEF EarnedInv, AllEarned, MissSignal, FinishedType
<1>8. ASSUME NEW t \in Threads, Write(t)
      PROVE  EarnedInv'
  <2>1. FinishedType(t)
    BY <1>8, FinishType DEF Write
  <2>2. Earned(pending[t])
    BY <1>8 DEF EarnedInv, Write
  <2>3. AllEarned'
    BY <1>8, <2>2 DEF TypeInv, TypeOK, EarnedInv, AllEarned, Write
  <2> QED BY <1>8, <2>1, <2>3 DEF EarnedInv, Write, FinishedType
<1>9. ASSUME NEW t \in Threads, Fail(t)
      PROVE  EarnedInv'
  BY <1>9 DEF TypeInv, TypeOK, EarnedInv, AllEarned, Fail
<1>10. CASE UNCHANGED vars
  BY <1>10 DEF EarnedInv, AllEarned, vars
<1> QED
  BY <1>1, <1>2, <1>3, <1>4, <1>5, <1>6, <1>7, <1>8, <1>9, <1>10
  DEF Next, Request, Continue

-----------------------------------------------------------------------------
(* Nothing is counted twice.                                               *)

(* Threads that have feedback for a pattern which is not written yet.      *)
Bearing(d, td, p) ==
    {t \in Threads : \/ d[t] # Nothing /\ d[t].pattern = p
                     \/ \E f \in td[t] : f.pattern = p}

Bearers(p) == Bearing(doing, todo, p)

(* A thread has at most one feedback for a pattern.                        *)
Distinct ==
    \A t \in Threads :
        /\ \A f, g \in todo[t] : f.pattern = g.pattern => f = g
        /\ doing[t] # Nothing => \A f \in todo[t] : f.pattern # doing[t].pattern

LEMMA DistinctInit == Init => Distinct
BY DEF Init, Distinct

LEMMA DistinctBegin ==
    ASSUME TypeInv, Distinct, NEW t \in Threads, NEW F \in SUBSET Feedback,
           Begin(t, F), \A f, g \in F : f.pattern = g.pattern => f = g
    PROVE  Distinct'
<1>1. doing[t] = Nothing /\ doing' = doing
  BY DEF Begin, TypeInv, Shape
<1>2. todo'[t] = F /\ \A u \in Threads \ {t} : todo'[u] = todo[u]
  BY DEF Begin, TypeInv, TypeOK
<1> QED BY <1>1, <1>2 DEF Distinct

(* What a turn proposes are feedbacks of different patterns.               *)
LEMMA TurnIsDistinct ==
    ASSUME NEW m \in Messages
    PROVE  LET F == {FeedbackOf(m, p) : p \in Admitted(m)}
           IN  /\ F \in SUBSET Feedback
               /\ \A f, g \in F : f.pattern = g.pattern => f = g
<1>1. Admitted(m) \subseteq Patterns
  BY DEF Admitted, Proposed, Supported, CapturePatterns, Patterns
<1> QED BY <1>1, FeedbackOfType

LEMMA DistinctStep == TypeInv /\ Distinct /\ [Next]_vars => Distinct'
<1> SUFFICES ASSUME TypeInv, Distinct, [Next]_vars PROVE Distinct'
  OBVIOUS
<1>1. ASSUME NEW t \in Threads, NEW m \in Messages, Observe(t, m)
      PROVE  Distinct'
  BY <1>1, TurnIsDistinct, DistinctBegin DEF Observe
<1>2. ASSUME NEW t \in Threads, NEW p \in Patterns, NEW c \in Confidences,
             Learn(t, p, c)
      PROVE  Distinct'
  BY <1>2, LearnType, DistinctBegin DEF Learn
<1>3. ASSUME NEW t \in Threads, NEW p \in Patterns,
             NEW v \in {"support", "reject"}, Reinforce(t, p, v)
      PROVE  Distinct'
  <2>1. todo[t] = {} /\ todo' = todo
    BY <1>3 DEF Reinforce, TypeInv, Shape
  <2>2. \A u \in Threads \ {t} : doing'[u] = doing[u]
    BY <1>3 DEF Reinforce, TypeInv, TypeOK
  <2> QED BY <2>1, <2>2 DEF Distinct
<1>4. ASSUME NEW t \in Threads, NEW f \in todo[t], LookUp(t, f)
      PROVE  Distinct'
  <2>1. doing'[t] = f /\ todo'[t] = todo[t] \ {f}
    BY <1>4 DEF LookUp, TypeInv, TypeOK
  <2>2. \A u \in Threads \ {t} : doing'[u] = doing[u] /\ todo'[u] = todo[u]
    BY <1>4 DEF LookUp, TypeInv, TypeOK
  <2> QED BY <2>1, <2>2 DEF Distinct
<1>5. ASSUME NEW t \in Threads, Finish(t), todo' = todo
      PROVE  Distinct'
  <2>1. doing'[t] = Nothing /\ \A u \in Threads \ {t} : doing'[u] = doing[u]
    BY <1>5, FinishType DEF FinishedType
  <2> QED BY <1>5, <2>1 DEF Distinct
<1>6. ASSUME NEW t \in Threads, Fail(t)
      PROVE  Distinct'
  <2>1. doing'[t] = Nothing /\ todo'[t] = {}
    BY <1>6 DEF Fail, TypeInv, TypeOK
  <2>2. \A u \in Threads \ {t} : doing'[u] = doing[u] /\ todo'[u] = todo[u]
    BY <1>6 DEF Fail, TypeInv, TypeOK
  <2> QED BY <2>1, <2>2 DEF Distinct
<1>7. CASE UNCHANGED <<doing, todo>>
  BY <1>7 DEF Distinct
<1>8. ASSUME NEW t \in Threads, Clear(t) \/ ReadSignal(t)
      PROVE  UNCHANGED <<doing, todo>>
  BY <1>8 DEF Clear, locals, ReadSignal
<1>9. ASSUME NEW t \in Threads, MissSignal(t) \/ Write(t)
      PROVE  Finish(t) /\ todo' = todo
  BY <1>9 DEF MissSignal, Write
<1>10. UNCHANGED vars => UNCHANGED <<doing, todo>>
  BY DEF vars
<1> QED
  BY <1>1, <1>2, <1>3, <1>4, <1>5, <1>6, <1>7, <1>8, <1>9, <1>10
  DEF Next, Request, Continue

(* What is counted and what is still to be counted was all heard, whichever *)
(* of the signals about to be written becomes the one stored.              *)
StoredWithin(p) == Total(signals[p]) + Cardinality(Bearers(p)) <= heard[p]

PendingWithin(t) ==
    pc[t] = "write" =>
        Total(pending[t]) + Cardinality(Bearers(doing[t].pattern) \ {t})
            <= heard[doing[t].pattern]

CountInv ==
    /\ \A p \in Patterns : StoredWithin(p)
    /\ \A t \in Threads : PendingWithin(t)

LEMMA TotalType ==
    ASSUME TypeInv
    PROVE  /\ \A p \in Patterns : Total(signals[p]) \in Nat /\ heard[p] \in Int
           /\ \A t \in Threads : Total(pending[t]) \in Nat
           /\ \A t \in Threads : pc[t] = "write" => doing[t].pattern \in Patterns
<1>1. \A s \in Signal \cup {NoSignal} : Total(s) \in Nat
  BY DEF Total, Signal
<1>2. \A f \in Feedback : f.pattern \in Patterns
  BY DEF Feedback
<1> QED BY <1>1, <1>2 DEF TypeInv, TypeOK, Shape

(* The few facts about cardinalities that the actions need.                *)
LEMMA Cards ==
    ASSUME IsFiniteSet(Threads), NEW S \in SUBSET Threads
    PROVE  /\ IsFiniteSet(S)
           /\ Cardinality(S) \in Nat
           /\ \A t \in S : Cardinality(S \ {t}) = Cardinality(S) - 1
           /\ \A t \in Threads \ S : Cardinality(S \cup {t}) = Cardinality(S) + 1
           /\ \A R \in SUBSET S : Cardinality(R) <= Cardinality(S)
                                  /\ Cardinality(R) \in Nat
<1>1. IsFiniteSet(S)
  BY FS_Subset
<1>2. Cardinality(S) \in Nat
  BY <1>1, FS_CardinalityType
<1>3. \A t \in S : Cardinality(S \ {t}) = Cardinality(S) - 1
  BY <1>1, FS_RemoveElement
<1>4. \A t \in Threads \ S : Cardinality(S \cup {t}) = Cardinality(S) + 1
  BY <1>1, FS_AddElement
<1>5. ASSUME NEW R \in SUBSET S
      PROVE  Cardinality(R) <= Cardinality(S) /\ Cardinality(R) \in Nat
  BY <1>1, FS_Subset, FS_CardinalityType
<1> QED BY <1>1, <1>2, <1>3, <1>4, <1>5

LEMMA CountInit == ASSUME IsFiniteSet(Threads) PROVE Init => CountInv
<1> SUFFICES ASSUME Init PROVE CountInv
  OBVIOUS
<1>1. ASSUME NEW p \in Patterns PROVE StoredWithin(p)
  <2>1. Bearers(p) = {}
    BY DEF Init, Bearers, Bearing
  <2>2. Cardinality(Bearers(p)) = 0
    BY <2>1, FS_EmptySet
  <2> QED BY <2>2 DEF Init, StoredWithin, Total
<1>2. \A t \in Threads : PendingWithin(t)
  BY DEF Init, PendingWithin
<1> QED BY <1>1, <1>2 DEF CountInv

(* A thread that goes on writing what it was about to write stays within   *)
(* what was heard, when at most one thread more bears each pattern that    *)
(* was heard once more, and one less each pattern that was unheard.        *)
LEMMA PendingStays ==
    ASSUME IsFiniteSet(Threads), TypeInv, CountInv, NEW t \in Threads,
           pc'[t] = "write" => pc[t] = "write",
           doing'[t] = doing[t], pending'[t] = pending[t],
           \A p \in Patterns :
             \/ /\ Bearing(doing', todo', p) \subseteq Bearing(doing, todo, p)
                /\ heard'[p] = heard[p]
             \/ \E u \in Threads \ {t} :
                  /\ Bearing(doing', todo', p) = Bearing(doing, todo, p) \cup {u}
                  /\ u \notin Bearing(doing, todo, p)
                  /\ heard'[p] = heard[p] + 1
             \/ \E u \in Threads \ {t} :
                  /\ Bearing(doing', todo', p) = Bearing(doing, todo, p) \ {u}
                  /\ u \in Bearing(doing, todo, p)
                  /\ heard'[p] = heard[p] - 1
    PROVE  PendingWithin(t)'
<1> SUFFICES ASSUME pc'[t] = "write"
             PROVE  Total(pending[t])
                      + Cardinality(Bearing(doing', todo', doing[t].pattern) \ {t})
                        <= heard'[doing[t].pattern]
  BY DEF PendingWithin, Total, Bearers
<1> DEFINE p == doing[t].pattern
           B == Bearing(doing, todo, p)
           C == Bearing(doing', todo', p)
<1>1. p \in Patterns /\ Total(pending[t]) \in Nat /\ heard[p] \in Int
  BY TotalType
<1>2. Total(pending[t]) + Cardinality(B \ {t}) <= heard[p]
  BY DEF CountInv, PendingWithin, Bearers
<1>3. B \in SUBSET Threads /\ C \in SUBSET Threads
  BY DEF Bearing
<1>4. Cardinality(B \ {t}) \in Nat /\ Cardinality(C \ {t}) \in Nat
  BY <1>3, Cards
<1> HIDE DEF p, B, C
<1>5. CASE C \subseteq B /\ heard'[p] = heard[p]
  <2>1. C \ {t} \in SUBSET (B \ {t}) /\ B \ {t} \in SUBSET Threads
    BY <1>3, <1>5
  <2>2. Cardinality(C \ {t}) <= Cardinality(B \ {t})
    BY <2>1, Cards
  <2> QED BY <1>1, <1>2, <1>4, <1>5, <2>2 DEF p, C
<1>6. ASSUME NEW u \in Threads \ {t}, C = B \cup {u}, u \notin B,
             heard'[p] = heard[p] + 1
      PROVE  Total(pending[t]) + Cardinality(C \ {t}) <= heard'[p]
  <2>1. /\ C \ {t} = (B \ {t}) \cup {u} /\ u \in Threads \ (B \ {t})
        /\ B \ {t} \in SUBSET Threads
    BY <1>3, <1>6
  <2>2. Cardinality(C \ {t}) = Cardinality(B \ {t}) + 1
    BY <2>1, Cards
  <2> QED BY <1>1, <1>2, <1>4, <1>6, <2>2
<1>7. ASSUME NEW u \in Threads \ {t}, C = B \ {u}, u \in B,
             heard'[p] = heard[p] - 1
      PROVE  Total(pending[t]) + Cardinality(C \ {t}) <= heard'[p]
  <2>1. /\ C \ {t} = (B \ {t}) \ {u} /\ u \in B \ {t}
        /\ B \ {t} \in SUBSET Threads
    BY <1>3, <1>7
  <2>2. Cardinality(C \ {t}) = Cardinality(B \ {t}) - 1
    BY <2>1, Cards
  <2> QED BY <1>1, <1>2, <1>4, <1>7, <2>2
<1> QED BY <1>1, <1>5, <1>6, <1>7 DEF p, B, C

(* A thread that takes on feedback which is heard with it.                 *)
LEMMA CountGrows ==
    ASSUME IsFiniteSet(Threads), TypeInv, CountInv, NEW t \in Threads,
           pc'[t] # "write", signals' = signals, pending' = pending,
           \A u \in Threads \ {t} : pc'[u] = pc[u] /\ doing'[u] = doing[u],
           \A p \in Patterns :
             \/ /\ Bearing(doing', todo', p) = Bearing(doing, todo, p)
                /\ heard'[p] = heard[p]
             \/ /\ Bearing(doing', todo', p) = Bearing(doing, todo, p) \cup {t}
                /\ t \notin Bearing(doing, todo, p)
                /\ heard'[p] = heard[p] + 1
    PROVE  /\ \A p \in Patterns : StoredWithin(p)'
           /\ \A u \in Threads : PendingWithin(u)'
<1>1. ASSUME NEW p \in Patterns
      PROVE  StoredWithin(p)'
  <2> DEFINE B == Bearing(doing, todo, p)
             C == Bearing(doing', todo', p)
  <2>1. Total(signals[p]) \in Nat /\ heard[p] \in Int
    BY TotalType
  <2>2. Total(signals[p]) + Cardinality(B) <= heard[p]
    BY DEF CountInv, StoredWithin, Bearers
  <2>3. B \in SUBSET Threads
    BY DEF Bearing
  <2>4. \/ C = B /\ heard'[p] = heard[p]
        \/ C = B \cup {t} /\ t \notin B /\ heard'[p] = heard[p] + 1
    OBVIOUS
  <2> HIDE DEF B, C
  <2>5. Total(signals[p]) + Cardinality(C) <= heard'[p]
    BY <2>1, <2>2, <2>3, <2>4, Cards
  <2> QED BY <2>5 DEF StoredWithin, Bearers, Total, C
<1>2. ASSUME NEW u \in Threads \ {t}
      PROVE  PendingWithin(u)'
  BY PendingStays
<1>3. PendingWithin(t)'
  BY DEF PendingWithin
<1> QED BY <1>1, <1>2, <1>3

LEMMA CountBegin ==
    ASSUME IsFiniteSet(Threads), TypeInv, CountInv, NEW t \in Threads,
           NEW F \in SUBSET Feedback, Begin(t, F)
    PROVE  CountInv'
<1>1. pc[t] = "idle" /\ todo[t] = {} /\ doing[t] = Nothing
  BY DEF Begin, TypeInv, Shape
<1>2. /\ todo' = [todo EXCEPT ![t] = F] /\ UNCHANGED <<doing, pending, signals>>
      /\ pc' = [pc EXCEPT ![t] = IF F = {} THEN "idle" ELSE "next"]
  BY DEF Begin
<1>3. todo \in [Threads -> SUBSET Feedback] /\ pc \in [Threads -> Phases]
  BY DEF TypeInv, TypeOK
<1>4. /\ todo'[t] = F /\ pc'[t] # "write"
      /\ \A u \in Threads \ {t} : todo'[u] = todo[u] /\ pc'[u] = pc[u]
  BY <1>2, <1>3
<1>5. ASSUME NEW p \in Patterns
      PROVE  \/ /\ Bearing(doing', todo', p) = Bearing(doing, todo, p)
                /\ heard'[p] = heard[p]
             \/ /\ Bearing(doing', todo', p) = Bearing(doing, todo, p) \cup {t}
                /\ t \notin Bearing(doing, todo, p)
                /\ heard'[p] = heard[p] + 1
  <2>1. t \notin Bearing(doing, todo, p)
    BY <1>1 DEF Bearing
  <2>2. CASE Told(F, p) = {}
    <3>1. Bearing(doing', todo', p) = Bearing(doing, todo, p)
      BY <1>1, <1>2, <1>4, <2>2 DEF Bearing, Told
    <3> QED BY <2>2, <3>1 DEF Begin, Hears
  <2>3. CASE Told(F, p) # {}
    <3>1. Bearing(doing', todo', p) = Bearing(doing, todo, p) \cup {t}
      BY <1>1, <1>2, <1>4, <2>3 DEF Bearing, Told
    <3> QED BY <2>1, <2>3, <3>1 DEF Begin, Hears
  <2> QED BY <2>2, <2>3
<1> QED BY <1>2, <1>4, <1>5, CountGrows DEF CountInv

LEMMA CountReinforce ==
    ASSUME IsFiniteSet(Threads), TypeInv, CountInv, NEW t \in Threads,
           NEW f \in Feedback,
           pc[t] = "idle", pc' = [pc EXCEPT ![t] = "read"],
           doing' = [doing EXCEPT ![t] = f], Hears({f}),
           UNCHANGED <<signals, todo, pending>>
    PROVE  CountInv'
<1>1. todo[t] = {} /\ doing[t] = Nothing
  BY DEF TypeInv, Shape
<1>2. doing \in [Threads -> Feedback \cup {Nothing}] /\ pc \in [Threads -> Phases]
  BY DEF TypeInv, TypeOK
<1>3. /\ doing'[t] = f /\ pc'[t] # "write" /\ f # Nothing
      /\ \A u \in Threads \ {t} : doing'[u] = doing[u] /\ pc'[u] = pc[u]
  BY <1>2
<1>4. ASSUME NEW p \in Patterns
      PROVE  \/ /\ Bearing(doing', todo', p) = Bearing(doing, todo, p)
                /\ heard'[p] = heard[p]
             \/ /\ Bearing(doing', todo', p) = Bearing(doing, todo, p) \cup {t}
                /\ t \notin Bearing(doing, todo, p)
                /\ heard'[p] = heard[p] + 1
  <2>1. t \notin Bearing(doing, todo, p)
    BY <1>1 DEF Bearing
  <2>2. CASE f.pattern # p
    <3>1. Bearing(doing', todo', p) = Bearing(doing, todo, p)
      BY <1>1, <1>3, <2>2 DEF Bearing
    <3>2. Told({f}, p) = {}
      BY <2>2 DEF Told
    <3> QED BY <3>1, <3>2 DEF Hears
  <2>3. CASE f.pattern = p
    <3>1. Bearing(doing', todo', p) = Bearing(doing, todo, p) \cup {t}
      BY <1>1, <1>3, <2>3 DEF Bearing
    <3>2. Told({f}, p) # {}
      BY <2>3 DEF Told
    <3> QED BY <2>1, <3>1, <3>2 DEF Hears
  <2> QED BY <2>2, <2>3
<1> QED BY <1>3, <1>4, CountGrows DEF CountInv

LEMMA CountLookUp ==
    ASSUME IsFiniteSet(Threads), TypeInv, CountInv, NEW t \in Threads,
           NEW f \in todo[t], LookUp(t, f)
    PROVE  CountInv'
<1> DEFINE p == f.pattern
<1>1. /\ f \in Feedback /\ p \in Patterns /\ f # Nothing
      /\ doing[t] = Nothing /\ pc[t] = "next"
  BY DEF LookUp, TypeInv, TypeOK, Shape, Feedback
<1>2. /\ doing \in [Threads -> Feedback \cup {Nothing}]
      /\ todo \in [Threads -> SUBSET Feedback] /\ pc \in [Threads -> Phases]
      /\ pending \in [Threads -> Signal \cup {NoSignal}]
  BY DEF TypeInv, TypeOK
<1>3. /\ doing'[t] = f /\ todo'[t] = todo[t] \ {f}
      /\ \A u \in Threads \ {t} :
           /\ doing'[u] = doing[u] /\ todo'[u] = todo[u]
           /\ pc'[u] = pc[u] /\ pending'[u] = pending[u]
      /\ heard' = heard /\ signals' = signals
  BY <1>2 DEF LookUp, history
<1>4. \A q \in Patterns : Bearing(doing', todo', q) = Bearing(doing, todo, q)
  BY <1>1, <1>3 DEF Bearing
<1>5. \A q \in Patterns : StoredWithin(q)'
  BY <1>3, <1>4 DEF CountInv, StoredWithin, Bearers, Total
<1>6. ASSUME NEW u \in Threads \ {t}
      PROVE  PendingWithin(u)'
  BY <1>3, <1>4, PendingStays
<1>7. PendingWithin(t)'
  <2>1. SUFFICES ASSUME pc'[t] = "write"
                 PROVE  Total(pending'[t])
                          + Cardinality(Bearing(doing', todo', p) \ {t}) <= heard[p]
    BY <1>3 DEF PendingWithin, Total, Bearers
  <2>2. signals[p] = NoSignal /\ pending'[t] = NewSignal(f)
    BY <1>2, <2>1 DEF LookUp
  <2>3. Total(pending'[t]) = 1
    BY <1>1, <2>2, NewSignalType DEF Total
  <2>4. 0 + Cardinality(Bearing(doing, todo, p)) <= heard[p]
    BY <1>1, <2>2 DEF CountInv, StoredWithin, Total, Bearers
  <2>5. t \in Bearing(doing, todo, p) /\ Bearing(doing, todo, p) \in SUBSET Threads
    BY DEF Bearing
  <2>6. Cardinality(Bearing(doing, todo, p) \ {t})
          = Cardinality(Bearing(doing, todo, p)) - 1
    BY <2>5, Cards
  <2>7. Cardinality(Bearing(doing, todo, p)) \in Nat /\ heard[p] \in Int
    BY <1>1, <2>5, Cards, TotalType
  <2>8. Bearing(doing', todo', p) = Bearing(doing, todo, p)
    BY <1>1, <1>4
  <2> HIDE DEF p
  <2> QED BY <2>3, <2>4, <2>6, <2>7, <2>8
<1> QED BY <1>5, <1>6, <1>7 DEF CountInv

LEMMA CountRead ==
    ASSUME IsFiniteSet(Threads), TypeInv, CountInv, NEW t \in Threads,
           ReadSignal(t)
    PROVE  CountInv'
<1> DEFINE p == doing[t].pattern
           B == Bearing(doing, todo, p)
<1>1. /\ doing[t] \in Feedback /\ p \in Patterns /\ doing[t] # Nothing
      /\ signals[p] \in Signal
  BY DEF ReadSignal, TypeInv, TypeOK, Shape, Feedback
<1>2. UNCHANGED <<signals, doing, todo, heard>>
  BY DEF ReadSignal, history
<1>3. /\ pc \in [Threads -> Phases]
      /\ pending \in [Threads -> Signal \cup {NoSignal}]
  BY DEF TypeInv, TypeOK
<1>4. /\ pending'[t] = Reinforced(signals[p], doing[t], delta[t])
      /\ \A u \in Threads \ {t} : pc'[u] = pc[u] /\ pending'[u] = pending[u]
  BY <1>3 DEF ReadSignal
<1>5. \A q \in Patterns : StoredWithin(q)'
  BY <1>2 DEF CountInv, StoredWithin, Bearers, Total
<1>6. ASSUME NEW u \in Threads \ {t}
      PROVE  PendingWithin(u)'
  BY <1>2, <1>4, PendingStays
<1>7. Total(pending'[t]) = Total(signals[p]) + 1
  BY <1>1, <1>4, ReinforcedType DEF Total, TypeInv, TypeOK
<1>8. t \in B /\ B \in SUBSET Threads
  BY <1>1 DEF Bearing
<1>9. Cardinality(B \ {t}) = Cardinality(B) - 1 /\ Cardinality(B) \in Nat
  BY <1>8, Cards
<1>10. Total(signals[p]) + Cardinality(B) <= heard[p]
  BY <1>1 DEF CountInv, StoredWithin, Bearers
<1>11. Total(signals[p]) \in Nat /\ heard[p] \in Int
  BY <1>1, TotalType
<1>12. PendingWithin(t)'
  <2>1. SUFFICES Total(pending'[t]) + Cardinality(B \ {t}) <= heard[p]
    BY <1>2 DEF PendingWithin, Bearers, Total
  <2> HIDE DEF p, B
  <2> QED BY <1>7, <1>9, <1>10, <1>11
<1> QED BY <1>5, <1>6, <1>12 DEF CountInv

(* A thread that is done with a feedback does not bear its pattern.        *)
LEMMA FinishBears ==
    ASSUME TypeInv, Distinct, NEW t \in Threads, Finish(t), todo' = todo,
           doing[t] # Nothing
    PROVE  /\ doing[t] \in Feedback /\ doing[t].pattern \in Patterns
           /\ t \in Bearing(doing, todo, doing[t].pattern)
           /\ Bearing(doing', todo', doing[t].pattern)
                = Bearing(doing, todo, doing[t].pattern) \ {t}
           /\ \A q \in Patterns \ {doing[t].pattern} :
                Bearing(doing', todo', q) = Bearing(doing, todo, q)
<1>1. doing \in [Threads -> Feedback \cup {Nothing}]
  BY DEF TypeInv, TypeOK
<1>2. doing'[t] = Nothing /\ \A u \in Threads \ {t} : doing'[u] = doing[u]
  BY <1>1 DEF Finish
<1>3. doing[t] \in Feedback /\ doing[t].pattern \in Patterns
  BY <1>1 DEF Feedback
<1>4. \A f \in todo[t] : f.pattern # doing[t].pattern
  BY DEF Distinct
<1>5. /\ t \in Bearing(doing, todo, doing[t].pattern)
      /\ Bearing(doing', todo', doing[t].pattern)
           = Bearing(doing, todo, doing[t].pattern) \ {t}
  BY <1>2, <1>4 DEF Bearing
<1>6. \A q \in Patterns \ {doing[t].pattern} :
        Bearing(doing', todo', q) = Bearing(doing, todo, q)
  BY <1>2 DEF Bearing
<1> QED BY <1>3, <1>5, <1>6

LEMMA CountMiss ==
    ASSUME IsFiniteSet(Threads), TypeInv, Distinct, CountInv,
           NEW t \in Threads, MissSignal(t)
    PROVE  CountInv'
<1> DEFINE p == doing[t].pattern
           B == Bearing(doing, todo, p)
           C == Bearing(doing', todo', p)
<1>1. doing[t] # Nothing /\ Finish(t) /\ todo' = todo /\ signals' = signals
      /\ signals[p] = NoSignal
  BY DEF MissSignal, TypeInv, Shape
<1>2. /\ p \in Patterns /\ t \in B /\ C = B \ {t}
      /\ \A q \in Patterns \ {p} :
           Bearing(doing', todo', q) = Bearing(doing, todo, q)
  BY <1>1, FinishBears
<1>3. heard \in [Patterns -> Int]
  BY DEF TypeInv, TypeOK
<1>4. heard'[p] = heard[p] - 1 /\ \A q \in Patterns \ {p} : heard'[q] = heard[q]
  BY <1>2, <1>3 DEF MissSignal
<1>5. FinishedType(t)
  BY <1>1, FinishType
<1>6. ASSUME NEW q \in Patterns
      PROVE  StoredWithin(q)'
  <2>1. CASE q # p
    BY <1>1, <1>2, <1>4, <2>1 DEF CountInv, StoredWithin, Bearers, Total
  <2>2. CASE q = p
    <3>1. B \in SUBSET Threads
      BY DEF Bearing
    <3>2. Cardinality(C) = Cardinality(B) - 1 /\ Cardinality(B) \in Nat
      BY <1>2, <3>1, Cards
    <3>3. 0 + Cardinality(B) <= heard[p] /\ heard[p] \in Int
      BY <1>1, <1>2, <1>3 DEF CountInv, StoredWithin, Bearers, Total
    <3>4. 0 + Cardinality(C) <= heard'[p]
      <4> HIDE DEF p, B, C
      <4> QED BY <1>4, <3>2, <3>3
    <3> QED BY <1>1, <2>2, <3>4 DEF StoredWithin, Bearers, Total
  <2> QED BY <2>1, <2>2
<1>7. ASSUME NEW u \in Threads \ {t}
      PROVE  PendingWithin(u)'
  <2>1. pc'[u] = pc[u] /\ doing'[u] = doing[u] /\ pending'[u] = pending[u]
    BY <1>5 DEF FinishedType
  <2>2. ASSUME NEW q \in Patterns
        PROVE  \/ /\ Bearing(doing', todo', q) \subseteq Bearing(doing, todo, q)
                  /\ heard'[q] = heard[q]
               \/ \E v \in Threads \ {u} :
                    /\ Bearing(doing', todo', q) = Bearing(doing, todo, q) \ {v}
                    /\ v \in Bearing(doing, todo, q)
                    /\ heard'[q] = heard[q] - 1
    BY <1>2, <1>4
  <2> QED BY <2>1, <2>2, PendingStays
<1>8. PendingWithin(t)'
  BY <1>5 DEF FinishedType, PendingWithin
<1> QED BY <1>6, <1>7, <1>8 DEF CountInv

LEMMA CountWrite ==
    ASSUME IsFiniteSet(Threads), TypeInv, Distinct, CountInv,
           NEW t \in Threads, Write(t)
    PROVE  CountInv'
<1> DEFINE p == doing[t].pattern
           B == Bearing(doing, todo, p)
           C == Bearing(doing', todo', p)
<1>1. doing[t] # Nothing /\ Finish(t) /\ todo' = todo /\ heard' = heard
      /\ pc[t] = "write"
  BY DEF Write, TypeInv, Shape, history
<1>2. /\ p \in Patterns /\ t \in B /\ C = B \ {t}
      /\ \A q \in Patterns \ {p} :
           Bearing(doing', todo', q) = Bearing(doing, todo, q)
  BY <1>1, FinishBears
<1>3. signals \in [Patterns -> Signal \cup {NoSignal}]
  BY DEF TypeInv, TypeOK
<1>4. /\ signals'[p] = pending[t]
      /\ \A q \in Patterns \ {p} : signals'[q] = signals[q]
  BY <1>2, <1>3 DEF Write
<1>5. FinishedType(t)
  BY <1>1, FinishType
<1>6. ASSUME NEW q \in Patterns
      PROVE  StoredWithin(q)'
  <2>1. CASE q # p
    BY <1>1, <1>2, <1>4, <2>1 DEF CountInv, StoredWithin, Bearers, Total
  <2>2. CASE q = p
    <3>1. Total(pending[t]) + Cardinality(B \ {t}) <= heard[p]
      BY <1>1 DEF CountInv, PendingWithin, Bearers
    <3> QED BY <1>1, <1>2, <1>4, <2>2, <3>1 DEF StoredWithin, Bearers, Total
  <2> QED BY <2>1, <2>2
<1>7. ASSUME NEW u \in Threads \ {t}
      PROVE  PendingWithin(u)'
  <2>1. pc'[u] = pc[u] /\ doing'[u] = doing[u] /\ pending'[u] = pending[u]
    BY <1>5 DEF FinishedType
  <2>2. \A q \in Patterns :
          Bearing(doing', todo', q) \subseteq Bearing(doing, todo, q)
    BY <1>2
  <2> QED BY <1>1, <2>1, <2>2, PendingStays
<1>8. PendingWithin(t)'
  BY <1>5 DEF FinishedType, PendingWithin
<1> QED BY <1>6, <1>7, <1>8 DEF CountInv

LEMMA CountFail ==
    ASSUME IsFiniteSet(Threads), TypeInv, CountInv, NEW t \in Threads, Fail(t)
    PROVE  CountInv'
<1>1. /\ doing \in [Threads -> Feedback \cup {Nothing}]
      /\ todo \in [Threads -> SUBSET Feedback] /\ pc \in [Threads -> Phases]
      /\ pending \in [Threads -> Signal \cup {NoSignal}]
  BY DEF TypeInv, TypeOK
<1>2. /\ doing'[t] = Nothing /\ todo'[t] = {} /\ pc'[t] = "idle"
      /\ \A u \in Threads \ {t} :
           /\ doing'[u] = doing[u] /\ todo'[u] = todo[u]
           /\ pc'[u] = pc[u] /\ pending'[u] = pending[u]
      /\ heard' = heard /\ signals' = signals
  BY <1>1 DEF Fail
<1>3. \A q \in Patterns :
        Bearing(doing', todo', q) \subseteq Bearing(doing, todo, q)
  BY <1>2 DEF Bearing
<1>4. ASSUME NEW q \in Patterns
      PROVE  StoredWithin(q)'
  <2>1. /\ Bearing(doing, todo, q) \in SUBSET Threads
        /\ Bearing(doing', todo', q) \in SUBSET Bearing(doing, todo, q)
    BY <1>3 DEF Bearing
  <2>2. /\ Cardinality(Bearing(doing', todo', q))
              <= Cardinality(Bearing(doing, todo, q))
        /\ Cardinality(Bearing(doing', todo', q)) \in Nat
        /\ Cardinality(Bearing(doing, todo, q)) \in Nat
    BY <2>1, Cards
  <2>3. Total(signals[q]) + Cardinality(Bearing(doing, todo, q)) <= heard[q]
    BY DEF CountInv, StoredWithin, Bearers
  <2>4. Total(signals[q]) \in Nat /\ heard[q] \in Int
    BY TotalType
  <2>5. Total(signals[q]) + Cardinality(Bearing(doing', todo', q)) <= heard[q]
    BY <2>2, <2>3, <2>4
  <2> QED BY <1>2, <2>5 DEF StoredWithin, Bearers, Total
<1>5. \A u \in Threads \ {t} : PendingWithin(u)'
  BY <1>2, <1>3, PendingStays
<1>6. PendingWithin(t)'
  BY <1>2 DEF PendingWithin
<1> QED BY <1>4, <1>5, <1>6 DEF CountInv

LEMMA CountClear ==
    ASSUME IsFiniteSet(Threads), TypeInv, CountInv, NEW t \in Threads, Clear(t)
    PROVE  CountInv'
<1>1. UNCHANGED <<doing, todo, pending, pc>>
  BY DEF Clear, locals
<1>2. ASSUME NEW q \in Patterns
      PROVE  StoredWithin(q)'
  <2>1. /\ signals'[q] = NoSignal
        /\ heard'[q] = IF Busy(q) THEN heard[q] ELSE 0
    BY DEF Clear
  <2>2. CASE Busy(q)
    <3>1. Total(signals[q]) + Cardinality(Bearing(doing, todo, q)) <= heard[q]
      BY DEF CountInv, StoredWithin, Bearers
    <3>2. Bearing(doing, todo, q) \in SUBSET Threads
      BY DEF Bearing
    <3>3. /\ Cardinality(Bearing(doing, todo, q)) \in Nat
          /\ Total(signals[q]) \in Nat /\ heard[q] \in Int
      BY <3>2, Cards, TotalType
    <3>4. 0 + Cardinality(Bearing(doing, todo, q)) <= heard[q]
      BY <3>1, <3>3
    <3> QED BY <1>1, <2>1, <2>2, <3>4 DEF StoredWithin, Bearers, Total
  <2>3. CASE ~Busy(q)
    <3>1. Bearing(doing, todo, q) = {}
      BY <2>3 DEF Busy, Bears, Bearing
    <3>2. Cardinality(Bearing(doing, todo, q)) = 0
      BY <3>1, FS_EmptySet
    <3> QED BY <1>1, <2>1, <2>3, <3>2 DEF StoredWithin, Bearers, Total
  <2> QED BY <2>2, <2>3
<1>3. ASSUME NEW u \in Threads, pc[u] = "write"
      PROVE  heard'[doing[u].pattern] = heard[doing[u].pattern]
  <2>1. doing[u] # Nothing /\ doing[u].pattern \in Patterns
    BY <1>3 DEF TypeInv, Shape, Feedback
  <2> QED BY <2>1 DEF Clear, Busy, Bears
<1> QED BY <1>1, <1>2, <1>3
        DEF CountInv, PendingWithin, Bearers, Total

LEMMA CountStep ==
    ASSUME IsFiniteSet(Threads)
    PROVE  TypeInv /\ Distinct /\ CountInv /\ [Next]_vars => CountInv'
<1> SUFFICES ASSUME TypeInv, Distinct, CountInv, [Next]_vars PROVE CountInv'
  OBVIOUS
<1>1. ASSUME NEW t \in Threads, NEW m \in Messages, Observe(t, m)
      PROVE  CountInv'
  BY <1>1, TurnIsDistinct, CountBegin DEF Observe
<1>2. ASSUME NEW t \in Threads, NEW p \in Patterns, NEW c \in Confidences,
             Learn(t, p, c)
      PROVE  CountInv'
  BY <1>2, LearnType, CountBegin DEF Learn
<1>3. ASSUME NEW t \in Threads, NEW p \in Patterns,
             NEW v \in {"support", "reject"}, Reinforce(t, p, v)
      PROVE  CountInv'
  <2> DEFINE f == [pattern |-> p, verdict |-> v, confidence |-> 0,
                   status |-> "candidate", negative |-> v = "reject"]
  <2>1. f \in Feedback
    BY DEF Feedback, Percent, Statuses
  <2> QED BY <1>3, <2>1, CountReinforce DEF Reinforce
<1>4. ASSUME NEW t \in Threads, Continue(t)
      PROVE  CountInv'
  BY <1>4, CountLookUp, CountRead, CountMiss, CountWrite DEF Continue
<1>5. CASE UNCHANGED vars
  BY <1>5 DEF CountInv, StoredWithin, PendingWithin, Bearers, Total, vars
<1> QED BY <1>1, <1>2, <1>3, <1>4, <1>5, CountClear, CountFail DEF Next, Request

LEMMA CountedWithin ==
    ASSUME IsFiniteSet(Threads), TypeInv, CountInv
    PROVE  CountedAtMostOnce
<1> SUFFICES ASSUME NEW p \in Patterns
             PROVE  Total(signals[p]) <= heard[p]
  BY DEF CountedAtMostOnce
<1>1. Total(signals[p]) + Cardinality(Bearing(doing, todo, p)) <= heard[p]
  BY DEF CountInv, StoredWithin, Bearers
<1>2. Bearing(doing, todo, p) \in SUBSET Threads
  BY DEF Bearing
<1>3. /\ Cardinality(Bearing(doing, todo, p)) \in Nat
      /\ Total(signals[p]) \in Nat /\ heard[p] \in Int
  BY <1>2, Cards, TotalType
<1> QED BY <1>1, <1>3

(* No feedback is counted twice, for any finite number of learners that    *)
(* overlap, die and clear.                                                 *)
THEOREM NothingCountedTwice ==
    ASSUME IsFiniteSet(Threads)
    PROVE  Spec => []CountedAtMostOnce
<1>1. TypeInv /\ CountInv => CountedAtMostOnce
  BY CountedWithin
<1> QED BY <1>1, TypeInit, TypeStep, DistinctInit, DistinctStep, CountInit,
           CountStep, PTL DEF Spec

-----------------------------------------------------------------------------
(* What is stable was repeated, where nobody teaches certainty.            *)

RepeatedInv ==
    /\ \A p \in Patterns : signals[p] # NoSignal => Repeated(signals[p])
    /\ \A t \in Threads :
          /\ \A f \in todo[t] : f.status # "stable"
          /\ pc[t] = "write" => Repeated(pending[t])

LEMMA RepeatedInit == Init => RepeatedInv
BY DEF Init, RepeatedInv

LEMMA RepeatedBegin ==
    ASSUME TypeInv, RepeatedInv, NEW t \in Threads, NEW F, Begin(t, F),
           \A f \in F : f.status # "stable"
    PROVE  RepeatedInv'
<1>1. /\ UNCHANGED <<signals, pending>> /\ pc'[t] # "write" /\ todo'[t] = F
      /\ \A u \in Threads \ {t} : pc'[u] = pc[u] /\ todo'[u] = todo[u]
  BY DEF TypeInv, TypeOK, Begin
<1> QED BY <1>1 DEF RepeatedInv

LEMMA RepeatedStep ==
    ASSUME \A c \in Confidences : c < 85
    PROVE  TypeInv /\ RepeatedInv /\ [Next]_vars => RepeatedInv'
<1> SUFFICES ASSUME TypeInv, RepeatedInv, [Next]_vars PROVE RepeatedInv'
  OBVIOUS
<1>1. ASSUME NEW t \in Threads, NEW m \in Messages, Observe(t, m)
      PROVE  RepeatedInv'
  <2>1. \A f \in {FeedbackOf(m, p) : p \in Admitted(m)} : f.status # "stable"
    BY FeedbackOfType DEF Admitted, Proposed, Supported, CapturePatterns, Patterns
  <2> QED BY <1>1, <2>1, RepeatedBegin DEF Observe
<1>2. ASSUME NEW t \in Threads, NEW p \in Patterns, NEW c \in Confidences,
             Learn(t, p, c)
      PROVE  RepeatedInv'
  <2>1. c \in Int /\ c < 85
    BY DEF Percent
  <2> QED BY <1>2, <2>1, LearnType, RepeatedBegin DEF Learn
<1>3. ASSUME NEW t \in Threads, NEW p \in Patterns,
             NEW v \in {"support", "reject"}, Reinforce(t, p, v)
      PROVE  RepeatedInv'
  <2>1. /\ UNCHANGED <<signals, todo, pending>> /\ pc'[t] # "write"
        /\ \A u \in Threads \ {t} : pc'[u] = pc[u]
    BY <1>3 DEF TypeInv, TypeOK, Reinforce
  <2> QED BY <2>1 DEF RepeatedInv
<1>4. ASSUME NEW t \in Threads, Clear(t)
      PROVE  RepeatedInv'
  BY <1>4 DEF RepeatedInv, Clear, locals
<1>5. ASSUME NEW t \in Threads, NEW f \in todo[t], LookUp(t, f)
      PROVE  RepeatedInv'
  <2>1. Repeated(NewSignal(f)) /\ UNCHANGED signals
    BY <1>5, NewSignalType DEF TypeInv, TypeOK, RepeatedInv, LookUp
  <2>2. \A u \in Threads : todo'[u] \subseteq todo[u]
    BY <1>5 DEF TypeInv, TypeOK, LookUp
  <2>3. \A u \in Threads : pc'[u] = "write" => Repeated(pending'[u])
    <3>1. \A u \in Threads \ {t} : pc'[u] = pc[u] /\ pending'[u] = pending[u]
      BY <1>5 DEF TypeInv, TypeOK, LookUp
    <3>2. pc'[t] = "write" => pending'[t] = NewSignal(f)
      BY <1>5 DEF TypeInv, TypeOK, LookUp
    <3> QED BY <2>1, <3>1, <3>2 DEF RepeatedInv
  <2> QED BY <2>1, <2>2, <2>3 DEF RepeatedInv
<1>6. ASSUME NEW t \in Threads, ReadSignal(t)
      PROVE  RepeatedInv'
  <2>1. /\ doing[t] \in Feedback /\ signals[doing[t].pattern] \in Signal
        /\ delta[t] \in Percent
    BY <1>6 DEF ReadSignal, TypeInv, TypeOK, Shape, Feedback
  <2>2. Repeated(Reinforced(signals[doing[t].pattern], doing[t], delta[t]))
    BY <2>1, ReinforcedType
  <2>3. /\ UNCHANGED <<signals, todo>>
        /\ pending'[t] = Reinforced(signals[doing[t].pattern], doing[t], delta[t])
        /\ \A u \in Threads \ {t} : pc'[u] = pc[u] /\ pending'[u] = pending[u]
    BY <1>6 DEF TypeInv, TypeOK, ReadSignal
  <2> QED BY <2>2, <2>3 DEF RepeatedInv
<1>7. ASSUME NEW t \in Threads, MissSignal(t) \/ Write(t)
      PROVE  RepeatedInv'
  <2>1. FinishedType(t) /\ todo' = todo
    BY <1>7, FinishType DEF MissSignal, Write
  <2>2. ASSUME NEW p \in Patterns, signals'[p] # NoSignal
        PROVE  Repeated(signals'[p])
    <3>1. signals'[p] = signals[p] \/ (pc[t] = "write" /\ signals'[p] = pending[t])
      BY <1>7 DEF MissSignal, Write, TypeInv, TypeOK
    <3> QED BY <2>2, <3>1 DEF RepeatedInv
  <2> QED BY <2>1, <2>2 DEF RepeatedInv, FinishedType
<1>8. ASSUME NEW t \in Threads, Fail(t)
      PROVE  RepeatedInv'
  <2>1. /\ UNCHANGED signals /\ pc'[t] = "idle" /\ todo'[t] = {}
        /\ \A u \in Threads \ {t} :
              pc'[u] = pc[u] /\ todo'[u] = todo[u] /\ pending'[u] = pending[u]
    BY <1>8 DEF TypeInv, TypeOK, Fail
  <2> QED BY <2>1 DEF RepeatedInv
<1>9. CASE UNCHANGED vars
  BY <1>9 DEF RepeatedInv, vars
<1> QED
  BY <1>1, <1>2, <1>3, <1>4, <1>5, <1>6, <1>7, <1>8, <1>9
  DEF Next, Request, Continue

(* Where nobody teaches a signal with the confidence of a stable one, a    *)
(* stable signal has been told at least three times, for any finite number *)
(* of learners that overlap, die and clear.                                *)
THEOREM StableTakesThree ==
    ASSUME IsFiniteSet(Threads), \A c \in Confidences : c < 85
    PROVE  Spec => []StableIsRepeated
<1>1. TypeInv /\ CountInv /\ RepeatedInv => StableIsRepeated
  <2> SUFFICES ASSUME TypeInv, CountInv, RepeatedInv, NEW p \in Patterns,
                      signals[p] # NoSignal, signals[p].status = "stable"
               PROVE  /\ signals[p].confidence >= 85
                      /\ signals[p].support >= 3
                      /\ heard[p] >= 3
    BY DEF StableIsRepeated
  <2>1. signals[p].confidence >= 85 /\ signals[p].support >= 3
    BY DEF RepeatedInv, Repeated
  <2>2. signals[p].support \in Nat /\ signals[p].reject \in Nat /\ heard[p] \in Int
    BY DEF TypeInv, TypeOK, Signal
  <2>3. signals[p].support + signals[p].reject <= heard[p]
    BY CountedWithin DEF CountedAtMostOnce, Total
  <2> QED BY <2>1, <2>2, <2>3
<1> QED BY <1>1, TypeInit, TypeStep, DistinctInit, DistinctStep, CountInit,
           CountStep, RepeatedInit, RepeatedStep, PTL DEF Spec

-----------------------------------------------------------------------------
(* Requests that do not tell the same signal at once.                      *)

(* What a thread does leaves the others where they are.                    *)
LEMMA Others ==
    ASSUME TypeInv, NEW t \in Threads, Request(t) \/ Continue(t) \/ Fail(t),
           NEW u \in Threads \ {t}
    PROVE  /\ pc'[u] = pc[u] /\ doing'[u] = doing[u] /\ delta'[u] = delta[u]
           /\ pending'[u] = pending[u]
           /\ \A p : Bears(u, p)' <=> Bears(u, p)
<1>1. /\ pc'[u] = pc[u] /\ doing'[u] = doing[u] /\ delta'[u] = delta[u]
      /\ pending'[u] = pending[u] /\ todo'[u] = todo[u]
  <2>1. CASE Request(t)
    BY <2>1 DEF Request, Observe, Learn, Reinforce, Clear, Begin, locals,
                TypeInv, TypeOK
  <2>2. CASE Continue(t)
    BY <2>2 DEF Continue, LookUp, ReadSignal, MissSignal, Write, Finish,
                TypeInv, TypeOK
  <2>3. CASE Fail(t)
    BY <2>3 DEF Fail, TypeInv, TypeOK
  <2> QED BY <2>1, <2>2, <2>3
<1> QED BY <1>1 DEF Bears

(* What a step does to a pattern that is undisturbed after it: a clear     *)
(* forgets it; or its signal stays, and the thread begins to bear it,      *)
(* while no other does, gives it up, or neither; or the thread writes it.  *)
Forgets(t, p) ==
    /\ Clear(t) /\ ~Busy(p) /\ (Bears(t, p)' <=> Bears(t, p))
    /\ signals'[p] = NoSignal /\ heard'[p] = 0

Passes(t, p) ==
    /\ signals'[p] = signals[p] /\ highest'[p] = highest[p]
    /\ (Bears(t, p)' <=> Bears(t, p)) /\ heard'[p] = heard[p]

TakesOn(t, p) ==
    /\ signals'[p] = signals[p] /\ highest[p] <= highest'[p]
    /\ ~Busy(p) /\ Bears(t, p)' /\ heard'[p] = heard[p] + 1

GivesUp(t, p) ==
    /\ signals'[p] = signals[p] /\ highest'[p] = highest[p]
    /\ Bears(t, p) /\ ~Bears(t, p)' /\ heard'[p] = heard[p] - 1

Tells(t, p) ==
    /\ Write(t) /\ doing[t].pattern = p /\ Bears(t, p) /\ ~Bears(t, p)'
    /\ signals'[p] = pending[t] /\ highest'[p] = highest[p]
    /\ heard'[p] = heard[p]

LEMMA HearsHighest ==
    ASSUME TypeInv, NEW F \in SUBSET Feedback, Hears(F), NEW p \in Patterns
    PROVE  /\ Told(F, p) = {} => heard'[p] = heard[p] /\ highest'[p] = highest[p]
           /\ Told(F, p) # {} => heard'[p] = heard[p] + 1 /\ highest[p] <= highest'[p]
<1>1. highest[p] \in Percent
  BY DEF TypeInv, TypeOK
<1>2. ASSUME Told(F, p) # {}
      PROVE  highest[p] <= highest'[p]
  <2>1. PICK f \in F : f = CHOOSE g \in F : g.pattern = p
    BY <1>2 DEF Told
  <2>2. f.confidence \in Percent
    BY DEF Feedback
  <2>3. highest'[p] = Larger(highest[p], f.confidence)
    BY <1>2, <2>1 DEF Hears
  <2> QED BY <1>1, <2>2, <2>3 DEF Larger, Percent
<1> QED BY <1>2 DEF Hears

LEMMA Effect ==
    ASSUME TypeInv, Distinct, NEW t \in Threads,
           Request(t) \/ Continue(t) \/ Fail(t),
           NEW p \in Patterns, p \notin disturbed'
    PROVE  \/ Forgets(t, p)
           \/ p \notin disturbed /\ (Passes(t, p) \/ TakesOn(t, p)
                                       \/ GivesUp(t, p) \/ Tells(t, p))
<1>1. ASSUME NEW F \in SUBSET Feedback, Hears(F), ~Bears(t, p),
             Bears(t, p)' <=> Told(F, p) # {}, UNCHANGED signals
      PROVE  p \notin disturbed /\ (Passes(t, p) \/ TakesOn(t, p))
  <2>1. p \notin disturbed /\ (Told(F, p) # {} => ~Busy(p))
    BY <1>1 DEF Hears
  <2> QED BY <1>1, <2>1, HearsHighest DEF Passes, TakesOn
<1>2. ASSUME NEW F \in SUBSET Feedback, Begin(t, F)
      PROVE  p \notin disturbed /\ (Passes(t, p) \/ TakesOn(t, p))
  <2>1. todo[t] = {} /\ doing[t] = Nothing /\ doing' = doing /\ todo'[t] = F
    BY <1>2 DEF Begin, TypeInv, TypeOK, Shape
  <2>2. ~Bears(t, p) /\ (Bears(t, p)' <=> Told(F, p) # {})
    BY <2>1 DEF Bears, Told
  <2> QED BY <1>1, <1>2, <2>2 DEF Begin
<1>3. ASSUME NEW q \in Patterns, NEW v \in {"support", "reject"}, Reinforce(t, q, v)
      PROVE  p \notin disturbed /\ (Passes(t, p) \/ TakesOn(t, p))
  <2> DEFINE f == [pattern |-> q, verdict |-> v, confidence |-> 0,
                   status |-> "candidate", negative |-> v = "reject"]
  <2>1. f \in Feedback
    BY DEF Feedback, Percent, Statuses
  <2>2. /\ todo[t] = {} /\ doing[t] = Nothing /\ todo' = todo /\ signals' = signals
        /\ doing'[t] = f /\ Hears({f})
    BY <1>3 DEF Reinforce, TypeInv, TypeOK, Shape
  <2> HIDE DEF f
  <2>3. f # Nothing
    BY <2>1
  <2>4. ~Bears(t, p) /\ (Bears(t, p)' <=> Told({f}, p) # {})
    BY <2>2, <2>3 DEF Bears, Told
  <2> QED BY <1>1, <2>1, <2>2, <2>4
<1>4. ASSUME Clear(t)
      PROVE  Forgets(t, p)
  <2>1. ~Busy(p)
    BY <1>4 DEF Clear
  <2> QED BY <1>4, <2>1 DEF Forgets, Clear, locals, Bears
<1>5. ASSUME NEW f \in todo[t], LookUp(t, f)
      PROVE  p \notin disturbed /\ Passes(t, p)
  <2>1. f \in Feedback /\ f # Nothing /\ doing[t] = Nothing
    BY <1>5 DEF LookUp, TypeInv, TypeOK, Shape
  <2>2. doing'[t] = f /\ todo'[t] = todo[t] \ {f}
    BY <1>5 DEF LookUp, TypeInv, TypeOK
  <2>3. Bears(t, p)' <=> Bears(t, p)
    BY <2>1, <2>2 DEF Bears
  <2> QED BY <1>5, <2>3 DEF LookUp, history, Passes
<1>6. ASSUME ReadSignal(t)
      PROVE  p \notin disturbed /\ Passes(t, p)
  BY <1>6 DEF ReadSignal, history, Passes, Bears
<1>7. ASSUME MissSignal(t) \/ Write(t)
      PROVE  p \notin disturbed /\ (Passes(t, p) \/ GivesUp(t, p) \/ Tells(t, p))
  <2>1. /\ doing[t] \in Feedback /\ doing[t] # Nothing
        /\ doing[t].pattern \in Patterns
    BY <1>7 DEF MissSignal, Write, TypeInv, Shape, Feedback
  <2>2. /\ doing'[t] = Nothing /\ todo' = todo
        /\ highest' = highest /\ disturbed' = disturbed
    BY <1>7, FinishType DEF MissSignal, Write, FinishedType, history
  <2>3. /\ Bears(t, p)' <=> Bears(t, p) /\ p # doing[t].pattern
        /\ p = doing[t].pattern => Bears(t, p)
    BY <2>1, <2>2 DEF Bears, Distinct
  <2>4. CASE MissSignal(t)
    <3>1. /\ signals' = signals
          /\ heard'[p] = IF p = doing[t].pattern THEN heard[p] - 1 ELSE heard[p]
      BY <2>4 DEF MissSignal, TypeInv, TypeOK
    <3> QED BY <2>2, <2>3, <3>1 DEF Passes, GivesUp
  <2>5. CASE Write(t)
    <3>1. /\ heard' = heard
          /\ signals'[p] = IF p = doing[t].pattern THEN pending[t] ELSE signals[p]
      BY <2>5 DEF Write, TypeInv, TypeOK, history
    <3> QED BY <2>2, <2>3, <2>5, <3>1 DEF Passes, Tells
  <2> QED BY <1>7, <2>4, <2>5
<1>8. ASSUME Fail(t)
      PROVE  p \notin disturbed /\ Passes(t, p)
  <2>1. p \notin disturbed /\ ~Bears(t, p)
    BY <1>8 DEF Fail
  <2>2. doing'[t] = Nothing /\ todo'[t] = {}
    BY <1>8 DEF Fail, TypeInv, TypeOK
  <2>3. ~Bears(t, p)'
    BY <2>2 DEF Bears
  <2> QED BY <1>8, <2>1, <2>3 DEF Fail, Passes
<1>9. ASSUME NEW m \in Messages, Observe(t, m)
      PROVE  p \notin disturbed /\ (Passes(t, p) \/ TakesOn(t, p))
  BY <1>2, <1>9, TurnIsDistinct DEF Observe
<1>10. ASSUME NEW q \in Patterns, NEW c \in Confidences, Learn(t, q, c)
      PROVE  p \notin disturbed /\ (Passes(t, p) \/ TakesOn(t, p))
  BY <1>2, <1>10, LearnType DEF Learn
<1> QED BY <1>3, <1>4, <1>5, <1>6, <1>7, <1>8, <1>9, <1>10 DEF Request, Continue

(* One request at a time bears a pattern that is undisturbed.              *)
OneBearer ==
    \A p \in Patterns \ disturbed : \A t, u \in Threads :
        Bears(t, p) /\ Bears(u, p) => t = u

LEMMA OneBearerInit == Init => OneBearer
BY DEF Init, OneBearer, Bears

LEMMA OneBearerStep == TypeInv /\ Distinct /\ OneBearer /\ [Next]_vars => OneBearer'
<1> SUFFICES ASSUME TypeInv, Distinct, OneBearer, [Next]_vars PROVE OneBearer'
  OBVIOUS
<1>1. CASE UNCHANGED vars
  BY <1>1 DEF OneBearer, Bears, vars
<1>2. ASSUME NEW t \in Threads, Request(t) \/ Continue(t) \/ Fail(t),
             NEW p \in Patterns, p \notin disturbed',
             NEW u \in Threads, NEW w \in Threads, Bears(u, p)', Bears(w, p)'
      PROVE  u = w
  <2>1. \A x \in Threads \ {t} : Bears(x, p)' <=> Bears(x, p)
    BY <1>2, Others
  <2>2. ASSUME NEW x \in Threads \ {t}, Bears(x, p)' PROVE ~Bears(t, p)'
    <3>1. Bears(x, p) /\ Busy(p)
      BY <2>1, <2>2 DEF Busy
    <3>2. p \notin disturbed => ~Bears(t, p)
      BY <1>2, <3>1 DEF OneBearer
    <3> QED BY <1>2, <3>1, <3>2, Effect
            DEF Forgets, Passes, TakesOn, GivesUp, Tells
  <2>3. ASSUME u # t, w # t PROVE u = w
    <3>1. Bears(u, p) /\ Bears(w, p) /\ Busy(p)
      BY <1>2, <2>1, <2>3 DEF Busy
    <3>2. p \notin disturbed
      BY <1>2, <3>1, Effect DEF Forgets
    <3> QED BY <1>2, <3>1, <3>2 DEF OneBearer
  <2> QED BY <1>2, <2>2, <2>3
<1> QED BY <1>1, <1>2 DEF Next, OneBearer

(* What a thread is about to write was computed from what is there.        *)
Computed(t) ==
    LET s == signals[doing[t].pattern]
    IN  IF s = NoSignal
        THEN doing[t].verdict = "learn" /\ pending[t] = NewSignal(doing[t])
        ELSE \E d \in Percent : pending[t] = Reinforced(s, doing[t], d)

ComputedInv ==
    /\ \A t \in Threads : \A f \in todo[t] : f.verdict = "learn"
    /\ \A t \in Threads :
          pc[t] = "write" /\ doing[t].pattern \notin disturbed => Computed(t)

LEMMA ComputedInit == Init => ComputedInv
BY DEF Init, ComputedInv

(* A thread that is about to tell a signal sees it unchanged by the others. *)
LEMMA Unseen ==
    ASSUME TypeInv, Distinct, OneBearer, NEW t \in Threads,
           Request(t) \/ Continue(t) \/ Fail(t), NEW u \in Threads \ {t},
           pc[u] \in {"read", "write"}, doing[u].pattern \notin disturbed'
    PROVE  LET p == doing[u].pattern
           IN  /\ p \in Patterns \ disturbed /\ doing'[u] = doing[u]
               /\ signals'[p] = signals[p] /\ highest'[p] = highest[p]
<1> DEFINE p == doing[u].pattern
<1>1. p \in Patterns /\ Bears(u, p)
  BY DEF TypeInv, Shape, Feedback, Bears
<1>2. Busy(p)
  BY <1>1 DEF Busy
<1>3. p \notin disturbed
  BY <1>1, <1>2, Effect DEF Forgets
<1>4. ~Bears(t, p)
  BY <1>1, <1>3 DEF OneBearer
<1>5. Passes(t, p)
  BY <1>1, <1>2, <1>4, Effect DEF Forgets, TakesOn, GivesUp, Tells
<1> QED BY <1>1, <1>3, <1>5, Others DEF Passes

LEMMA ComputedStep ==
    TypeInv /\ Distinct /\ OneBearer /\ ComputedInv /\ [Next]_vars => ComputedInv'
<1> SUFFICES ASSUME TypeInv, Distinct, OneBearer, ComputedInv, [Next]_vars
             PROVE  ComputedInv'
  OBVIOUS
<1>1. \A t \in Threads : \A f \in todo'[t] : f.verdict = "learn"
  <2>1. ASSUME NEW t \in Threads, NEW F, Begin(t, F), \A f \in F : f.verdict = "learn"
        PROVE  \A u \in Threads : \A f \in todo'[u] : f.verdict = "learn"
    BY <2>1 DEF ComputedInv, Begin, TypeInv, TypeOK
  <2>2. ASSUME NEW t \in Threads, NEW m \in Messages, Observe(t, m)
        PROVE  \A u \in Threads : \A f \in todo'[u] : f.verdict = "learn"
    <3>1. \A f \in {FeedbackOf(m, p) : p \in Admitted(m)} : f.verdict = "learn"
      BY DEF FeedbackOf
    <3> QED BY <2>1, <2>2, <3>1 DEF Observe
  <2>3. ASSUME NEW t \in Threads, NEW p \in Patterns, NEW c \in Confidences,
               Learn(t, p, c)
        PROVE  \A u \in Threads : \A f \in todo'[u] : f.verdict = "learn"
    BY <2>1, <2>3 DEF Learn
  <2>4. ASSUME NEW t \in Threads, (\E f \in todo[t] : LookUp(t, f)) \/ Fail(t)
        PROVE  \A u \in Threads : todo'[u] \subseteq todo[u]
    <3>1. \E S \in SUBSET todo[t] : todo' = [todo EXCEPT ![t] = S]
      BY <2>4 DEF LookUp, Fail
    <3> QED BY <3>1 DEF TypeInv, TypeOK
  <2>5. ASSUME NEW t \in Threads,
               \/ \E p \in Patterns, v \in {"support", "reject"} : Reinforce(t, p, v)
               \/ Clear(t) \/ ReadSignal(t) \/ MissSignal(t) \/ Write(t)
        PROVE  todo' = todo
    BY <2>5 DEF Reinforce, Clear, ReadSignal, MissSignal, Write, locals
  <2>6. UNCHANGED vars => todo' = todo
    BY DEF vars
  <2> QED BY <2>2, <2>3, <2>4, <2>5, <2>6 DEF Next, Request, Continue, ComputedInv
<1>2. ASSUME NEW u \in Threads, pc'[u] = "write", doing'[u].pattern \notin disturbed'
      PROVE  Computed(u)'
  <2>1. CASE UNCHANGED vars
    BY <1>2, <2>1 DEF ComputedInv, Computed, vars
  <2>2. ASSUME NEW t \in Threads, Request(t) \/ Continue(t) \/ Fail(t), u # t
        PROVE  Computed(u)'
    <3>1. pc[u] = "write" /\ doing'[u] = doing[u] /\ pending'[u] = pending[u]
      BY <1>2, <2>2, Others
    <3>2. /\ doing[u].pattern \notin disturbed
          /\ signals'[doing[u].pattern] = signals[doing[u].pattern]
      BY <1>2, <2>2, <3>1, Unseen
    <3>3. Computed(u)
      BY <3>1, <3>2 DEF ComputedInv
    <3> QED BY <3>1, <3>2, <3>3 DEF Computed
  <2>3. ASSUME Request(u) \/ Fail(u)
        PROVE  FALSE
    BY <1>2, <2>3 DEF Request, Observe, Learn, Begin, Reinforce, Clear, Fail,
                      TypeInv, TypeOK
  <2>4. ASSUME NEW f \in todo[u], LookUp(u, f)
        PROVE  Computed(u)'
    <3>1. signals' = signals /\ doing'[u] = f
      BY <2>4 DEF LookUp, TypeInv, TypeOK
    <3>2. signals[f.pattern] = NoSignal /\ pending'[u] = NewSignal(f)
      BY <1>2, <2>4 DEF LookUp, TypeInv, TypeOK
    <3>3. f.verdict = "learn"
      BY DEF ComputedInv
    <3> QED BY <3>1, <3>2, <3>3 DEF Computed
  <2>5. ASSUME ReadSignal(u)
        PROVE  Computed(u)'
    <3>1. /\ signals' = signals /\ doing' = doing /\ signals[doing[u].pattern] # NoSignal
          /\ pending'[u] = Reinforced(signals[doing[u].pattern], doing[u], delta[u])
      BY <2>5 DEF ReadSignal, TypeInv, TypeOK
    <3>2. delta[u] \in Percent
      BY DEF TypeInv, TypeOK
    <3> QED BY <3>1, <3>2 DEF Computed
  <2>6. ASSUME MissSignal(u) \/ Write(u)
        PROVE  FALSE
    BY <1>2, <2>6, FinishType DEF MissSignal, Write, FinishedType
  <2> QED BY <2>1, <2>2, <2>3, <2>4, <2>5, <2>6 DEF Next, Continue
<1> QED BY <1>1, <1>2 DEF ComputedInv

(* Nothing is lost: what was heard is counted, but for what the bearer of  *)
(* an undisturbed pattern still has to tell.                               *)
Tallied(p) == Total(signals[p]) + (IF Busy(p) THEN 1 ELSE 0) = heard[p]

TallyInv == \A p \in Patterns \ disturbed : Tallied(p)

LEMMA TallyInit == Init => TallyInv
BY DEF Init, TallyInv, Tallied, Busy, Bears, Total

(* A write adds one to what is counted.                                    *)
LEMMA WriteCounts ==
    ASSUME TypeInv, ComputedInv, NEW t \in Threads, Write(t),
           doing[t].pattern \notin disturbed
    PROVE  Total(pending[t]) = Total(signals[doing[t].pattern]) + 1
<1> DEFINE p == doing[t].pattern
<1>1. doing[t] \in Feedback /\ p \in Patterns
  BY DEF Write, TypeInv, Shape, Feedback
<1>2. Computed(t)
  BY DEF ComputedInv, Write
<1>3. CASE signals[p] = NoSignal
  <2>1. pending[t] = NewSignal(doing[t]) /\ NewSignal(doing[t]) # NoSignal
    BY <1>1, <1>2, <1>3, NewSignalType DEF Computed
  <2> QED BY <1>1, <1>3, <2>1, NewSignalType DEF Total
<1>4. CASE signals[p] # NoSignal
  <2>1. signals[p] \in Signal
    BY <1>1, <1>4 DEF TypeInv, TypeOK
  <2>2. PICK d \in Percent : pending[t] = Reinforced(signals[p], doing[t], d)
    BY <1>2, <1>4 DEF Computed
  <2>3. pending[t] \in Signal
        /\ pending[t].support + pending[t].reject
             = signals[p].support + signals[p].reject + 1
    BY <1>1, <2>1, <2>2, ReinforcedType
  <2> QED BY <1>4, <2>3 DEF Total
<1> QED BY <1>3, <1>4

LEMMA TallyStep ==
    TypeInv /\ Distinct /\ OneBearer /\ ComputedInv /\ TallyInv /\ [Next]_vars => TallyInv'
<1> SUFFICES ASSUME TypeInv, Distinct, OneBearer, ComputedInv, TallyInv, [Next]_vars
             PROVE  TallyInv'
  OBVIOUS
<1>1. CASE UNCHANGED vars
  BY <1>1 DEF TallyInv, Tallied, Busy, Bears, Total, vars
<1>2. ASSUME NEW t \in Threads, Request(t) \/ Continue(t) \/ Fail(t),
             NEW p \in Patterns, p \notin disturbed'
      PROVE  Tallied(p)'
  <2>1. \A u \in Threads \ {t} : Bears(u, p)' <=> Bears(u, p)
    BY <1>2, Others
  <2>2. Total(signals[p]) \in Nat /\ heard[p] \in Int
    BY TotalType
  <2>3. p \notin disturbed =>
          /\ Total(signals[p]) + (IF Busy(p) THEN 1 ELSE 0) = heard[p]
          /\ Bears(t, p) => Busy(p) /\ \A u \in Threads \ {t} : ~Bears(u, p)
    BY <1>2 DEF TallyInv, Tallied, OneBearer, Busy
  <2>4. CASE Forgets(t, p)
    <3>1. ~Busy(p)'
      BY <2>1, <2>4 DEF Forgets, Busy
    <3> QED BY <2>4, <3>1 DEF Forgets, Tallied, Total
  <2>5. CASE p \notin disturbed /\ Passes(t, p)
    <3>1. Busy(p)' <=> Busy(p)
      BY <2>1, <2>5 DEF Passes, Busy
    <3> QED BY <2>3, <2>5, <3>1 DEF Passes, Tallied, Total
  <2>6. CASE p \notin disturbed /\ TakesOn(t, p)
    <3>1. ~Busy(p) /\ Busy(p)'
      BY <2>6 DEF TakesOn, Busy
    <3>2. Total(signals[p]) + 1 = heard'[p]
      BY <2>2, <2>3, <2>6, <3>1 DEF TakesOn
    <3> QED BY <2>6, <3>1, <3>2 DEF TakesOn, Tallied, Total
  <2>7. CASE p \notin disturbed /\ GivesUp(t, p)
    <3>1. Busy(p) /\ ~Busy(p)'
      BY <2>1, <2>3, <2>7 DEF GivesUp, Busy
    <3>2. Total(signals[p]) + 0 = heard'[p]
      BY <2>2, <2>3, <2>7, <3>1 DEF GivesUp
    <3> QED BY <2>7, <3>1, <3>2 DEF GivesUp, Tallied, Total
  <2>8. CASE p \notin disturbed /\ Tells(t, p)
    <3>1. Busy(p) /\ ~Busy(p)'
      BY <2>1, <2>3, <2>8 DEF Tells, Busy
    <3>2. Total(pending[t]) = Total(signals[p]) + 1
      BY <2>8, WriteCounts DEF Tells
    <3>3. Total(pending[t]) + 0 = heard'[p]
      BY <2>2, <2>3, <2>8, <3>1, <3>2 DEF Tells
    <3> QED BY <2>8, <3>1, <3>3 DEF Tells, Tallied, Total
  <2> QED BY <1>2, <2>4, <2>5, <2>6, <2>7, <2>8, Effect
<1> QED BY <1>1, <1>2 DEF Next, TallyInv

(* Nothing a signal was told is lost, but to requests that tell it at      *)
(* once, die, or run under a clear, for any number of threads.             *)
THEOREM NothingIsLost == Spec => []NothingLost
<1>1. TypeInv /\ TallyInv => NothingLost
  <2> SUFFICES ASSUME TypeInv, TallyInv, NEW p \in Patterns \ disturbed, ~Busy(p)
               PROVE  Total(signals[p]) = heard[p]
    BY DEF NothingLost
  <2>1. Total(signals[p]) \in Nat /\ Total(signals[p]) + 0 = heard[p]
    BY TotalType DEF TallyInv, Tallied
  <2> QED BY <2>1
<1> QED
  BY <1>1, TypeInit, TypeStep, DistinctInit, DistinctStep, OneBearerInit,
     OneBearerStep, ComputedInit, ComputedStep, TallyInit, TallyStep, PTL DEF Spec

(* Nothing is surer than it was taught to be: what is taught is remembered *)
(* in highest, a step taken from a reading is at most eight more than what *)
(* was read or leads to what was taught, and a rejection leads down.       *)
TaughtInv == \A t \in Threads : \A f \in todo[t] : f.confidence <= highest[f.pattern]

Sure(s, h) ==
    /\ s.support >= 1
    /\ s.confidence <= h + 8 * (s.support - 1)

(* What a support under way may add.                                       *)
Bounded(t) ==
    LET s == signals[doing[t].pattern]
    IN  s # NoSignal /\ doing[t].verdict # "reject" =>
            s.confidence + delta[t] <= highest[doing[t].pattern] + 8 * s.support

SureInv ==
    /\ \A p \in Patterns \ disturbed :
          signals[p] # NoSignal => Sure(signals[p], highest[p])
    /\ \A t \in Threads : doing[t] # Nothing /\ doing[t].pattern \notin disturbed =>
          /\ pc[t] = "read" => Bounded(t)
          /\ pc[t] = "write" => Sure(pending[t], highest[doing[t].pattern])

LEMMA TaughtInit == Init => TaughtInv
BY DEF Init, TaughtInv

LEMMA HearsTaught ==
    ASSUME TypeInv, NEW F \in SUBSET Feedback, Hears(F),
           \A f, g \in F : f.pattern = g.pattern => f = g
    PROVE  /\ \A p \in Patterns : highest[p] <= highest'[p]
           /\ \A f \in F : f.confidence <= highest'[f.pattern]
<1>1. \A p \in Patterns : highest[p] \in Percent
  BY DEF TypeInv, TypeOK
<1>2. \A f \in F : f.confidence \in Percent /\ f.pattern \in Patterns
  BY DEF Feedback
<1>3. \A p \in Patterns :
        highest'[p] = IF Told(F, p) = {} THEN highest[p]
                      ELSE Larger(highest[p], (CHOOSE f \in F : f.pattern = p).confidence)
  BY DEF Hears
<1>4. ASSUME NEW f \in F
      PROVE  highest'[f.pattern] = Larger(highest[f.pattern], f.confidence)
  <2>1. (CHOOSE g \in F : g.pattern = f.pattern) = f
    OBVIOUS
  <2>2. Told(F, f.pattern) # {}
    BY DEF Told
  <2> QED BY <1>2, <1>3, <2>1, <2>2
<1>5. \A a, b \in Percent : a <= Larger(a, b) /\ b <= Larger(a, b)
  BY DEF Larger, Percent
<1>6. ASSUME NEW p \in Patterns
      PROVE  highest[p] <= highest'[p]
  <2>1. CASE Told(F, p) = {}
    BY <1>1, <1>3, <2>1 DEF Percent
  <2>2. CASE Told(F, p) # {}
    <3>1. PICK f \in F : f.pattern = p
      BY <2>2 DEF Told
    <3> QED BY <1>1, <1>2, <1>4, <1>5, <3>1
  <2> QED BY <2>1, <2>2
<1>7. \A f \in F : f.confidence <= highest'[f.pattern]
  BY <1>1, <1>2, <1>4, <1>5
<1> QED BY <1>6, <1>7

(* Bounds survive a rise of what was taught.                               *)
LEMMA BoundRises ==
    ASSUME NEW c \in Int, NEW h \in Int, NEW k \in Int, NEW n \in Int,
           c <= h + k, h <= n
    PROVE  c <= n + k
OBVIOUS

(* The steps of a support: eight, or up to what was taught.                *)
LEMMA SupportSteps ==
    ASSUME NEW c \in Percent, NEW h \in Percent, NEW n \in Percent, NEW k \in Nat,
           k >= 1, c <= h + 8 * (k - 1)
    PROVE  /\ c + 8 <= h + 8 * k
           /\ n <= h => c + Larger(2, n - c) <= h + 8 * k
<1>1. c \in Int /\ h \in Int /\ n \in Int
  BY DEF Percent
<1>2. c + 8 <= h + 8 * k
  BY <1>1
<1>3. ASSUME n <= h PROVE c + Larger(2, n - c) <= h + 8 * k
  <2>1. CASE 2 >= n - c
    <3>1. Larger(2, n - c) = 2
      BY <2>1 DEF Larger
    <3> HIDE DEF Larger
    <3> QED BY <1>1, <1>2, <3>1
  <2>2. CASE ~(2 >= n - c)
    <3>1. Larger(2, n - c) = n - c /\ c + (n - c) = n
      BY <1>1, <2>2 DEF Larger
    <3>2. n <= h + 8 * k
      BY <1>1, <1>3
    <3> QED BY <3>1, <3>2
  <2> QED BY <2>1, <2>2
<1> QED BY <1>2, <1>3

LEMMA TaughtStep == TypeInv /\ TaughtInv /\ [Next]_vars => TaughtInv'
<1> SUFFICES ASSUME TypeInv, TaughtInv, [Next]_vars PROVE TaughtInv'
  OBVIOUS
<1>1. \A u \in Threads : \A f \in todo[u] :
        f.pattern \in Patterns /\ f.confidence \in Int /\ highest[f.pattern] \in Int
  BY DEF TypeInv, TypeOK, Feedback, Percent
<1>2. ASSUME NEW t \in Threads, NEW F \in SUBSET Feedback, Begin(t, F),
             \A f, g \in F : f.pattern = g.pattern => f = g
      PROVE  TaughtInv'
  <2>1. /\ \A p \in Patterns : highest[p] <= highest'[p]
        /\ \A f \in F : f.confidence <= highest'[f.pattern]
    BY <1>2, HearsTaught DEF Begin
  <2>2. todo'[t] = F /\ \A u \in Threads \ {t} : todo'[u] = todo[u]
    BY <1>2 DEF Begin, TypeInv, TypeOK
  <2>3. \A p \in Patterns : highest'[p] \in Int
    BY <1>2, HearsType DEF Begin, TypeInv, Percent
  <2>4. ASSUME NEW u \in Threads \ {t}, NEW f \in todo[u]
        PROVE  f.confidence <= highest'[f.pattern]
    BY <1>1, <2>1, <2>3, <2>4 DEF TaughtInv
  <2> QED BY <2>1, <2>2, <2>4 DEF TaughtInv
<1>3. ASSUME NEW t \in Threads, NEW p \in Patterns, NEW v \in {"support", "reject"},
             Reinforce(t, p, v)
      PROVE  TaughtInv'
  <2> DEFINE f == [pattern |-> p, verdict |-> v, confidence |-> 0,
                   status |-> "candidate", negative |-> v = "reject"]
  <2>1. f \in Feedback
    BY DEF Feedback, Percent, Statuses
  <2>2. Hears({f}) /\ todo' = todo
    BY <1>3 DEF Reinforce
  <2> HIDE DEF f
  <2>3. \A q \in Patterns : highest[q] <= highest'[q] /\ highest'[q] \in Int
    BY <2>1, <2>2, HearsTaught, HearsType DEF TypeInv, Percent
  <2> QED BY <1>1, <2>2, <2>3 DEF TaughtInv
<1>4. ASSUME NEW t \in Threads, (\E f \in todo[t] : LookUp(t, f)) \/ Fail(t)
      PROVE  TaughtInv'
  <2>1. \E S \in SUBSET todo[t] : todo' = [todo EXCEPT ![t] = S]
    BY <1>4 DEF LookUp, Fail
  <2>2. \A u \in Threads : todo'[u] \subseteq todo[u]
    BY <2>1 DEF TypeInv, TypeOK
  <2>3. highest' = highest
    BY <1>4 DEF LookUp, Fail, history
  <2> QED BY <2>2, <2>3 DEF TaughtInv
<1>5. ASSUME NEW t \in Threads, ReadSignal(t) \/ MissSignal(t) \/ Write(t)
      PROVE  UNCHANGED <<todo, highest>>
  BY <1>5 DEF ReadSignal, MissSignal, Write, history
<1>6. UNCHANGED vars => UNCHANGED <<todo, highest>>
  BY DEF vars
<1>7. UNCHANGED <<todo, highest>> => TaughtInv'
  BY DEF TaughtInv
<1>8. ASSUME NEW p \in Patterns, NEW c \in Confidences
      PROVE  {[pattern |-> p, verdict |-> "learn", confidence |-> c,
               status |-> InitialStatus(c), negative |-> FALSE]} \in SUBSET Feedback
  BY LearnType
<1>9. ASSUME NEW t \in Threads, Clear(t)
      PROVE  TaughtInv'
  <2>1. ASSUME NEW u \in Threads, NEW f \in todo[u]
        PROVE  highest'[f.pattern] = highest[f.pattern]
    BY <1>1, <1>9 DEF Clear, Busy, Bears
  <2> QED BY <1>9, <2>1 DEF TaughtInv, Clear, locals
<1> QED
  BY <1>2, <1>3, <1>4, <1>5, <1>6, <1>7, <1>8, <1>9, TurnIsDistinct
  DEF Next, Request, Continue, Observe, Learn

LEMMA SureInit == Init => SureInv
BY DEF Init, SureInv

(* The arithmetic of a support and of a rejection.                         *)
LEMMA ReinforcedSure ==
    ASSUME NEW s \in Signal, NEW f \in Feedback, NEW d \in Percent,
           NEW h \in Percent, s.support >= 1,
           s.confidence <= h + 8 * (s.support - 1),
           f.verdict # "reject" => s.confidence + d <= h + 8 * s.support
    PROVE  LET r == Reinforced(s, f, d)
           IN  r.support >= 1 /\ r.confidence <= h + 8 * (r.support - 1)
<1>1. s.confidence \in Percent /\ s.support \in Nat
  BY DEF Signal
<1>2. \A n \in Int, k \in Nat : n <= k => Clipped(n) <= k
  BY DEF Clipped
<1>3. h + 8 * (s.support - 1) \in Nat /\ h + 8 * s.support \in Nat
  BY <1>1 DEF Percent
<1>4. s.confidence + d \in Int /\ s.confidence - d \in Int /\ s.confidence - d <= s.confidence
  BY <1>1 DEF Percent
<1>5. CASE f.verdict = "reject"
  <2>1. /\ Reinforced(s, f, d).support = s.support
        /\ Reinforced(s, f, d).confidence = Clipped(s.confidence - d)
    BY <1>5 DEF Reinforced
  <2>2. s.confidence - d <= h + 8 * (s.support - 1)
    BY <1>1, <1>3, <1>4 DEF Percent
  <2> QED BY <1>2, <1>3, <1>4, <2>1, <2>2
<1>6. CASE f.verdict # "reject"
  <2>1. /\ Reinforced(s, f, d).support = s.support + 1
        /\ Reinforced(s, f, d).confidence = Clipped(s.confidence + d)
    BY <1>6 DEF Reinforced
  <2>2. Clipped(s.confidence + d) <= h + 8 * s.support
    BY <1>2, <1>3, <1>4, <1>6
  <2>3. (s.support + 1) - 1 = s.support /\ s.support + 1 >= 1
    BY <1>1
  <2> QED BY <2>1, <2>2, <2>3
<1> QED BY <1>5, <1>6

(* A signal that stays is as sure of a pattern that was taught no less.    *)
LEMMA SureKeeps ==
    ASSUME NEW s \in Signal, NEW h \in Percent, NEW n \in Percent, Sure(s, h), h <= n
    PROVE  Sure(s, n)
<1>1. s.support >= 1 /\ s.confidence <= h + 8 * (s.support - 1)
  BY DEF Sure
<1>2. /\ s.confidence \in Int /\ 8 * (s.support - 1) \in Int
      /\ h \in Int /\ n \in Int
  BY DEF Signal, Percent
<1>3. s.confidence <= n + 8 * (s.support - 1)
  BY <1>1, <1>2, BoundRises
<1> QED BY <1>1, <1>3 DEF Sure

(* What is stored of an undisturbed pattern stays sure.                    *)
LEMMA SureStored ==
    ASSUME TypeInv, TypeInv', Distinct, SureInv, NEW t \in Threads,
           Request(t) \/ Continue(t) \/ Fail(t),
           NEW p \in Patterns \ disturbed', signals'[p] # NoSignal
    PROVE  Sure(signals'[p], highest'[p])
<1>1. /\ highest[p] \in Percent /\ highest'[p] \in Percent
      /\ signals[p] # NoSignal => signals[p] \in Signal
  BY DEF TypeInv, TypeOK
<1>2. highest[p] <= highest[p]
  BY <1>1 DEF Percent
<1>3. CASE p \notin disturbed /\ (Passes(t, p) \/ TakesOn(t, p) \/ GivesUp(t, p))
  <2>1. signals'[p] = signals[p] /\ highest[p] <= highest'[p]
    BY <1>2, <1>3 DEF Passes, TakesOn, GivesUp
  <2> QED BY <1>1, <1>3, <2>1, SureKeeps DEF SureInv
<1>4. CASE p \notin disturbed /\ Tells(t, p)
  <2>1. pc[t] = "write" /\ doing[t] # Nothing /\ doing[t].pattern = p
    BY <1>4 DEF Tells, Write, TypeInv, Shape
  <2>2. Sure(pending[t], highest[p])
    BY <1>4, <2>1 DEF SureInv
  <2> QED BY <1>4, <2>2 DEF Tells
<1> QED BY <1>3, <1>4, Effect DEF Forgets

LEMMA SureStep ==
    TypeInv /\ TypeInv' /\ Distinct /\ OneBearer /\ TaughtInv /\ SureInv /\ [Next]_vars
        => SureInv'
<1> SUFFICES ASSUME TypeInv, TypeInv', Distinct, OneBearer, TaughtInv, SureInv,
                    [Next]_vars
             PROVE  SureInv'
  OBVIOUS
<1>1. CASE UNCHANGED vars
  BY <1>1 DEF SureInv, Sure, Bounded, vars
<1>2. ASSUME NEW t \in Threads, Request(t) \/ Continue(t) \/ Fail(t),
             doing'[t] # Nothing /\ doing'[t].pattern \notin disturbed' =>
               /\ pc'[t] = "read" => Bounded(t)'
               /\ pc'[t] = "write" => Sure(pending'[t], highest'[doing'[t].pattern])
      PROVE  SureInv'
  <2>1. ASSUME NEW u \in Threads \ {t}, doing'[u] # Nothing,
               doing'[u].pattern \notin disturbed', pc'[u] \in {"read", "write"}
        PROVE  /\ pc'[u] = "read" => Bounded(u)'
               /\ pc'[u] = "write" => Sure(pending'[u], highest'[doing'[u].pattern])
    <3>1. /\ pc'[u] = pc[u] /\ doing'[u] = doing[u] /\ delta'[u] = delta[u]
          /\ pending'[u] = pending[u]
      BY <1>2, Others
    <3>2. /\ doing[u].pattern \notin disturbed
          /\ signals'[doing[u].pattern] = signals[doing[u].pattern]
          /\ highest'[doing[u].pattern] = highest[doing[u].pattern]
      BY <1>2, <2>1, <3>1, Unseen
    <3> QED BY <2>1, <3>1, <3>2 DEF SureInv, Bounded
  <2> QED BY <1>2, <2>1, SureStored DEF SureInv, Sure
<1>3. ASSUME NEW t \in Threads, Request(t) \/ Continue(t) \/ Fail(t),
             pc'[t] \notin {"read", "write"}
      PROVE  SureInv'
  BY <1>2, <1>3
<1>4. ASSUME NEW t \in Threads, NEW p \in Patterns,
             NEW v \in {"support", "reject"}, Reinforce(t, p, v)
      PROVE  SureInv'
  <2>1. doing'[t].pattern = p /\ delta'[t] = 8 /\ pc'[t] = "read"
    BY <1>4 DEF Reinforce, TypeInv, TypeOK
  <2>2. Request(t)
    BY <1>4 DEF Request
  <2>3. ASSUME p \notin disturbed', signals'[p] # NoSignal
        PROVE  signals'[p].confidence + 8 <= highest'[p] + 8 * signals'[p].support
    <3>1. signals'[p] \in Signal /\ highest'[p] \in Percent
      BY <2>3 DEF TypeInv, TypeOK
    <3>2. PICK c \in Percent, k \in Nat, h \in Percent :
            c = signals'[p].confidence /\ k = signals'[p].support /\ h = highest'[p]
      BY <3>1 DEF Signal
    <3>3. k >= 1 /\ c <= h + 8 * (k - 1)
      BY <2>2, <2>3, <3>2, SureStored DEF Sure
    <3> QED BY <3>2, <3>3, SupportSteps
  <2>4. p \notin disturbed' => Bounded(t)'
    BY <2>1, <2>3 DEF Bounded
  <2> QED BY <1>2, <2>1, <2>2, <2>4
<1>5. ASSUME NEW t \in Threads, NEW f \in todo[t], LookUp(t, f)
      PROVE  SureInv'
  <2> DEFINE p == f.pattern
  <2>1. f \in Feedback /\ p \in Patterns /\ f.confidence \in Percent
    BY DEF TypeInv, TypeOK, Feedback
  <2>2. UNCHANGED <<signals, highest, disturbed>> /\ highest[p] \in Percent
    BY <1>5, <2>1 DEF LookUp, history, TypeInv, TypeOK
  <2>3. doing'[t] = f /\ f.confidence <= highest[p] /\ Continue(t)
    BY <1>5 DEF LookUp, TypeInv, TypeOK, TaughtInv, Continue
  <2>4. CASE signals[p] = NoSignal
    <3>1. pc'[t] = "write" /\ pending'[t] = NewSignal(f)
      BY <1>5, <2>4 DEF LookUp, TypeInv, TypeOK
    <3>2. NewSignal(f).support = 1 /\ NewSignal(f).confidence = f.confidence
      BY DEF NewSignal
    <3>3. f.confidence <= highest[p] + 8 * (1 - 1)
      BY <2>1, <2>2, <2>3 DEF Percent
    <3>4. Sure(pending'[t], highest'[doing'[t].pattern])
      BY <2>2, <2>3, <3>1, <3>2, <3>3 DEF Sure
    <3> QED BY <1>2, <2>3, <3>1, <3>4
  <2>5. CASE signals[p] # NoSignal
    <3>1. pc'[t] = "read" /\ delta'[t] = Larger(2, f.confidence - signals[p].confidence)
      BY <1>5, <2>5 DEF LookUp, TypeInv, TypeOK
    <3>2. ASSUME p \notin disturbed
          PROVE  Bounded(t)'
      <4>1. PICK c \in Percent, k \in Nat, h \in Percent :
              c = signals[p].confidence /\ k = signals[p].support /\ h = highest[p]
        BY <2>1, <2>2, <2>5 DEF TypeInv, TypeOK, Signal
      <4>2. k >= 1 /\ c <= h + 8 * (k - 1)
        BY <2>1, <2>5, <3>2, <4>1 DEF SureInv, Sure
      <4>3. c + Larger(2, f.confidence - c) <= h + 8 * k
        BY <2>1, <2>3, <4>1, <4>2, SupportSteps
      <4> QED BY <2>2, <2>3, <3>1, <4>1, <4>3 DEF Bounded
    <3> QED BY <1>2, <2>2, <2>3, <3>1, <3>2
  <2> QED BY <2>4, <2>5
<1>6. ASSUME NEW t \in Threads, ReadSignal(t)
      PROVE  SureInv'
  <2>1. UNCHANGED <<signals, doing, highest, disturbed>> /\ pc[t] = "read" /\ Continue(t)
    BY <1>6 DEF ReadSignal, history, Continue
  <2>2. PICK p \in Patterns, f \in Feedback, d \in Percent, s \in Signal :
          p = doing[t].pattern /\ f = doing[t] /\ d = delta[t] /\ s = signals[p]
    BY <1>6 DEF ReadSignal, TypeInv, TypeOK, Shape, Feedback
  <2>3. s # NoSignal /\ f # Nothing /\ highest[p] \in Percent
    BY <1>6, <2>2 DEF ReadSignal, TypeInv, TypeOK
  <2>4. pending'[t] = Reinforced(s, f, d) /\ pc'[t] = "write"
    BY <1>6, <2>2 DEF ReadSignal, TypeInv, TypeOK
  <2>5. ASSUME p \notin disturbed
        PROVE  Sure(pending'[t], highest'[doing'[t].pattern])
    <3>1. s.support >= 1 /\ s.confidence <= highest[p] + 8 * (s.support - 1)
      BY <2>2, <2>3, <2>5 DEF SureInv, Sure
    <3>2. f.verdict # "reject" => s.confidence + d <= highest[p] + 8 * s.support
      BY <2>1, <2>2, <2>3, <2>5 DEF SureInv, Bounded
    <3>3. /\ Reinforced(s, f, d).support >= 1
          /\ Reinforced(s, f, d).confidence
               <= highest[p] + 8 * (Reinforced(s, f, d).support - 1)
      BY <2>3, <3>1, <3>2, ReinforcedSure
    <3> QED BY <2>1, <2>2, <2>4, <3>3 DEF Sure
  <2> QED BY <1>2, <2>1, <2>2, <2>4, <2>5
<1>7. ASSUME NEW t \in Threads, MissSignal(t) \/ Write(t)
      PROVE  SureInv'
  <2>1. pc'[t] \notin {"read", "write"} /\ Continue(t)
    BY <1>7, FinishType DEF MissSignal, Write, FinishedType, Continue
  <2> QED BY <1>3, <2>1
<1>8. ASSUME NEW t \in Threads, NEW F, Begin(t, F), Request(t)
      PROVE  SureInv'
  <2>1. pc'[t] \notin {"read", "write"}
    BY <1>8 DEF Begin, TypeInv, TypeOK
  <2> QED BY <1>3, <1>8, <2>1
<1>9. ASSUME NEW t \in Threads, Clear(t) \/ Fail(t)
      PROVE  SureInv'
  <2>1. pc'[t] \notin {"read", "write"} /\ (Request(t) \/ Fail(t))
    BY <1>9 DEF Clear, Fail, Request, TypeInv, TypeOK
  <2> QED BY <1>3, <2>1
<1> QED
  BY <1>1, <1>4, <1>5, <1>6, <1>7, <1>8, <1>9
  DEF Next, Request, Observe, Learn, Continue

(* A signal is never surer than it was taught to be but for eight          *)
(* hundredths per support, unless requests tell it at once, die, or run    *)
(* under a clear, for any number of threads, messages and confidences.     *)
THEOREM SureAsTaught == Spec => []NeverSurerThanTaught
<1>1. SureInv => NeverSurerThanTaught
  BY DEF SureInv, Sure, NeverSurerThanTaught
<1> QED
  BY <1>1, TypeInit, TypeStep, DistinctInit, DistinctStep, OneBearerInit,
     OneBearerStep, TaughtInit, TaughtStep, SureInit, SureStep, PTL DEF Spec
=============================================================================
