--------------------------- MODULE PolicySignals ---------------------------
(***************************************************************************)
(* The policy signals one user's service learns from feedback: observed    *)
(* turns (adaptive_learning.py, runtime.observe_turn), explicit learning   *)
(* and reinforcement (adaptive_policy.py), and the status machine of       *)
(* store.py.  A signal is read in one transaction, or two, and written     *)
(* back in another; other requests run in between.                         *)
(*                                                                         *)
(* A user message is abstracted to the features extracted from it.         *)
(* Confidences are in hundredths.                                          *)
(***************************************************************************)
EXTENDS Integers

CONSTANTS
    Threads,       \* request threads serving this user
    Messages,      \* what a turn may consist of
    Confidences,   \* confidences a caller may teach a signal with
    Operations,    \* the requests callers issue
    MaxRequests,   \* bound: requests, over all threads
    MaxFailures,   \* bound: requests that die between two transactions
    NoSignal,      \* a signal that does not exist
    Nothing        \* no feedback under way

(* The patterns the observer proposes.  A pattern comes with one signal    *)
(* type and one action, so it names a row of policy_signals.               *)
Patterns == {"future_instruction", "explicit_memory_intent",
             "short_followup", "continuity_reference"}

CapturePatterns == {"future_instruction", "explicit_memory_intent"}

Features == Patterns \cup {"first_person", "project_context_reference",
                           "correction_feedback"}

Statuses == {"candidate", "active", "stable", "archived"}

Percent == 0..98

Signal == [confidence : Percent, support : Nat, reject : Nat, status : Statuses]

(* A message: its features as a task and as a content to capture, whether  *)
(* it rejects what was read, has a durable wording, and how risky it is.   *)
Message == [read     : SUBSET Features,
            capture  : SUBSET Features,
            negative : BOOLEAN,
            durable  : BOOLEAN,
            risk     : {"low", "medium", "high"}]

(* Something to tell a signal.  negative marks what came of a complaint.   *)
Feedback == [pattern    : Patterns,
             verdict    : {"learn", "support", "reject"},
             confidence : Percent,
             status     : Statuses,
             negative   : BOOLEAN]

ASSUME MessagesAssumption == Messages \subseteq Message

ASSUME ConfidencesAssumption == Confidences \subseteq Percent

ASSUME BoundsAssumption == MaxRequests \in Nat /\ MaxFailures \in Nat

ASSUME NoneAssumption == NoSignal \notin Signal /\ Nothing \notin Feedback

VARIABLES
    requests,   \* number of requests issued so far
    failures,   \* number of requests that died so far
    signals,    \* the table policy_signals
    pc,         \* thread -> the next transaction of its request
    todo,       \* thread -> feedback of its turn not yet looked at
    doing,      \* thread -> feedback under way
    delta,      \* thread -> confidence_delta of the reinforcement under way
    pending,    \* thread -> the signal it is about to write
    heard,      \* history: pattern -> number of feedbacks received
    highest,    \* history: pattern -> the highest confidence taught
    disturbed   \* history: patterns told something by two requests at once,
                \* or while a request that told them died or another cleared

history == <<heard, highest, disturbed>>

locals == <<todo, doing, delta, pending>>

vars == <<requests, failures, signals, pc, todo, doing, delta, pending,
          heard, highest, disturbed>>

Init ==
    /\ requests = 0
    /\ failures = 0
    /\ signals = [p \in Patterns |-> NoSignal]
    /\ pc = [t \in Threads |-> "idle"]
    /\ todo = [t \in Threads |-> {}]
    /\ doing = [t \in Threads |-> Nothing]
    /\ delta = [t \in Threads |-> 0]
    /\ pending = [t \in Threads |-> NoSignal]
    /\ heard = [p \in Patterns |-> 0]
    /\ highest = [p \in Patterns |-> 0]
    /\ disturbed = {}

-----------------------------------------------------------------------------
(* What a turn proposes, and what is admitted of it.                       *)

Larger(a, b) == IF a >= b THEN a ELSE b

(* Faulty variant: no upper limit.                                         *)
ClippedBelow(n) == IF n < 0 THEN 0 ELSE n

Clipped(n) == IF n < 0 THEN 0 ELSE IF n > 98 THEN 98 ELSE n

Points(name, n, S) == IF name \in S THEN n ELSE 0

(* PolicySignalAdmissionController.evaluate.  The deductions for broad     *)
(* patterns and for model inferences apply to none of Patterns.            *)
Score(S, durable) ==
    Clipped(20 + Points("future_instruction", 35, S)
               + Points("explicit_memory_intent", 25, S)
               + Points("first_person", 10, S)
               + Points("short_followup", 25, S)
               + Points("continuity_reference", 10, S)
               + Points("project_context_reference", 10, S)
               + Points("correction_feedback", 20, S)
               + (IF durable THEN 15 ELSE 0))

AdmissionStatus(score) == IF score >= 62 THEN "active" ELSE "candidate"

(* policy_candidates: the patterns a message supports.  Continuity counts  *)
(* only with a reference to the project.                                   *)
Supported(m) ==
    {p \in CapturePatterns : p \in m.capture} \cup
    {p \in Patterns \ CapturePatterns :
        p \in m.read /\ (p = "continuity_reference" =>
                            "project_context_reference" \in m.read)}

SignalsOf(m, p) ==
    IF p \notin Supported(m) THEN {"correction_feedback"}
    ELSE IF p \in CapturePatterns THEN m.capture ELSE m.read

(* A complaint proposes short_followup, unless the same message supports   *)
(* it: of two candidates for one pattern the first is kept.                *)
Proposed(m) ==
    Supported(m) \cup (IF m.negative THEN {"short_followup"} ELSE {})

Admitted(m) ==
    {p \in Proposed(m) : m.risk # "high" /\ Score(SignalsOf(m, p), m.durable) >= 40}

FeedbackOf(m, p) ==
    LET score == Score(SignalsOf(m, p), m.durable)
    IN  [pattern |-> p, verdict |-> "learn", confidence |-> score,
         status |-> AdmissionStatus(score), negative |-> p \notin Supported(m)]

(* _initial_status: of a signal learnt without an admission decision.      *)
InitialStatus(confidence) ==
    IF confidence >= 85 THEN "stable"
    ELSE IF confidence >= 62 THEN "active" ELSE "candidate"

(* Faulty variant: the second support is the last one needed.              *)
HastyStatus(confidence, support, reject) ==
    IF reject >= Larger(2, support) THEN "archived"
    ELSE IF confidence >= 85 /\ support >= 2 THEN "stable"
    ELSE IF confidence >= 62 /\ support >= 1 THEN "active" ELSE "candidate"

(* _policy_signal_status.                                                  *)
SignalStatus(confidence, support, reject) ==
    IF reject >= Larger(2, support) THEN "archived"
    ELSE IF confidence >= 85 /\ support >= 3 THEN "stable"
    ELSE IF confidence >= 62 /\ support >= 1 THEN "active" ELSE "candidate"

NewSignal(f) ==
    [confidence |-> f.confidence, support |-> 1, reject |-> 0,
     status |-> f.status]

(* reinforce_policy_signal, applied to the signal it has just read.        *)
Reinforced(s, f, d) ==
    LET approved   == f.verdict # "reject"
        confidence == Clipped(IF approved THEN s.confidence + d
                                          ELSE s.confidence - d)
        support    == IF approved THEN s.support + 1 ELSE s.support
        reject     == IF approved THEN s.reject ELSE s.reject + 1
    IN  [confidence |-> confidence, support |-> support, reject |-> reject,
         status |-> SignalStatus(confidence, support, reject)]

-----------------------------------------------------------------------------
(* Requests.                                                               *)

Issue(op) ==
    /\ op \in Operations
    /\ requests < MaxRequests
    /\ requests' = requests + 1

Told(F, p) == {f \in F : f.pattern = p}

(* A request bears a pattern from when it is issued until it has told the  *)
(* signal.                                                                 *)
Bears(t, p) ==
    \/ doing[t] # Nothing /\ doing[t].pattern = p
    \/ \E f \in todo[t] : f.pattern = p

Busy(p) == \E t \in Threads : Bears(t, p)

(* History of a request that begins with feedback of different patterns.   *)
Hears(F) ==
    /\ heard' = [p \in Patterns |-> IF Told(F, p) = {} THEN heard[p]
                                                       ELSE heard[p] + 1]
    /\ highest' = [p \in Patterns |->
                     IF Told(F, p) = {} THEN highest[p]
                     ELSE Larger(highest[p],
                                 (CHOOSE f \in F : f.pattern = p).confidence)]
    /\ disturbed' = disturbed \cup {p \in Patterns : Told(F, p) # {} /\ Busy(p)}

Begin(t, F) ==
    /\ pc[t] = "idle"
    /\ pc' = [pc EXCEPT ![t] = IF F = {} THEN "idle" ELSE "next"]
    /\ todo' = [todo EXCEPT ![t] = F]
    /\ Hears(F)
    /\ UNCHANGED <<failures, signals, doing, delta, pending>>

(* POST /v2/turns/observe with auto_learn_policy.                          *)
Observe(t, m) ==
    /\ Issue("observe")
    /\ Begin(t, {FeedbackOf(m, p) : p \in Admitted(m)})

(* learn_policy_signal, by a caller of the runtime (the REST API has no    *)
(* such call) or after a manual capture.                                   *)
Learn(t, p, confidence) ==
    /\ Issue("learn")
    /\ Begin(t, {[pattern |-> p, verdict |-> "learn",
                  confidence |-> confidence,
                  status |-> InitialStatus(confidence), negative |-> FALSE]})

(* reinforce_policy_signal, by a caller of the runtime: a fixed step, and  *)
(* no look at the signal first.                                            *)
Reinforce(t, p, verdict) ==
    LET f == [pattern |-> p, verdict |-> verdict, confidence |-> 0,
              status |-> "candidate", negative |-> verdict = "reject"]
    IN  /\ Issue("reinforce")
        /\ pc[t] = "idle"
        /\ pc' = [pc EXCEPT ![t] = "read"]
        /\ doing' = [doing EXCEPT ![t] = f]
        /\ delta' = [delta EXCEPT ![t] = 8]
        /\ Hears({f})
        /\ UNCHANGED <<failures, signals, todo, pending>>

(* POST /v2/memory/clear.  What was told before it counts no longer, but   *)
(* for patterns that a request still bears: it may write them back.        *)
Clear(t) ==
    /\ Issue("clear")
    /\ pc[t] = "idle"
    /\ signals' = [p \in Patterns |-> NoSignal]
    /\ heard' = [p \in Patterns |-> IF Busy(p) THEN heard[p] ELSE 0]
    /\ highest' = [p \in Patterns |-> IF Busy(p) THEN highest[p] ELSE 0]
    /\ disturbed' = {p \in Patterns : Busy(p)}
    /\ UNCHANGED <<failures, pc, locals>>

-----------------------------------------------------------------------------
(* The transactions of one feedback.                                       *)

(* Faulty variant: the step is the confidence taught itself.               *)
LookUpAndAddAll(t, f) ==
    /\ pc[t] = "next"
    /\ f \in todo[t]
    /\ todo' = [todo EXCEPT ![t] = @ \ {f}]
    /\ doing' = [doing EXCEPT ![t] = f]
    /\ IF signals[f.pattern] = NoSignal
       THEN /\ pending' = [pending EXCEPT ![t] = NewSignal(f)]
            /\ pc' = [pc EXCEPT ![t] = "write"]
            /\ UNCHANGED delta
       ELSE /\ delta' = [delta EXCEPT ![t] = Larger(2, f.confidence)]
            /\ pc' = [pc EXCEPT ![t] = "read"]
            /\ UNCHANGED pending
    /\ UNCHANGED <<requests, failures, signals, history>>

(* Faulty variant: a signal is learnt anew each time.                      *)
LookUpNothing(t, f) ==
    /\ pc[t] = "next"
    /\ f \in todo[t]
    /\ todo' = [todo EXCEPT ![t] = @ \ {f}]
    /\ doing' = [doing EXCEPT ![t] = f]
    /\ pending' = [pending EXCEPT ![t] = NewSignal(f)]
    /\ pc' = [pc EXCEPT ![t] = "write"]
    /\ UNCHANGED <<requests, failures, signals, delta, history>>

(* learn_signal reads the signal to see how far its confidence is from the *)
(* one taught.  The candidates of a turn are of different patterns, so     *)
(* their order does not matter.                                            *)
LookUp(t, f) ==
    LET s == signals[f.pattern]
    IN  /\ pc[t] = "next"
        /\ f \in todo[t]
        /\ todo' = [todo EXCEPT ![t] = @ \ {f}]
        /\ doing' = [doing EXCEPT ![t] = f]
        /\ IF s = NoSignal
           THEN /\ pending' = [pending EXCEPT ![t] = NewSignal(f)]
                /\ pc' = [pc EXCEPT ![t] = "write"]
                /\ UNCHANGED delta
           ELSE /\ delta' = [delta EXCEPT ![t] =
                               Larger(2, f.confidence - s.confidence)]
                /\ pc' = [pc EXCEPT ![t] = "read"]
                /\ UNCHANGED pending
        /\ UNCHANGED <<requests, failures, signals, history>>

(* After the last feedback of a request the thread is idle again.          *)
Finish(t) ==
    /\ doing' = [doing EXCEPT ![t] = Nothing]
    /\ delta' = [delta EXCEPT ![t] = 0]
    /\ pending' = [pending EXCEPT ![t] = NoSignal]
    /\ pc' = [pc EXCEPT ![t] = IF todo[t] = {} THEN "idle" ELSE "next"]

(* MemoryStore.reinforce_policy_signal reads the signal, learn_signal's    *)
(* again, and computes the new one.                                        *)
ReadSignal(t) ==
    LET s == signals[doing[t].pattern]
    IN  /\ pc[t] = "read"
        /\ s # NoSignal
        /\ pending' = [pending EXCEPT ![t] = Reinforced(s, doing[t], delta[t])]
        /\ pc' = [pc EXCEPT ![t] = "write"]
        /\ UNCHANGED <<requests, failures, signals, todo, doing, delta, history>>

(* A signal that is not there is not reinforced, and its feedback counts   *)
(* as not heard.                                                           *)
MissSignal(t) ==
    /\ pc[t] = "read"
    /\ signals[doing[t].pattern] = NoSignal
    /\ Finish(t)
    /\ heard' = [heard EXCEPT ![doing[t].pattern] = @ - 1]
    /\ UNCHANGED <<requests, failures, signals, todo, highest, disturbed>>

(* Faulty variant: a write is taken for lost, and its feedback told again. *)
WriteAndRetry(t) ==
    /\ pc[t] = "write"
    /\ signals' = [signals EXCEPT ![doing[t].pattern] = pending[t]]
    /\ pc' = [pc EXCEPT ![t] = "read"]
    /\ UNCHANGED <<requests, failures, todo, doing, delta, pending, history>>

(* upsert_policy_signal overwrites whatever is there now.                  *)
Write(t) ==
    /\ pc[t] = "write"
    /\ signals' = [signals EXCEPT ![doing[t].pattern] = pending[t]]
    /\ Finish(t)
    /\ UNCHANGED <<requests, failures, todo, history>>

(* A lock timeout or a killed process.                                     *)
Fail(t) ==
    /\ failures < MaxFailures
    /\ failures' = failures + 1
    /\ pc[t] # "idle"
    /\ pc' = [pc EXCEPT ![t] = "idle"]
    /\ todo' = [todo EXCEPT ![t] = {}]
    /\ doing' = [doing EXCEPT ![t] = Nothing]
    /\ delta' = [delta EXCEPT ![t] = 0]
    /\ pending' = [pending EXCEPT ![t] = NoSignal]
    /\ disturbed' = disturbed \cup {p \in Patterns : Bears(t, p)}
    /\ UNCHANGED <<requests, signals, heard, highest>>

-----------------------------------------------------------------------------

Request(t) ==
    \/ \E m \in Messages : Observe(t, m)
    \/ \E p \in Patterns, c \in Confidences : Learn(t, p, c)
    \/ \E p \in Patterns, v \in {"support", "reject"} : Reinforce(t, p, v)
    \/ Clear(t)

Continue(t) ==
    \/ \E f \in todo[t] : LookUp(t, f)
    \/ ReadSignal(t)
    \/ MissSignal(t)
    \/ Write(t)

Next == \E t \in Threads : Request(t) \/ Continue(t) \/ Fail(t)

Spec == Init /\ [][Next]_vars

-----------------------------------------------------------------------------
(* Properties.                                                             *)

Phases == {"idle", "next", "read", "write"}

(* The table, the local variables and the history hold what they should.   *)
TypeOK ==
    /\ requests \in 0..MaxRequests
    /\ failures \in 0..MaxFailures
    /\ signals \in [Patterns -> Signal \cup {NoSignal}]
    /\ pc \in [Threads -> Phases]
    /\ todo \in [Threads -> SUBSET Feedback]
    /\ doing \in [Threads -> Feedback \cup {Nothing}]
    /\ delta \in [Threads -> Percent]
    /\ pending \in [Threads -> Signal \cup {NoSignal}]
    /\ heard \in [Patterns -> Int]
    /\ highest \in [Patterns -> Percent]
    /\ disturbed \in SUBSET Patterns

Total(s) == IF s = NoSignal THEN 0 ELSE s.support + s.reject

(* No feedback is counted twice, however requests overlap, die or clear:   *)
(* a signal counts no more than it was told since the last clear.          *)
CountedAtMostOnce == \A p \in Patterns : Total(signals[p]) <= heard[p]

(* "score >= 0.85 and support_count >= 3 -> stable"; "one turn creates a   *)
(* candidate, not a stable rule."  A stable signal is not only sure: it    *)
(* was supported three times, and told as often by three feedbacks, not by *)
(* one that overlapping or retried requests counted again.  It holds as    *)
(* long as nobody calls learn_policy_signal with .85 or more: that signal  *)
(* would be stable at once.  A turn never makes one so, however sure.      *)
StableIsRepeated ==
    \A p \in Patterns : signals[p] # NoSignal /\ signals[p].status = "stable" =>
        /\ signals[p].confidence >= 85
        /\ signals[p].support >= 3
        /\ heard[p] >= 3

(* What a signal was told is lost only to its own requests: when two tell  *)
(* it at once, one of them dies, or a clear comes in between.  Requests    *)
(* about other patterns may overlap, die and clear.                        *)
NothingLost ==
    \A p \in Patterns \ disturbed :
        ~Busy(p) => Total(signals[p]) = heard[p]

(* A signal is never surer than it was taught to be, but for a step of     *)
(* eight per support, unless two requests tell it at once, one of them     *)
(* dies, or a clear comes in between.                                      *)
NeverSurerThanTaught ==
    \A p \in Patterns \ disturbed : signals[p] # NoSignal =>
        signals[p].confidence <= highest[p] + 8 * (signals[p].support - 1)

(* "Negative feedback should call reinforce_policy_signal(...,             *)
(* supported=False) or archive a candidate": what a complaint is about to  *)
(* write is no stronger than what is there.                                *)
ComplaintsNeverStrengthen ==
    \A t \in Threads :
        pc[t] = "write" /\ doing[t].negative
                       /\ signals[doing[t].pattern] # NoSignal =>
            pending[t].support <= signals[doing[t].pattern].support
=============================================================================
