-------------------------- MODULE MCPolicySignals --------------------------
(***************************************************************************)
(* Messages and texts for TLC.                                             *)
(***************************************************************************)
EXTENDS PolicyDecisions, TLC

Says(read, capture, negative, durable, risk) ==
    [read |-> read, capture |-> capture, negative |-> negative,
     durable |-> durable, risk |-> risk]

(* "From now on I want two options first."                                 *)
Instruction == Says({"first_person"}, {"first_person", "future_instruction"},
                    FALSE, TRUE, "low")

(* "Continue the project along that line."                                 *)
FollowUp == Says({"short_followup", "continuity_reference",
                  "project_context_reference"}, {}, FALSE, FALSE, "low")

(* "Wrong context."                                                        *)
Complaint == Says({}, {}, TRUE, FALSE, "low")

(* "Wrong context, I meant the same one as last time."                     *)
Correction == Says({"short_followup", "continuity_reference"}, {}, TRUE,
                   FALSE, "low")

(* "From now on always use memory."                                        *)
Overreach == Says({}, {"future_instruction"}, FALSE, TRUE, "high")

MCMessages == {Instruction, FollowUp, Complaint, Correction, Overreach}

Of(kind, features, rules, cues) ==
    [kind |-> kind, empty |-> FALSE, features |-> features, rules |-> rules,
     cues |-> cues]

(* "That one?", "Continue there", "What is a heap?", "Fix this repo",      *)
(* "From now on, tests first", "Remember that", "ok" of a manual request,  *)
(* and an empty task.                                                      *)
MCTexts ==
    {Of("read", {"short_followup", "question"}, 0, {}),
     Of("read", {"continuity_reference", "short_followup"}, 1, {"continue"}),
     Of("read", {"question", "generic_question"}, 0, {}),
     Of("read", {"project_context_reference", "task_work_intent"}, 1, {"work"}),
     Of("capture", {"first_person", "future_instruction"}, 0, {"durable"}),
     Of("capture", {"explicit_memory_intent"}, 0, {}),
     Of("capture", {"explicit_memory_intent", "transient_chat",
                    "manual_memory_request"}, 1, {}),
     [Of("read", {}, 0, {}) EXCEPT !.empty = TRUE]}

ThreadSymmetry == Permutations(Threads)
=============================================================================
