----------------------------- MODULE MCIdentity -----------------------------
(***************************************************************************)
(* Scopes for TLC.                                                         *)
(***************************************************************************)
EXTENDS Identity, TLC

(* What an administrator and a user's own client are given.                *)
MCScopeSets == {{"admin:users", "api_keys:manage"},
                {"api_keys:manage", "memory:delete"}}

(* Users, keys and threads are interchangeable.                            *)
MCSymmetry == Permutations(Users) \cup Permutations(Keys) \cup Permutations(Threads)
=============================================================================
