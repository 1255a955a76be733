--------------------------- MODULE MCUserRuntimes ---------------------------
(***************************************************************************)
(* Threads and texts for TLC.                                              *)
(***************************************************************************)
EXTENDS UserRuntimes, TLC

CONSTANTS t1, t2, t3, s1, s2, m1, m2, x1, x2

(* Two threads of one server and a thread of another one.                  *)
MCServerOf == (t1 :> s1) @@ (t2 :> s1) @@ (t3 :> s2)

(* There is a memory already.                                              *)
MCEarlier == (m1 :> x1) @@ (m2 :> NoText)

(* A query that tells the texts apart.                                     *)
MCQueries == {{x1}}

MCSymmetry == Permutations(Runtimes) \cup Permutations(Users)
=============================================================================
