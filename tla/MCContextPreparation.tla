----------------------- MODULE MCContextPreparation -------------------------
(***************************************************************************)
(* Memories, traits and requests for TLC.                                  *)
(***************************************************************************)
EXTENDS ContextPreparation, TLC

CONSTANTS m1, m2, m3, m4, p1, p2, p3

MCTypeOf == (m1 :> "project") @@ (m2 :> "project") @@ (m3 :> "project")
            @@ (m4 :> "style")

MCLength == (m1 :> 1) @@ (m2 :> 2) @@ (m3 :> 3) @@ (m4 :> 2)

MCTextOf == (m1 :> "a") @@ (m2 :> "b") @@ (m3 :> "c") @@ (m4 :> "b")

MCTypeLimit == [project |-> 2, style |-> 1]

MCProfile == (p1 :> 2) @@ (p2 :> 1) @@ (p3 :> 0)

(* With and without an intent; the first budget is too small for           *)
(* truncation, the last request is skipped.                                *)
MCRequests ==
    [wanted : {TRUE}, force : {FALSE}, types : {{}, {"style"}},
     traits : {{}, {p2}}, limit : {2, 3}, maxChars : {2, 4, 5}]
    \cup [wanted : {FALSE}, force : BOOLEAN, types : {{}}, traits : {{}},
          limit : {3}, maxChars : {4}]
=============================================================================
