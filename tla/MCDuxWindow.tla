----------------------------- MODULE MCDuxWindow -----------------------------
(***************************************************************************)
(* DuxWindow for TLC: four requests, all but one for the same site.        *)
(***************************************************************************)
EXTENDS DuxWindow, TLC

CONSTANTS a, b, c, d, s1, s2

MCDest == a :> s1 @@ b :> s1 @@ c :> s1 @@ d :> s2
=============================================================================
