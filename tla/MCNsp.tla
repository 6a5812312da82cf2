-------------------------------- MODULE MCNsp --------------------------------
(* Small instances of Nsp.                                                 *)
EXTENDS Nsp, TLC

CONSTANTS s1, s2, r1, r2, r3

\* r1 comes from the other site, r2 from the other site or from softclock.
BothRemote == (r1 :> s1) @@ (r2 :> s1)
OneLocal == (r1 :> s1) @@ (r2 :> Local)

\* One request more than there are NSPs.
LocalAmong == (r1 :> s1) @@ (r2 :> Local) @@ (r3 :> s1)
ThreeRids == (r1 :> 1) @@ (r2 :> 2) @@ (r3 :> 3)

\* The second site's first request has the rid of the first site's.
TwoSites == (r1 :> s1) @@ (r2 :> s2)
OwnRids == (r1 :> 1) @@ (r2 :> 2)
SameRids == (r1 :> 1) @@ (r2 :> 1)
=============================================================================
