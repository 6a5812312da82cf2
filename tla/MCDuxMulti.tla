----------------------------- MODULE MCDuxMulti -----------------------------
(***************************************************************************)
(* DuxMulti for TLC.  Requests that may be repeated are sent again into an *)
(* empty network only: retries are seconds apart.                          *)
(***************************************************************************)
EXTENDS DuxMulti

MCMaxNet == [k \in BOOLEAN |-> IF k THEN 0 ELSE 1]
=============================================================================
