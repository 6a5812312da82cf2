----------------------------- MODULE MCDuxProto -----------------------------
(***************************************************************************)
(* DuxProto for TLC.                                                       *)
(***************************************************************************)
EXTENDS DuxProto
=============================================================================
