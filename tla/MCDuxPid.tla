------------------------------ MODULE MCDuxPid ------------------------------
(* Instances of DuxPid for TLC. *)
EXTENDS DuxPid

CONSTANTS RootSlots, ClientSlots    \* proc slots for user processes

\* nproc of each site, from the room it has beside the system processes.
MCNPROC == [s \in Sites |-> NSys + (IF s = Root THEN RootSlots ELSE ClientSlots)]
=============================================================================
