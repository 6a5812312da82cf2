----------------------------- MODULE RemoteCall -----------------------------
(***************************************************************************)
(* What the diskless message interface promises the kernel: a process      *)
(* makes a request of another site (dm_send() with a function, or          *)
(* dm_wait()), the site runs it, and the process gets the reply.  A        *)
(* request is run exactly once unless its sender allowed otherwise with    *)
(* DM_REPEATABLE; the reply is that of a run.  DuxProto, the protocol of   *)
(* dux/protocol.c over a network that loses and duplicates frames, is      *)
(* shown to implement this specification.                                  *)
(***************************************************************************)
EXTENDS Integers

CONSTANTS Calls,        \* the requests made
          Repeatable    \* those of them sent with DM_REPEATABLE

VARIABLES phase,        \* phase[c]: what the requesting process knows of c
          runs          \* runs[c]: how often c was run; 2 stands for more

vars == <<phase, runs>>

Init == /\ phase = [c \in Calls |-> "idle"]
        /\ runs = [c \in Calls |-> 0]

(* The process sends its request.                                          *)
Send(c) == /\ phase[c] = "idle"
           /\ phase' = [phase EXCEPT ![c] = "called"]
           /\ UNCHANGED runs

(* The other site runs the request: again only if it is repeatable, and    *)
(* then even after the process has its reply.                              *)
Run(c) == /\ phase[c] # "idle"
          /\ runs[c] = 0 \/ c \in Repeatable
          /\ runs' = [runs EXCEPT ![c] = IF @ = 0 THEN 1 ELSE 2]
          /\ UNCHANGED phase

(* The process gets the reply.                                             *)
Return(c) == /\ phase[c] = "called"
             /\ runs[c] # 0
             /\ phase' = [phase EXCEPT ![c] = "done"]
             /\ UNCHANGED runs

Next == \E c \in Calls: Send(c) \/ Run(c) \/ Return(c)

Spec == Init /\ [][Next]_vars
=============================================================================
