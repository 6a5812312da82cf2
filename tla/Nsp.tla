--------------------------------- MODULE Nsp ---------------------------------
(***************************************************************************)
(* The network server processes of one site (dux/nsp.c): the two request   *)
(* queues, the table nsp[], the limited NSP (slot 0) that forks the        *)
(* general ones (slots 1 .. ngcsp), their replacement after a timeout, the *)
(* csp(1M) system call that starts and kills them, signals, and the        *)
(* removal of the requests of a failed site.                               *)
(*                                                                         *)
(* NSPs run in the kernel and are not preempted: while a process is at one *)
(* of the labels of OnCpu only interrupts happen.  A request comes from    *)
(* the network interrupt, or from softclock, which the network interrupts. *)
(* The site does what either kind of site may do: the root server lets its *)
(* last NSP go once it is alone, a client may sleep in getnewpid().        *)
(***************************************************************************)
EXTENDS Integers, Sequences, FiniteSets

CONSTANTS
  ngcsp,        \* the number of general NSP slots
  Sites,        \* the other sites of the cluster
  Reqs,         \* request messages
  Source,       \* the site each request comes from, or Local
  Rid,          \* the p_rid of each request, unique among those of its site
  LimitedOk,    \* the requests the limited NSP may serve
  Interruptable,\* the requests whose sender may be signalled while it waits
  MaxKills,     \* bound: how often csp(1M) reduces the number of NSPs
  MaxFails      \* bound: how often getnewpid(), allocproc() or newproc() fails

Local == "local"
Slots == 1 .. ngcsp
AllSlots == 0 .. ngcsp
NoReq == "noreq"

ASSUME NspAssumption ==
  /\ ngcsp \in Nat \ {0}
  /\ Source \in [Reqs -> Sites \cup {Local}]
  /\ Rid \in [Reqs -> Nat]
  /\ \A q, r \in Reqs : Source[q] = Source[r] /\ Rid[q] = Rid[r] => q = r
  /\ LimitedOk \subseteq Reqs /\ Interruptable \subseteq Reqs
  /\ NoReq \notin Reqs /\ Local \notin Sites
  /\ MaxKills \in Nat /\ MaxFails \in Nat

VARIABLES
  general, limited,          \* the queues nsp_head and limited_head
  flags,                     \* nsp[].nsp_flags
  pc,                        \* where the process of each slot is
  serving,                   \* the request each NSP has taken
  num_nsps, free_nsps, nsps_to_invoke, nsps_started,
  nsp_first_try, max_nsp, forking_nsp,
  fork,                      \* the limited NSP's couldnt_fork, nsp_num, max_nsp_save
  timer,                     \* the NSPs with an nsptimeout() pending
  sched,                     \* a schedule_nsp() call that softclock is in
  kill,                      \* the kill_nsps() call under way
  sigpending,                \* requests with DM_SIGPENDING
  psig,                      \* NSPs with SIGUSR1 pending
  acked,                     \* requests whose sender was told the signal got there
  status,                    \* of each site: "up", "failed" or "inactive"
  left                       \* what is left of the two bounds

queueVars == <<general, limited>>
countVars == <<num_nsps, free_nsps, nsps_to_invoke, nsps_started>>
slotVars  == <<nsp_first_try, max_nsp, forking_nsp, fork>>
sigVars   == <<sigpending, psig, acked>>
vars == <<general, limited, flags, pc, serving, num_nsps, free_nsps,
          nsps_to_invoke, nsps_started, nsp_first_try, max_nsp, forking_nsp,
          fork, timer, sched, kill, sigpending, psig, acked, status,
          left>>

NoSched == [mode |-> "idle", start |-> 1, count |-> 1]
NoKill == [mode |-> "idle", left |-> 0, at |-> 0, mp |-> <<>>]

\* The limited NSP exists, asleep; no general NSP has been started.
Init ==
  /\ general = <<>> /\ limited = <<>>
  /\ flags = [i \in AllSlots |-> IF i = 0 THEN {"VALID"} ELSE {}]
  /\ pc = [i \in AllSlots |-> IF i = 0 THEN "asleep" ELSE "none"]
  /\ serving = [i \in AllSlots |-> NoReq]
  /\ num_nsps = 0 /\ free_nsps = 0 /\ nsps_to_invoke = 0 /\ nsps_started = 0
  /\ nsp_first_try = 1 /\ max_nsp = 0 /\ forking_nsp = 0
  /\ fork = [couldnt |-> 0, slot |-> 0, saved |-> 0]
  /\ timer = {}
  /\ sched = NoSched
  /\ kill = NoKill
  /\ sigpending = {} /\ psig = {} /\ acked = {}
  /\ status = [s \in Sites |-> "up"]
  /\ left = [kills |-> MaxKills, fails |-> MaxFails]

-----------------------------------------------------------------------------
\* The labels of a process that is running in the kernel.
OnCpu == {"loop", "took", "armed", "dying"}

\* Interrupts are taken: schedule_nsp() is not looping at splimp.
InterruptsOn == sched.mode # "hung"

\* No process and no softclock handler is in the middle of something.
CpuFree ==
  /\ sched.mode = "idle" /\ kill.mode = "idle"
  /\ \A i \in AllSlots : pc[i] \notin OnCpu

\* Process i runs at the head of its loop.
AtLoop(i) ==
  \/ pc[i] = "ready" /\ CpuFree
  \/ pc[i] = "loop" /\ sched.mode = "idle"

Woken(i) == IF pc[i] = "asleep" THEN [pc EXCEPT ![i] = "ready"] ELSE pc

wakeup_nsp_forker == IF num_nsps < ngcsp THEN Woken(0) ELSE pc

Set(i, f) == [flags EXCEPT ![i] = @ \cup {f}]
Clear(i, f) == [flags EXCEPT ![i] = @ \ {f}]

-----------------------------------------------------------------------------
(* schedule_nsp() and invoke_nsp()                                         *)

Free == {i \in Slots : "VALID" \in flags[i] /\ "BUSY" \notin flags[i]}

\* How many slots the search passes from slot c on before it is at slot i.
Passes(c, i) ==
  IF i = c THEN 0 ELSE IF c >= max_nsp THEN i ELSE (i - c) % max_nsp

\* The search is over when it is back at start; it never is when start is
\* beyond max_nsp.
Returns(start) == start <= max_nsp

\* Faulty: nsp_count stops at max_nsp instead of going back to 1.
Bug_NoWrap(c, start, i) == i = c \/ i \in c .. max_nsp

\* A search that is at slot c, and began at start, comes to slot i.
Examines(c, start, i) ==
  /\ i = c \/ i <= max_nsp
  /\ Returns(start) /\ start # c => Passes(c, i) < Passes(c, start)

\* What is left of a call of schedule_nsp() when a search ends at slot i: low is
\* whether it is the search of that call itself.  nsp_count is static, so another
\* search leaves it changed for the call it interrupts.
Ended(i, low) ==
  IF low THEN NoSched
  ELSE IF sched.mode = "pending" THEN [sched EXCEPT !.count = i] ELSE sched

\* The search at splimp for a free NSP, from slot c on.
Search(c, start, low) ==
  LET found == {i \in Free : Examines(c, start, i)} IN
  \/ \E i \in found :
       /\ \A j \in found : Passes(c, i) <= Passes(c, j)
       /\ flags' = Set(i, "BUSY")
       /\ free_nsps' = free_nsps - 1
       /\ pc' = Woken(i)
       /\ sched' = Ended(i, low)
  \/ /\ found = {}
     /\ sched' = IF Returns(start) THEN Ended(start, low) ELSE [sched EXCEPT !.mode = "hung"]
     /\ UNCHANGED <<flags, free_nsps, pc>>

\* schedule_nsp() under the network interrupt.
schedule_nsp ==
  IF free_nsps # 0
  THEN Search(nsp_first_try, nsp_first_try, FALSE)
  ELSE /\ pc' = IF nsps_to_invoke > 0 THEN wakeup_nsp_forker ELSE pc
       /\ UNCHANGED <<flags, free_nsps, sched>>

\* schedule_nsp() at a level the network interrupts: nsp_count and nsp_start
\* are set before the priority is raised.
ScheduleLow ==
  IF free_nsps # 0
  THEN /\ sched' = [mode |-> "pending", start |-> nsp_first_try,
                    count |-> nsp_first_try]
       /\ UNCHANGED <<flags, free_nsps, pc>>
  ELSE schedule_nsp

\* invoke_nsp(), with the scheduling step of its level; a refused request is
\* answered with an error and is gone.
invoke_nsp(r, schedule) ==
  \/ /\ r \in LimitedOk /\ free_nsps <= 0
     /\ limited' = Append(limited, r)
     /\ pc' = Woken(0)
     /\ UNCHANGED <<general, flags, free_nsps, sched>>
  \/ /\ r \notin LimitedOk /\ nsps_started <= 0
     /\ UNCHANGED <<general, limited, pc, flags, free_nsps, sched>>
  \/ /\ r \in LimitedOk => free_nsps > 0
     /\ r \notin LimitedOk => nsps_started > 0
     /\ general' = Append(general, r)
     /\ schedule
     /\ UNCHANGED limited

Queued(q) == {q[k] : k \in DOMAIN q}
Outstanding ==
  Queued(general) \cup Queued(limited) \cup Queued(kill.mp)
    \cup {serving[i] : i \in AllSlots}

\* A request arrives from another site (dm_recv_request()); the protocol drops
\* those of sites that are not members.
RecvRequest(r) ==
  /\ InterruptsOn
  /\ r \notin Outstanding
  /\ Source[r] # Local /\ status[Source[r]] = "up"
  /\ invoke_nsp(r, schedule_nsp)
  /\ UNCHANGED <<serving, num_nsps, nsps_to_invoke, nsps_started, slotVars,
                 timer, kill, sigVars, status, left>>

\* softclock makes a request of its own: the selftest.
LocalRequest(r) ==
  /\ sched.mode = "idle"
  /\ r \notin Outstanding /\ Source[r] = Local
  /\ invoke_nsp(r, ScheduleLow)
  /\ UNCHANGED <<serving, num_nsps, nsps_to_invoke, nsps_started, slotVars,
                 timer, kill, sigVars, status, left>>

\* The interrupted schedule_nsp() goes on, from the nsp_count it now finds.
ScheduleLowSearches ==
  /\ sched.mode = "pending"
  /\ Search(sched.count, sched.start, TRUE)
  /\ UNCHANGED <<queueVars, serving, num_nsps, nsps_to_invoke, nsps_started,
                 slotVars, timer, kill, sigVars, status, left>>

\* schedule_nsp() goes round for ever, with the interrupts off.
Spins == sched.mode = "hung" /\ UNCHANGED vars

-----------------------------------------------------------------------------
(* nsp_serve() and nsp_exec(), general NSPs                                *)

\* Faulty: the slot after this one is to be tried first.
Bug_FirstTryNext(i) ==
  /\ AtLoop(i)
  /\ general = <<>> /\ limited = <<>> /\ "TIMED_OUT" \notin flags[i]
  /\ flags' = Clear(i, "BUSY")
  /\ free_nsps' = IF "BUSY" \in flags[i] THEN free_nsps + 1 ELSE free_nsps
  /\ nsp_first_try' = i + 1
  /\ pc' = [pc EXCEPT ![i] = "asleep"]
  /\ UNCHANGED <<queueVars, serving, num_nsps, nsps_to_invoke, nsps_started,
                 max_nsp, forking_nsp, fork, timer, sched, kill, sigVars, status, left>>

\* Both queues are empty: mark myself free and sleep.
NspSleeps(i) ==
  /\ AtLoop(i)
  /\ general = <<>> /\ limited = <<>> /\ "TIMED_OUT" \notin flags[i]
  /\ flags' = Clear(i, "BUSY")
  /\ free_nsps' = IF "BUSY" \in flags[i] THEN free_nsps + 1 ELSE free_nsps
  /\ nsp_first_try' = i
  /\ pc' = [pc EXCEPT ![i] = "asleep"]
  /\ UNCHANGED <<queueVars, serving, num_nsps, nsps_to_invoke, nsps_started,
                 max_nsp, forking_nsp, fork, timer, sched, kill, sigVars, status, left>>

\* Faulty: its replacement is forked all the same.
Bug_StillToInvoke(i) ==
  /\ AtLoop(i)
  /\ "TIMED_OUT" \in flags[i] /\ nsps_to_invoke > forking_nsp
  /\ flags' = Clear(i, "TIMED_OUT")
  /\ pc' = [pc EXCEPT ![i] = "loop"]
  /\ UNCHANGED <<queueVars, serving, countVars,
                 slotVars, timer, sched, kill, sigVars, status, left>>

\* Marked for suicide, but not replaced yet: live on instead.
NspRevives(i) ==
  /\ AtLoop(i)
  /\ "TIMED_OUT" \in flags[i] /\ nsps_to_invoke > forking_nsp
  /\ nsps_to_invoke' = nsps_to_invoke - 1
  /\ flags' = Clear(i, "TIMED_OUT")
  /\ pc' = [pc EXCEPT ![i] = "loop"]
  /\ UNCHANGED <<queueVars, serving, num_nsps, free_nsps, nsps_started,
                 slotVars, timer, sched, kill, sigVars, status, left>>

\* Marked for suicide and replaced, or being replaced: nsp_serve() returns to
\* fork_nsp(), which takes the NSP out of the counts ...
NspDies(i) ==
  /\ AtLoop(i)
  /\ "TIMED_OUT" \in flags[i] /\ nsps_to_invoke <= forking_nsp
  /\ num_nsps' = num_nsps - 1
  /\ free_nsps' = IF "BUSY" \in flags[i] THEN free_nsps ELSE free_nsps - 1
  /\ pc' = [pc EXCEPT ![i] = "dying"]
  /\ UNCHANGED <<queueVars, flags, serving, nsps_to_invoke, nsps_started,
                 slotVars, timer, sched, kill, sigVars, status, left>>

\* ... and, back at the low priority, out of the table.
NspDead(i) ==
  LET below == {j \in 1 .. i - 1 : "VALID" \in flags[j]} IN
  /\ pc[i] = "dying" /\ sched.mode = "idle"
  /\ flags' = [flags EXCEPT ![i] = {}]
  /\ max_nsp' = IF i # max_nsp THEN max_nsp
                ELSE CHOOSE j \in below \cup {0} : \A k \in below : k <= j
  /\ pc' = [(IF nsps_to_invoke # 0 THEN wakeup_nsp_forker ELSE pc)
              EXCEPT ![i] = "none"]
  /\ UNCHANGED <<queueVars, serving, countVars, nsp_first_try, forking_nsp, fork,
                 timer, sched, kill, sigVars, status, left>>

\* Take the first request of the general queue, else of the limited one.
NspTakes(i) ==
  /\ AtLoop(i)
  /\ "TIMED_OUT" \notin flags[i]
  /\ \/ /\ general # <<>>
        /\ serving' = [serving EXCEPT ![i] = Head(general)]
        /\ general' = Tail(general) /\ UNCHANGED limited
     \/ /\ general = <<>> /\ limited # <<>>
        /\ serving' = [serving EXCEPT ![i] = Head(limited)]
        /\ limited' = Tail(limited) /\ UNCHANGED general
  /\ pc' = [pc EXCEPT ![i] = "took"]
  /\ UNCHANGED <<flags, countVars, slotVars, timer, sched, kill, sigVars, status, left>>

\* nsp_exec(): nsp_site and nsp_rid are set, and the timeout ...
NspArms(i) ==
  /\ pc[i] = "took" /\ sched.mode = "idle"
  /\ timer' = timer \cup {i}
  /\ pc' = [pc EXCEPT ![i] = "armed"]
  /\ UNCHANGED <<queueVars, flags, serving, countVars, slotVars, sched, kill,
                 sigVars, status, left>>

\* Faulty: the signals sent to the NSP's last request stay pending.
Bug_SignalsNotCleared(i) ==
  /\ pc[i] = "armed" /\ sched.mode = "idle"
  /\ psig' = IF serving[i] \in sigpending THEN psig \cup {i} ELSE psig
  /\ sigpending' = sigpending \ {serving[i]}
  /\ pc' = [pc EXCEPT ![i] = "exec"]
  /\ UNCHANGED <<queueVars, flags, serving, countVars, slotVars, timer, sched,
                 kill, acked, status, left>>

\* ... then the pending signals are cleared, the one that came while the
\* request was queued is posted, and the function is called.
NspCalls(i) ==
  /\ pc[i] = "armed" /\ sched.mode = "idle"
  /\ psig' = IF serving[i] \in sigpending THEN psig \cup {i} ELSE psig \ {i}
  /\ sigpending' = sigpending \ {serving[i]}
  /\ pc' = [pc EXCEPT ![i] = "exec"]
  /\ UNCHANGED <<queueVars, flags, serving, countVars, slotVars, timer, sched,
                 kill, acked, status, left>>

\* The function has returned, or was left by a signal; either way the request
\* is answered, and the NSP goes on with its loop.
NspDone(i) ==
  /\ pc[i] = "exec" /\ CpuFree
  /\ timer' = timer \ {i}
  /\ serving' = [serving EXCEPT ![i] = NoReq]
  /\ acked' = acked \ {serving[i]}
  /\ pc' = [pc EXCEPT ![i] = "loop"]
  /\ UNCHANGED <<queueVars, flags, countVars, slotVars, sched, kill, sigpending,
                 psig, status, left>>

\* Faulty: the limited NSP is not woken to fork the replacement.
Bug_ForkerNotWoken(i) ==
  /\ sched.mode = "idle" /\ i \in timer
  /\ timer' = timer \ {i}
  /\ IF "TIMED_OUT" \in flags[i]
     THEN UNCHANGED <<flags, nsps_to_invoke, pc>>
     ELSE /\ flags' = Set(i, "TIMED_OUT")
          /\ nsps_to_invoke' = nsps_to_invoke + 1
          /\ UNCHANGED pc
  /\ UNCHANGED <<queueVars, serving, num_nsps, free_nsps, nsps_started, slotVars,
                 sched, kill, sigVars, status, left>>

\* The request has taken long: have a new NSP forked, and die when done.
nsptimeout(i) ==
  /\ sched.mode = "idle" /\ i \in timer
  /\ timer' = timer \ {i}
  /\ IF "TIMED_OUT" \in flags[i]
     THEN UNCHANGED <<flags, nsps_to_invoke, pc>>
     ELSE /\ flags' = Set(i, "TIMED_OUT")
          /\ nsps_to_invoke' = nsps_to_invoke + 1
          /\ pc' = wakeup_nsp_forker
  /\ UNCHANGED <<queueVars, serving, num_nsps, free_nsps, nsps_started, slotVars,
                 sched, kill, sigVars, status, left>>

-----------------------------------------------------------------------------
(* limited_nsp(), fork_nsps() and fork_nsp()                               *)

\* Something is on the limited queue: take it off and execute it.
LnspTakes ==
  /\ AtLoop(0)
  /\ limited # <<>>
  /\ serving' = [serving EXCEPT ![0] = Head(limited)]
  /\ limited' = Tail(limited)
  /\ flags' = Set(0, "BUSY")
  /\ pc' = [pc EXCEPT ![0] = "exec"]
  /\ fork' = [fork EXCEPT !.couldnt = 0]
  /\ UNCHANGED <<general, countVars, nsp_first_try, max_nsp, forking_nsp, timer,
                 sched, kill, sigVars, status, left>>

LnspDone ==
  /\ pc[0] = "exec" /\ CpuFree
  /\ serving' = [serving EXCEPT ![0] = NoReq]
  /\ acked' = acked \ {serving[0]}
  /\ sigpending' = sigpending \ {serving[0]}
  /\ pc' = [pc EXCEPT ![0] = "loop"]
  /\ UNCHANGED <<queueVars, flags, countVars, slotVars, timer, sched, kill, psig,
                 status, left>>

LnspSleeps ==
  /\ AtLoop(0)
  /\ limited = <<>> /\ nsps_to_invoke <= fork.couldnt
  /\ flags' = Clear(0, "BUSY")
  /\ fork' = [fork EXCEPT !.couldnt = 0]
  /\ pc' = [pc EXCEPT ![0] = "asleep"]
  /\ UNCHANGED <<queueVars, serving, countVars, nsp_first_try, max_nsp,
                 forking_nsp, timer, sched, kill, sigVars, status, left>>

NoFork(n) == [couldnt |-> n, slot |-> 0, saved |-> 0]

\* The head of the loop of fork_nsps(), with labels p for the other processes:
\* fork one more (getnewpid() may sleep), or return the number not forked.
ForkLoop(p, todo, error) ==
  LET more == todo > 0 /\ num_nsps < ngcsp /\ ~error IN
  /\ forking_nsp' = IF more THEN 1 ELSE 0
  /\ pc' = [p EXCEPT ![0] = IF more THEN "getpid" ELSE "loop"]
  /\ fork' = NoFork(IF more THEN 0 ELSE todo)

LnspForks ==
  /\ AtLoop(0)
  /\ limited = <<>> /\ nsps_to_invoke > fork.couldnt
  /\ flags' = Clear(0, "BUSY")
  /\ ForkLoop(pc, nsps_to_invoke, FALSE)
  /\ UNCHANGED <<queueVars, serving, countVars, nsp_first_try, max_nsp, timer,
                 sched, kill, sigVars, status, left>>

FailsOnce == left.fails > 0 /\ left' = [left EXCEPT !.fails = @ - 1]

\* No pid or no proc slot: try again later.
ForkNoProc ==
  /\ pc[0] = "getpid" /\ CpuFree
  /\ FailsOnce
  /\ ForkLoop(pc, nsps_to_invoke, TRUE)
  /\ UNCHANGED <<queueVars, flags, serving, countVars, nsp_first_try, max_nsp,
                 timer, sched, kill, sigVars, status>>

\* There is a pid and a proc slot: reserve the first invalid slot of the table,
\* and call newproc(), which may sleep.
ForkReserves ==
  /\ pc[0] = "getpid" /\ CpuFree
  /\ \E i \in Slots :
       /\ i <= max_nsp + 1 /\ "VALID" \notin flags[i]
       /\ \A j \in 1 .. i - 1 : "VALID" \in flags[j]
       /\ flags' = [flags EXCEPT ![i] = {"BUSY", "VALID"}]
       /\ max_nsp' = IF i > max_nsp THEN i ELSE max_nsp
       /\ fork' = [fork EXCEPT !.slot = i, !.saved = max_nsp]
       /\ pc' = [pc EXCEPT ![0] = "newproc", ![i] = "reserved"]
  /\ num_nsps' = num_nsps + 1
  /\ nsps_to_invoke' = nsps_to_invoke - 1
  /\ UNCHANGED <<queueVars, serving, free_nsps, nsps_started, nsp_first_try,
                 forking_nsp, timer, sched, kill, sigVars, status, left>>

\* Faulty: num_nsps keeps counting the NSP that was not forked.
Bug_CountNotBackedOut ==
  /\ pc[0] = "newproc" /\ CpuFree
  /\ FailsOnce
  /\ max_nsp' = fork.saved
  /\ nsps_to_invoke' = nsps_to_invoke + 1
  /\ flags' = [flags EXCEPT ![fork.slot] = {}]
  /\ ForkLoop([pc EXCEPT ![fork.slot] = "none"], nsps_to_invoke + 1, TRUE)
  /\ UNCHANGED <<queueVars, serving, num_nsps, free_nsps, nsps_started, nsp_first_try,
                 timer, sched, kill, sigVars, status>>

\* newproc() fails: back out.
ForkBacksOut ==
  /\ pc[0] = "newproc" /\ CpuFree
  /\ FailsOnce
  /\ max_nsp' = fork.saved
  /\ num_nsps' = num_nsps - 1
  /\ nsps_to_invoke' = nsps_to_invoke + 1
  /\ flags' = [flags EXCEPT ![fork.slot] = {}]
  /\ ForkLoop([pc EXCEPT ![fork.slot] = "none"], nsps_to_invoke + 1, TRUE)
  /\ UNCHANGED <<queueVars, serving, free_nsps, nsps_started, nsp_first_try,
                 timer, sched, kill, sigVars, status>>

\* newproc() returns in the parent, and the child is ready to run.
ForkDone ==
  /\ pc[0] = "newproc" /\ CpuFree
  /\ ForkLoop([pc EXCEPT ![fork.slot] = "ready"], nsps_to_invoke, FALSE)
  /\ UNCHANGED <<queueVars, flags, serving, countVars, nsp_first_try, max_nsp,
                 timer, sched, kill, sigVars, status, left>>

-----------------------------------------------------------------------------
(* nsp_init() and kill_nsps()                                              *)

\* csp(1M) asks for n NSPs; one has to stay as long as the cluster has other
\* members.
Wanted(n) == IF n = 0 /\ \E s \in Sites : status[s] = "up" THEN 1 ELSE n

\* More NSPs: the limited NSP will fork them.
StartNsps(n) ==
  /\ CpuFree /\ Wanted(n) > nsps_started
  /\ nsps_to_invoke' = nsps_to_invoke + Wanted(n) - nsps_started
  /\ nsps_started' = Wanted(n)
  /\ pc' = wakeup_nsp_forker
  /\ UNCHANGED <<queueVars, flags, serving, num_nsps, free_nsps, slotVars, timer,
                 sched, kill, sigVars, status, left>>

\* Faulty: the NSPs given up are still to be killed.
Bug_GivenUpTwice(n) ==
  LET count == nsps_started - Wanted(n)
      given == IF nsps_to_invoke >= count THEN count ELSE nsps_to_invoke
  IN
  /\ CpuFree /\ count > 0
  /\ left.kills > 0 /\ left' = [left EXCEPT !.kills = @ - 1]
  /\ nsps_started' = Wanted(n)
  /\ nsps_to_invoke' = nsps_to_invoke - given
  /\ kill' = [mode |-> "scan", left |-> count, at |-> ngcsp, mp |-> <<>>]
  /\ UNCHANGED <<queueVars, flags, pc, serving, num_nsps, free_nsps, slotVars,
                 timer, sched, sigVars, status>>

\* Fewer NSPs: first give up those that are not there yet.
KillNsps(n) ==
  LET count == nsps_started - Wanted(n)
      given == IF nsps_to_invoke >= count THEN count ELSE nsps_to_invoke
  IN
  /\ CpuFree /\ count > 0
  /\ left.kills > 0 /\ left' = [left EXCEPT !.kills = @ - 1]
  /\ nsps_started' = Wanted(n)
  /\ nsps_to_invoke' = nsps_to_invoke - given
  /\ kill' = [mode |-> "scan", left |-> count - given, at |-> ngcsp, mp |-> <<>>]
  /\ UNCHANGED <<queueVars, flags, pc, serving, num_nsps, free_nsps, slotVars,
                 timer, sched, sigVars, status>>

\* One round of the loop that marks NSPs for suicide, from the last slot down.
KillMarks ==
  LET i == kill.at IN
  /\ kill.mode = "scan" /\ sched.mode = "idle"
  /\ kill.left > 0 /\ i > 0
  /\ IF "VALID" \in flags[i] /\ "TIMED_OUT" \notin flags[i]
     THEN /\ flags' = Set(i, "TIMED_OUT")
          /\ pc' = IF "BUSY" \in flags[i] THEN pc ELSE Woken(i)
          /\ kill' = [kill EXCEPT !.at = i - 1, !.left = @ - 1]
     ELSE /\ kill' = [kill EXCEPT !.at = i - 1]
          /\ UNCHANGED <<flags, pc>>
  /\ UNCHANGED <<queueVars, serving, countVars, slotVars, timer, sched, sigVars,
                 status, left>>

\* Faulty: the queue keeps the requests that are executed again.
Bug_QueueKept ==
  /\ kill.mode = "scan" /\ sched.mode = "idle"
  /\ kill.left = 0 \/ kill.at = 0
  /\ nsps_to_invoke >= kill.left
  /\ nsps_to_invoke' = nsps_to_invoke - kill.left
  /\ IF nsps_started > 0
     THEN kill' = NoKill /\ UNCHANGED general
     ELSE /\ kill' = [mode |-> "again", left |-> 0, at |-> 0, mp |-> general]
          /\ UNCHANGED general
  /\ UNCHANGED <<limited, flags, pc, serving, num_nsps, free_nsps, nsps_started,
                 slotVars, timer, sched, sigVars, status, left>>

\* NSPs that timed out during the loop are given up; if no NSP is left to be,
\* the general queue is taken off, to be executed again.
KillMarked ==
  /\ kill.mode = "scan" /\ sched.mode = "idle"
  /\ kill.left = 0 \/ kill.at = 0
  /\ nsps_to_invoke >= kill.left
  /\ nsps_to_invoke' = nsps_to_invoke - kill.left
  /\ IF nsps_started > 0
     THEN kill' = NoKill /\ UNCHANGED general
     ELSE /\ kill' = [mode |-> "again", left |-> 0, at |-> 0, mp |-> general]
          /\ general' = <<>>
  /\ UNCHANGED <<limited, flags, pc, serving, num_nsps, free_nsps, nsps_started,
                 slotVars, timer, sched, sigVars, status, left>>

\* Invoke an NSP for a request taken off the queue, or answer with an error.
KillInvokes ==
  LET r == Head(kill.mp) IN
  /\ kill.mode = "again" /\ sched.mode = "idle" /\ kill.mp # <<>>
  /\ invoke_nsp(r, ScheduleLow)
  /\ kill' = [kill EXCEPT !.mp = Tail(@)]
  /\ IF r \in LimitedOk THEN UNCHANGED sigVars
     ELSE /\ sigpending' = sigpending \ {r} /\ acked' = acked \ {r}
          /\ UNCHANGED psig
  /\ UNCHANGED <<serving, num_nsps, nsps_to_invoke, nsps_started, slotVars, timer,
                 status, left>>

KillReturns ==
  /\ kill.mode = "again" /\ sched.mode = "idle" /\ kill.mp = <<>>
  /\ kill' = NoKill
  /\ UNCHANGED <<queueVars, flags, pc, serving, countVars, slotVars, timer, sched,
                 sigVars, status, left>>

-----------------------------------------------------------------------------
(* Signals and failed sites                                                *)

\* What the table shows: nsp_site and nsp_rid are set.
Shows(i, r) == serving[i] = r /\ pc[i] \in {"armed", "exec"}

\* The sender of r, which is waiting for it, is signalled.  Its DMSIGNAL message
\* is repeated until it is answered with found: the first busy NSP, else the
\* first queued message, with the rid of r.  The limited NSP ignores the signal.
signalnsp(r) ==
  LET nsps == {i \in AllSlots : {"VALID", "BUSY"} \subseteq flags[i]
                 /\ \E q \in Reqs : Shows(i, q) /\ Rid[q] = Rid[r]}
      same == {k \in DOMAIN general : Rid[general[k]] = Rid[r]}
  IN
  /\ InterruptsOn
  /\ r \in (Interruptable \cap Outstanding) \ acked
  /\ Source[r] # Local /\ status[Source[r]] = "up"
  /\ \/ /\ \E i \in nsps : (\A j \in nsps : i <= j) /\ psig' = psig \cup ({i} \ {0})
        /\ UNCHANGED sigpending
     \/ /\ nsps = {}
        /\ \E k \in same :
             (\A j \in same : k <= j) /\ sigpending' = sigpending \cup {general[k]}
        /\ UNCHANGED psig
  /\ acked' = acked \cup {r}
  /\ UNCHANGED <<queueVars, flags, pc, serving, countVars, slotVars, timer, sched,
                 kill, status, left>>

SiteFails(s) ==
  /\ InterruptsOn /\ status[s] = "up"
  /\ status' = [status EXCEPT ![s] = "failed"]
  /\ UNCHANGED <<queueVars, flags, pc, serving, countVars, slotVars, timer, sched,
                 kill, sigVars, left>>

\* What is left of queue q, in its order, without the requests of s.
Kept(q, s) ==
  LET keep == {k \in DOMAIN q : Source[q[k]] # s}
      nth(n) == CHOOSE k \in keep : Cardinality({j \in keep : j <= k}) = n
  IN  [n \in 1 .. Cardinality(keep) |-> q[nth(n)]]

\* Faulty: the queued requests of the site stay.
Bug_QueuesNotFlushed(s) ==
  LET busy == {i \in AllSlots : "BUSY" \in flags[i]
                 /\ \E r \in Reqs : Source[r] = s /\ Shows(i, r)}
      flushed == {r \in Queued(general) \cup Queued(limited) : Source[r] = s}
  IN
  /\ CpuFree /\ status[s] = "failed"
  /\ psig' = psig \cup (busy \ {0})
  /\ sigpending' = sigpending \ flushed /\ acked' = acked \ flushed
  /\ status' = [status EXCEPT ![s] = IF busy = {} THEN "inactive" ELSE @]
  /\ UNCHANGED <<queueVars, flags, pc, serving, countVars, slotVars, timer, sched, kill, left>>

\* The cleanup process calls no_nsp(): signal the busy NSPs that serve the site,
\* remove its requests from the queues, and clean up once there was none.
no_nsp(s) ==
  LET busy == {i \in AllSlots : "BUSY" \in flags[i]
                 /\ \E r \in Reqs : Source[r] = s /\ Shows(i, r)}
      flushed == {r \in Queued(general) \cup Queued(limited) : Source[r] = s}
  IN
  /\ CpuFree /\ status[s] = "failed"
  /\ psig' = psig \cup (busy \ {0})
  /\ general' = Kept(general, s) /\ limited' = Kept(limited, s)
  /\ sigpending' = sigpending \ flushed /\ acked' = acked \ flushed
  /\ status' = [status EXCEPT ![s] = IF busy = {} THEN "inactive" ELSE @]
  /\ UNCHANGED <<flags, pc, serving, countVars, slotVars, timer, sched, kill, left>>

SiteJoins(s) ==
  /\ CpuFree /\ status[s] = "inactive"
  /\ status' = [status EXCEPT ![s] = "up"]
  /\ UNCHANGED <<queueVars, flags, pc, serving, countVars, slotVars, timer, sched,
                 kill, sigVars, left>>

-----------------------------------------------------------------------------
NspStep(i) ==
  \/ NspSleeps(i) \/ NspRevives(i) \/ NspDies(i) \/ NspDead(i) \/ NspTakes(i)
  \/ NspArms(i) \/ NspCalls(i) \/ NspDone(i)

LnspStep ==
  \/ LnspTakes \/ LnspDone \/ LnspSleeps \/ LnspForks
  \/ ForkNoProc \/ ForkReserves \/ ForkBacksOut \/ ForkDone

KillStep == KillMarks \/ KillMarked \/ KillInvokes \/ KillReturns

Next ==
  \/ \E r \in Reqs : RecvRequest(r) \/ LocalRequest(r) \/ signalnsp(r)
  \/ ScheduleLowSearches \/ Spins
  \/ \E i \in Slots : NspStep(i) \/ nsptimeout(i)
  \/ LnspStep
  \/ \E n \in AllSlots : StartNsps(n) \/ KillNsps(n)
  \/ KillStep
  \/ \E s \in Sites : SiteFails(s) \/ no_nsp(s) \/ SiteJoins(s)

Spec == Init /\ [][Next]_vars

\* Every runnable process gets the processor again and again while others come
\* and go; softclock handlers finish; requests to the limited NSP end.  Nothing
\* is assumed about how long a general NSP takes for its request (NspDone), only
\* that its timeout expires.
Fairness ==
  /\ \A i \in Slots :
       /\ SF_vars(NspStep(i) /\ ~NspDone(i))
       /\ WF_vars(nsptimeout(i))
  /\ SF_vars(LnspStep)
  /\ WF_vars(ScheduleLowSearches)

FairSpec == Spec /\ Fairness

-----------------------------------------------------------------------------
(* What must hold                                                          *)

Labels == {"none", "reserved", "asleep", "ready", "getpid", "newproc", "exec"}
            \cup OnCpu
Flags == {"BUSY", "VALID", "TIMED_OUT"}

\* The type of every variable.
TypeOK ==
  /\ general \in Seq(Reqs) /\ limited \in Seq(Reqs)
  /\ flags \in [AllSlots -> SUBSET Flags]
  /\ pc \in [AllSlots -> Labels]
  /\ serving \in [AllSlots -> Reqs \cup {NoReq}]
  /\ num_nsps \in Slots \cup {0} /\ free_nsps \in Int
  /\ nsps_to_invoke \in Int /\ nsps_started \in AllSlots
  /\ nsp_first_try \in Slots /\ max_nsp \in AllSlots /\ forking_nsp \in {0, 1}
  /\ fork \in [couldnt : Int, slot : AllSlots, saved : AllSlots]
  /\ timer \subseteq Slots
  /\ sched \in [mode : {"idle", "pending", "hung"}, start : Slots, count : Slots]
  /\ kill \in [mode : {"idle", "scan", "again"}, left : Nat, at : AllSlots,
               mp : Seq(Reqs)]
  /\ sigpending \subseteq Reqs /\ psig \subseteq Slots /\ acked \subseteq Reqs
  /\ status \in [Sites -> {"up", "failed", "inactive"}]
  /\ left \in [kills : 0 .. MaxKills, fails : 0 .. MaxFails]

Valid == {i \in Slots : "VALID" \in flags[i]}

\* The table and its counts agree, across sleeps in newproc() and backed-out
\* forks: num_nsps counts the NSPs, none lies beyond max_nsp, and whoever is
\* about to reserve a slot finds one ("Note that since we were called by
\* fork_nsps ... there is at least one free nsp slot", nsp.c:354).
SlotTable ==
  /\ num_nsps = Cardinality({i \in Valid : pc[i] # "dying"})
  /\ \A i \in Valid : i <= max_nsp
  /\ pc[0] = "getpid" => \E i \in Slots \ Valid : i <= max_nsp + 1

\* kill_nsps() never panics ("not enough to kill"): the NSPs that are not marked
\* for suicide and the ones still to be forked are enough, with timeouts during
\* the scan.
EnoughToKill ==
  kill.mode = "scan" =>
    Cardinality({i \in Valid : i <= kill.at /\ "TIMED_OUT" \notin flags[i]})
      + nsps_to_invoke >= kill.left

\* A request is in one place only: it is never queued twice, taken by two NSPs
\* or taken and left in a queue, whatever kill_nsps() and no_nsp() do.
ServedOnce ==
  /\ \A i, j \in AllSlots : serving[i] = serving[j] /\ i # j => serving[i] = NoReq
  /\ \A q \in {general \o limited \o kill.mp} :
       /\ Cardinality(Queued(q)) = Len(q)
       /\ \A i \in AllSlots : serving[i] \notin Queued(q)

\* "As soon as one of the NSPs finishes what it is doing it will check the queue
\* and process the next request" (nsp.c:903): while a request waits, somebody is
\* awake who will look at the queue, or busy with a request.
NotStranded ==
  general # <<>> =>
    \/ \E i \in AllSlots : pc[i] \notin {"none", "asleep"}
    \/ sched.mode # "idle" \/ kill.mode # "idle"

\* Both counts are exact: free_nsps is "the number of non busy NSPs" (nsp.c:85),
\* and what the user has started (nsp.c:97) are the NSPs that are not marked for
\* suicide and those still to be forked.
CountsExact ==
  /\ free_nsps = Cardinality({i \in Free : pc[i] # "dying"})
  /\ kill.mode # "scan" =>
       nsps_started = Cardinality({i \in Valid : "TIMED_OUT" \notin flags[i]})
                        + nsps_to_invoke

\* "If we found an active NSP ..., return 0.  Otherwise, return 1" (nsp.c:1108):
\* once a failed site has been cleaned up after, no NSP works for it and none of
\* its requests is queued.
NoneForDead ==
  \A s \in Sites : status[s] = "inactive" =>
    \A r \in Outstanding \ {NoReq} : Source[r] # s

\* "Wake up the first one found" (nsp.c:886): no request waits while a general
\* NSP sleeps, unless one that is to stay is on its way to the queue or softclock
\* is about to search.  The search of softclock goes on with the nsp_count that
\* the network's left, and free_nsps and max_nsp change when NSPs are replaced or
\* backed out; a search that misses a free NSP, or is not made, leaves a request
\* behind those in service, which may never end.
Attended ==
  general # <<>> /\ (\E i \in Slots : pc[i] = "asleep") =>
    \/ sched.mode = "pending"
    \/ \E i \in Slots : pc[i] \in {"ready", "loop"} /\ "TIMED_OUT" \notin flags[i]

\* "Theoretically, it is impossible to actually complete the loop ... because we
\* shouldn't execute the loop unless there are any free NSPs, and we should
\* terminate the loop as soon as we find one.  However, I would rather be safe
\* than in an infinite loop" (nsp.c:895): the search of schedule_nsp() ends,
\* whatever interrupts it and wherever NSPs that died have left nsp_first_try.
SearchEnds == sched.mode # "hung"

\* "informed that the signal message has gotten through and was delivered to
\* the appropriate NSP" (dm.c:549): a signal that was acknowledged is pending
\* in the NSP that executes the request.
SignalKept ==
  \A i \in Slots : pc[i] = "exec" /\ serving[i] \in acked => i \in psig

\* "If an NSP is working on the specified request, send it a signal" (nsp.c:1017):
\* only the request whose sender was signalled is interrupted, or one of a site
\* that has failed.
SignalMeant ==
  \A i \in Slots : pc[i] = "exec" /\ i \in psig =>
    \/ serving[i] \in acked
    \/ Source[serving[i]] # Local /\ status[Source[serving[i]]] # "up"

\* "to prevent all NSPs from being tied up with slow operations" (nsp.c:654): a
\* queued request is taken although the requests before it never end, by an NSP
\* forked in place of one that timed out.  NSPs that timed out are replaced as
\* long as there are fewer than ngcsp (nsp.c:128, 282): the queue is left by every
\* request unless all of those are busy for ever, or a fork fails.
AllBusy == \A i \in Slots : pc[i] = "exec"
ForkFailed == left.fails < MaxFails
Taken ==
  <>ForkFailed \/ <>[]AllBusy \/ \A r \in Reqs : []<>(r \notin Queued(general))

=============================================================================
