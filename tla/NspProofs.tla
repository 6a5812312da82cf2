------------------------------ MODULE NspProofs ------------------------------
(***************************************************************************)
(* Nsp for any number of slots, sites and requests: the table nsp[] and    *)
(* its counts agree, kill_nsps() finds enough to kill, and a request is in *)
(* one place at a time.  As long as the number of NSPs has not been        *)
(* reduced, the counts are exact, a failed site is cleaned up after, and   *)
(* only the right request is interrupted.                                  *)
(*                                                                         *)
(* The argument.  An NSP is not preempted, so nobody is between two steps  *)
(* of its own while another one runs; what interrupts do to it is to mark  *)
(* it busy or timed out, or to wake it up.  The limited NSP alone reserves *)
(* slots, so that the slot it finds, and the max_nsp it goes back to, are  *)
(* still right after it has slept.  While the number of NSPs has not been  *)
(* reduced, a general NSP is free exactly when it is asleep.               *)
(***************************************************************************)
EXTENDS Nsp, FiniteSetTheorems, SequenceTheorems, WellFoundedInduction, TLAPS

(* One process runs at a time; kill_nsps() is one, too.                    *)
OneRuns ==
  /\ \A i, j \in AllSlots : pc[i] \in OnCpu /\ pc[j] \in OnCpu => i = j
  /\ kill.mode # "idle" => \A i \in AllSlots : pc[i] \notin OnCpu

(* Where the process of a slot can be.                                     *)
Where ==
  /\ pc[0] \in {"asleep", "ready", "loop", "exec", "getpid", "newproc"}
  /\ \A i \in Slots :
       /\ pc[i] \notin {"getpid", "newproc"}
       /\ pc[i] # "none" <=> "VALID" \in flags[i]
       /\ pc[i] = "dying" => "TIMED_OUT" \in flags[i]
       /\ i \in timer => pc[i] \in {"armed", "exec"}

(* The counted NSPs, no slot beyond max_nsp, and what the limited NSP will *)
(* go back to when newproc() fails.                                        *)
Living == {i \in Slots : pc[i] \notin {"none", "dying"}}

Table ==
  /\ num_nsps = Cardinality(Living)
  /\ \A i \in Valid : i <= max_nsp
  /\ pc[0] = "getpid" => Valid # Slots
  /\ pc[0] = "newproc" => /\ fork.slot \in Slots /\ pc[fork.slot] = "reserved"
                          /\ \A i \in Valid \ {fork.slot} : i <= fork.saved

(* The NSPs that are to stay, and those of them kill_nsps() has yet to     *)
(* look at.                                                                *)
Unmarked == {i \in Valid : "TIMED_OUT" \notin flags[i]}
Ahead == {i \in Unmarked : i <= kill.at}

Enough ==
  /\ kill.mode # "scan" => kill.left = 0
  /\ nsps_started + kill.left <= Cardinality(Unmarked) + nsps_to_invoke
  /\ kill.mode = "scan" => kill.left <= Cardinality(Ahead) + nsps_to_invoke

(* Each request is in one queue, or with one NSP, once.                    *)
Once(q) == \A j, k \in 1 .. Len(q) : q[j] = q[k] => j = k

Places ==
  /\ Once(general) /\ Once(limited) /\ Once(kill.mp)
  /\ Queued(general) \cap Queued(limited) = {}
  /\ Queued(general) \cap Queued(kill.mp) = {}
  /\ Queued(limited) \cap Queued(kill.mp) = {}
  /\ \A i \in AllSlots : serving[i] \notin Queued(general) \cup Queued(limited)
                                             \cup Queued(kill.mp)
  /\ \A i, j \in AllSlots : serving[i] = serving[j] /\ i # j => serving[i] = NoReq
  /\ kill.mode # "again" => kill.mp = <<>>

(* As long as kill_nsps() has not been called.                             *)
NotReduced == left.kills = MaxKills

(* A general NSP is busy unless it sleeps, whether it timed out or not,    *)
(* and one that has a request is at work on it.                            *)
BusyAwake ==
  /\ kill = NoKill
  /\ \A i \in Slots : /\ pc[i] # "none" => ("BUSY" \in flags[i] <=> pc[i] # "asleep")
                      /\ "TIMED_OUT" \in flags[i] =>
                            pc[i] \in {"armed", "exec", "loop", "dying"}
  /\ "VALID" \in flags[0] /\ (pc[0] = "exec" => "BUSY" \in flags[0])
  /\ \A i \in AllSlots : serving[i] # NoReq <=> pc[i] \in {"took", "armed", "exec"}

Asleep == {i \in Slots : pc[i] = "asleep"}

Exact ==
  /\ free_nsps = Cardinality(Asleep)
  /\ nsps_started = Cardinality(Unmarked) + nsps_to_invoke

(* Signals: request ids tell the requests of all sites apart.              *)
RidsDiffer == \A q, r \in Reqs : Rid[q] = Rid[r] => q = r

Signals ==
  /\ sigpending \subseteq acked
  /\ \A i \in Slots : pc[i] = "exec" => serving[i] \notin sigpending
  /\ SignalMeant

NspInv ==
  /\ TypeOK /\ OneRuns /\ Where /\ Table /\ Enough /\ Places
  /\ NotReduced => /\ BusyAwake /\ Exact /\ NoneForDead
                   /\ RidsDiffer => Signals

-----------------------------------------------------------------------------
(* The pieces that actions are made of.                                    *)

Pcs == [AllSlots -> Labels]

(* Slots and their number.                                                 *)
LEMMA TheSlots ==
  /\ ngcsp \in Nat \ {0} /\ Slots \subseteq AllSlots /\ 0 \in AllSlots /\ 0 \notin Slots
  /\ \A i \in AllSlots : i \in Int /\ (i \in Slots <=> i # 0)
  /\ IsFiniteSet(Slots) /\ Cardinality(Slots) = ngcsp
<1>1. ngcsp \in Nat \ {0}
  BY NspAssumption
<1>2. IsFiniteSet(1 .. ngcsp) /\ Cardinality(1 .. ngcsp) = ngcsp
  BY <1>1, FS_Interval
<1> QED
  BY <1>1, <1>2 DEF Slots, AllSlots

(* A set of slots is finite, and has at most ngcsp members.                *)
LEMMA SlotSets ==
  ASSUME NEW S \in SUBSET Slots
  PROVE  IsFiniteSet(S) /\ Cardinality(S) \in 0 .. ngcsp
<1>1. IsFiniteSet(S) /\ Cardinality(S) <= ngcsp
  BY TheSlots, FS_Subset
<1>2. Cardinality(S) \in Nat
  BY <1>1, FS_CardinalityType
<1> QED
  BY <1>1, <1>2, TheSlots

(* wakeup() of the process of slot i: it is ready if it was asleep.        *)
LEMMA WokenIs ==
  ASSUME pc \in Pcs, NEW i \in AllSlots
  PROVE  /\ Woken(i) \in Pcs
         /\ \A j \in AllSlots :
              Woken(i)[j] = IF j = i /\ pc[j] = "asleep" THEN "ready" ELSE pc[j]
<1>1. CASE pc[i] = "asleep"
  <2>1. Woken(i) = [pc EXCEPT ![i] = "ready"] /\ "ready" \in Labels
    BY <1>1 DEF Woken, Labels
  <2> QED
    BY <1>1, <2>1 DEF Pcs
<1>2. CASE pc[i] # "asleep"
  BY <1>2 DEF Woken
<1> QED
  BY <1>1, <1>2

(* Some processes are woken up.                                            *)
Wakes(p) == /\ p \in Pcs
            /\ \A j \in AllSlots : p[j] = pc[j] \/ (pc[j] = "asleep" /\ p[j] = "ready")

(* A wakeup changes no label but that of a process that was asleep.        *)
LEMMA WokenWakes ==
  ASSUME pc \in Pcs
  PROVE  /\ Wakes(pc)
         /\ \A i \in AllSlots : Wakes(Woken(i)) /\ \A j \in AllSlots : j # i => Woken(i)[j] = pc[j]
         /\ Wakes(wakeup_nsp_forker)
         /\ \A j \in Slots : wakeup_nsp_forker[j] = pc[j]
<1>1. \A i \in AllSlots : Wakes(Woken(i)) /\ \A j \in AllSlots : j # i => Woken(i)[j] = pc[j]
  BY WokenIs DEF Wakes
<1>2. Wakes(pc)
  BY DEF Wakes
<1> QED
  BY <1>1, <1>2, TheSlots DEF wakeup_nsp_forker

(* What scheduling does: it chooses a free NSP, or wakes the limited one,  *)
(* or nobody.                                                              *)
Chosen ==
  \/ /\ UNCHANGED <<flags, free_nsps>>
     /\ Wakes(pc') /\ \A j \in Slots : pc'[j] = pc[j]
  \/ \E i \in Free : /\ flags' = Set(i, "BUSY") /\ free_nsps' = free_nsps - 1
                     /\ pc' = Woken(i)

Scheds == [mode : {"idle", "pending", "hung"}, start : Slots, count : Slots]

(* One search of schedule_nsp() chooses a free NSP, or none.               *)
LEMMA SearchChooses ==
  ASSUME pc \in Pcs, sched \in Scheds, NEW c \in Slots, NEW start \in Slots, NEW low \in BOOLEAN,
         Search(c, start, low)
  PROVE  Chosen /\ sched' \in Scheds
<1>1. \A i \in Slots : Ended(i, low) \in Scheds
  BY TheSlots DEF Ended, NoSched, Scheds, Slots
<1>2. Free \subseteq Slots
  BY DEF Free
<1>3. CASE UNCHANGED <<flags, free_nsps, pc>> /\ sched' \in Scheds
  BY <1>3, WokenWakes DEF Chosen
<1>4. CASE UNCHANGED <<flags, free_nsps, pc>> /\ sched' = [sched EXCEPT !.mode = "hung"]
  <2>1. sched' \in Scheds
    BY <1>4 DEF Scheds
  <2> QED
    BY <1>3, <1>4, <2>1
<1>5. CASE \E i \in Free : /\ flags' = Set(i, "BUSY") /\ free_nsps' = free_nsps - 1
                           /\ pc' = Woken(i) /\ sched' = Ended(i, low)
  BY <1>1, <1>2, <1>5 DEF Chosen
<1> QED
  BY <1>1, <1>3, <1>4, <1>5 DEF Search

(* invoke_nsp() at either level.                                           *)
LEMMA InvokeChooses ==
  ASSUME TypeOK, NEW r \in Reqs, invoke_nsp(r, schedule_nsp) \/ invoke_nsp(r, ScheduleLow)
  PROVE  /\ Chosen /\ sched' \in Scheds
         /\ \/ general' = Append(general, r) /\ UNCHANGED limited
            \/ limited' = Append(limited, r) /\ UNCHANGED general
            \/ UNCHANGED <<general, limited>>
<1>1. pc \in Pcs /\ sched \in Scheds /\ nsp_first_try \in Slots
  BY DEF TypeOK, Pcs, Scheds
<1>2. ASSUME UNCHANGED <<flags, free_nsps, sched>>, Wakes(pc'), \A j \in Slots : pc'[j] = pc[j]
      PROVE  Chosen /\ sched' \in Scheds
  BY <1>1, <1>2 DEF Chosen
<1>3. ASSUME schedule_nsp PROVE Chosen /\ sched' \in Scheds
  <2>1. CASE free_nsps # 0
    <3>1. Search(nsp_first_try, nsp_first_try, FALSE)
      BY <1>3, <2>1 DEF schedule_nsp
    <3> QED
      BY <1>1, <3>1, SearchChooses
  <2>2. CASE free_nsps = 0
    <3>1. UNCHANGED <<flags, free_nsps, sched>> /\ (pc' = wakeup_nsp_forker \/ pc' = pc)
      BY <1>3, <2>2 DEF schedule_nsp
    <3> QED
      BY <1>1, <1>2, <3>1, WokenWakes
  <2> QED
    BY <2>1, <2>2
<1>4. ASSUME ScheduleLow PROVE Chosen /\ sched' \in Scheds
  <2>1. CASE free_nsps # 0
    <3>1. /\ sched' = [mode |-> "pending", start |-> nsp_first_try, count |-> nsp_first_try]
          /\ UNCHANGED <<flags, free_nsps, pc>>
      BY <1>4, <2>1 DEF ScheduleLow
    <3>2. sched' \in Scheds
      BY <1>1, <3>1 DEF Scheds
    <3>3. Chosen
      BY <1>1, <3>1, WokenWakes DEF Chosen
    <3> QED
      BY <3>2, <3>3
  <2>2. CASE free_nsps = 0
    BY <1>3, <1>4, <2>2 DEF ScheduleLow
  <2> QED
    BY <2>1, <2>2
<1>5. ASSUME pc' = Woken(0), UNCHANGED <<flags, free_nsps, sched>>
      PROVE  Chosen /\ sched' \in Scheds
  BY <1>1, <1>2, <1>5, WokenWakes, TheSlots
<1>6. ASSUME UNCHANGED <<pc, flags, free_nsps, sched>>
      PROVE  Chosen /\ sched' \in Scheds
  BY <1>1, <1>2, <1>6, WokenWakes
<1>7. Chosen /\ sched' \in Scheds
  BY <1>3, <1>4, <1>5, <1>6 DEF invoke_nsp
<1> QED
  BY <1>7 DEF invoke_nsp

Kills == [mode : {"idle", "scan", "again"}, left : Nat, at : AllSlots, mp : Seq(Reqs)]
FlagSets == [AllSlots -> SUBSET Flags]

(* The steps in which a request comes in, or the search for an NSP goes on. *)
Arrives == \/ \E r \in Reqs : RecvRequest(r) \/ LocalRequest(r)
           \/ ScheduleLowSearches \/ KillInvokes

(* A request that arrives makes schedule_nsp() choose one NSP at most.     *)
LEMMA ArrivalChooses ==
  ASSUME TypeOK, Arrives
  PROVE  /\ Chosen /\ sched' \in Scheds
         /\ UNCHANGED <<serving, num_nsps, nsps_to_invoke, nsps_started, slotVars, timer,
                        status, left>>
         /\ kill' \in Kills
         /\ kill'.mode = kill.mode /\ kill'.left = kill.left /\ kill'.at = kill.at
<1>1. CASE \E r \in Reqs : RecvRequest(r) \/ LocalRequest(r)
  <2>1. PICK r \in Reqs : RecvRequest(r) \/ LocalRequest(r)
    BY <1>1
  <2>2. /\ invoke_nsp(r, schedule_nsp) \/ invoke_nsp(r, ScheduleLow)
        /\ UNCHANGED <<serving, num_nsps, nsps_to_invoke, nsps_started, slotVars, timer,
                       status, left, kill>>
    BY <2>1 DEF RecvRequest, LocalRequest
  <2>3. Chosen /\ sched' \in Scheds
    BY <2>2, InvokeChooses
  <2> QED
    BY <2>2, <2>3 DEF TypeOK, Kills
<1>2. CASE ScheduleLowSearches
  <2>1. Search(sched.count, sched.start, TRUE)
    BY <1>2 DEF ScheduleLowSearches
  <2>2. pc \in Pcs /\ sched \in Scheds /\ sched.count \in Slots /\ sched.start \in Slots
    BY DEF TypeOK, Pcs, Scheds
  <2>3. Chosen /\ sched' \in Scheds
    BY <2>1, <2>2, SearchChooses
  <2> QED
    BY <1>2, <2>3 DEF ScheduleLowSearches, TypeOK, Kills
<1>3. CASE KillInvokes
  <2>1. kill \in Kills /\ kill.mp \in Seq(Reqs) /\ kill.mp # <<>>
    BY <1>3 DEF KillInvokes, TypeOK, Kills
  <2>2. Head(kill.mp) \in Reqs /\ Tail(kill.mp) \in Seq(Reqs)
    BY <2>1, HeadTailProperties
  <2>3. invoke_nsp(Head(kill.mp), ScheduleLow)
    BY <1>3 DEF KillInvokes
  <2>4. Chosen /\ sched' \in Scheds
    BY <2>2, <2>3, InvokeChooses
  <2>5. kill' = [kill EXCEPT !.mp = Tail(kill.mp)]
    BY <1>3 DEF KillInvokes
  <2>6. /\ kill' \in Kills
        /\ kill'.mode = kill.mode /\ kill'.left = kill.left /\ kill'.at = kill.at
    BY <2>1, <2>2, <2>5 DEF Kills
  <2> QED
    BY <1>3, <2>4, <2>6 DEF KillInvokes
<1> QED
  BY <1>1, <1>2, <1>3 DEF Arrives

(* What a choice changes, slot by slot.                                    *)
LEMMA ChosenIs ==
  ASSUME TypeOK, Where, Chosen
  PROVE  /\ Wakes(pc') /\ flags' \in FlagSets
         /\ \A i \in AllSlots : \A f \in {"VALID", "TIMED_OUT"} : f \in flags'[i] <=> f \in flags[i]
         /\ \A i \in AllSlots : "BUSY" \in flags[i] => "BUSY" \in flags'[i]
         /\ flags'[0] = flags[0]
<1>1. pc \in Pcs /\ flags \in FlagSets
  BY DEF TypeOK, Pcs, FlagSets
<1>2. CASE UNCHANGED <<flags, free_nsps>> /\ Wakes(pc')
  BY <1>1, <1>2
<1>3. CASE \E i \in Free : flags' = Set(i, "BUSY") /\ pc' = Woken(i)
  <2>1. PICK i \in Free : flags' = Set(i, "BUSY") /\ pc' = Woken(i)
    BY <1>3
  <2>2. i \in Slots /\ i \in AllSlots /\ i # 0
    BY TheSlots DEF Free
  <2>3. Wakes(pc')
    BY <1>1, <2>1, <2>2, WokenWakes
  <2>4. /\ flags' \in FlagSets
        /\ \A j \in AllSlots : flags'[j] = IF j = i THEN flags[j] \cup {"BUSY"} ELSE flags[j]
    BY <1>1, <2>1, <2>2 DEF Set, FlagSets, Flags
  <2> QED
    BY <2>2, <2>3, <2>4, TheSlots
<1> QED
  BY <1>2, <1>3 DEF Chosen
-----------------------------------------------------------------------------
(* One process runs at a time.                                             *)

(* Process i may start to run only when nobody else does.                  *)
LEMMA OneRunsStep ==
  ASSUME OneRuns, NEW i \in AllSlots,
         \A j \in AllSlots : j # i /\ pc'[j] \in OnCpu => pc[j] \in OnCpu,
         pc'[i] \in OnCpu => pc[i] \in OnCpu \/ CpuFree,
         kill'.mode # "idle" => kill.mode # "idle"
  PROVE  OneRuns'
<1>1. ASSUME NEW j \in AllSlots, NEW k \in AllSlots, pc'[j] \in OnCpu, pc'[k] \in OnCpu
      PROVE  j = k
  BY <1>1 DEF OneRuns, CpuFree
<1>2. ASSUME kill'.mode # "idle", NEW j \in AllSlots
      PROVE  pc'[j] \notin OnCpu
  BY <1>2 DEF OneRuns, CpuFree
<1> QED
  BY <1>1, <1>2 DEF OneRuns

(* Processes that are woken up do not run yet.                             *)
LEMMA OneRunsWakes ==
  ASSUME OneRuns, Wakes(pc'), kill'.mode # "idle" => kill.mode # "idle"
  PROVE  OneRuns'
<1>1. \A j \in AllSlots : pc'[j] \in OnCpu => pc[j] \in OnCpu
  BY DEF Wakes, OnCpu
<1> QED
  BY <1>1, TheSlots, OneRunsStep
-----------------------------------------------------------------------------
(* The table and its counts.                                               *)

SlotInv == TypeOK /\ OneRuns /\ Where /\ Table

(* Nobody comes or goes.                                                   *)
LEMMA TableSame ==
  ASSUME SlotInv,
         \A i \in Slots : /\ pc'[i] \in {"none", "dying"} <=> pc[i] \in {"none", "dying"}
                          /\ pc[i] = "reserved" => pc'[i] = "reserved"
                          /\ "VALID" \in flags'[i] <=> "VALID" \in flags[i],
         UNCHANGED <<num_nsps, max_nsp>>,
         pc'[0] \in {"getpid", "newproc"} => pc'[0] = pc[0] /\ fork' = fork
  PROVE  Table'
<1>1. Living' = Living /\ Valid' = Valid
  BY DEF Living, Valid
<1>2. Table
  BY DEF SlotInv
<1> QED
  BY <1>1, <1>2 DEF Table

(* With fewer NSPs than slots, and none about to leave, a slot is free.    *)
LEMMA RoomLeft ==
  ASSUME SlotInv, num_nsps < ngcsp, \A i \in Slots : pc[i] # "dying"
  PROVE  Valid # Slots
<1>1. Valid = Living
  BY DEF SlotInv, Where, Valid, Living
<1>2. num_nsps = Cardinality(Living)
  BY DEF SlotInv, Table
<1>3. Cardinality(Slots) = ngcsp /\ ngcsp \in Nat
  BY TheSlots
<1>4. num_nsps \in Nat
  BY <1>2, SlotSets DEF Living
<1> QED
  BY <1>1, <1>2, <1>3, <1>4

(* The number of NSPs has its type because it counts them.                 *)
LEMMA NumNsps ==
  ASSUME Table'
  PROVE  num_nsps' \in Slots \cup {0}
<1>1. Living' \subseteq Slots
  BY DEF Living
<1>2. num_nsps' = Cardinality(Living')
  BY DEF Table
<1>3. Cardinality(Living') \in 0 .. ngcsp
  BY <1>1, SlotSets
<1> QED
  BY <1>2, <1>3, TheSlots DEF Slots

(* Where processes are does not change but for those that are woken up.    *)
LEMMA WakesSlots ==
  ASSUME SlotInv, Wakes(pc'), flags' \in FlagSets,
         \A i \in Slots : "VALID" \in flags'[i] <=> "VALID" \in flags[i],
         \A i \in Slots : "TIMED_OUT" \in flags[i] => "TIMED_OUT" \in flags'[i],
         timer' \subseteq timer,
         UNCHANGED <<num_nsps, max_nsp, fork>>,
         kill'.mode # "idle" => kill.mode # "idle"
  PROVE  OneRuns' /\ Where' /\ Table'
<1>1. OneRuns'
  BY OneRunsWakes DEF SlotInv
<1>2. \A i \in AllSlots : pc'[i] = pc[i] \/ (pc[i] = "asleep" /\ pc'[i] = "ready")
  BY DEF Wakes
<1>3. Where'
  <2>1. pc'[0] \in {"asleep", "ready", "loop", "exec", "getpid", "newproc"}
    BY <1>2, TheSlots DEF SlotInv, Where
  <2>2. ASSUME NEW i \in Slots
        PROVE  /\ pc'[i] \notin {"getpid", "newproc"}
               /\ pc'[i] # "none" <=> "VALID" \in flags'[i]
               /\ pc'[i] = "dying" => "TIMED_OUT" \in flags'[i]
               /\ i \in timer' => pc'[i] \in {"armed", "exec"}
    <3>1. /\ pc[i] \notin {"getpid", "newproc"}
          /\ pc[i] # "none" <=> "VALID" \in flags[i]
          /\ pc[i] = "dying" => "TIMED_OUT" \in flags[i]
          /\ i \in timer => pc[i] \in {"armed", "exec"}
      BY DEF SlotInv, Where
    <3>2. pc'[i] = pc[i] \/ (pc[i] = "asleep" /\ pc'[i] = "ready")
      BY <1>2, TheSlots
    <3> QED
      BY <3>1, <3>2
  <2> QED
    BY <2>1, <2>2 DEF Where
<1>4. Table'
  <2>1. \A i \in Slots : /\ pc'[i] \in {"none", "dying"} <=> pc[i] \in {"none", "dying"}
                         /\ pc[i] = "reserved" => pc'[i] = "reserved"
                         /\ "VALID" \in flags'[i] <=> "VALID" \in flags[i]
    BY <1>2, TheSlots
  <2>2. pc'[0] \in {"getpid", "newproc"} => pc'[0] = pc[0]
    BY <1>2, TheSlots
  <2> QED
    BY <2>1, <2>2, TableSame
<1> QED
  BY <1>1, <1>3, <1>4

(* A step of a general NSP that stays.                                     *)
LEMMA ProcSlots ==
  ASSUME SlotInv, NEW i \in Slots, NEW l \in {"asleep", "loop", "took", "armed", "exec"},
         pc[i] \in {"ready", "loop", "took", "armed", "exec"}, pc[i] \in OnCpu \/ CpuFree,
         pc' = [pc EXCEPT ![i] = l], flags' \in FlagSets,
         \A j \in Slots : "VALID" \in flags'[j] <=> "VALID" \in flags[j],
         \A j \in Slots : j # i /\ "TIMED_OUT" \in flags[j] => "TIMED_OUT" \in flags'[j],
         timer' \subseteq timer \cup {i}, i \in timer' => l \in {"armed", "exec"},
         UNCHANGED <<num_nsps, max_nsp, fork, kill>>
  PROVE  pc' \in Pcs /\ OneRuns' /\ Where' /\ Table'
<1>1. /\ pc' \in Pcs
      /\ \A j \in AllSlots : pc'[j] = IF j = i THEN l ELSE pc[j]
  BY TheSlots DEF SlotInv, TypeOK, Pcs, Labels, OnCpu
<1>2. i \in AllSlots /\ i # 0 /\ 0 \in AllSlots
  BY TheSlots
<1>3. OneRuns'
  BY <1>1, <1>2, OneRunsStep DEF SlotInv
<1>4. Where'
  <2>1. pc'[0] \in {"asleep", "ready", "loop", "exec", "getpid", "newproc"}
    BY <1>1, <1>2 DEF SlotInv, Where
  <2>2. ASSUME NEW j \in Slots
        PROVE  /\ pc'[j] \notin {"getpid", "newproc"}
               /\ pc'[j] # "none" <=> "VALID" \in flags'[j]
               /\ pc'[j] = "dying" => "TIMED_OUT" \in flags'[j]
               /\ j \in timer' => pc'[j] \in {"armed", "exec"}
    <3>1. /\ pc[j] \notin {"getpid", "newproc"}
          /\ pc[j] # "none" <=> "VALID" \in flags[j]
          /\ pc[j] = "dying" => "TIMED_OUT" \in flags[j]
          /\ j \in timer => pc[j] \in {"armed", "exec"}
      BY DEF SlotInv, Where
    <3>2. pc'[j] = IF j = i THEN l ELSE pc[j]
      BY <1>1, TheSlots
    <3>3. CASE j = i
      BY <3>1, <3>2, <3>3
    <3>4. CASE j # i
      BY <3>1, <3>2, <3>4
    <3> QED
      BY <3>3, <3>4
  <2> QED
    BY <2>1, <2>2 DEF Where
<1>5. Table'
  <2>1. \A j \in Slots : /\ pc'[j] \in {"none", "dying"} <=> pc[j] \in {"none", "dying"}
                         /\ pc[j] = "reserved" => pc'[j] = "reserved"
                         /\ "VALID" \in flags'[j] <=> "VALID" \in flags[j]
    BY <1>1, TheSlots
  <2>2. pc'[0] \in {"getpid", "newproc"} => pc'[0] = pc[0]
    BY <1>1, <1>2
  <2> QED
    BY <2>1, <2>2, TableSame
<1> QED
  BY <1>1, <1>3, <1>4, <1>5

(* AtLoop() and the other labels of a process.                             *)
LEMMA LoopRuns ==
  ASSUME NEW i \in AllSlots, AtLoop(i)
  PROVE  pc[i] \in {"ready", "loop"} /\ (pc[i] \in OnCpu \/ CpuFree)
  BY DEF AtLoop, OnCpu

(* The steps of a general NSP that stays.                                  *)
LEMMA NspStays ==
  ASSUME SlotInv, NEW i \in Slots,
         \/ NspSleeps(i) \/ NspRevives(i) \/ NspTakes(i) \/ NspArms(i) \/ NspCalls(i) \/ NspDone(i)
  PROVE  SlotInv'
<1>1. /\ i \in AllSlots /\ flags \in FlagSets /\ timer \subseteq Slots
      /\ TypeOK /\ "BUSY" \in Flags /\ "TIMED_OUT" \in Flags
      /\ i \in timer => pc[i] \in {"armed", "exec"}
  BY TheSlots DEF SlotInv, TypeOK, FlagSets, Flags, Where
<1>2. CASE NspSleeps(i)
  <2>1. pc[i] \in {"ready", "loop"} /\ (pc[i] \in OnCpu \/ CpuFree)
    BY <1>1, <1>2, LoopRuns DEF NspSleeps
  <2>2. flags' \in FlagSets /\ \A j \in AllSlots : flags'[j] = IF j = i THEN flags[j] \ {"BUSY"} ELSE flags[j]
    <3>1. flags' = Clear(i, "BUSY")
      BY <1>2 DEF NspSleeps
    <3> QED
      BY <1>1, <3>1 DEF Clear, FlagSets
  <2>3. /\ pc' = [pc EXCEPT ![i] = "asleep"] /\ nsp_first_try' = i /\ free_nsps' \in Int
        /\ UNCHANGED <<queueVars, serving, num_nsps, nsps_to_invoke, nsps_started,
                 max_nsp, forking_nsp, fork, timer, sched, kill, sigVars, status, left>>
    BY <1>1, <1>2 DEF NspSleeps, TypeOK
  <2>4. pc' \in Pcs /\ OneRuns' /\ Where' /\ Table'
    BY <1>1, <2>1, <2>2, <2>3, TheSlots, ProcSlots
  <2>5. TypeOK'
    BY <1>1, <2>2, <2>3, <2>4 DEF TypeOK, FlagSets, Pcs, queueVars, sigVars
  <2> QED
    BY <2>4, <2>5 DEF SlotInv
<1>3. CASE NspRevives(i)
  <2>1. pc[i] \in {"ready", "loop"} /\ (pc[i] \in OnCpu \/ CpuFree)
    BY <1>1, <1>3, LoopRuns DEF NspRevives
  <2>2. flags' \in FlagSets /\ \A j \in AllSlots : flags'[j] = IF j = i THEN flags[j] \ {"TIMED_OUT"} ELSE flags[j]
    <3>1. flags' = Clear(i, "TIMED_OUT")
      BY <1>3 DEF NspRevives
    <3> QED
      BY <1>1, <3>1 DEF Clear, FlagSets
  <2>3. /\ pc' = [pc EXCEPT ![i] = "loop"] /\ nsps_to_invoke' \in Int
        /\ UNCHANGED <<queueVars, serving, num_nsps, free_nsps, nsps_started,
                 slotVars, timer, sched, kill, sigVars, status, left>>
    BY <1>1, <1>3 DEF NspRevives, TypeOK
  <2>4. pc' \in Pcs /\ OneRuns' /\ Where' /\ Table'
    BY <1>1, <2>1, <2>2, <2>3, TheSlots, ProcSlots DEF slotVars
  <2>5. TypeOK'
    BY <1>1, <2>2, <2>3, <2>4 DEF TypeOK, FlagSets, Pcs, queueVars, sigVars, slotVars
  <2> QED
    BY <2>4, <2>5 DEF SlotInv
<1>4. CASE NspTakes(i)
  <2>1. pc[i] \in {"ready", "loop"} /\ (pc[i] \in OnCpu \/ CpuFree)
    BY <1>1, <1>4, LoopRuns DEF NspTakes
  <2>2. /\ pc' = [pc EXCEPT ![i] = "took"]
        /\ UNCHANGED <<flags, countVars, slotVars, timer, sched, kill, sigVars, status, left>>
    BY <1>4 DEF NspTakes
  <2>3. general' \in Seq(Reqs) /\ limited' \in Seq(Reqs) /\ serving' \in [AllSlots -> Reqs \cup {NoReq}]
    <3>1. \A q \in Seq(Reqs) : q # <<>> => Head(q) \in Reqs /\ Tail(q) \in Seq(Reqs)
      BY HeadTailProperties
    <3>2. general \in Seq(Reqs) /\ limited \in Seq(Reqs) /\ serving \in [AllSlots -> Reqs \cup {NoReq}]
      BY <1>1 DEF TypeOK
    <3>3. CASE /\ general # <<>> /\ serving' = [serving EXCEPT ![i] = Head(general)]
               /\ general' = Tail(general) /\ UNCHANGED limited
      BY <3>1, <3>2, <3>3
    <3>4. CASE /\ limited # <<>> /\ serving' = [serving EXCEPT ![i] = Head(limited)]
               /\ limited' = Tail(limited) /\ UNCHANGED general
      BY <3>1, <3>2, <3>4
    <3> QED
      BY <1>4, <3>3, <3>4 DEF NspTakes
  <2>4. pc' \in Pcs /\ OneRuns' /\ Where' /\ Table'
    BY <1>1, <2>1, <2>2, TheSlots, ProcSlots DEF slotVars, countVars
  <2>5. TypeOK'
    BY <1>1, <2>2, <2>3, <2>4 DEF TypeOK, Pcs, sigVars, slotVars, countVars
  <2> QED
    BY <2>4, <2>5 DEF SlotInv
<1>5. CASE NspArms(i)
  <2>1. pc[i] = "took" /\ pc[i] \in OnCpu
    BY <1>5 DEF NspArms, OnCpu
  <2>2. /\ pc' = [pc EXCEPT ![i] = "armed"] /\ timer' = timer \cup {i}
        /\ UNCHANGED <<queueVars, flags, serving, countVars, slotVars, sched, kill,
                       sigVars, status, left>>
    BY <1>5 DEF NspArms
  <2>3. pc' \in Pcs /\ OneRuns' /\ Where' /\ Table'
    BY <1>1, <2>1, <2>2, ProcSlots DEF slotVars, countVars
  <2>4. TypeOK'
    BY <1>1, <2>2, <2>3 DEF TypeOK, Pcs, queueVars, sigVars, slotVars, countVars
  <2> QED
    BY <2>3, <2>4 DEF SlotInv
<1>6. CASE NspCalls(i)
  <2>1. pc[i] = "armed" /\ pc[i] \in OnCpu
    BY <1>6 DEF NspCalls, OnCpu
  <2>2. /\ pc' = [pc EXCEPT ![i] = "exec"]
        /\ psig' \subseteq psig \cup {i} /\ sigpending' \subseteq sigpending
        /\ UNCHANGED <<queueVars, flags, serving, countVars, slotVars, timer, sched,
                       kill, acked, status, left>>
    BY <1>6 DEF NspCalls
  <2>3. pc' \in Pcs /\ OneRuns' /\ Where' /\ Table'
    BY <1>1, <2>1, <2>2, ProcSlots DEF slotVars, countVars
  <2>4. TypeOK'
    BY <1>1, <2>2, <2>3 DEF TypeOK, Pcs, queueVars, slotVars, countVars
  <2> QED
    BY <2>3, <2>4 DEF SlotInv
<1>7. CASE NspDone(i)
  <2>1. pc[i] = "exec" /\ CpuFree
    BY <1>7 DEF NspDone
  <2>2. /\ pc' = [pc EXCEPT ![i] = "loop"] /\ timer' = timer \ {i}
        /\ serving' = [serving EXCEPT ![i] = NoReq] /\ acked' \subseteq acked
        /\ UNCHANGED <<queueVars, flags, countVars, slotVars, sched, kill, sigpending,
                       psig, status, left>>
    BY <1>7 DEF NspDone
  <2>3. pc' \in Pcs /\ OneRuns' /\ Where' /\ Table'
    BY <1>1, <2>1, <2>2, ProcSlots DEF slotVars, countVars
  <2>4. TypeOK'
    BY <1>1, <2>2, <2>3 DEF TypeOK, Pcs, queueVars, slotVars, countVars
  <2> QED
    BY <2>3, <2>4 DEF SlotInv
<1> QED
  BY <1>2, <1>3, <1>4, <1>5, <1>6, <1>7

(* An NSP that dies leaves the count first ...                             *)
LEMMA NspDiesSlots ==
  ASSUME SlotInv, NEW i \in Slots, NspDies(i)
  PROVE  SlotInv'
<1>1. /\ pc[i] \in {"ready", "loop"} /\ (pc[i] \in OnCpu \/ CpuFree)
      /\ i \in AllSlots /\ i # 0 /\ 0 \in AllSlots /\ TypeOK /\ pc \in Pcs
  BY LoopRuns, TheSlots DEF NspDies, SlotInv, TypeOK, Pcs
<1>2. /\ "TIMED_OUT" \in flags[i] /\ pc' = [pc EXCEPT ![i] = "dying"]
      /\ num_nsps' = num_nsps - 1 /\ free_nsps' \in Int
      /\ UNCHANGED <<queueVars, flags, serving, nsps_to_invoke, nsps_started,
                     slotVars, timer, sched, kill, sigVars, status, left>>
  BY <1>1 DEF NspDies, TypeOK
<1>3. /\ pc' \in Pcs
      /\ \A j \in AllSlots : pc'[j] = IF j = i THEN "dying" ELSE pc[j]
  BY <1>1, <1>2 DEF Pcs, Labels, OnCpu
<1>4. OneRuns'
  BY <1>1, <1>2, <1>3, OneRunsStep DEF SlotInv
<1>5. Where'
  <2>1. pc'[0] = pc[0] /\ i \notin timer
    BY <1>1, <1>3 DEF SlotInv, Where
  <2>2. \A j \in Slots : pc'[j] = IF j = i THEN "dying" ELSE pc[j]
    BY <1>3, TheSlots
  <2> QED
    BY <1>1, <1>2, <2>1, <2>2 DEF SlotInv, Where
<1>6. Table'
  <2>1. Living' = Living \ {i} /\ i \in Living /\ Valid' = Valid
    BY <1>1, <1>2, <1>3, TheSlots DEF Living, Valid
  <2>2. IsFiniteSet(Living)
    BY SlotSets DEF Living
  <2>3. Cardinality(Living') = num_nsps - 1
    BY <2>1, <2>2, FS_RemoveElement DEF SlotInv, Table
  <2>4. /\ pc'[0] = pc[0]
        /\ pc[0] = "newproc" => fork.slot \in Slots /\ pc[fork.slot] = "reserved" /\ fork.slot # i
    BY <1>1, <1>3 DEF SlotInv, Table
  <2>5. pc[0] = "newproc" => pc'[fork.slot] = "reserved"
    BY <1>3, <2>4, TheSlots
  <2> QED
    BY <1>2, <2>1, <2>3, <2>4, <2>5 DEF SlotInv, Table, slotVars
<1>7. TypeOK'
  BY <1>1, <1>2, <1>3, <1>6, NumNsps DEF TypeOK, Pcs, queueVars, slotVars, sigVars
<1> QED
  BY <1>4, <1>5, <1>6, <1>7 DEF SlotInv

(* A set of slots has a largest member.                                    *)
LEMMA LargestSlot ==
  ASSUME NEW S \in SUBSET AllSlots, S # {}
  PROVE  \E j \in S : \A k \in S : k <= j
<1> DEFINE R == OpToRel(<, Nat)
           T == {ngcsp - k : k \in S}
<1>1. ngcsp \in Nat /\ \A k \in S : k \in Int /\ ngcsp - k \in Nat
  BY TheSlots DEF AllSlots
<1>2. T \subseteq Nat /\ T # {}
  BY <1>1
<1>3. IsWellFoundedOn(R, Nat)
  BY NatLessThanWellFounded
<1>4. PICK t \in T : \A y \in T : ~ (<<y, t>> \in R)
  <2> HIDE DEF R, T
  <2> QED
    BY <1>2, <1>3, WFMin
<1>5. PICK j \in S : t = ngcsp - j
  BY <1>4
<1>6. ASSUME NEW k \in S PROVE k <= j
  <2>1. ngcsp - k \in T /\ ngcsp - k \in Nat /\ t \in Nat
    BY <1>1, <1>2
  <2>2. ~(ngcsp - k < t)
    BY <1>4, <2>1 DEF OpToRel
  <2> QED
    BY <1>1, <1>5, <2>1, <2>2
<1> QED
  BY <1>6

(* ... and the table afterwards.                                           *)
LEMMA NspDeadSlots ==
  ASSUME SlotInv, NEW i \in Slots, NspDead(i)
  PROVE  SlotInv'
<1> DEFINE below == {j \in 1 .. i - 1 : "VALID" \in flags[j]}
<1>1. /\ i \in AllSlots /\ i # 0 /\ 0 \in AllSlots /\ TypeOK /\ pc \in Pcs /\ pc[i] = "dying"
      /\ flags \in FlagSets /\ max_nsp \in AllSlots
  BY TheSlots DEF NspDead, SlotInv, TypeOK, Pcs, FlagSets
<1>2. /\ flags' = [flags EXCEPT ![i] = {}]
      /\ max_nsp' = IF i # max_nsp THEN max_nsp
                    ELSE CHOOSE j \in below \cup {0} : \A k \in below : k <= j
      /\ pc' = [(IF nsps_to_invoke # 0 THEN wakeup_nsp_forker ELSE pc) EXCEPT ![i] = "none"]
      /\ UNCHANGED <<queueVars, serving, countVars, nsp_first_try, forking_nsp, fork,
                     timer, sched, kill, sigVars, status, left>>
  BY DEF NspDead
<1>3. /\ pc' \in Pcs
      /\ \A j \in Slots : pc'[j] = IF j = i THEN "none" ELSE pc[j]
      /\ pc'[0] = pc[0] \/ (pc[0] = "asleep" /\ pc'[0] = "ready")
      /\ \A j \in AllSlots : pc'[j] \in OnCpu => pc[j] \in OnCpu
  <2> DEFINE p == IF nsps_to_invoke # 0 THEN wakeup_nsp_forker ELSE pc
  <2>1. Wakes(p) /\ \A j \in Slots : p[j] = pc[j]
    BY <1>1, WokenWakes
  <2>2. pc' = [p EXCEPT ![i] = "none"]
    BY <1>2
  <2> HIDE DEF p
  <2>3. pc' \in Pcs /\ \A j \in AllSlots : pc'[j] = IF j = i THEN "none" ELSE p[j]
    BY <1>1, <2>1, <2>2 DEF Wakes, Pcs, Labels
  <2>4. "ready" \notin OnCpu /\ "none" \notin OnCpu
    BY DEF OnCpu
  <2> QED
    BY <1>1, <2>1, <2>3, <2>4, TheSlots DEF Wakes
<1>4. /\ flags' \in FlagSets
      /\ \A j \in Slots : flags'[j] = IF j = i THEN {} ELSE flags[j]
  BY <1>1, <1>2, TheSlots DEF FlagSets
<1>5. OneRuns'
  BY <1>1, <1>2, <1>3, OneRunsStep DEF SlotInv
<1>6. Where'
  <2>1. i \notin timer
    BY <1>1 DEF SlotInv, Where
  <2> QED
    BY <1>2, <1>3, <1>4, <2>1 DEF SlotInv, Where
<1>7. max_nsp' \in AllSlots /\ (\A j \in Valid \ {i} : j <= max_nsp')
  <2>1. \A j \in Valid : j \in Slots /\ j <= max_nsp
    BY DEF SlotInv, Table, Valid
  <2>2. CASE i # max_nsp
    BY <1>1, <1>2, <2>1, <2>2
  <2>3. CASE i = max_nsp
    <3>1. below \cup {0} \subseteq AllSlots /\ below \subseteq Int
      BY <1>1, TheSlots DEF AllSlots, Slots
    <3>2. \E j \in below \cup {0} : \A k \in below : k <= j
      BY <3>1, LargestSlot
    <3>3. max_nsp' \in below \cup {0} /\ \A k \in below : k <= max_nsp'
      BY <1>2, <2>3, <3>2
    <3>4. \A j \in Valid \ {i} : j \in below
      BY <2>1, <2>3, TheSlots DEF Slots, Valid
    <3> QED
      BY <3>1, <3>3, <3>4
  <2> QED
    BY <2>2, <2>3
<1>8. Table'
  <2>1. Living' = Living /\ Valid' = Valid \ {i}
    BY <1>1, <1>3, <1>4 DEF Living, Valid
  <2>2. pc[0] = "newproc" => fork.slot \in Slots /\ pc[fork.slot] = "reserved" /\ fork.slot # i
    BY <1>1 DEF SlotInv, Table
  <2>3. pc[0] = "newproc" => pc'[fork.slot] = "reserved"
    BY <1>3, <2>2
  <2>4. i \notin Valid'
    BY <2>1
  <2>5. pc'[0] \in {"getpid", "newproc"} => pc'[0] = pc[0]
    BY <1>3
  <2> QED
    BY <1>2, <1>7, <2>1, <2>2, <2>3, <2>4, <2>5 DEF SlotInv, Table, countVars
<1>9. TypeOK'
  BY <1>1, <1>2, <1>3, <1>4, <1>7 DEF TypeOK, Pcs, FlagSets, queueVars, countVars, sigVars
<1> QED
  BY <1>5, <1>6, <1>8, <1>9 DEF SlotInv

(* A request takes long: nsptimeout().                                     *)
LEMMA TimeoutSlots ==
  ASSUME SlotInv, NEW i \in Slots, nsptimeout(i)
  PROVE  SlotInv'
<1>1. /\ i \in AllSlots /\ TypeOK /\ pc \in Pcs /\ flags \in FlagSets
  BY TheSlots DEF SlotInv, TypeOK, Pcs, FlagSets
<1>2. /\ timer' = timer \ {i}
      /\ UNCHANGED <<queueVars, serving, num_nsps, free_nsps, nsps_started, slotVars,
                     sched, kill, sigVars, status, left>>
  BY DEF nsptimeout
<1>3. \/ UNCHANGED <<flags, nsps_to_invoke, pc>>
      \/ /\ flags' = [flags EXCEPT ![i] = @ \cup {"TIMED_OUT"}] /\ pc' = wakeup_nsp_forker
         /\ nsps_to_invoke' = nsps_to_invoke + 1
  BY DEF nsptimeout, Set
<1>4. /\ Wakes(pc') /\ flags' \in FlagSets /\ nsps_to_invoke' \in Int
      /\ \A j \in Slots : /\ "VALID" \in flags'[j] <=> "VALID" \in flags[j]
                          /\ "TIMED_OUT" \in flags[j] => "TIMED_OUT" \in flags'[j]
  <2>1. CASE UNCHANGED <<flags, nsps_to_invoke, pc>>
    BY <1>1, <2>1, WokenWakes DEF TypeOK
  <2>2. CASE /\ flags' = [flags EXCEPT ![i] = @ \cup {"TIMED_OUT"}] /\ pc' = wakeup_nsp_forker
             /\ nsps_to_invoke' = nsps_to_invoke + 1
    <3>1. Wakes(pc') /\ nsps_to_invoke' \in Int
      BY <1>1, <2>2, WokenWakes DEF TypeOK
    <3>2. /\ flags' \in FlagSets
          /\ \A j \in AllSlots : flags'[j] = IF j = i THEN flags[j] \cup {"TIMED_OUT"} ELSE flags[j]
      BY <1>1, <2>2 DEF FlagSets, Flags
    <3> QED
      BY <3>1, <3>2, TheSlots
  <2> QED
    BY <1>3, <2>1, <2>2
<1>5. OneRuns' /\ Where' /\ Table'
  BY <1>2, <1>4, WakesSlots DEF slotVars
<1>6. TypeOK'
  BY <1>1, <1>2, <1>4, <1>5 DEF TypeOK, Wakes, Pcs, FlagSets, queueVars, slotVars, sigVars
<1> QED
  BY <1>5, <1>6 DEF SlotInv

(* A step of the limited NSP by itself.                                    *)
LEMMA LimitedSlots ==
  ASSUME SlotInv, NEW l \in {"asleep", "loop", "exec", "getpid"},
         pc[0] \in OnCpu \/ CpuFree, pc[0] # "newproc",
         pc' = [pc EXCEPT ![0] = l], flags' \in FlagSets,
         \A j \in Slots : flags'[j] = flags[j],
         l = "getpid" => num_nsps < ngcsp,
         UNCHANGED <<num_nsps, max_nsp, timer, kill>>
  PROVE  pc' \in Pcs /\ OneRuns' /\ Where' /\ Table'
<1>1. 0 \in AllSlots /\ pc \in Pcs /\ (\A j \in Slots : j \in AllSlots /\ j # 0)
  BY TheSlots DEF SlotInv, TypeOK, Pcs
<1>2. /\ pc' \in Pcs /\ pc'[0] = l
      /\ \A j \in AllSlots : j # 0 => pc'[j] = pc[j]
  BY <1>1 DEF Pcs, Labels, OnCpu
<1>3. OneRuns'
  BY <1>1, <1>2, OneRunsStep DEF SlotInv
<1>4. Where'
  BY <1>1, <1>2 DEF SlotInv, Where
<1>5. Living' = Living /\ Valid' = Valid
  BY <1>1, <1>2 DEF Living, Valid
<1>6. \A j \in Slots : pc[j] # "dying"
  BY <1>1 DEF SlotInv, OneRuns, CpuFree, OnCpu
<1>7. l = "getpid" => Valid # Slots
  BY <1>6, RoomLeft
<1>8. Table'
  BY <1>2, <1>5, <1>7 DEF SlotInv, Table
<1> QED
  BY <1>2, <1>3, <1>4, <1>8

(* The limited NSP serves, or goes to sleep.                               *)
LEMMA LnspSlots ==
  ASSUME SlotInv, LnspTakes \/ LnspDone \/ LnspSleeps
  PROVE  SlotInv'
<1>1. /\ 0 \in AllSlots /\ flags \in FlagSets /\ TypeOK /\ "BUSY" \in Flags
      /\ \A j \in Slots : j \in AllSlots /\ j # 0
  BY TheSlots DEF SlotInv, TypeOK, FlagSets, Flags
<1>2. CASE LnspTakes
  <2>1. pc[0] \in {"ready", "loop"} /\ (pc[0] \in OnCpu \/ CpuFree)
    BY <1>1, <1>2, LoopRuns DEF LnspTakes
  <2>2. /\ flags' = Set(0, "BUSY") /\ pc' = [pc EXCEPT ![0] = "exec"]
        /\ limited # <<>> /\ serving' = [serving EXCEPT ![0] = Head(limited)]
        /\ limited' = Tail(limited) /\ fork' = [fork EXCEPT !.couldnt = 0]
        /\ UNCHANGED <<general, countVars, nsp_first_try, max_nsp, forking_nsp, timer,
                       sched, kill, sigVars, status, left>>
    BY <1>2 DEF LnspTakes
  <2>3. flags' \in FlagSets /\ \A j \in Slots : flags'[j] = flags[j]
    BY <1>1, <2>2 DEF Set, FlagSets
  <2>4. pc' \in Pcs /\ OneRuns' /\ Where' /\ Table'
    BY <2>1, <2>2, <2>3, LimitedSlots DEF countVars
  <2>5. limited' \in Seq(Reqs) /\ serving' \in [AllSlots -> Reqs \cup {NoReq}]
    <3>1. limited \in Seq(Reqs) /\ serving \in [AllSlots -> Reqs \cup {NoReq}]
      BY <1>1 DEF TypeOK
    <3>2. Head(limited) \in Reqs /\ Tail(limited) \in Seq(Reqs)
      BY <2>2, <3>1, HeadTailProperties
    <3> QED
      BY <1>1, <2>2, <3>1, <3>2
  <2>6. fork' \in [couldnt : Int, slot : AllSlots, saved : AllSlots]
    <3>1. fork \in [couldnt : Int, slot : AllSlots, saved : AllSlots]
      BY <1>1 DEF TypeOK
    <3>2. fork' = [fork EXCEPT !.couldnt = 0]
      BY <2>2
    <3> QED
      BY <3>1, <3>2
  <2>7. TypeOK'
    BY <1>1, <2>2, <2>3, <2>4, <2>5, <2>6 DEF TypeOK, Pcs, FlagSets, countVars, sigVars
  <2> QED
    BY <2>4, <2>7 DEF SlotInv
<1>3. CASE LnspDone
  <2>1. pc[0] = "exec" /\ CpuFree
    BY <1>3 DEF LnspDone
  <2>2. /\ pc' = [pc EXCEPT ![0] = "loop"] /\ serving' = [serving EXCEPT ![0] = NoReq]
        /\ acked' \subseteq acked /\ sigpending' \subseteq sigpending
        /\ UNCHANGED <<queueVars, flags, countVars, slotVars, timer, sched, kill, psig,
                       status, left>>
    BY <1>3 DEF LnspDone
  <2>3. pc' \in Pcs /\ OneRuns' /\ Where' /\ Table'
    BY <1>1, <2>1, <2>2, LimitedSlots DEF countVars, slotVars
  <2>4. TypeOK'
    BY <1>1, <2>2, <2>3 DEF TypeOK, Pcs, queueVars, countVars, slotVars
  <2> QED
    BY <2>3, <2>4 DEF SlotInv
<1>4. CASE LnspSleeps
  <2>1. pc[0] \in {"ready", "loop"} /\ (pc[0] \in OnCpu \/ CpuFree)
    BY <1>1, <1>4, LoopRuns DEF LnspSleeps
  <2>2. /\ flags' = Clear(0, "BUSY") /\ pc' = [pc EXCEPT ![0] = "asleep"]
        /\ fork' = [fork EXCEPT !.couldnt = 0]
        /\ UNCHANGED <<queueVars, serving, countVars, nsp_first_try, max_nsp,
                       forking_nsp, timer, sched, kill, sigVars, status, left>>
    BY <1>4 DEF LnspSleeps
  <2>3. flags' \in FlagSets /\ \A j \in Slots : flags'[j] = flags[j]
    BY <1>1, <2>2 DEF Clear, FlagSets
  <2>4. pc' \in Pcs /\ OneRuns' /\ Where' /\ Table'
    BY <2>1, <2>2, <2>3, LimitedSlots DEF countVars
  <2>5. fork' \in [couldnt : Int, slot : AllSlots, saved : AllSlots]
    <3>1. fork \in [couldnt : Int, slot : AllSlots, saved : AllSlots]
      BY <1>1 DEF TypeOK
    <3>2. fork' = [fork EXCEPT !.couldnt = 0]
      BY <2>2
    <3> QED
      BY <3>1, <3>2
  <2>6. TypeOK'
    BY <1>1, <2>2, <2>3, <2>4, <2>5 DEF TypeOK, Pcs, FlagSets, queueVars, countVars, sigVars
  <2> QED
    BY <2>4, <2>6 DEF SlotInv
<1> QED
  BY <1>2, <1>3, <1>4

(* ForkLoop() sets the variables that are the limited NSP's own.           *)
LEMMA ForkLoopTypes ==
  ASSUME NEW p, NEW todo \in Int, NEW error \in BOOLEAN, ForkLoop(p, todo, error)
  PROVE  /\ forking_nsp' \in {0, 1} /\ fork' \in [couldnt : Int, slot : AllSlots, saved : AllSlots]
         /\ \E l \in {"getpid", "loop"} : /\ pc' = [p EXCEPT ![0] = l]
                                          /\ l = "getpid" => num_nsps < ngcsp /\ ~error
<1> DEFINE more == todo > 0 /\ num_nsps < ngcsp /\ ~error
<1>1. /\ forking_nsp' = IF more THEN 1 ELSE 0
      /\ pc' = [p EXCEPT ![0] = IF more THEN "getpid" ELSE "loop"]
      /\ fork' = [couldnt |-> IF more THEN 0 ELSE todo, slot |-> 0, saved |-> 0]
  BY DEF ForkLoop, NoFork
<1>2. CASE more
  BY <1>1, <1>2, TheSlots
<1>3. CASE ~more
  BY <1>1, <1>3, TheSlots
<1> QED
  BY <1>2, <1>3

(* fork_nsps() begins, or could not get a process.                         *)
LEMMA LnspForksSlots ==
  ASSUME SlotInv, LnspForks \/ ForkNoProc
  PROVE  SlotInv'
<1>1. /\ 0 \in AllSlots /\ flags \in FlagSets /\ TypeOK /\ "BUSY" \in Flags
      /\ \A j \in Slots : j \in AllSlots /\ j # 0
      /\ nsps_to_invoke \in Int
  BY TheSlots DEF SlotInv, TypeOK, FlagSets, Flags
<1>2. /\ pc[0] \in {"ready", "loop", "getpid"} /\ (pc[0] \in OnCpu \/ CpuFree)
      /\ ForkLoop(pc, nsps_to_invoke, TRUE) \/ ForkLoop(pc, nsps_to_invoke, FALSE)
      /\ flags' = Clear(0, "BUSY") \/ flags' = flags
      /\ left' \in [kills : 0 .. MaxKills, fails : 0 .. MaxFails]
      /\ UNCHANGED <<queueVars, serving, countVars, nsp_first_try, max_nsp, timer,
                     sched, kill, sigVars, status>>
  <2>1. CASE LnspForks
    BY <1>1, <2>1, LoopRuns DEF LnspForks, TypeOK
  <2>2. CASE ForkNoProc
    <3>1. left \in [kills : 0 .. MaxKills, fails : 0 .. MaxFails] /\ MaxFails \in Nat
      BY <1>1, NspAssumption DEF TypeOK
    <3>2. left.fails > 0 /\ left' = [left EXCEPT !.fails = left.fails - 1]
      BY <2>2 DEF ForkNoProc, FailsOnce
    <3>3. left' \in [kills : 0 .. MaxKills, fails : 0 .. MaxFails]
      BY <3>1, <3>2
    <3> QED
      BY <2>2, <3>3 DEF ForkNoProc
  <2> QED
    BY <2>1, <2>2
<1>3. flags' \in FlagSets /\ \A j \in Slots : flags'[j] = flags[j]
  BY <1>1, <1>2 DEF Clear, FlagSets
<1>4. /\ forking_nsp' \in {0, 1} /\ fork' \in [couldnt : Int, slot : AllSlots, saved : AllSlots]
      /\ \E l \in {"getpid", "loop"} : pc' = [pc EXCEPT ![0] = l] /\ (l = "getpid" => num_nsps < ngcsp)
  <2>1. CASE ForkLoop(pc, nsps_to_invoke, TRUE)
    BY <1>1, <2>1, ForkLoopTypes
  <2>2. CASE ForkLoop(pc, nsps_to_invoke, FALSE)
    BY <1>1, <2>2, ForkLoopTypes
  <2> QED
    BY <1>2, <2>1, <2>2
<1>5. pc' \in Pcs /\ OneRuns' /\ Where' /\ Table'
  <2>1. PICK l \in {"getpid", "loop"} : pc' = [pc EXCEPT ![0] = l] /\ (l = "getpid" => num_nsps < ngcsp)
    BY <1>4
  <2> QED
    BY <1>2, <1>3, <2>1, LimitedSlots DEF countVars
<1>6. TypeOK'
  BY <1>1, <1>2, <1>3, <1>4, <1>5 DEF TypeOK, Pcs, FlagSets, queueVars, countVars, sigVars
<1> QED
  BY <1>5, <1>6 DEF SlotInv

(* A slot is reserved for a new NSP.                                       *)
LEMMA ForkReservesSlots ==
  ASSUME SlotInv, ForkReserves
  PROVE  SlotInv'
<1>1. /\ 0 \in AllSlots /\ flags \in FlagSets /\ TypeOK /\ pc \in Pcs
      /\ \A j \in Slots : j \in AllSlots /\ j # 0 /\ j \in Int
  BY TheSlots DEF SlotInv, TypeOK, FlagSets, Pcs
<1>2. PICK i \in Slots :
       /\ i <= max_nsp + 1 /\ "VALID" \notin flags[i]
       /\ flags' = [flags EXCEPT ![i] = {"BUSY", "VALID"}]
       /\ max_nsp' = IF i > max_nsp THEN i ELSE max_nsp
       /\ fork' = [fork EXCEPT !.slot = i, !.saved = max_nsp]
       /\ pc' = [pc EXCEPT ![0] = "newproc", ![i] = "reserved"]
  BY DEF ForkReserves
<1>3. /\ CpuFree /\ pc[0] = "getpid"
      /\ num_nsps' = num_nsps + 1 /\ nsps_to_invoke' = nsps_to_invoke - 1
      /\ UNCHANGED <<queueVars, serving, free_nsps, nsps_started, nsp_first_try,
                     forking_nsp, timer, sched, kill, sigVars, status, left>>
  BY DEF ForkReserves
<1>4. /\ pc' \in Pcs /\ pc'[0] = "newproc"
      /\ \A j \in Slots : pc'[j] = IF j = i THEN "reserved" ELSE pc[j]
  BY <1>1, <1>2 DEF Pcs, Labels
<1>5. /\ flags' \in FlagSets
      /\ \A j \in Slots : flags'[j] = IF j = i THEN {"BUSY", "VALID"} ELSE flags[j]
  BY <1>1, <1>2 DEF FlagSets, Flags
<1>6. pc[i] = "none" /\ i \notin timer
  BY <1>1, <1>2 DEF SlotInv, Where
<1>7. OneRuns'
  <2>1. \A j \in AllSlots : pc'[j] \notin OnCpu
    BY <1>3, <1>4, TheSlots DEF CpuFree, OnCpu
  <2> QED
    BY <1>3, <2>1 DEF OneRuns
<1>8. Where'
  <2>1. timer' = timer
    BY <1>3
  <2> QED
    BY <1>4, <1>5, <1>6, <2>1 DEF SlotInv, Where
<1>9. max_nsp \in AllSlots /\ max_nsp \in Int /\ max_nsp' \in AllSlots /\ fork' \in [couldnt : Int, slot : AllSlots, saved : AllSlots]
      /\ fork'.slot = i /\ fork'.saved = max_nsp
  <2>1. fork \in [couldnt : Int, slot : AllSlots, saved : AllSlots] /\ max_nsp \in AllSlots
    BY <1>1 DEF TypeOK
  <2>2. max_nsp \in Int
    BY <2>1, TheSlots
  <2>3. i \in AllSlots
    BY <1>1
  <2>4. fork' = [fork EXCEPT !.slot = i, !.saved = max_nsp] /\ (max_nsp' = i \/ max_nsp' = max_nsp)
    BY <1>2
  <2> QED
    BY <2>1, <2>2, <2>3, <2>4
<1>10. Table'
  <2>1. Living' = Living \cup {i} /\ i \notin Living /\ Valid' = Valid \cup {i} /\ i \notin Valid
    <3>1. \A j \in Slots : /\ pc'[j] \notin {"none", "dying"} <=> (pc[j] \notin {"none", "dying"} \/ j = i)
                           /\ "VALID" \in flags'[j] <=> ("VALID" \in flags[j] \/ j = i)
      BY <1>4, <1>5, <1>6
    <3>2. Living' = Living \cup {i} /\ Valid' = Valid \cup {i}
      BY <3>1 DEF Living, Valid
    <3>3. i \notin Living /\ i \notin Valid
      BY <1>2, <1>6 DEF Living, Valid
    <3> QED
      BY <3>2, <3>3
  <2>2. IsFiniteSet(Living) /\ num_nsps = Cardinality(Living)
    BY SlotSets DEF Living, SlotInv, Table
  <2>3. num_nsps' = Cardinality(Living')
    BY <1>3, <2>1, <2>2, FS_AddElement
  <2>4. \A j \in Valid : j <= max_nsp /\ j \in Int
    BY <1>1 DEF SlotInv, Table, Valid
  <2>5. \A j \in Valid' : j <= max_nsp'
    BY <1>1, <1>2, <1>9, <2>1, <2>4
  <2>6. \A j \in Valid' \ {fork'.slot} : j <= fork'.saved
    BY <1>9, <2>1, <2>4
  <2> QED
    BY <1>4, <1>9, <2>3, <2>5, <2>6 DEF Table
<1>11. TypeOK'
  <2>1. nsps_to_invoke' \in Int
    BY <1>1, <1>3 DEF TypeOK
  <2> QED
    BY <1>1, <1>3, <1>4, <1>5, <1>9, <1>10, <2>1, NumNsps DEF TypeOK, Pcs, FlagSets, queueVars, sigVars
<1> QED
  BY <1>7, <1>8, <1>10, <1>11 DEF SlotInv

(* newproc() fails, and the slot is given back.                            *)
LEMMA ForkBacksOutSlots ==
  ASSUME SlotInv, ForkBacksOut
  PROVE  SlotInv'
<1> DEFINE i == fork.slot
<1>1. /\ 0 \in AllSlots /\ flags \in FlagSets /\ TypeOK /\ pc \in Pcs
      /\ \A j \in Slots : j \in AllSlots /\ j # 0 /\ j \in Int
      /\ nsps_to_invoke + 1 \in Int
  BY TheSlots DEF SlotInv, TypeOK, FlagSets, Pcs
<1>2. /\ pc[0] = "newproc" /\ CpuFree /\ max_nsp' = fork.saved
      /\ num_nsps' = num_nsps - 1 /\ nsps_to_invoke' = nsps_to_invoke + 1
      /\ flags' = [flags EXCEPT ![i] = {}]
      /\ ForkLoop([pc EXCEPT ![i] = "none"], nsps_to_invoke + 1, TRUE)
      /\ UNCHANGED <<queueVars, serving, free_nsps, nsps_started, nsp_first_try,
                     timer, sched, kill, sigVars, status>>
  BY DEF ForkBacksOut
<1>3. /\ i \in Slots /\ pc[i] = "reserved" /\ fork.saved \in AllSlots
      /\ \A j \in Valid \ {i} : j <= fork.saved
  BY <1>1, <1>2 DEF SlotInv, Table, TypeOK
<1>4. left' \in [kills : 0 .. MaxKills, fails : 0 .. MaxFails]
  <2>1. left \in [kills : 0 .. MaxKills, fails : 0 .. MaxFails] /\ MaxFails \in Nat
    BY <1>1, NspAssumption DEF TypeOK
  <2>2. left.fails > 0 /\ left' = [left EXCEPT !.fails = left.fails - 1]
    BY DEF ForkBacksOut, FailsOnce
  <2> QED
    BY <2>1, <2>2
<1>5. /\ forking_nsp' \in {0, 1} /\ fork' \in [couldnt : Int, slot : AllSlots, saved : AllSlots]
      /\ pc' = [[pc EXCEPT ![i] = "none"] EXCEPT ![0] = "loop"]
  <2> HIDE DEF i
  <2> QED
    BY <1>1, <1>2, ForkLoopTypes
<1> HIDE DEF i
<1>6. /\ pc' \in Pcs /\ pc'[0] = "loop"
      /\ \A j \in Slots : pc'[j] = IF j = i THEN "none" ELSE pc[j]
  BY <1>1, <1>3, <1>5 DEF Pcs, Labels, OnCpu
<1>7. /\ flags' \in FlagSets
      /\ \A j \in Slots : flags'[j] = IF j = i THEN {} ELSE flags[j]
  BY <1>1, <1>2, <1>3 DEF FlagSets
<1>8. OneRuns'
  <2>1. \A j \in AllSlots : j # 0 => pc'[j] \notin OnCpu
    BY <1>2, <1>6, TheSlots DEF CpuFree, OnCpu
  <2>2. kill'.mode = "idle"
    BY <1>2 DEF CpuFree
  <2> QED
    BY <2>1, <2>2 DEF OneRuns
<1>9. Where'
  <2>1. timer' = timer /\ i \notin timer
    BY <1>2, <1>3 DEF SlotInv, Where
  <2> QED
    BY <1>6, <1>7, <2>1 DEF SlotInv, Where
<1>10. Table'
  <2>1. Living' = Living \ {i} /\ i \in Living /\ Valid' = Valid \ {i}
    BY <1>3, <1>6, <1>7 DEF Living, Valid
  <2>2. IsFiniteSet(Living) /\ num_nsps = Cardinality(Living)
    BY SlotSets DEF Living, SlotInv, Table
  <2>3. num_nsps' = Cardinality(Living')
    BY <1>2, <2>1, <2>2, FS_RemoveElement
  <2>4. \A j \in Valid' : j <= max_nsp'
    BY <1>2, <1>3, <2>1
  <2> QED
    BY <1>6, <2>3, <2>4 DEF Table
<1>11. TypeOK'
  BY <1>1, <1>2, <1>3, <1>4, <1>5, <1>6, <1>7, <1>10, NumNsps DEF TypeOK, Pcs, FlagSets, queueVars, sigVars
<1> QED
  BY <1>8, <1>9, <1>10, <1>11 DEF SlotInv

(* The new NSP is there.                                                   *)
LEMMA ForkDoneSlots ==
  ASSUME SlotInv, ForkDone
  PROVE  SlotInv'
<1> DEFINE i == fork.slot
<1>1. /\ 0 \in AllSlots /\ TypeOK /\ pc \in Pcs
      /\ \A j \in Slots : j \in AllSlots /\ j # 0 /\ j \in Int
      /\ nsps_to_invoke \in Int
  BY TheSlots DEF SlotInv, TypeOK, FlagSets, Pcs
<1>2. /\ pc[0] = "newproc" /\ CpuFree
      /\ ForkLoop([pc EXCEPT ![i] = "ready"], nsps_to_invoke, FALSE)
      /\ UNCHANGED <<queueVars, flags, serving, countVars, nsp_first_try, max_nsp,
                     timer, sched, kill, sigVars, status, left>>
  BY DEF ForkDone
<1>3. i \in Slots /\ pc[i] = "reserved"
  BY <1>2 DEF SlotInv, Table
<1>4. /\ forking_nsp' \in {0, 1} /\ fork' \in [couldnt : Int, slot : AllSlots, saved : AllSlots]
      /\ \E l \in {"getpid", "loop"} : /\ pc' = [[pc EXCEPT ![i] = "ready"] EXCEPT ![0] = l]
                                       /\ l = "getpid" => num_nsps < ngcsp
  <2> HIDE DEF i
  <2> QED
    BY <1>1, <1>2, ForkLoopTypes
<1> HIDE DEF i
<1>5. PICK l \in {"getpid", "loop"} : /\ pc' = [[pc EXCEPT ![i] = "ready"] EXCEPT ![0] = l]
                                      /\ l = "getpid" => num_nsps < ngcsp
  BY <1>4
<1>6. /\ pc' \in Pcs /\ pc'[0] = l
      /\ \A j \in Slots : pc'[j] = IF j = i THEN "ready" ELSE pc[j]
  BY <1>1, <1>3, <1>5 DEF Pcs, Labels, OnCpu
<1>7. OneRuns'
  <2>1. \A j \in AllSlots : j # 0 => pc'[j] \notin OnCpu
    BY <1>2, <1>6, TheSlots DEF CpuFree, OnCpu
  <2>2. kill'.mode = "idle"
    BY <1>2 DEF CpuFree
  <2> QED
    BY <2>1, <2>2 DEF OneRuns
<1>8. Where'
  <2>1. timer' = timer /\ i \notin timer /\ flags' = flags
    BY <1>2, <1>3 DEF SlotInv, Where
  <2> QED
    BY <1>3, <1>6, <2>1 DEF SlotInv, Where
<1>9. Table'
  <2>1. Living' = Living /\ Valid' = Valid
    BY <1>2, <1>3, <1>6 DEF Living, Valid
  <2>2. \A j \in Slots : pc[j] # "dying"
    BY <1>1, <1>2 DEF CpuFree, OnCpu
  <2>3. l = "getpid" => Valid # Slots
    BY <1>5, <2>2, RoomLeft
  <2>4. num_nsps' = num_nsps /\ max_nsp' = max_nsp
    BY <1>2 DEF countVars
  <2> QED
    BY <1>6, <2>1, <2>3, <2>4 DEF SlotInv, Table
<1>10. TypeOK'
  BY <1>1, <1>2, <1>4, <1>6 DEF TypeOK, Pcs, queueVars, countVars, sigVars
<1> QED
  BY <1>7, <1>8, <1>9, <1>10 DEF SlotInv

(* What no_nsp() leaves of a queue: requests of other sites, each from a   *)
(* place of its own in the queue.                                          *)
LEMMA KeptIs ==
  ASSUME NEW q \in Seq(Reqs), NEW s
  PROVE  /\ Kept(q, s) \in Seq(Reqs)
         /\ Queued(Kept(q, s)) \subseteq {r \in Queued(q) : Source[r] # s}
         /\ Once(q) => Once(Kept(q, s))
<1> DEFINE keep == {k \in DOMAIN q : Source[q[k]] # s}
           upto(k) == {j \in keep : j <= k}
           rank == [k \in keep |-> Cardinality(upto(k))]
           m == Cardinality(keep)
           nth(n) == CHOOSE k \in keep : Cardinality(upto(k)) = n
           out == [n \in 1 .. m |-> q[nth(n)]]
<1>1. /\ DOMAIN q = 1 .. Len(q) /\ Len(q) \in Nat /\ (\A k \in DOMAIN q : q[k] \in Reqs)
      /\ \A k \in keep : k \in Nat
  BY LenProperties, ElementOfSeq
<1>2. IsFiniteSet(keep) /\ m \in Nat
  <2>1. IsFiniteSet(1 .. Len(q))
    BY <1>1, FS_Interval
  <2>2. keep \in SUBSET (1 .. Len(q))
    BY <1>1
  <2> HIDE DEF keep
  <2> QED
    BY <2>1, <2>2, FS_Subset, FS_CardinalityType
<1>3. Kept(q, s) = out
  BY DEF Kept
<1>4. ASSUME NEW k \in keep PROVE Cardinality(upto(k)) \in 1 .. m
  <2>1. upto(k) \in SUBSET keep /\ k \in upto(k)
    BY <1>1
  <2> HIDE DEF keep, upto
  <2>2. IsFiniteSet(upto(k)) /\ Cardinality(upto(k)) <= m /\ Cardinality(upto(k)) \in Nat
    BY <1>2, <2>1, FS_Subset, FS_CardinalityType
  <2>3. Cardinality(upto(k)) # 0
    BY <2>1, <2>2, FS_EmptySet
  <2> QED
    BY <1>2, <2>2, <2>3
<1>5. ASSUME NEW k \in keep, NEW l \in keep, k < l PROVE Cardinality(upto(k)) < Cardinality(upto(l))
  <2>1. upto(k) \in SUBSET upto(l) /\ l \in upto(l) /\ l \notin upto(k) /\ upto(l) \in SUBSET keep
    BY <1>1, <1>5
  <2>2. Cardinality(upto(k)) \in Nat /\ Cardinality(upto(l)) \in Nat
    <3> HIDE DEF keep, upto, m
    <3> QED
      BY <1>2, <1>4
  <2> HIDE DEF keep, upto
  <2>3. IsFiniteSet(upto(l))
    BY <1>2, <2>1, FS_Subset
  <2>4. upto(k) # upto(l)
    BY <2>1
  <2> QED
    BY <2>1, <2>2, <2>3, <2>4, FS_Subset
<1>6. ASSUME NEW k \in keep, NEW l \in keep, Cardinality(upto(k)) = Cardinality(upto(l)) PROVE k = l
  <2>1. k \in Nat /\ l \in Nat /\ Cardinality(upto(k)) \in Nat /\ Cardinality(upto(l)) \in Nat
    <3>1. k \in Nat /\ l \in Nat
      BY <1>1
    <3> HIDE DEF keep, upto, m
    <3> QED
      BY <1>2, <1>4, <3>1
  <2>2. ~(k < l) /\ ~(l < k)
    <3> HIDE DEF keep, upto
    <3> QED
      BY <1>5, <1>6, <2>1
  <2> QED
    BY <2>1, <2>2
<1>7. \A n \in 1 .. m : \E k \in keep : Cardinality(upto(k)) = n
  <2>1. rank \in Injection(keep, 1 .. m)
    <3> HIDE DEF keep, upto, m
    <3> QED
      BY <1>4, <1>6 DEF Injection, IsInjective
  <2>2. IsFiniteSet(1 .. m) /\ Cardinality(1 .. m) = m
    BY <1>2, FS_Interval
  <2>3. rank \in Surjection(keep, 1 .. m)
    <3> HIDE DEF keep, rank
    <3> QED
      BY <2>1, <2>2, FS_Injection
  <2>4. \A n \in 1 .. m : \E k \in keep : rank[k] = n
    <3> HIDE DEF keep, rank, m
    <3> QED
      BY <2>3 DEF Surjection
  <2> QED
    BY <2>4
<1>8. \A n \in 1 .. m : nth(n) \in keep /\ Cardinality(upto(nth(n))) = n
  <2> HIDE DEF keep, upto, m
  <2> QED
    BY <1>7
<1>9. \A n \in 1 .. m : out[n] = q[nth(n)] /\ nth(n) \in DOMAIN q /\ Source[q[nth(n)]] # s /\ q[nth(n)] \in Reqs
  <2> HIDE DEF m, nth
  <2> QED
    BY <1>1, <1>8
<1>10. out \in Seq(Reqs) /\ Len(out) = m /\ DOMAIN out = 1 .. m
  <2>1. out \in [1 .. m -> Reqs] /\ DOMAIN out = 1 .. m
    <3> HIDE DEF m, nth
    <3> QED
      BY <1>9
  <2> HIDE DEF out, m
  <2>2. out \in Seq(Reqs)
    BY <1>2, <2>1, IsASeq
  <2> QED
    BY <1>2, <2>1, <2>2
<1>11. Queued(out) \subseteq {r \in Queued(q) : Source[r] # s}
  <2> HIDE DEF out, m, nth
  <2> QED
    BY <1>9, <1>10 DEF Queued
<1>12. ASSUME Once(q), NEW a \in 1 .. Len(out), NEW b \in 1 .. Len(out), out[a] = out[b]
       PROVE  a = b
  <2>1. a \in 1 .. m /\ b \in 1 .. m
    BY <1>10
  <2> HIDE DEF keep, upto, m, nth
  <2>2. nth(a) \in 1 .. Len(q) /\ nth(b) \in 1 .. Len(q) /\ q[nth(a)] = q[nth(b)]
    BY <1>1, <1>9, <1>12, <2>1
  <2>3. nth(a) = nth(b)
    BY <1>12, <2>2 DEF Once
  <2> QED
    BY <1>8, <2>1, <2>3
<1>13. Once(q) => Once(out)
  <2> HIDE DEF out
  <2> QED
    BY <1>12 DEF Once
<1> QED
  BY <1>3, <1>10, <1>11, <1>13

(* How many NSPs csp(1M) may ask for.                                      *)
LEMMA WantedIs ==
  ASSUME NEW n \in AllSlots
  PROVE  Wanted(n) \in AllSlots /\ Wanted(n) \in Int
  BY TheSlots DEF Wanted, AllSlots

(* nsp_init() has more NSPs forked ...                                     *)
LEMMA StartSlots ==
  ASSUME SlotInv, NEW n \in AllSlots, StartNsps(n)
  PROVE  SlotInv'
<1>1. TypeOK /\ pc \in Pcs /\ nsps_to_invoke \in Int /\ nsps_started \in Int
  BY TheSlots DEF SlotInv, TypeOK, Pcs
<1>2. /\ nsps_to_invoke' = nsps_to_invoke + Wanted(n) - nsps_started
      /\ nsps_started' = Wanted(n) /\ pc' = wakeup_nsp_forker
      /\ UNCHANGED <<queueVars, flags, serving, num_nsps, free_nsps, slotVars, timer,
                     sched, kill, sigVars, status, left>>
  BY DEF StartNsps
<1>3. Wakes(pc')
  BY <1>1, <1>2, WokenWakes
<1>4. OneRuns' /\ Where' /\ Table'
  BY <1>1, <1>2, <1>3, WakesSlots DEF slotVars, TypeOK, FlagSets
<1>5. nsps_started' \in AllSlots /\ nsps_to_invoke' \in Int
  BY <1>1, <1>2, WantedIs
<1>6. TypeOK'
  BY <1>1, <1>2, <1>3, <1>5 DEF TypeOK, Wakes, Pcs, queueVars, slotVars, sigVars
<1> QED
  BY <1>4, <1>6 DEF SlotInv

(* ... or gives up some, and has others killed.                            *)
LEMMA KillSlots ==
  ASSUME SlotInv, NEW n \in AllSlots, KillNsps(n)
  PROVE  SlotInv'
<1> DEFINE count == nsps_started - Wanted(n)
           given == IF nsps_to_invoke >= count THEN count ELSE nsps_to_invoke
<1>1. TypeOK /\ nsps_to_invoke \in Int /\ nsps_started \in Int /\ Wanted(n) \in Int
  BY TheSlots, WantedIs DEF SlotInv, TypeOK
<1>2. /\ CpuFree /\ count > 0 /\ left.kills > 0 /\ left' = [left EXCEPT !.kills = left.kills - 1]
      /\ nsps_started' = Wanted(n) /\ nsps_to_invoke' = nsps_to_invoke - given
      /\ kill' = [mode |-> "scan", left |-> count - given, at |-> ngcsp, mp |-> <<>>]
      /\ UNCHANGED <<queueVars, flags, pc, serving, num_nsps, free_nsps, slotVars,
                     timer, sched, sigVars, status>>
  BY DEF KillNsps
<1>3. count - given \in Nat /\ nsps_to_invoke - given \in Int
  BY <1>1, <1>2
<1> HIDE DEF count, given
<1>4. kill' \in [mode : {"idle", "scan", "again"}, left : Nat, at : AllSlots, mp : Seq(Reqs)]
  <2>1. ngcsp \in AllSlots /\ <<>> \in Seq(Reqs)
    BY TheSlots, EmptySeq DEF AllSlots
  <2> QED
    BY <1>2, <1>3, <2>1
<1>5. left' \in [kills : 0 .. MaxKills, fails : 0 .. MaxFails]
  <2>1. left \in [kills : 0 .. MaxKills, fails : 0 .. MaxFails] /\ MaxKills \in Nat
    BY <1>1, NspAssumption DEF TypeOK
  <2> QED
    BY <1>2, <2>1
<1>6. nsps_started' \in AllSlots
  BY <1>2, WantedIs
<1>7. TypeOK'
  BY <1>1, <1>2, <1>3, <1>4, <1>5, <1>6 DEF TypeOK, queueVars, slotVars, sigVars
<1>8. OneRuns'
  BY <1>2 DEF OneRuns, CpuFree
<1>9. Where' /\ Table'
  BY <1>2 DEF SlotInv, Where, Table, Living, Valid, slotVars
<1> QED
  BY <1>7, <1>8, <1>9 DEF SlotInv

(* kill_nsps() marks an NSP for suicide, or passes over it.                *)
LEMMA KillMarksIs ==
  ASSUME SlotInv, KillMarks
  PROVE  /\ kill.mode = "scan" /\ kill.left \in Nat \ {0} /\ kill.at \in Slots
         /\ kill'.mode = "scan" /\ kill'.at = kill.at - 1 /\ kill'.mp = kill.mp /\ kill' \in Kills
         /\ UNCHANGED <<queueVars, serving, countVars, slotVars, timer, sched, sigVars,
                        status, left>>
         /\ flags' \in FlagSets /\ Wakes(pc')
         /\ \/ /\ "VALID" \in flags[kill.at] /\ "TIMED_OUT" \notin flags[kill.at]
               /\ kill'.left = kill.left - 1
               /\ \A j \in Slots : flags'[j] = IF j = kill.at THEN flags[j] \cup {"TIMED_OUT"} ELSE flags[j]
            \/ /\ ~("VALID" \in flags[kill.at] /\ "TIMED_OUT" \notin flags[kill.at])
               /\ kill'.left = kill.left /\ flags' = flags
<1>1. TypeOK /\ pc \in Pcs /\ flags \in FlagSets /\ kill \in Kills /\ (\A j \in Slots : j \in AllSlots)
  BY TheSlots DEF SlotInv, TypeOK, Pcs, FlagSets, Kills
<1>2. PICK i \in AllSlots : i = kill.at
  BY <1>1 DEF Kills
<1>3. /\ kill.mode = "scan" /\ kill.left > 0 /\ i > 0
      /\ UNCHANGED <<queueVars, serving, countVars, slotVars, timer, sched, sigVars,
                     status, left>>
  BY <1>2 DEF KillMarks
<1>4. i \in Slots /\ i - 1 \in AllSlots /\ kill.left \in Nat \ {0} /\ kill.left - 1 \in Nat
  BY <1>1, <1>3, TheSlots DEF AllSlots, Kills
<1>5. CASE "VALID" \in flags[i] /\ "TIMED_OUT" \notin flags[i]
  <2>1. /\ flags' = [flags EXCEPT ![i] = @ \cup {"TIMED_OUT"}]
        /\ pc' = IF "BUSY" \in flags[i] THEN pc ELSE Woken(i)
        /\ kill' = [kill EXCEPT !.at = i - 1, !.left = kill.left - 1]
    BY <1>2, <1>5 DEF KillMarks, Set
  <2>2. /\ flags' \in FlagSets
        /\ \A j \in AllSlots : flags'[j] = IF j = i THEN flags[j] \cup {"TIMED_OUT"} ELSE flags[j]
    BY <1>1, <1>2, <2>1 DEF FlagSets, Flags
  <2>3. Wakes(pc')
    BY <1>1, <1>2, <2>1, WokenWakes
  <2>4. kill' \in Kills /\ kill'.mode = kill.mode /\ kill'.at = i - 1 /\ kill'.mp = kill.mp /\ kill'.left = kill.left - 1
    BY <1>1, <1>4, <2>1 DEF Kills
  <2> QED
    BY <1>1, <1>2, <1>3, <1>4, <1>5, <2>2, <2>3, <2>4
<1>6. CASE ~("VALID" \in flags[i] /\ "TIMED_OUT" \notin flags[i])
  <2>1. kill' = [kill EXCEPT !.at = i - 1] /\ UNCHANGED <<flags, pc>>
    BY <1>2, <1>6 DEF KillMarks
  <2>2. kill' \in Kills /\ kill'.mode = kill.mode /\ kill'.at = i - 1 /\ kill'.mp = kill.mp /\ kill'.left = kill.left
    BY <1>1, <1>4, <2>1 DEF Kills
  <2> QED
    BY <1>1, <1>2, <1>3, <1>4, <1>6, <2>1, <2>2, WokenWakes
<1> QED
  BY <1>5, <1>6

(* kill_nsps() marks an NSP, or passes it by.                              *)
LEMMA KillMarksSlots ==
  ASSUME SlotInv, KillMarks
  PROVE  SlotInv'
<1>1. /\ kill.mode = "scan" /\ kill'.mode = "scan" /\ kill' \in Kills
      /\ UNCHANGED <<queueVars, serving, countVars, slotVars, timer, sched, sigVars, status, left>>
      /\ flags' \in FlagSets /\ Wakes(pc')
  BY KillMarksIs
<1>2. \A j \in Slots : /\ "VALID" \in flags'[j] <=> "VALID" \in flags[j]
                       /\ "TIMED_OUT" \in flags[j] => "TIMED_OUT" \in flags'[j]
  <2>1. CASE flags' = flags
    BY <2>1
  <2>2. CASE \A j \in Slots : flags'[j] = IF j = kill.at THEN flags[j] \cup {"TIMED_OUT"} ELSE flags[j]
    <3>1. ASSUME NEW j \in Slots
          PROVE  /\ "VALID" \in flags'[j] <=> "VALID" \in flags[j]
                 /\ "TIMED_OUT" \in flags[j] => "TIMED_OUT" \in flags'[j]
      <4>1. flags'[j] = flags[j] \cup {"TIMED_OUT"} \/ flags'[j] = flags[j]
        BY <2>2
      <4> QED
        BY <4>1
    <3> QED
      BY <3>1
  <2>3. \/ flags' = flags
        \/ \A j \in Slots : flags'[j] = IF j = kill.at THEN flags[j] \cup {"TIMED_OUT"} ELSE flags[j]
    BY KillMarksIs
  <2> QED
    BY <2>1, <2>2, <2>3
<1>3. OneRuns' /\ Where' /\ Table'
  BY <1>1, <1>2, WakesSlots DEF slotVars, countVars
<1>4. TypeOK'
  BY <1>1 DEF SlotInv, TypeOK, Wakes, Pcs, FlagSets, Kills, queueVars, countVars, slotVars, sigVars
<1> QED
  BY <1>3, <1>4 DEF SlotInv

(* Steps that leave the processes and the table alone.                     *)
LEMMA SameSlots ==
  ASSUME SlotInv, UNCHANGED <<flags, pc, serving, num_nsps, slotVars, timer>>,
         general' \in Seq(Reqs), limited' \in Seq(Reqs), free_nsps' \in Int,
         nsps_to_invoke' \in Int, nsps_started' \in AllSlots,
         sched' \in Scheds, kill' \in Kills, kill'.mode # "idle" => kill.mode # "idle",
         sigpending' \subseteq Reqs, psig' \subseteq Slots, acked' \subseteq Reqs,
         status' \in [Sites -> {"up", "failed", "inactive"}], left' = left
  PROVE  SlotInv'
<1>1. TypeOK'
  BY DEF SlotInv, TypeOK, Scheds, Kills, slotVars
<1>2. OneRuns' /\ Where' /\ Table'
  BY DEF SlotInv, OneRuns, Where, Table, Living, Valid, slotVars
<1> QED
  BY <1>1, <1>2 DEF SlotInv

(* A request arrives, or a search goes on.                                 *)
LEMMA ArrivesSlots ==
  ASSUME SlotInv, Arrives
  PROVE  SlotInv'
<1>1. TypeOK /\ Where /\ general \in Seq(Reqs) /\ limited \in Seq(Reqs) /\ free_nsps \in Int
  BY DEF SlotInv, TypeOK
<1>2. /\ Chosen /\ sched' \in Scheds /\ kill' \in Kills /\ kill'.mode = kill.mode
      /\ UNCHANGED <<serving, num_nsps, nsps_to_invoke, nsps_started, slotVars, timer,
                     status, left>>
  BY <1>1, ArrivalChooses
<1>3. /\ Wakes(pc') /\ flags' \in FlagSets
      /\ \A i \in AllSlots : \A f \in {"VALID", "TIMED_OUT"} : f \in flags'[i] <=> f \in flags[i]
  BY <1>1, <1>2, ChosenIs
<1>4. \A i \in Slots : /\ "VALID" \in flags'[i] <=> "VALID" \in flags[i]
                       /\ "TIMED_OUT" \in flags[i] => "TIMED_OUT" \in flags'[i]
  BY <1>3, TheSlots
<1>5. OneRuns' /\ Where' /\ Table'
  BY <1>2, <1>3, <1>4, WakesSlots DEF slotVars
<1>6. free_nsps' \in Int
  BY <1>1, <1>2 DEF Chosen
<1>7. /\ general' \in Seq(Reqs) /\ limited' \in Seq(Reqs)
      /\ sigpending' \subseteq sigpending /\ acked' \subseteq acked /\ psig' = psig
  <2>1. ASSUME NEW r \in Reqs, invoke_nsp(r, schedule_nsp) \/ invoke_nsp(r, ScheduleLow)
        PROVE  general' \in Seq(Reqs) /\ limited' \in Seq(Reqs)
    <3>1. \/ general' = Append(general, r) /\ UNCHANGED limited
          \/ limited' = Append(limited, r) /\ UNCHANGED general
          \/ UNCHANGED <<general, limited>>
      BY <1>1, <2>1, InvokeChooses
    <3>2. Append(general, r) \in Seq(Reqs) /\ Append(limited, r) \in Seq(Reqs)
      BY <1>1
    <3> QED
      BY <1>1, <3>1, <3>2
  <2>2. CASE \E r \in Reqs : RecvRequest(r) \/ LocalRequest(r)
    BY <2>1, <2>2 DEF RecvRequest, LocalRequest, sigVars
  <2>3. CASE ScheduleLowSearches
    BY <1>1, <2>3 DEF ScheduleLowSearches, queueVars, sigVars
  <2>4. CASE KillInvokes
    <3>1. invoke_nsp(Head(kill.mp), ScheduleLow) /\ kill.mp \in Seq(Reqs) /\ kill.mp # <<>>
      BY <1>1, <2>4 DEF KillInvokes, TypeOK
    <3>2. Head(kill.mp) \in Reqs
      BY <3>1, HeadTailProperties
    <3>3. /\ sigpending' \subseteq sigpending /\ acked' \subseteq acked /\ psig' = psig
      BY <2>4 DEF KillInvokes, sigVars
    <3> QED
      BY <2>1, <3>1, <3>2, <3>3
  <2> QED
    BY <2>2, <2>3, <2>4 DEF Arrives
<1>8. TypeOK'
  BY <1>1, <1>2, <1>3, <1>6, <1>7 DEF TypeOK, Wakes, Pcs, FlagSets, Scheds, Kills, slotVars
<1> QED
  BY <1>5, <1>8 DEF SlotInv

(* The other steps.                                                        *)
LEMMA OtherSlots ==
  ASSUME SlotInv,
         \/ KillMarked \/ KillReturns
         \/ \E r \in Reqs : signalnsp(r)
         \/ \E s \in Sites : SiteFails(s) \/ no_nsp(s) \/ SiteJoins(s)
         \/ UNCHANGED vars
  PROVE  SlotInv'
<1>1. /\ TypeOK /\ general \in Seq(Reqs) /\ limited \in Seq(Reqs) /\ <<>> \in Seq(Reqs)
      /\ free_nsps \in Int /\ nsps_to_invoke \in Int /\ nsps_started \in AllSlots
      /\ sched \in Scheds /\ kill \in Kills /\ kill.left \in Nat /\ 0 \in AllSlots
      /\ sigpending \subseteq Reqs /\ psig \subseteq Slots /\ acked \subseteq Reqs
      /\ status \in [Sites -> {"up", "failed", "inactive"}]
  BY TheSlots, EmptySeq DEF SlotInv, TypeOK, Scheds, Kills
<1>2. NoKill \in Kills
  BY <1>1 DEF NoKill, Kills
<1>3. CASE KillMarked
  <2>1. /\ kill.mode = "scan" /\ nsps_to_invoke' = nsps_to_invoke - kill.left
        /\ \/ kill' = NoKill /\ UNCHANGED general
           \/ /\ kill' = [mode |-> "again", left |-> 0, at |-> 0, mp |-> general]
              /\ general' = <<>>
        /\ UNCHANGED <<limited, flags, pc, serving, num_nsps, free_nsps, nsps_started,
                       slotVars, timer, sched, sigVars, status, left>>
    BY <1>3 DEF KillMarked
  <2>2. kill' \in Kills /\ general' \in Seq(Reqs) /\ nsps_to_invoke' \in Int
    <3>1. CASE kill' = NoKill /\ UNCHANGED general
      BY <1>1, <1>2, <2>1, <3>1
    <3>2. CASE /\ kill' = [mode |-> "again", left |-> 0, at |-> 0, mp |-> general]
               /\ general' = <<>>
      <4>1. kill' \in Kills
        BY <1>1, <3>2 DEF Kills
      <4>2. nsps_to_invoke' \in Int
        BY <1>1, <2>1
      <4> QED
        BY <1>1, <3>2, <4>1, <4>2
    <3> QED
      BY <2>1, <3>1, <3>2
  <2> QED
    BY <1>1, <2>1, <2>2, SameSlots DEF sigVars
<1>4. CASE KillReturns
  <2>1. /\ kill.mode = "again" /\ kill' = NoKill
        /\ UNCHANGED <<queueVars, flags, pc, serving, countVars, slotVars, timer, sched,
                       sigVars, status, left>>
    BY <1>4 DEF KillReturns
  <2> QED
    BY <1>1, <1>2, <2>1, SameSlots DEF queueVars, countVars, sigVars
<1>5. CASE \E r \in Reqs : signalnsp(r)
  <2>1. PICK r \in Reqs : signalnsp(r)
    BY <1>5
  <2>2. /\ acked' = acked \cup {r}
        /\ UNCHANGED <<queueVars, flags, pc, serving, countVars, slotVars, timer, sched,
                       kill, status, left>>
    BY <2>1 DEF signalnsp
  <2>3. psig' \subseteq Slots /\ sigpending' \subseteq Reqs
    <3>1. \A k \in DOMAIN general : general[k] \in Reqs
      BY <1>1, ElementOfSeq, LenProperties
    <3>2. \A i \in AllSlots : {i} \ {0} \subseteq Slots
      BY TheSlots
    <3>3. \/ (\E i \in AllSlots : psig' = psig \cup ({i} \ {0})) /\ sigpending' = sigpending
          \/ (\E k \in DOMAIN general : sigpending' = sigpending \cup {general[k]}) /\ psig' = psig
      BY <2>1 DEF signalnsp
    <3> QED
      BY <1>1, <3>1, <3>2, <3>3
  <2> QED
    BY <1>1, <2>2, <2>3, SameSlots DEF queueVars, countVars
<1>6. CASE \E s \in Sites : SiteFails(s) \/ SiteJoins(s)
  <2>1. PICK s \in Sites : SiteFails(s) \/ SiteJoins(s)
    BY <1>6
  <2>2. /\ status' \in [Sites -> {"up", "failed", "inactive"}]
        /\ UNCHANGED <<queueVars, flags, pc, serving, countVars, slotVars, timer, sched,
                       kill, sigVars, left>>
    BY <1>1, <2>1 DEF SiteFails, SiteJoins
  <2> QED
    BY <1>1, <2>2, SameSlots DEF queueVars, countVars, sigVars
<1>7. CASE \E s \in Sites : no_nsp(s)
  <2>1. PICK s \in Sites : no_nsp(s)
    BY <1>7
  <2> DEFINE busy == {i \in AllSlots : "BUSY" \in flags[i] /\ \E r \in Reqs : Source[r] = s /\ Shows(i, r)}
  <2>2. /\ psig' = psig \cup (busy \ {0})
        /\ general' = Kept(general, s) /\ limited' = Kept(limited, s)
        /\ sigpending' \subseteq sigpending /\ acked' \subseteq acked
        /\ UNCHANGED <<flags, pc, serving, countVars, slotVars, timer, sched, kill, left>>
    BY <2>1 DEF no_nsp
  <2>3. status' = [status EXCEPT ![s] = "inactive"] \/ status' = status
    BY <1>1, <2>1 DEF no_nsp
  <2>4. busy \ {0} \subseteq Slots
    BY TheSlots
  <2>5. general' \in Seq(Reqs) /\ limited' \in Seq(Reqs)
    BY <1>1, <2>2, KeptIs
  <2>6. status' \in [Sites -> {"up", "failed", "inactive"}]
    BY <1>1, <2>3
  <2> HIDE DEF busy
  <2> QED
    BY <1>1, <2>2, <2>4, <2>5, <2>6, SameSlots DEF countVars
<1>8. CASE UNCHANGED vars
  BY <1>1, <1>8, SameSlots DEF vars, slotVars
<1> QED
  BY <1>3, <1>4, <1>5, <1>6, <1>7, <1>8

(* What a step is.                                                         *)
LEMMA NextIs ==
  ASSUME [Next]_vars
  PROVE  \/ \E i \in Slots : NspStep(i)
         \/ \E i \in Slots : nsptimeout(i)
         \/ LnspStep
         \/ \E n \in AllSlots : StartNsps(n) \/ KillNsps(n)
         \/ KillMarks
         \/ Arrives
         \/ \/ KillMarked \/ KillReturns
            \/ \E r \in Reqs : signalnsp(r)
            \/ \E s \in Sites : SiteFails(s) \/ no_nsp(s) \/ SiteJoins(s)
            \/ UNCHANGED vars
  BY DEF Next, KillStep, Arrives, Spins

(* Types, and the table, in every step.                                    *)
LEMMA SlotInvStep ==
  ASSUME SlotInv, [Next]_vars
  PROVE  SlotInv'
<1>1. CASE \E i \in Slots : NspStep(i)
  <2>1. PICK i \in Slots : NspStep(i)
    BY <1>1
  <2> QED
    BY <2>1, NspStays, NspDiesSlots, NspDeadSlots DEF NspStep
<1>2. CASE LnspStep
  BY <1>2, LnspSlots, LnspForksSlots, ForkReservesSlots, ForkBacksOutSlots, ForkDoneSlots DEF LnspStep
<1>3. CASE \E n \in AllSlots : StartNsps(n) \/ KillNsps(n)
  BY <1>3, StartSlots, KillSlots
<1>4. CASE \E i \in Slots : nsptimeout(i)
  BY <1>4, TimeoutSlots
<1> QED
  BY <1>1, <1>2, <1>3, <1>4, NextIs, KillMarksSlots, ArrivesSlots, OtherSlots

-----------------------------------------------------------------------------
(* There are enough NSPs to kill.                                          *)

Stays(f, i) == "VALID" \in f[i] /\ "TIMED_OUT" \notin f[i]

(* The set of NSPs that are to stay, and their number.                     *)
LEMMA UnmarkedIs ==
  /\ Unmarked = {i \in Slots : Stays(flags, i)} /\ Unmarked' = {i \in Slots : Stays(flags', i)}
  /\ IsFiniteSet(Unmarked) /\ Cardinality(Unmarked) \in Nat
  /\ IsFiniteSet(Ahead) /\ Cardinality(Ahead) \in Nat
  /\ Ahead = {i \in Unmarked : i <= kill.at} /\ Ahead' = {i \in Unmarked' : i <= kill'.at}
<1>1. /\ Unmarked = {i \in Slots : Stays(flags, i)} /\ Unmarked' = {i \in Slots : Stays(flags', i)}
      /\ Ahead = {i \in Unmarked : i <= kill.at} /\ Ahead' = {i \in Unmarked' : i <= kill'.at}
  BY DEF Unmarked, Valid, Stays, Ahead
<1>2. Unmarked \in SUBSET Slots /\ Ahead \in SUBSET Slots
  BY <1>1
<1>3. \A S \in SUBSET Slots : IsFiniteSet(S) /\ Cardinality(S) \in Nat
  BY SlotSets, TheSlots
<1> QED
  BY <1>1, <1>2, <1>3

(* Nobody is marked or leaves.                                             *)
LEMMA EnoughSame ==
  ASSUME Enough, \A i \in Slots : Stays(flags', i) <=> Stays(flags, i),
         UNCHANGED <<nsps_to_invoke, nsps_started>>,
         kill'.mode = kill.mode, kill'.left = kill.left, kill'.at = kill.at
  PROVE  Enough'
<1>1. Unmarked' = Unmarked
  BY UnmarkedIs
<1>2. Ahead' = Ahead
  BY <1>1, UnmarkedIs
<1> QED
  BY <1>1, <1>2 DEF Enough

(* One more NSP that stays, and one less to be forked.                     *)
LEMMA EnoughMore ==
  ASSUME TypeOK, Enough, kill.mode = "idle", NEW i \in Slots, ~Stays(flags, i), Stays(flags', i),
         \A j \in Slots : j # i => (Stays(flags', j) <=> Stays(flags, j)),
         nsps_to_invoke' = nsps_to_invoke - 1, UNCHANGED <<nsps_started, kill>>
  PROVE  Enough'
<1>1. Unmarked' = Unmarked \cup {i} /\ i \notin Unmarked
  BY UnmarkedIs
<1>2. Cardinality(Unmarked') = Cardinality(Unmarked) + 1 /\ Cardinality(Unmarked) \in Nat
  BY <1>1, UnmarkedIs, FS_AddElement
<1>3. nsps_to_invoke \in Int /\ nsps_started \in Int
  BY TheSlots DEF TypeOK
<1> QED
  BY <1>2, <1>3 DEF Enough

(* One NSP less that stays, and one more to be forked.                     *)
LEMMA EnoughLess ==
  ASSUME TypeOK, Enough, NEW i \in Slots, ~Stays(flags', i),
         \A j \in Slots : j # i => (Stays(flags', j) <=> Stays(flags, j)),
         nsps_to_invoke' = nsps_to_invoke + 1, UNCHANGED <<nsps_started, kill>>
  PROVE  Enough'
<1>1. Unmarked' = Unmarked \ {i}
  BY UnmarkedIs
<1>2. Ahead' = Ahead \ {i}
  BY <1>1, UnmarkedIs
<1>3. /\ Cardinality(Unmarked') >= Cardinality(Unmarked) - 1 /\ Cardinality(Unmarked) \in Nat
      /\ Cardinality(Unmarked') \in Int
  <2>1. IsFiniteSet(Unmarked) /\ Cardinality(Unmarked) \in Nat
    BY UnmarkedIs
  <2>2. Cardinality(Unmarked \ {i}) = IF i \in Unmarked THEN Cardinality(Unmarked) - 1 ELSE Cardinality(Unmarked)
    BY <2>1, FS_RemoveElement
  <2> QED
    BY <1>1, <2>1, <2>2
<1>4. /\ Cardinality(Ahead') >= Cardinality(Ahead) - 1 /\ Cardinality(Ahead) \in Nat
      /\ Cardinality(Ahead') \in Int
  <2>1. IsFiniteSet(Ahead) /\ Cardinality(Ahead) \in Nat
    BY UnmarkedIs
  <2>2. Cardinality(Ahead \ {i}) = IF i \in Ahead THEN Cardinality(Ahead) - 1 ELSE Cardinality(Ahead)
    BY <2>1, FS_RemoveElement
  <2> QED
    BY <1>2, <2>1, <2>2
<1>5. nsps_to_invoke \in Int /\ nsps_started \in Int /\ kill.left \in Nat
  BY TheSlots DEF TypeOK
<1> QED
  BY <1>3, <1>4, <1>5 DEF Enough

(* A process that runs is alone: kill_nsps() is not under way.             *)
LEMMA RunsAlone ==
  ASSUME OneRuns, NEW i \in AllSlots, pc[i] \in OnCpu \/ CpuFree
  PROVE  kill.mode = "idle"
  BY DEF OneRuns, CpuFree

(* The steps of the general NSPs and their timeouts.                       *)
LEMMA NspEnough ==
  ASSUME SlotInv, Enough, NEW i \in Slots, NspStep(i) \/ nsptimeout(i)
  PROVE  Enough'
<1>1. /\ i \in AllSlots /\ flags \in FlagSets /\ TypeOK /\ OneRuns
      /\ \A j \in Slots : j \in AllSlots
  BY TheSlots DEF SlotInv, TypeOK, FlagSets
<1>2. CASE NspSleeps(i)
  <2>1. flags' = Clear(i, "BUSY") /\ UNCHANGED <<nsps_to_invoke, nsps_started, kill>>
    BY <1>2 DEF NspSleeps
  <2>2. \A j \in Slots : Stays(flags', j) <=> Stays(flags, j)
    BY <1>1, <2>1 DEF Stays, Clear, FlagSets
  <2> QED
    BY <2>1, <2>2, EnoughSame
<1>3. CASE NspRevives(i)
  <2>1. /\ flags' = Clear(i, "TIMED_OUT") /\ nsps_to_invoke' = nsps_to_invoke - 1
        /\ UNCHANGED <<nsps_started, kill>> /\ "TIMED_OUT" \in flags[i] /\ AtLoop(i)
    BY <1>3 DEF NspRevives
  <2>2. pc[i] \in {"ready", "loop"} /\ kill.mode = "idle"
    BY <1>1, <2>1, LoopRuns, RunsAlone
  <2>3. "VALID" \in flags[i]
    BY <2>2 DEF SlotInv, Where
  <2>4. ~Stays(flags, i) /\ Stays(flags', i) /\ \A j \in Slots : j # i => (Stays(flags', j) <=> Stays(flags, j))
    BY <1>1, <2>1, <2>3 DEF Stays, Clear, FlagSets
  <2> QED
    BY <1>1, <2>1, <2>2, <2>4, EnoughMore
<1>4. CASE NspDead(i)
  <2>1. /\ flags' = [flags EXCEPT ![i] = {}] /\ UNCHANGED <<nsps_to_invoke, nsps_started, kill>>
        /\ pc[i] = "dying"
    BY <1>4 DEF NspDead, countVars
  <2>2. "TIMED_OUT" \in flags[i]
    BY <2>1 DEF SlotInv, Where
  <2>3. \A j \in Slots : Stays(flags', j) <=> Stays(flags, j)
    BY <1>1, <2>1, <2>2 DEF Stays, FlagSets
  <2> QED
    BY <2>1, <2>3, EnoughSame
<1>5. CASE NspDies(i) \/ NspTakes(i) \/ NspArms(i) \/ NspCalls(i) \/ NspDone(i)
  <2>1. UNCHANGED <<flags, nsps_to_invoke, nsps_started, kill>>
    BY <1>5 DEF NspDies, NspTakes, NspArms, NspCalls, NspDone, countVars
  <2> QED
    BY <2>1, EnoughSame
<1>6. CASE nsptimeout(i)
  <2>1. CASE "TIMED_OUT" \in flags[i]
    <3>1. UNCHANGED <<flags, nsps_to_invoke, nsps_started, kill>>
      BY <1>6, <2>1 DEF nsptimeout
    <3> QED
      BY <3>1, EnoughSame
  <2>2. CASE "TIMED_OUT" \notin flags[i]
    <3>1. /\ flags' = Set(i, "TIMED_OUT") /\ nsps_to_invoke' = nsps_to_invoke + 1
          /\ UNCHANGED <<nsps_started, kill>>
      BY <1>6, <2>2 DEF nsptimeout
    <3>2. ~Stays(flags', i) /\ \A j \in Slots : j # i => (Stays(flags', j) <=> Stays(flags, j))
      BY <1>1, <3>1 DEF Stays, Set, FlagSets
    <3> QED
      BY <1>1, <3>1, <3>2, EnoughLess
  <2> QED
    BY <2>1, <2>2
<1> QED
  BY <1>2, <1>3, <1>4, <1>5, <1>6 DEF NspStep

(* The steps of the limited NSP.                                           *)
LEMMA LnspEnough ==
  ASSUME SlotInv, Enough, LnspStep
  PROVE  Enough'
<1>1. /\ 0 \in AllSlots /\ flags \in FlagSets /\ TypeOK
      /\ \A j \in Slots : j \in AllSlots /\ j # 0
  BY TheSlots DEF SlotInv, TypeOK, FlagSets
<1>2. CASE LnspTakes \/ LnspDone \/ LnspSleeps \/ LnspForks \/ ForkNoProc \/ ForkDone
  <2>1. /\ UNCHANGED <<nsps_to_invoke, nsps_started, kill>>
        /\ flags' = Set(0, "BUSY") \/ flags' = Clear(0, "BUSY") \/ flags' = flags
    BY <1>2 DEF LnspTakes, LnspDone, LnspSleeps, LnspForks, ForkNoProc, ForkDone, countVars
  <2>2. \A j \in Slots : flags'[j] = flags[j]
    BY <1>1, <2>1 DEF Set, Clear, FlagSets
  <2>3. \A j \in Slots : Stays(flags', j) <=> Stays(flags, j)
    BY <2>2 DEF Stays
  <2> QED
    BY <2>1, <2>3, EnoughSame
<1>3. CASE ForkReserves
  <2>1. PICK i \in Slots : "VALID" \notin flags[i] /\ flags' = [flags EXCEPT ![i] = {"BUSY", "VALID"}]
    BY <1>3 DEF ForkReserves
  <2>2. nsps_to_invoke' = nsps_to_invoke - 1 /\ UNCHANGED <<nsps_started, kill>> /\ kill.mode = "idle"
    BY <1>3 DEF ForkReserves, CpuFree
  <2>3. ~Stays(flags, i) /\ Stays(flags', i) /\ \A j \in Slots : j # i => (Stays(flags', j) <=> Stays(flags, j))
    BY <1>1, <2>1 DEF Stays, FlagSets
  <2> QED
    BY <1>1, <2>2, <2>3, EnoughMore
<1>4. CASE ForkBacksOut
  <2>1. /\ flags' = [flags EXCEPT ![fork.slot] = {}] /\ nsps_to_invoke' = nsps_to_invoke + 1
        /\ UNCHANGED <<nsps_started, kill>> /\ fork.slot \in Slots
    BY <1>4 DEF ForkBacksOut, SlotInv, Table
  <2>2. PICK i \in Slots : i = fork.slot
    BY <2>1
  <2>3. ~Stays(flags', i) /\ \A j \in Slots : j # i => (Stays(flags', j) <=> Stays(flags, j))
    BY <1>1, <2>1, <2>2 DEF Stays, FlagSets
  <2> QED
    BY <1>1, <2>1, <2>3, EnoughLess
<1> QED
  BY <1>2, <1>3, <1>4 DEF LnspStep

(* Starting and killing NSPs.                                              *)
LEMMA KillEnough ==
  ASSUME SlotInv, Enough,
         \/ \E n \in AllSlots : StartNsps(n) \/ KillNsps(n)
         \/ KillMarks \/ KillMarked \/ KillReturns
  PROVE  Enough'
<1>1. /\ flags \in FlagSets /\ TypeOK /\ nsps_to_invoke \in Int /\ nsps_started \in AllSlots
      /\ nsps_started \in Nat /\ kill.left \in Nat /\ kill.at \in AllSlots
      /\ \A j \in Slots : j \in AllSlots /\ j # 0 /\ j <= ngcsp
  BY TheSlots DEF SlotInv, TypeOK, FlagSets, Slots, AllSlots
<1>2. Cardinality(Unmarked) \in Nat /\ Cardinality(Ahead) \in Nat
  BY UnmarkedIs
<1>3. CASE \E n \in AllSlots : StartNsps(n)
  <2>1. PICK n \in AllSlots : StartNsps(n)
    BY <1>3
  <2>2. /\ nsps_to_invoke' = nsps_to_invoke + Wanted(n) - nsps_started
        /\ nsps_started' = Wanted(n) /\ UNCHANGED <<flags, kill>> /\ kill.mode = "idle"
    BY <2>1 DEF StartNsps, CpuFree
  <2>3. Unmarked' = Unmarked
    BY <2>2 DEF Unmarked, Valid
  <2>4. kill.left = 0 /\ nsps_started + kill.left <= Cardinality(Unmarked) + nsps_to_invoke
    BY <2>2 DEF Enough
  <2>5. Wanted(n) \in Int
    BY WantedIs
  <2>6. nsps_started' + kill.left <= Cardinality(Unmarked) + nsps_to_invoke'
    BY <1>1, <1>2, <2>2, <2>4, <2>5
  <2> QED
    BY <2>2, <2>3, <2>4, <2>6 DEF Enough
<1>4. CASE \E n \in AllSlots : KillNsps(n)
  <2>1. PICK n \in AllSlots : KillNsps(n)
    BY <1>4
  <2>2. PICK count \in Int : count = nsps_started - Wanted(n)
    BY <1>1, WantedIs
  <2>3. PICK given \in Int : given = IF nsps_to_invoke >= count THEN count ELSE nsps_to_invoke
    BY <1>1
  <2>4. /\ kill.mode = "idle" /\ count > 0 /\ flags' = flags
        /\ nsps_started' = Wanted(n) /\ nsps_to_invoke' = nsps_to_invoke - given
        /\ kill' = [mode |-> "scan", left |-> count - given, at |-> ngcsp, mp |-> <<>>]
    BY <2>1, <2>2, <2>3 DEF KillNsps, CpuFree
  <2>5. Unmarked' = Unmarked
    BY <2>4 DEF Unmarked, Valid
  <2>6. Ahead' = Unmarked
    BY <1>1, <2>4, <2>5, UnmarkedIs
  <2>7. kill.left = 0 /\ nsps_started + kill.left <= Cardinality(Unmarked) + nsps_to_invoke
    BY <2>4 DEF Enough
  <2>8. Wanted(n) \in Nat
    BY WantedIs DEF AllSlots
  <2>9. /\ nsps_started' + (count - given) <= Cardinality(Unmarked) + nsps_to_invoke'
        /\ count - given <= Cardinality(Unmarked) + nsps_to_invoke'
    <3>1. PICK u \in Nat, w \in Nat : u = Cardinality(Unmarked) /\ w = Wanted(n)
      BY <1>2, <2>8
    <3>2. nsps_started <= u + nsps_to_invoke /\ count = nsps_started - w
      BY <1>1, <2>2, <2>7, <3>1
    <3>3. /\ w + (count - given) <= u + (nsps_to_invoke - given)
          /\ count - given <= u + (nsps_to_invoke - given)
      BY <1>1, <2>3, <3>1, <3>2
    <3> QED
      BY <2>4, <3>1, <3>3
  <2> QED
    BY <2>4, <2>5, <2>6, <2>9 DEF Enough
<1>5. CASE KillMarks
  <2>1. /\ kill.mode = "scan" /\ kill'.mode = "scan" /\ kill.at \in Slots /\ kill'.at = kill.at - 1
        /\ kill.left \in Nat \ {0} /\ nsps_to_invoke' = nsps_to_invoke /\ nsps_started' = nsps_started
    BY <1>5, KillMarksIs DEF countVars
  <2>2. PICK i \in Slots : i = kill.at
    BY <2>1
  <2>3. i \in Int /\ \A j \in Slots : j \in Int
    BY TheSlots
  <2>4. CASE Stays(flags, i)
    <3>1. /\ kill'.left = kill.left - 1
          /\ \A j \in Slots : flags'[j] = IF j = i THEN flags[j] \cup {"TIMED_OUT"} ELSE flags[j]
      BY <1>5, <2>2, <2>4, KillMarksIs DEF Stays
    <3>2. ~Stays(flags', i) /\ \A j \in Slots : j # i => (Stays(flags', j) <=> Stays(flags, j))
      BY <3>1 DEF Stays
    <3>3. Unmarked' = Unmarked \ {i} /\ i \in Unmarked
      BY <2>4, <3>2, UnmarkedIs
    <3>4. Ahead' = Ahead \ {i} /\ i \in Ahead
      BY <2>1, <2>2, <2>3, <3>3, UnmarkedIs
    <3>5. Cardinality(Unmarked') = Cardinality(Unmarked) - 1 /\ Cardinality(Ahead') = Cardinality(Ahead) - 1
      <4>1. IsFiniteSet(Unmarked) /\ IsFiniteSet(Ahead)
        BY UnmarkedIs
      <4>2. Cardinality(Unmarked \ {i}) = Cardinality(Unmarked) - 1
        BY <3>3, <4>1, FS_RemoveElement
      <4>3. Cardinality(Ahead \ {i}) = Cardinality(Ahead) - 1
        BY <3>4, <4>1, FS_RemoveElement
      <4> QED
        BY <3>3, <3>4, <4>2, <4>3
    <3> QED
      BY <1>1, <1>2, <2>1, <3>1, <3>5 DEF Enough
  <2>5. CASE ~Stays(flags, i)
    <3>1. kill'.left = kill.left /\ flags' = flags
      BY <1>5, <2>2, <2>5, KillMarksIs DEF Stays
    <3>2. Unmarked' = Unmarked /\ i \notin Unmarked
      BY <2>5, <3>1, UnmarkedIs
    <3>3. Ahead' = Ahead
      BY <2>1, <2>2, <2>3, <3>2, UnmarkedIs
    <3> QED
      BY <2>1, <3>1, <3>2, <3>3 DEF Enough
  <2> QED
    BY <2>4, <2>5
<1>6. CASE KillMarked
  <2>1. /\ kill.mode = "scan" /\ nsps_to_invoke' = nsps_to_invoke - kill.left
        /\ kill'.left = 0 /\ kill'.mode # "scan" /\ UNCHANGED <<flags, nsps_started>>
    BY <1>6 DEF KillMarked, NoKill
  <2>2. Unmarked' = Unmarked
    BY <2>1 DEF Unmarked, Valid
  <2> QED
    BY <1>1, <1>2, <2>1, <2>2 DEF Enough
<1>7. CASE KillReturns
  <2>1. kill.mode = "again" /\ kill'.mode = "idle" /\ kill'.left = 0 /\ UNCHANGED <<flags, nsps_started, nsps_to_invoke>>
    BY <1>7 DEF KillReturns, NoKill, countVars
  <2>2. Unmarked' = Unmarked
    BY <2>1 DEF Unmarked, Valid
  <2> QED
    BY <1>1, <2>1, <2>2 DEF Enough
<1> QED
  BY <1>3, <1>4, <1>5, <1>6, <1>7

(* Enough NSPs, in every step.                                             *)
LEMMA EnoughStep ==
  ASSUME SlotInv, Enough, [Next]_vars
  PROVE  Enough'
<1>1. CASE Arrives
  <2>1. TypeOK /\ Where
    BY DEF SlotInv
  <2>2. /\ Chosen /\ UNCHANGED <<nsps_to_invoke, nsps_started>>
        /\ kill'.mode = kill.mode /\ kill'.left = kill.left /\ kill'.at = kill.at
    BY <1>1, <2>1, ArrivalChooses
  <2>3. \A i \in AllSlots : \A f \in {"VALID", "TIMED_OUT"} : f \in flags'[i] <=> f \in flags[i]
    BY <2>1, <2>2, ChosenIs
  <2>4. \A i \in Slots : Stays(flags', i) <=> Stays(flags, i)
    BY <2>3, TheSlots DEF Stays
  <2> QED
    BY <2>2, <2>4, EnoughSame
<1>2. CASE \/ \E r \in Reqs : signalnsp(r)
           \/ \E s \in Sites : SiteFails(s) \/ no_nsp(s) \/ SiteJoins(s)
           \/ UNCHANGED vars
  <2>1. UNCHANGED <<flags, kill, nsps_to_invoke, nsps_started>>
    BY <1>2 DEF signalnsp, SiteFails, no_nsp, SiteJoins, vars, countVars
  <2> QED
    BY <2>1, EnoughSame
<1> QED
  BY <1>1, <1>2, NextIs, NspEnough, LnspEnough, KillEnough

-----------------------------------------------------------------------------
(* Each request is in one place.                                           *)

(* The requests in the three queues, and those that NSPs serve.            *)
Apart(g, l, m, sv) ==
  /\ g \cap l = {} /\ g \cap m = {} /\ l \cap m = {}
  /\ \A i \in AllSlots : sv[i] \notin g /\ sv[i] \notin l /\ sv[i] \notin m
  /\ \A i, j \in AllSlots : sv[i] = sv[j] /\ i # j => sv[i] = NoReq

(* Places, in this state and the next, by the four places of a request.    *)
LEMMA PlacesIs ==
  /\ Places <=> /\ Once(general) /\ Once(limited) /\ Once(kill.mp)
                /\ Apart(Queued(general), Queued(limited), Queued(kill.mp), serving)
                /\ kill.mode # "again" => kill.mp = <<>>
  /\ Places' <=> /\ Once(general') /\ Once(limited') /\ Once(kill'.mp)
                 /\ Apart(Queued(general'), Queued(limited'), Queued(kill'.mp), serving')
                 /\ kill'.mode # "again" => kill'.mp = <<>>
<1>1. Places <=> /\ Once(general) /\ Once(limited) /\ Once(kill.mp)
                 /\ Apart(Queued(general), Queued(limited), Queued(kill.mp), serving)
                 /\ kill.mode # "again" => kill.mp = <<>>
  BY DEF Places, Apart
<1>2. Places' <=> /\ Once(general') /\ Once(limited') /\ Once(kill'.mp)
                  /\ Apart(Queued(general'), Queued(limited'), Queued(kill'.mp), serving')
                  /\ kill'.mode # "again" => kill'.mp = <<>>
  BY DEF Places, Apart, Once, Queued
<1> QED
  BY <1>1, <1>2

(* The empty queue, and what a queue holds.                                *)
LEMMA QueueHolds ==
  /\ Once(<<>>) /\ Queued(<<>>) = {}
  /\ \A q \in Seq(Reqs) : Queued(q) \subseteq Reqs /\ NoReq \notin Queued(q)
<1>1. Once(<<>>) /\ Queued(<<>>) = {}
  BY DEF Once, Queued
<1>2. \A q \in Seq(Reqs) : Queued(q) \subseteq Reqs
  BY LenProperties, ElementOfSeq DEF Queued
<1> QED
  BY <1>1, <1>2, NspAssumption

(* Taking the first request off a queue.                                   *)
LEMMA QueueTail ==
  ASSUME NEW q \in Seq(Reqs), q # <<>>, Once(q)
  PROVE  /\ Head(q) \in Reqs /\ Head(q) \in Queued(q) /\ Tail(q) \in Seq(Reqs) /\ Once(Tail(q))
         /\ Queued(Tail(q)) = Queued(q) \ {Head(q)}
<1>1. /\ Head(q) \in Reqs /\ Tail(q) \in Seq(Reqs) /\ Len(Tail(q)) = Len(q) - 1
      /\ \A i \in 1 .. Len(Tail(q)) : Tail(q)[i] = q[i + 1]
  BY HeadTailProperties
<1>2. /\ Len(q) \in Nat \ {0} /\ DOMAIN q = 1 .. Len(q) /\ DOMAIN Tail(q) = 1 .. Len(q) - 1
      /\ Head(q) = q[1]
  BY <1>1, EmptySeq, LenProperties
<1>3. \A i \in 1 .. Len(q) - 1 : Tail(q)[i] = q[i + 1] /\ i + 1 \in 1 .. Len(q) /\ i + 1 # 1
  BY <1>1, <1>2
<1>4. Once(Tail(q))
  <2>1. SUFFICES ASSUME NEW j \in 1 .. Len(q) - 1, NEW k \in 1 .. Len(q) - 1, Tail(q)[j] = Tail(q)[k]
                 PROVE  j = k
    BY <1>1 DEF Once
  <2>2. q[j + 1] = q[k + 1] /\ j + 1 \in 1 .. Len(q) /\ k + 1 \in 1 .. Len(q)
    BY <1>3, <2>1
  <2>3. j + 1 = k + 1
    BY <2>2 DEF Once
  <2> QED
    BY <1>2, <2>3
<1>5. Head(q) \in Queued(q)
  BY <1>2 DEF Queued
<1>6. ASSUME NEW r \in Queued(Tail(q)) PROVE r \in Queued(q) /\ r # Head(q)
  <2>1. PICK i \in 1 .. Len(q) - 1 : r = Tail(q)[i]
    BY <1>2, <1>6 DEF Queued
  <2>2. r = q[i + 1] /\ i + 1 \in 1 .. Len(q) /\ i + 1 # 1 /\ 1 \in 1 .. Len(q)
    BY <1>2, <1>3, <2>1
  <2>3. r # q[1]
    BY <2>2 DEF Once
  <2> QED
    BY <1>2, <2>2, <2>3 DEF Queued
<1>7. ASSUME NEW r \in Queued(q), r # Head(q) PROVE r \in Queued(Tail(q))
  <2>1. PICK i \in 1 .. Len(q) : r = q[i]
    BY <1>2, <1>7 DEF Queued
  <2>2. i # 1
    BY <1>2, <1>7, <2>1
  <2>3. i - 1 \in 1 .. Len(q) - 1 /\ (i - 1) + 1 = i
    BY <1>2, <2>2
  <2>4. Tail(q)[i - 1] = r
    BY <1>3, <2>1, <2>3
  <2> QED
    BY <1>2, <2>3, <2>4 DEF Queued
<1> QED
  BY <1>1, <1>4, <1>5, <1>6, <1>7

(* Putting a request at the end of a queue.                                *)
LEMMA QueueAppend ==
  ASSUME NEW q \in Seq(Reqs), NEW r \in Reqs, Once(q), r \notin Queued(q)
  PROVE  /\ Append(q, r) \in Seq(Reqs) /\ Once(Append(q, r))
         /\ Queued(Append(q, r)) = Queued(q) \cup {r}
<1> DEFINE a == Append(q, r)
<1>1. /\ a \in Seq(Reqs) /\ Len(a) = Len(q) + 1 /\ Len(q) \in Nat
      /\ DOMAIN a = 1 .. Len(q) + 1 /\ DOMAIN q = 1 .. Len(q)
      /\ a[Len(q) + 1] = r /\ \A i \in 1 .. Len(q) : a[i] = q[i]
  BY LenProperties
<1> HIDE DEF a
<1>2. \A i \in 1 .. Len(q) + 1 : i \in 1 .. Len(q) \/ i = Len(q) + 1
  BY <1>1
<1>3. \A i \in 1 .. Len(q) : q[i] # r /\ i \in 1 .. Len(q) + 1
  BY <1>1 DEF Queued
<1>4. Once(a)
  BY <1>1, <1>2, <1>3 DEF Once
<1>5. Queued(a) = Queued(q) \cup {r}
  <2>1. Len(q) + 1 \in 1 .. Len(q) + 1
    BY <1>1
  <2> QED
    BY <1>1, <1>2, <1>3, <2>1 DEF Queued
<1> QED
  BY <1>1, <1>4, <1>5 DEF a

(* An NSP takes the first request of a queue, or is done with one.         *)
LEMMA TakesPlaces ==
  ASSUME TypeOK, Places, NEW i \in AllSlots, kill' = kill,
         \/ /\ general # <<>> /\ serving' = [serving EXCEPT ![i] = Head(general)]
            /\ general' = Tail(general) /\ UNCHANGED limited
         \/ /\ limited # <<>> /\ serving' = [serving EXCEPT ![i] = Head(limited)]
            /\ limited' = Tail(limited) /\ UNCHANGED general
         \/ serving' = [serving EXCEPT ![i] = NoReq] /\ UNCHANGED <<general, limited>>
  PROVE  Places'
<1> DEFINE g == Queued(general)
           l == Queued(limited)
           m == Queued(kill.mp)
<1>1. /\ general \in Seq(Reqs) /\ limited \in Seq(Reqs) /\ kill.mp \in Seq(Reqs)
      /\ serving \in [AllSlots -> Reqs \cup {NoReq}]
  BY DEF TypeOK
<1>2. /\ Once(general) /\ Once(limited) /\ Once(kill.mp) /\ Apart(g, l, m, serving)
      /\ kill.mode # "again" => kill.mp = <<>>
  BY PlacesIs
<1>3. NoReq \notin g /\ NoReq \notin l /\ NoReq \notin m
  BY <1>1, QueueHolds
<1> HIDE DEF g, l, m
<1>4. CASE /\ general # <<>> /\ serving' = [serving EXCEPT ![i] = Head(general)]
           /\ general' = Tail(general) /\ UNCHANGED limited
  <2>1. /\ Head(general) \in g /\ Once(general') /\ Queued(general') = g \ {Head(general)}
    BY <1>1, <1>2, <1>4, QueueTail DEF g
  <2>2. \A j \in AllSlots : serving'[j] = IF j = i THEN Head(general) ELSE serving[j]
    BY <1>1, <1>4
  <2>3. Apart(g \ {Head(general)}, l, m, serving')
    BY <1>2, <2>1, <2>2 DEF Apart
  <2> QED
    BY <1>2, <1>4, <2>1, <2>3, PlacesIs DEF l, m
<1>5. CASE /\ limited # <<>> /\ serving' = [serving EXCEPT ![i] = Head(limited)]
           /\ limited' = Tail(limited) /\ UNCHANGED general
  <2>1. /\ Head(limited) \in l /\ Once(limited') /\ Queued(limited') = l \ {Head(limited)}
    BY <1>1, <1>2, <1>5, QueueTail DEF l
  <2>2. \A j \in AllSlots : serving'[j] = IF j = i THEN Head(limited) ELSE serving[j]
    BY <1>1, <1>5
  <2>3. Apart(g, l \ {Head(limited)}, m, serving')
    BY <1>2, <2>1, <2>2 DEF Apart
  <2> QED
    BY <1>2, <1>5, <2>1, <2>3, PlacesIs DEF g, m
<1>6. CASE serving' = [serving EXCEPT ![i] = NoReq] /\ UNCHANGED <<general, limited>>
  <2>1. \A j \in AllSlots : serving'[j] = IF j = i THEN NoReq ELSE serving[j]
    BY <1>1, <1>6
  <2>2. Apart(g, l, m, serving')
    BY <1>2, <1>3, <2>1 DEF Apart
  <2> QED
    BY <1>2, <1>6, <2>2, PlacesIs DEF g, l, m
<1> QED
  BY <1>4, <1>5, <1>6

(* A request is put on a queue, or refused: a new one, or one that         *)
(* kill_nsps() took off.                                                   *)
LEMMA InvokePlaces ==
  ASSUME TypeOK, Places, NEW r \in Reqs, UNCHANGED serving,
         \/ general' = Append(general, r) /\ UNCHANGED limited
         \/ limited' = Append(limited, r) /\ UNCHANGED general
         \/ UNCHANGED <<general, limited>>,
         \/ r \notin Outstanding /\ kill' = kill
         \/ kill.mode = "again" /\ kill.mp # <<>> /\ r = Head(kill.mp) /\ kill' = [kill EXCEPT !.mp = Tail(kill.mp)]
  PROVE  Places'
<1> DEFINE g == Queued(general)
           l == Queued(limited)
           m == Queued(kill.mp)
           mm == Queued(kill'.mp)
<1>1. /\ general \in Seq(Reqs) /\ limited \in Seq(Reqs) /\ kill.mp \in Seq(Reqs) /\ kill \in Kills
  BY DEF TypeOK, Kills
<1>2. /\ Once(general) /\ Once(limited) /\ Once(kill.mp) /\ Apart(g, l, m, serving)
      /\ kill.mode # "again" => kill.mp = <<>>
  BY PlacesIs
<1>3. /\ r \notin g /\ r \notin l /\ r \notin mm /\ (\A i \in AllSlots : serving[i] # r)
      /\ mm \subseteq m /\ Once(kill'.mp) /\ (kill'.mode # "again" => kill'.mp = <<>>)
  <2>1. CASE r \notin Outstanding /\ kill' = kill
    BY <1>2, <2>1 DEF Outstanding
  <2>2. CASE /\ kill.mode = "again" /\ kill.mp # <<>> /\ r = Head(kill.mp)
             /\ kill' = [kill EXCEPT !.mp = Tail(kill.mp)]
    <3>1. kill'.mp = Tail(kill.mp) /\ kill'.mode = kill.mode
      BY <1>1, <2>2 DEF Kills
    <3>2. r \in m /\ mm = m \ {r} /\ Once(kill'.mp)
      BY <1>1, <1>2, <2>2, <3>1, QueueTail
    <3> HIDE DEF g, l, m, mm
    <3> QED
      BY <1>2, <2>2, <3>1, <3>2 DEF Apart
  <2> QED
    BY <2>1, <2>2
<1> HIDE DEF g, l, m, mm
<1>4. Apart(g \cup {r}, l, mm, serving') /\ Apart(g, l \cup {r}, mm, serving') /\ Apart(g, l, mm, serving')
  BY <1>2, <1>3 DEF Apart
<1>5. CASE general' = Append(general, r) /\ UNCHANGED limited
  <2>1. Once(general') /\ Queued(general') = g \cup {r}
    BY <1>1, <1>2, <1>3, <1>5, QueueAppend DEF g
  <2> QED
    BY <1>2, <1>3, <1>4, <1>5, <2>1, PlacesIs DEF l, mm
<1>6. CASE limited' = Append(limited, r) /\ UNCHANGED general
  <2>1. Once(limited') /\ Queued(limited') = l \cup {r}
    BY <1>1, <1>2, <1>3, <1>6, QueueAppend DEF l
  <2> QED
    BY <1>2, <1>3, <1>4, <1>6, <2>1, PlacesIs DEF g, mm
<1>7. CASE UNCHANGED <<general, limited>>
  BY <1>2, <1>3, <1>4, <1>7, PlacesIs DEF g, l, mm
<1> QED
  BY <1>5, <1>6, <1>7

(* One place for each request, in every step.                              *)
LEMMA PlacesStep ==
  ASSUME SlotInv, Places, [Next]_vars
  PROVE  Places'
<1>1. /\ TypeOK /\ general \in Seq(Reqs) /\ limited \in Seq(Reqs) /\ kill \in Kills
      /\ kill.mp \in Seq(Reqs) /\ 0 \in AllSlots /\ (\A i \in Slots : i \in AllSlots)
  BY TheSlots DEF SlotInv, TypeOK, Kills
<1>2. ASSUME UNCHANGED <<general, limited, serving>>,
             kill'.mp = kill.mp, kill'.mode # "again" => kill'.mp = <<>>
      PROVE  Places'
  BY <1>2, PlacesIs
<1>3. ASSUME UNCHANGED <<general, limited, serving, kill>> PROVE Places'
  BY <1>3, PlacesIs
<1>4. CASE \E i \in Slots : NspStep(i)
  <2>1. PICK i \in Slots : NspStep(i)
    BY <1>4
  <2>2. CASE NspTakes(i)
    BY <1>1, <2>2, TakesPlaces DEF NspTakes
  <2>3. CASE NspDone(i)
    BY <1>1, <2>3, TakesPlaces DEF NspDone, queueVars
  <2>4. CASE NspSleeps(i) \/ NspRevives(i) \/ NspDies(i) \/ NspDead(i) \/ NspArms(i) \/ NspCalls(i)
    BY <1>3, <2>4 DEF NspSleeps, NspRevives, NspDies, NspDead, NspArms, NspCalls, queueVars
  <2> QED
    BY <2>1, <2>2, <2>3, <2>4 DEF NspStep
<1>5. CASE \E i \in Slots : nsptimeout(i)
  BY <1>3, <1>5 DEF nsptimeout, queueVars
<1>6. CASE LnspStep
  <2>1. CASE LnspTakes
    BY <1>1, <2>1, TakesPlaces DEF LnspTakes
  <2>2. CASE LnspDone
    BY <1>1, <2>2, TakesPlaces DEF LnspDone, queueVars
  <2>3. CASE LnspSleeps \/ LnspForks \/ ForkNoProc \/ ForkReserves \/ ForkBacksOut \/ ForkDone
    BY <1>3, <2>3 DEF LnspSleeps, LnspForks, ForkNoProc, ForkReserves, ForkBacksOut, ForkDone, queueVars
  <2> QED
    BY <1>6, <2>1, <2>2, <2>3 DEF LnspStep
<1>7. CASE \E n \in AllSlots : StartNsps(n) \/ KillNsps(n)
  <2>1. PICK n \in AllSlots : StartNsps(n) \/ KillNsps(n)
    BY <1>7
  <2>2. CASE StartNsps(n)
    BY <1>3, <2>2 DEF StartNsps, queueVars
  <2>3. CASE KillNsps(n)
    <3>1. kill.mode = "idle" /\ kill'.mp = <<>> /\ UNCHANGED <<general, limited, serving>>
      BY <2>3 DEF KillNsps, CpuFree, queueVars
    <3>2. kill.mp = <<>>
      BY <3>1 DEF Places
    <3> QED
      BY <1>2, <3>1, <3>2
  <2> QED
    BY <2>1, <2>2, <2>3
<1>8. CASE KillMarks
  <2>1. /\ kill.mode = "scan" /\ kill'.mode = "scan" /\ kill'.mp = kill.mp
        /\ UNCHANGED <<general, limited, serving>>
    BY <1>8, KillMarksIs DEF queueVars
  <2>2. kill.mp = <<>>
    BY <2>1 DEF Places
  <2> QED
    BY <1>2, <2>1, <2>2
<1>9. CASE Arrives
  <2>1. CASE \E r \in Reqs : RecvRequest(r) \/ LocalRequest(r)
    <3>1. PICK r \in Reqs : RecvRequest(r) \/ LocalRequest(r)
      BY <2>1
    <3>2. /\ invoke_nsp(r, schedule_nsp) \/ invoke_nsp(r, ScheduleLow)
          /\ r \notin Outstanding /\ UNCHANGED <<serving, kill>>
      BY <3>1 DEF RecvRequest, LocalRequest
    <3>3. \/ general' = Append(general, r) /\ UNCHANGED limited
          \/ limited' = Append(limited, r) /\ UNCHANGED general
          \/ UNCHANGED <<general, limited>>
      BY <1>1, <3>2, InvokeChooses
    <3> QED
      BY <1>1, <3>2, <3>3, InvokePlaces
  <2>2. CASE ScheduleLowSearches
    BY <1>3, <2>2 DEF ScheduleLowSearches, queueVars
  <2>3. CASE KillInvokes
    <3>1. /\ kill.mode = "again" /\ kill.mp # <<>> /\ kill' = [kill EXCEPT !.mp = Tail(kill.mp)]
          /\ invoke_nsp(Head(kill.mp), ScheduleLow) /\ UNCHANGED serving
      BY <2>3 DEF KillInvokes
    <3>2. PICK r \in Reqs : r = Head(kill.mp)
      BY <1>1, <3>1, HeadTailProperties
    <3>3. \/ general' = Append(general, r) /\ UNCHANGED limited
          \/ limited' = Append(limited, r) /\ UNCHANGED general
          \/ UNCHANGED <<general, limited>>
      BY <1>1, <3>1, <3>2, InvokeChooses
    <3> QED
      BY <1>1, <3>1, <3>2, <3>3, InvokePlaces
  <2> QED
    BY <1>9, <2>1, <2>2, <2>3 DEF Arrives
<1>10. CASE KillMarked
  <2>1. kill.mode = "scan" /\ UNCHANGED <<limited, serving>> /\ kill.mp = <<>>
    BY <1>10 DEF KillMarked, Places
  <2>2. CASE kill' = NoKill /\ UNCHANGED general
    BY <1>2, <2>1, <2>2 DEF NoKill
  <2>3. CASE kill' = [mode |-> "again", left |-> 0, at |-> 0, mp |-> general] /\ general' = <<>>
    <3>1. kill'.mp = general /\ kill'.mode = "again"
      BY <2>3
    <3>2. /\ Once(general) /\ Once(limited)
          /\ Apart(Queued(general), Queued(limited), {}, serving)
      BY <2>1, PlacesIs, QueueHolds
    <3>3. Apart({}, Queued(limited), Queued(general), serving)
      BY <3>2 DEF Apart
    <3>4. Once(general') /\ Queued(general') = {}
      BY <2>3, QueueHolds
    <3> QED
      BY <2>1, <3>1, <3>2, <3>3, <3>4, PlacesIs
  <2> QED
    BY <1>10, <2>2, <2>3 DEF KillMarked
<1>11. CASE KillReturns
  <2>1. kill.mp = <<>> /\ kill'.mp = <<>> /\ UNCHANGED <<general, limited, serving>>
    BY <1>11 DEF KillReturns, NoKill, queueVars
  <2> QED
    BY <1>2, <2>1
<1>12. CASE \E r \in Reqs : signalnsp(r)
  BY <1>3, <1>12 DEF signalnsp, queueVars
<1>13. CASE \E s \in Sites : SiteFails(s) \/ SiteJoins(s)
  BY <1>3, <1>13 DEF SiteFails, SiteJoins, queueVars
<1>14. CASE \E s \in Sites : no_nsp(s)
  <2>1. PICK s \in Sites : no_nsp(s)
    BY <1>14
  <2>2. general' = Kept(general, s) /\ limited' = Kept(limited, s) /\ UNCHANGED <<serving, kill>>
    BY <2>1 DEF no_nsp
  <2>3. /\ Once(general) /\ Once(limited) /\ Once(kill.mp)
        /\ Apart(Queued(general), Queued(limited), Queued(kill.mp), serving)
        /\ kill.mode # "again" => kill.mp = <<>>
    BY PlacesIs
  <2>4. /\ Once(general') /\ Once(limited')
        /\ Queued(general') \subseteq Queued(general) /\ Queued(limited') \subseteq Queued(limited)
    BY <1>1, <2>2, <2>3, KeptIs
  <2>5. Apart(Queued(general'), Queued(limited'), Queued(kill.mp), serving)
    BY <2>3, <2>4 DEF Apart
  <2> QED
    BY <2>2, <2>3, <2>4, <2>5, PlacesIs
<1>15. CASE UNCHANGED vars
  BY <1>3, <1>15 DEF vars
<1> QED
  BY <1>4, <1>5, <1>6, <1>7, <1>8, <1>9, <1>10, <1>11, <1>12, <1>13, <1>14, <1>15, NextIs

-----------------------------------------------------------------------------
(* What holds whatever csp(1M) does.                                       *)

TableInv == SlotInv /\ Enough /\ Places

(* At the start there is the limited NSP alone.                            *)
LEMMA TableInvInit ==
  ASSUME Init
  PROVE  TableInv
<1>1. /\ 0 \in AllSlots /\ 1 \in Slots /\ 0 \notin Slots /\ (\A i \in Slots : i \in AllSlots /\ i # 0)
      /\ MaxKills \in Nat /\ MaxFails \in Nat /\ <<>> \in Seq(Reqs)
  BY TheSlots, NspAssumption, EmptySeq DEF Slots
<1>2. /\ general = <<>> /\ limited = <<>>
      /\ flags = [i \in AllSlots |-> IF i = 0 THEN {"VALID"} ELSE {}]
      /\ pc = [i \in AllSlots |-> IF i = 0 THEN "asleep" ELSE "none"]
      /\ serving = [i \in AllSlots |-> NoReq]
      /\ num_nsps = 0 /\ free_nsps = 0 /\ nsps_to_invoke = 0 /\ nsps_started = 0
      /\ nsp_first_try = 1 /\ max_nsp = 0 /\ forking_nsp = 0
      /\ fork = [couldnt |-> 0, slot |-> 0, saved |-> 0]
      /\ timer = {} /\ sched = NoSched /\ kill = NoKill
      /\ sigpending = {} /\ psig = {} /\ acked = {}
      /\ status = [s \in Sites |-> "up"]
      /\ left = [kills |-> MaxKills, fails |-> MaxFails]
  BY DEF Init
<1>3. TypeOK
  <2>1. pc \in [AllSlots -> Labels]
    BY <1>2 DEF Labels
  <2>2. flags \in [AllSlots -> SUBSET Flags]
    BY <1>2 DEF Flags
  <2>3. kill \in [mode : {"idle", "scan", "again"}, left : Nat, at : AllSlots, mp : Seq(Reqs)]
    BY <1>1, <1>2 DEF NoKill
  <2>4. sched \in [mode : {"idle", "pending", "hung"}, start : Slots, count : Slots]
    BY <1>1, <1>2 DEF NoSched
  <2>5. left \in [kills : 0 .. MaxKills, fails : 0 .. MaxFails]
    BY <1>1, <1>2
  <2>6. fork \in [couldnt : Int, slot : AllSlots, saved : AllSlots]
    BY <1>1, <1>2
  <2>7. serving \in [AllSlots -> Reqs \cup {NoReq}] /\ status \in [Sites -> {"up", "failed", "inactive"}]
    BY <1>2
  <2> QED
    BY <1>1, <1>2, <2>1, <2>2, <2>3, <2>4, <2>5, <2>6, <2>7 DEF TypeOK
<1>4. pc[0] = "asleep" /\ \A i \in Slots : pc[i] = "none" /\ flags[i] = {}
  BY <1>1, <1>2
<1>5. OneRuns
  <2>1. \A i \in AllSlots : pc[i] \notin OnCpu
    BY <1>4, TheSlots DEF OnCpu
  <2> QED
    BY <1>2, <2>1 DEF OneRuns, NoKill
<1>6. Where
  BY <1>2, <1>4 DEF Where
<1>7. Living = {} /\ Valid = {} /\ Unmarked = {}
  BY <1>4 DEF Living, Valid, Unmarked
<1>8. Table
  BY <1>2, <1>4, <1>7, FS_EmptySet DEF Table
<1>9. Enough
  BY <1>2, <1>7, FS_EmptySet DEF Enough, NoKill
<1>10. Places
  <2>1. kill.mp = <<>>
    BY <1>2 DEF NoKill
  <2>2. Apart({}, {}, {}, serving)
    BY <1>2 DEF Apart
  <2> QED
    BY <1>2, <2>1, <2>2, PlacesIs, QueueHolds
<1> QED
  BY <1>3, <1>5, <1>6, <1>8, <1>9, <1>10 DEF TableInv, SlotInv

(* Two queues one after the other.                                         *)
LEMMA QueueConcat ==
  ASSUME NEW a \in Seq(Reqs), NEW b \in Seq(Reqs), Once(a), Once(b), Queued(a) \cap Queued(b) = {}
  PROVE  a \o b \in Seq(Reqs) /\ Once(a \o b) /\ Queued(a \o b) = Queued(a) \cup Queued(b)
<1> DEFINE c == a \o b
<1>1. /\ c \in Seq(Reqs) /\ Len(c) = Len(a) + Len(b)
      /\ \A i \in 1 .. Len(a) + Len(b) : c[i] = IF i <= Len(a) THEN a[i] ELSE b[i - Len(a)]
  BY ConcatProperties
<1>2. /\ Len(a) \in Nat /\ Len(b) \in Nat /\ DOMAIN a = 1 .. Len(a) /\ DOMAIN b = 1 .. Len(b)
      /\ DOMAIN c = 1 .. Len(a) + Len(b)
  BY <1>1, LenProperties
<1> HIDE DEF c
<1>3. ASSUME NEW i \in 1 .. Len(c)
      PROVE  \/ i \in 1 .. Len(a) /\ c[i] = a[i] /\ c[i] \in Queued(a)
             \/ i - Len(a) \in 1 .. Len(b) /\ c[i] = b[i - Len(a)] /\ c[i] \in Queued(b)
  <2>1. CASE i <= Len(a)
    BY <1>1, <1>2, <2>1 DEF Queued
  <2>2. CASE i > Len(a)
    <3>1. i - Len(a) \in 1 .. Len(b) /\ c[i] = b[i - Len(a)]
      BY <1>1, <1>2, <2>2
    <3> QED
      BY <1>2, <3>1 DEF Queued
  <2> QED
    BY <1>1, <1>2, <2>1, <2>2
<1>4. ASSUME NEW i \in 1 .. Len(c), NEW j \in 1 .. Len(c), c[i] = c[j] PROVE i = j
  <2>1. CASE i \in 1 .. Len(a) /\ c[i] = a[i] /\ c[i] \in Queued(a)
    <3>1. j \in 1 .. Len(a) /\ c[j] = a[j]
      BY <1>3, <1>4, <2>1
    <3> QED
      BY <1>4, <2>1, <3>1 DEF Once
  <2>2. CASE i - Len(a) \in 1 .. Len(b) /\ c[i] = b[i - Len(a)] /\ c[i] \in Queued(b)
    <3>1. j - Len(a) \in 1 .. Len(b) /\ c[j] = b[j - Len(a)]
      BY <1>3, <1>4, <2>2
    <3>2. i - Len(a) = j - Len(a)
      BY <1>4, <2>2, <3>1 DEF Once
    <3> QED
      BY <1>1, <1>2, <3>2
  <2> QED
    BY <1>3, <2>1, <2>2
<1>5. Once(c)
  BY <1>4 DEF Once
<1>6. Queued(c) \subseteq Queued(a) \cup Queued(b)
  BY <1>1, <1>2, <1>3 DEF Queued
<1>7. ASSUME NEW r \in Queued(a) PROVE r \in Queued(c)
  <2>1. PICK i \in 1 .. Len(a) : r = a[i]
    BY <1>2, <1>7 DEF Queued
  <2>2. i \in 1 .. Len(a) + Len(b) /\ c[i] = r
    BY <1>1, <1>2, <2>1
  <2> QED
    BY <1>2, <2>2 DEF Queued
<1>8. ASSUME NEW r \in Queued(b) PROVE r \in Queued(c)
  <2>1. PICK i \in 1 .. Len(b) : r = b[i]
    BY <1>2, <1>8 DEF Queued
  <2>2. i + Len(a) \in 1 .. Len(a) + Len(b) /\ ~(i + Len(a) <= Len(a)) /\ (i + Len(a)) - Len(a) = i
    BY <1>2, <2>1
  <2>3. c[i + Len(a)] = r
    BY <1>1, <2>1, <2>2
  <2> QED
    BY <1>2, <2>2, <2>3 DEF Queued
<1>9. Queued(c) = Queued(a) \cup Queued(b)
  BY <1>6, <1>7, <1>8
<1> QED
  BY <1>1, <1>5, <1>9 DEF c

(* A queue that holds no request twice holds as many as it is long.        *)
LEMMA QueueLength ==
  ASSUME NEW q \in Seq(Reqs), Once(q)
  PROVE  Cardinality(Queued(q)) = Len(q)
<1>1. DOMAIN q = 1 .. Len(q) /\ Len(q) \in Nat /\ q \in [1 .. Len(q) -> Reqs]
  BY LenProperties
<1>2. q \in Bijection(1 .. Len(q), Queued(q))
  <2>1. q \in [1 .. Len(q) -> Queued(q)]
    BY <1>1 DEF Queued
  <2>2. \A a, b \in DOMAIN q : q[a] = q[b] => a = b
    BY <1>1 DEF Once
  <2>3. \A t \in Queued(q) : \E k \in 1 .. Len(q) : q[k] = t
    BY <1>1 DEF Queued
  <2> QED
    BY <2>1, <2>2, <2>3 DEF Bijection, Injection, Surjection, IsInjective
<1> QED
  BY <1>1, <1>2, FS_CountingElements DEF ExistsBijection

(* The table, the number to kill, and the place of each request.           *)
LEMMA TableInvImplies ==
  ASSUME TableInv
  PROVE  TypeOK /\ SlotTable /\ EnoughToKill /\ ServedOnce
<1>1. TypeOK /\ Where /\ Table /\ Enough /\ Places
  BY DEF TableInv, SlotInv
<1>2. SlotTable
  <2>1. {i \in Valid : pc[i] # "dying"} = Living
    BY <1>1 DEF Where, Valid, Living
  <2>2. ASSUME pc[0] = "getpid" PROVE \E i \in Slots \ Valid : i <= max_nsp + 1
    <3>1. PICK i \in Slots : i \notin Valid
      BY <1>1, <2>2 DEF Table, Valid
    <3>2. max_nsp \in 0 .. ngcsp /\ ngcsp \in Nat /\ i \in 1 .. ngcsp
      BY <1>1, TheSlots DEF TypeOK, AllSlots, Slots
    <3>3. CASE max_nsp = ngcsp
      BY <3>1, <3>2, <3>3
    <3>4. CASE max_nsp < ngcsp
      <4>1. max_nsp + 1 \in Slots /\ ~(max_nsp + 1 <= max_nsp) /\ max_nsp + 1 <= max_nsp + 1
        BY <3>2, <3>4 DEF Slots
      <4>2. max_nsp + 1 \notin Valid
        BY <1>1, <4>1 DEF Table
      <4> QED
        BY <4>1, <4>2
    <3> QED
      BY <3>2, <3>3, <3>4
  <2> QED
    BY <1>1, <2>1, <2>2 DEF Table, SlotTable
<1>3. EnoughToKill
  <2>1. {i \in Valid : i <= kill.at /\ "TIMED_OUT" \notin flags[i]} = Ahead
    BY DEF Ahead, Unmarked
  <2>2. Cardinality(Ahead) \in Nat /\ nsps_to_invoke \in Int /\ kill.left \in Nat
    BY <1>1, UnmarkedIs DEF TypeOK
  <2> QED
    BY <1>1, <2>1, <2>2 DEF Enough, EnoughToKill
<1>4. ServedOnce
  <2> DEFINE gl == general \o limited
             q == gl \o kill.mp
  <2>1. general \in Seq(Reqs) /\ limited \in Seq(Reqs) /\ kill.mp \in Seq(Reqs)
    BY <1>1 DEF TypeOK
  <2>2. gl \in Seq(Reqs) /\ Once(gl) /\ Queued(gl) = Queued(general) \cup Queued(limited)
    BY <1>1, <2>1, QueueConcat DEF Places
  <2> HIDE DEF gl
  <2>3. /\ q \in Seq(Reqs) /\ Once(q)
        /\ Queued(q) = Queued(general) \cup Queued(limited) \cup Queued(kill.mp)
    <3>1. Queued(gl) \cap Queued(kill.mp) = {} /\ Once(kill.mp)
      BY <1>1, <2>2 DEF Places
    <3> QED
      BY <2>1, <2>2, <3>1, QueueConcat
  <2>4. Cardinality(Queued(q)) = Len(q)
    <3> HIDE DEF q
    <3> QED
      BY <2>3, QueueLength
  <2>5. \A i \in AllSlots : serving[i] \notin Queued(q)
    BY <1>1, <2>3 DEF Places
  <2>6. \A i, j \in AllSlots : serving[i] = serving[j] /\ i # j => serving[i] = NoReq
    BY <1>1 DEF Places
  <2> QED
    BY <2>4, <2>5, <2>6 DEF ServedOnce, gl
<1> QED
  BY <1>1, <1>2, <1>3, <1>4

-----------------------------------------------------------------------------
(* As long as the number of NSPs has not been reduced.                     *)

Works == {"took", "armed", "exec"}

BusyAt(p, f, i) ==
  /\ p[i] # "none" => ("BUSY" \in f[i] <=> p[i] # "asleep")
  /\ "TIMED_OUT" \in f[i] => p[i] \in {"armed", "exec", "loop", "dying"}

(* BusyAwake, in this state and the next, slot by slot.                    *)
LEMMA BusyAwakeIs ==
  /\ BusyAwake <=> /\ kill = NoKill /\ "VALID" \in flags[0] /\ (pc[0] = "exec" => "BUSY" \in flags[0])
                   /\ \A i \in Slots : BusyAt(pc, flags, i)
                   /\ \A i \in AllSlots : serving[i] # NoReq <=> pc[i] \in Works
  /\ BusyAwake' <=> /\ kill' = NoKill /\ "VALID" \in flags'[0] /\ (pc'[0] = "exec" => "BUSY" \in flags'[0])
                    /\ \A i \in Slots : BusyAt(pc', flags', i)
                    /\ \A i \in AllSlots : serving'[i] # NoReq <=> pc'[i] \in Works
  BY DEF BusyAwake, BusyAt, Works, NoKill

(* The process of one slot does something, and others are woken up.        *)
LEMMA BusyStep ==
  ASSUME BusyAwake, kill' = kill, NEW i \in AllSlots,
         \A j \in Slots : j # i => pc'[j] = pc[j] /\ flags'[j] = flags[j],
         \A j \in AllSlots : j # i => /\ serving'[j] = serving[j]
                                      /\ pc'[j] \in Works <=> pc[j] \in Works,
         i # 0 => /\ BusyAt(pc', flags', i)
                  /\ flags'[0] = flags[0] /\ (pc'[0] = "exec" => pc[0] = "exec"),
         i = 0 => "VALID" \in flags'[0] /\ (pc'[0] = "exec" => "BUSY" \in flags'[0]),
         serving'[i] # NoReq <=> pc'[i] \in Works
  PROVE  BusyAwake'
<1>1. \A j \in Slots : BusyAt(pc', flags', j)
  <2>1. ASSUME NEW j \in Slots, j # i PROVE BusyAt(pc', flags', j)
    <3>1. BusyAt(pc, flags, j)
      BY BusyAwakeIs
    <3> QED
      BY <2>1, <3>1 DEF BusyAt
  <2> QED
    BY <2>1, TheSlots
<1>2. ASSUME NEW j \in AllSlots PROVE serving'[j] # NoReq <=> pc'[j] \in Works
  BY BusyAwakeIs
<1>3. kill' = NoKill /\ "VALID" \in flags'[0] /\ (pc'[0] = "exec" => "BUSY" \in flags'[0])
  BY BusyAwakeIs
<1> QED
  BY <1>1, <1>2, <1>3, BusyAwakeIs

(* A general NSP does something, and nobody else is changed.               *)
LEMMA BusyOwn ==
  ASSUME BusyAwake, kill' = kill, NEW i \in Slots, NEW l,
         \A j \in AllSlots : pc'[j] = IF j = i THEN l ELSE pc[j],
         \A j \in AllSlots : j # i => flags'[j] = flags[j] /\ serving'[j] = serving[j],
         BusyAt(pc', flags', i), serving'[i] # NoReq <=> l \in Works
  PROVE  BusyAwake'
<1>1. i \in AllSlots /\ i # 0 /\ 0 \in AllSlots /\ (\A j \in Slots : j \in AllSlots)
  BY TheSlots
<1>2. pc'[i] = l /\ \A j \in AllSlots : j # i => pc'[j] = pc[j]
  BY <1>1
<1>3. \A j \in Slots : j # i => pc'[j] = pc[j] /\ flags'[j] = flags[j]
  BY <1>1, <1>2
<1>4. \A j \in AllSlots : j # i => /\ serving'[j] = serving[j]
                                   /\ pc'[j] \in Works <=> pc[j] \in Works
  BY <1>2
<1>5. flags'[0] = flags[0] /\ (pc'[0] = "exec" => pc[0] = "exec")
  BY <1>1, <1>2
<1> QED
  BY <1>1, <1>2, <1>3, <1>4, <1>5, BusyStep

(* The sleeping NSPs.                                                      *)
LEMMA AsleepIs ==
  /\ Asleep' = {i \in Slots : pc'[i] = "asleep"}
  /\ IsFiniteSet(Asleep) /\ Cardinality(Asleep) \in Nat
<1>1. \A S \in SUBSET Slots : IsFiniteSet(S) /\ Cardinality(S) \in Nat
  BY SlotSets, TheSlots
<1>2. Asleep \in SUBSET Slots
  BY DEF Asleep
<1> QED
  BY <1>1, <1>2 DEF Asleep

Started == nsps_started = Cardinality(Unmarked) + nsps_to_invoke

(* As many NSPs are to stay as before.                                     *)
LEMMA StartedSame ==
  ASSUME Started, \A i \in Slots : Stays(flags', i) <=> Stays(flags, i),
         UNCHANGED <<nsps_to_invoke, nsps_started>>
  PROVE  Started'
<1>1. Unmarked' = Unmarked
  BY UnmarkedIs
<1> QED
  BY <1>1 DEF Started

(* One more NSP is to stay, and one less is to be forked.                  *)
LEMMA StartedMore ==
  ASSUME TypeOK, Started, NEW i \in Slots, ~Stays(flags, i), Stays(flags', i),
         \A j \in Slots : j # i => (Stays(flags', j) <=> Stays(flags, j)),
         nsps_to_invoke' = nsps_to_invoke - 1, UNCHANGED nsps_started
  PROVE  Started'
<1>1. Unmarked' = Unmarked \cup {i} /\ i \notin Unmarked
  BY UnmarkedIs
<1>2. Cardinality(Unmarked') = Cardinality(Unmarked) + 1 /\ Cardinality(Unmarked) \in Nat
  BY <1>1, UnmarkedIs, FS_AddElement
<1>3. nsps_to_invoke \in Int
  BY DEF TypeOK
<1> QED
  BY <1>2, <1>3 DEF Started

(* One NSP less is to stay, and one more is to be forked.                  *)
LEMMA StartedLess ==
  ASSUME TypeOK, Started, NEW i \in Slots, Stays(flags, i), ~Stays(flags', i),
         \A j \in Slots : j # i => (Stays(flags', j) <=> Stays(flags, j)),
         nsps_to_invoke' = nsps_to_invoke + 1, UNCHANGED nsps_started
  PROVE  Started'
<1>1. Unmarked' = Unmarked \ {i} /\ i \in Unmarked
  BY UnmarkedIs
<1>2. IsFiniteSet(Unmarked) /\ Cardinality(Unmarked) \in Nat
  BY UnmarkedIs
<1>3. Cardinality(Unmarked \ {i}) = Cardinality(Unmarked) - 1
  BY <1>1, <1>2, FS_RemoveElement
<1>4. nsps_to_invoke \in Int
  BY DEF TypeOK
<1> QED
  BY <1>1, <1>2, <1>3, <1>4 DEF Started

(* Nobody falls asleep or wakes up among the general NSPs.                 *)
LEMMA ExactSame ==
  ASSUME Exact, Started', free_nsps' = free_nsps,
         \A i \in Slots : pc'[i] = "asleep" <=> pc[i] = "asleep"
  PROVE  Exact'
<1>1. Asleep' = Asleep
  BY AsleepIs DEF Asleep
<1> QED
  BY <1>1 DEF Exact, Started

RunInv == TableInv /\ BusyAwake /\ Exact

(* The steps of the general NSPs.                                          *)
LEMMA NspRun ==
  ASSUME RunInv, NEW i \in Slots, NspStep(i)
  PROVE  BusyAwake' /\ Exact'
<1>1. /\ TypeOK /\ Where /\ BusyAwake /\ Exact /\ Started /\ pc \in Pcs /\ flags \in FlagSets
      /\ i \in AllSlots /\ i # 0 /\ 0 \in AllSlots /\ (\A j \in Slots : j \in AllSlots /\ j # 0)
      /\ serving \in [AllSlots -> Reqs \cup {NoReq}] /\ free_nsps \in Int
  BY TheSlots DEF RunInv, TableInv, SlotInv, TypeOK, Pcs, FlagSets, Exact, Started
<1>2. /\ BusyAt(pc, flags, i) /\ (serving[i] # NoReq <=> pc[i] \in Works)
      /\ pc[i] # "none" <=> "VALID" \in flags[i]
      /\ kill = NoKill
  BY <1>1, BusyAwakeIs DEF Where
<1>3. ASSUME NEW l, pc' = [pc EXCEPT ![i] = l]
      PROVE  /\ \A j \in AllSlots : pc'[j] = IF j = i THEN l ELSE pc[j]
             /\ (l # "asleep" /\ pc[i] # "asleep") => \A j \in Slots : pc'[j] = "asleep" <=> pc[j] = "asleep"
  BY <1>1, <1>3 DEF Pcs
<1>4. CASE NspSleeps(i)
  <2>1. /\ AtLoop(i) /\ "TIMED_OUT" \notin flags[i] /\ flags' = Clear(i, "BUSY")
        /\ free_nsps' = IF "BUSY" \in flags[i] THEN free_nsps + 1 ELSE free_nsps
        /\ pc' = [pc EXCEPT ![i] = "asleep"]
        /\ UNCHANGED <<serving, kill, sched, nsps_to_invoke, nsps_started>>
    BY <1>4 DEF NspSleeps
  <2>2. pc[i] \in {"ready", "loop"} /\ sched.mode = "idle"
    BY <1>1, <2>1, LoopRuns DEF AtLoop, CpuFree
  <2>3. \A j \in AllSlots : flags'[j] = IF j = i THEN flags[j] \ {"BUSY"} ELSE flags[j]
    BY <1>1, <2>1 DEF Clear, FlagSets
  <2>4. \A j \in AllSlots : pc'[j] = IF j = i THEN "asleep" ELSE pc[j]
    BY <1>3, <2>1
  <2>5. "BUSY" \in flags[i] /\ serving[i] = NoReq
    BY <1>2, <2>2 DEF BusyAt, Works
  <2>6. BusyAwake'
    <3>1. BusyAt(pc', flags', i) /\ ~(pc'[i] \in Works)
      <4>1. pc'[i] = "asleep" /\ flags'[i] = flags[i] \ {"BUSY"} /\ "TIMED_OUT" \notin flags[i]
        BY <1>1, <2>1, <2>3, <2>4
      <4> QED
        BY <4>1 DEF BusyAt, Works
    <3>2. \A j \in AllSlots : j # i => flags'[j] = flags[j] /\ serving'[j] = serving[j]
      BY <1>1, <2>1, <2>3, <2>4, <2>5
    <3>3. kill' = kill /\ (serving'[i] # NoReq <=> "asleep" \in Works)
      BY <1>1, <2>1, <2>3, <2>4, <2>5, <3>1 DEF Works
    <3>4. \A j \in AllSlots : pc'[j] = IF j = i THEN "asleep" ELSE pc[j]
      BY <1>1, <2>1, <2>3, <2>4, <2>5
    <3> QED
      BY <1>1, <3>1, <3>2, <3>3, <3>4, BusyOwn
  <2>7. Started'
    <3>1. \A j \in Slots : Stays(flags', j) <=> Stays(flags, j)
      BY <1>1, <2>3 DEF Stays
    <3> QED
      BY <1>1, <2>1, <3>1, StartedSame
  <2>8. free_nsps' = Cardinality(Asleep')
    <3>1. Asleep' = Asleep \cup {i} /\ i \notin Asleep
      BY <1>1, <2>2, <2>4, AsleepIs DEF Asleep
    <3>2. Cardinality(Asleep') = Cardinality(Asleep) + 1
      BY <3>1, AsleepIs, FS_AddElement
    <3> QED
      BY <1>1, <2>1, <2>5, <3>2 DEF Exact
  <2> QED
    BY <2>1, <2>2, <2>6, <2>7, <2>8 DEF Exact, Started
<1>5. CASE NspRevives(i)
  <2>1. /\ AtLoop(i) /\ "TIMED_OUT" \in flags[i] /\ flags' = Clear(i, "TIMED_OUT")
        /\ nsps_to_invoke' = nsps_to_invoke - 1 /\ pc' = [pc EXCEPT ![i] = "loop"]
        /\ UNCHANGED <<serving, kill, sched, free_nsps, nsps_started>>
    BY <1>5 DEF NspRevives
  <2>2. pc[i] \in {"ready", "loop"} /\ sched.mode = "idle"
    BY <1>1, <2>1, LoopRuns DEF AtLoop, CpuFree
  <2>3. \A j \in AllSlots : flags'[j] = IF j = i THEN flags[j] \ {"TIMED_OUT"} ELSE flags[j]
    BY <1>1, <2>1 DEF Clear, FlagSets
  <2>4. /\ \A j \in AllSlots : pc'[j] = IF j = i THEN "loop" ELSE pc[j]
        /\ \A j \in Slots : pc'[j] = "asleep" <=> pc[j] = "asleep"
    BY <1>3, <2>1, <2>2
  <2>5. "BUSY" \in flags[i] /\ serving[i] = NoReq /\ "VALID" \in flags[i]
    BY <1>2, <2>2 DEF BusyAt, Works
  <2>6. BusyAwake'
    <3>1. BusyAt(pc', flags', i) /\ ~(pc'[i] \in Works)
      <4>1. pc'[i] = "loop" /\ flags'[i] = flags[i] \ {"TIMED_OUT"}
        BY <1>1, <2>3, <2>4
      <4> QED
        BY <2>5, <4>1 DEF BusyAt, Works
    <3>2. \A j \in AllSlots : j # i => flags'[j] = flags[j] /\ serving'[j] = serving[j]
      BY <1>1, <2>1, <2>3, <2>4, <2>5
    <3>3. kill' = kill /\ (serving'[i] # NoReq <=> "loop" \in Works)
      BY <1>1, <2>1, <2>3, <2>4, <2>5, <3>1 DEF Works
    <3>4. \A j \in AllSlots : pc'[j] = IF j = i THEN "loop" ELSE pc[j]
      BY <1>1, <2>1, <2>3, <2>4, <2>5
    <3> QED
      BY <1>1, <3>1, <3>2, <3>3, <3>4, BusyOwn
  <2>7. Started'
    <3>1. ~Stays(flags, i) /\ Stays(flags', i) /\ \A j \in Slots : j # i => (Stays(flags', j) <=> Stays(flags, j))
      BY <1>1, <2>1, <2>3, <2>5 DEF Stays
    <3> QED
      BY <1>1, <2>1, <3>1, StartedMore
  <2> QED
    BY <1>1, <2>1, <2>2, <2>4, <2>6, <2>7, ExactSame
<1>6. CASE NspDies(i)
  <2>1. /\ AtLoop(i) /\ "TIMED_OUT" \in flags[i]
        /\ free_nsps' = IF "BUSY" \in flags[i] THEN free_nsps ELSE free_nsps - 1
        /\ pc' = [pc EXCEPT ![i] = "dying"]
        /\ UNCHANGED <<flags, serving, kill, sched, nsps_to_invoke, nsps_started>>
    BY <1>6 DEF NspDies
  <2>2. pc[i] \in {"ready", "loop"} /\ sched.mode = "idle"
    BY <1>1, <2>1, LoopRuns DEF AtLoop, CpuFree
  <2>3. "BUSY" \in flags[i] /\ serving[i] = NoReq
    BY <1>2, <2>2 DEF BusyAt, Works
  <2>4. /\ \A j \in AllSlots : pc'[j] = IF j = i THEN "dying" ELSE pc[j]
        /\ \A j \in Slots : pc'[j] = "asleep" <=> pc[j] = "asleep"
    BY <1>3, <2>1, <2>2
  <2>5. BusyAwake'
    <3>1. BusyAt(pc', flags', i) /\ ~(pc'[i] \in Works)
      BY <1>1, <2>1, <2>3, <2>4 DEF BusyAt, Works
    <3>2. \A j \in AllSlots : j # i => flags'[j] = flags[j] /\ serving'[j] = serving[j]
      BY <1>1, <2>1, <2>3, <2>4
    <3>3. kill' = kill /\ (serving'[i] # NoReq <=> "dying" \in Works)
      BY <1>1, <2>1, <2>3, <2>4, <3>1 DEF Works
    <3>4. \A j \in AllSlots : pc'[j] = IF j = i THEN "dying" ELSE pc[j]
      BY <1>1, <2>1, <2>3, <2>4
    <3> QED
      BY <1>1, <3>1, <3>2, <3>3, <3>4, BusyOwn
  <2>6. Started'
    BY <1>1, <2>1, StartedSame
  <2> QED
    BY <1>1, <2>1, <2>2, <2>3, <2>4, <2>5, <2>6, ExactSame
<1>7. CASE NspDead(i)
  <2>1. /\ pc[i] = "dying" /\ sched.mode = "idle" /\ flags' = [flags EXCEPT ![i] = {}]
        /\ pc' = [(IF nsps_to_invoke # 0 THEN wakeup_nsp_forker ELSE pc) EXCEPT ![i] = "none"]
        /\ UNCHANGED <<serving, kill, sched, free_nsps, nsps_to_invoke, nsps_started>>
    BY <1>7 DEF NspDead, countVars
  <2> DEFINE p == IF nsps_to_invoke # 0 THEN wakeup_nsp_forker ELSE pc
  <2>2. Wakes(p) /\ \A j \in Slots : p[j] = pc[j]
    BY <1>1, WokenWakes
  <2>3. pc' = [p EXCEPT ![i] = "none"]
    BY <2>1
  <2> HIDE DEF p
  <2>4. /\ \A j \in Slots : pc'[j] = IF j = i THEN "none" ELSE pc[j]
        /\ pc'[0] = pc[0] \/ (pc[0] = "asleep" /\ pc'[0] = "ready")
    BY <1>1, <2>2, <2>3 DEF Wakes, Pcs
  <2>5. \A j \in AllSlots : flags'[j] = IF j = i THEN {} ELSE flags[j]
    BY <1>1, <2>1 DEF FlagSets
  <2>6. serving[i] = NoReq /\ "TIMED_OUT" \in flags[i]
    BY <1>1, <1>2, <2>1 DEF Works, Where
  <2>7. BusyAwake'
    <3>1. BusyAt(pc', flags', i) /\ ~(pc'[i] \in Works)
      BY <1>1, <2>4, <2>5 DEF BusyAt, Works
    <3>2. \A j \in AllSlots : j # i => (pc'[j] \in Works <=> pc[j] \in Works)
      BY <2>4, TheSlots DEF Works
    <3>3. pc'[0] = "exec" => pc[0] = "exec"
      BY <2>4
    <3>4. \A j \in Slots : j # i => pc'[j] = pc[j] /\ flags'[j] = flags[j]
      BY <1>1, <2>4, <2>5
    <3>5. flags'[0] = flags[0]
      BY <1>1, <2>5
    <3> QED
      BY <1>1, <2>1, <2>6, <3>1, <3>2, <3>3, <3>4, <3>5, BusyStep
  <2>8. Started'
    <3>1. \A j \in Slots : Stays(flags', j) <=> Stays(flags, j)
      BY <1>1, <2>5, <2>6 DEF Stays
    <3> QED
      BY <1>1, <2>1, <3>1, StartedSame
  <2>9. \A j \in Slots : pc'[j] = "asleep" <=> pc[j] = "asleep"
    BY <2>1, <2>4
  <2> QED
    BY <1>1, <2>1, <2>7, <2>8, <2>9, ExactSame
<1>8. CASE NspTakes(i)
  <2>1. /\ AtLoop(i) /\ "TIMED_OUT" \notin flags[i] /\ pc' = [pc EXCEPT ![i] = "took"]
        /\ \/ general # <<>> /\ serving' = [serving EXCEPT ![i] = Head(general)]
           \/ limited # <<>> /\ serving' = [serving EXCEPT ![i] = Head(limited)]
        /\ UNCHANGED <<flags, kill, sched, free_nsps, nsps_to_invoke, nsps_started>>
    BY <1>8 DEF NspTakes, countVars
  <2>2. pc[i] \in {"ready", "loop"} /\ sched.mode = "idle"
    BY <1>1, <2>1, LoopRuns DEF AtLoop, CpuFree
  <2>3. \A j \in AllSlots : (j # i => serving'[j] = serving[j]) /\ serving'[i] # NoReq
    <3>1. \A q \in Seq(Reqs) : q # <<>> => Head(q) # NoReq
      BY NspAssumption, HeadTailProperties
    <3>2. general \in Seq(Reqs) /\ limited \in Seq(Reqs)
      BY <1>1 DEF TypeOK
    <3> QED
      BY <1>1, <2>1, <3>1, <3>2
  <2>4. /\ \A j \in AllSlots : pc'[j] = IF j = i THEN "took" ELSE pc[j]
        /\ \A j \in Slots : pc'[j] = "asleep" <=> pc[j] = "asleep"
    BY <1>3, <2>1, <2>2
  <2>5. BusyAwake'
    <3>1. BusyAt(pc', flags', i) /\ pc'[i] \in Works
      BY <1>1, <1>2, <2>1, <2>2, <2>4 DEF BusyAt, Works
    <3>2. \A j \in AllSlots : j # i => flags'[j] = flags[j] /\ serving'[j] = serving[j]
      BY <1>1, <2>1, <2>3, <2>4
    <3>3. kill' = kill /\ (serving'[i] # NoReq <=> "took" \in Works)
      BY <1>1, <2>1, <2>3, <2>4, <3>1 DEF Works
    <3>4. \A j \in AllSlots : pc'[j] = IF j = i THEN "took" ELSE pc[j]
      BY <1>1, <2>1, <2>3, <2>4
    <3> QED
      BY <1>1, <3>1, <3>2, <3>3, <3>4, BusyOwn
  <2>6. Started'
    BY <1>1, <2>1, StartedSame
  <2> QED
    BY <1>1, <2>1, <2>2, <2>4, <2>5, <2>6, ExactSame
<1>9. CASE NspArms(i) \/ NspCalls(i)
  <2>1. PICK l \in {"armed", "exec"} : pc' = [pc EXCEPT ![i] = l]
    BY <1>9 DEF NspArms, NspCalls
  <2>2. /\ pc[i] \in {"took", "armed"} /\ sched.mode = "idle"
        /\ UNCHANGED <<flags, serving, kill, sched, free_nsps, nsps_to_invoke, nsps_started>>
    BY <1>9 DEF NspArms, NspCalls, countVars
  <2>3. /\ \A j \in AllSlots : pc'[j] = IF j = i THEN l ELSE pc[j]
        /\ \A j \in Slots : pc'[j] = "asleep" <=> pc[j] = "asleep"
    BY <1>3, <2>1, <2>2
  <2>4. BusyAwake'
    <3>1. BusyAt(pc', flags', i) /\ pc'[i] \in Works /\ serving[i] # NoReq
      BY <1>1, <1>2, <2>2, <2>3 DEF BusyAt, Works
    <3>2. \A j \in AllSlots : j # i => flags'[j] = flags[j] /\ serving'[j] = serving[j]
      BY <1>1, <2>2, <2>3
    <3>3. kill' = kill /\ (serving'[i] # NoReq <=> l \in Works)
      BY <1>1, <2>2, <2>3, <3>1 DEF Works
    <3>4. \A j \in AllSlots : pc'[j] = IF j = i THEN l ELSE pc[j]
      BY <1>1, <2>2, <2>3
    <3> QED
      BY <1>1, <3>1, <3>2, <3>3, <3>4, BusyOwn
  <2>5. Started'
    BY <1>1, <2>2, StartedSame
  <2> QED
    BY <1>1, <2>2, <2>3, <2>4, <2>5, ExactSame
<1>10. CASE NspDone(i)
  <2>1. /\ pc[i] = "exec" /\ sched.mode = "idle" /\ pc' = [pc EXCEPT ![i] = "loop"]
        /\ serving' = [serving EXCEPT ![i] = NoReq]
        /\ UNCHANGED <<flags, kill, sched, free_nsps, nsps_to_invoke, nsps_started>>
    BY <1>10 DEF NspDone, countVars, CpuFree
  <2>2. \A j \in AllSlots : serving'[j] = IF j = i THEN NoReq ELSE serving[j]
    BY <1>1, <2>1
  <2>3. /\ \A j \in AllSlots : pc'[j] = IF j = i THEN "loop" ELSE pc[j]
        /\ \A j \in Slots : pc'[j] = "asleep" <=> pc[j] = "asleep"
    BY <1>3, <2>1
  <2>4. BusyAwake'
    <3>1. BusyAt(pc', flags', i) /\ ~(pc'[i] \in Works)
      BY <1>1, <1>2, <2>1, <2>3 DEF BusyAt, Works
    <3>2. \A j \in AllSlots : j # i => flags'[j] = flags[j] /\ serving'[j] = serving[j]
      BY <1>1, <2>1, <2>2, <2>3
    <3>3. kill' = kill /\ (serving'[i] # NoReq <=> "loop" \in Works)
      BY <1>1, <2>1, <2>2, <2>3, <3>1 DEF Works
    <3>4. \A j \in AllSlots : pc'[j] = IF j = i THEN "loop" ELSE pc[j]
      BY <1>1, <2>1, <2>2, <2>3
    <3> QED
      BY <1>1, <3>1, <3>2, <3>3, <3>4, BusyOwn
  <2>5. Started'
    BY <1>1, <2>1, StartedSame
  <2> QED
    BY <1>1, <2>1, <2>3, <2>4, <2>5, ExactSame
<1> QED
  BY <1>4, <1>5, <1>6, <1>7, <1>8, <1>9, <1>10 DEF NspStep

(* A timeout.                                                              *)
LEMMA TimeoutRun ==
  ASSUME RunInv, NEW i \in Slots, nsptimeout(i)
  PROVE  BusyAwake' /\ Exact'
<1>1. /\ TypeOK /\ Where /\ BusyAwake /\ Exact /\ Started /\ pc \in Pcs /\ flags \in FlagSets
      /\ i \in AllSlots /\ i # 0 /\ 0 \in AllSlots /\ (\A j \in Slots : j \in AllSlots /\ j # 0)
  BY TheSlots DEF RunInv, TableInv, SlotInv, TypeOK, Pcs, FlagSets, Exact, Started
<1>2. /\ sched.mode = "idle" /\ i \in timer
      /\ UNCHANGED <<serving, free_nsps, nsps_started, sched, kill>>
  BY DEF nsptimeout
<1>3. /\ BusyAt(pc, flags, i) /\ (serving[i] # NoReq <=> pc[i] \in Works)
      /\ pc[i] \in {"armed", "exec"} /\ "VALID" \in flags[i]
  BY <1>1, <1>2, BusyAwakeIs DEF Where
<1>4. CASE "TIMED_OUT" \in flags[i]
  <2>1. UNCHANGED <<flags, nsps_to_invoke, pc>>
    BY <1>4 DEF nsptimeout
  <2>2. Started'
    BY <1>1, <1>2, <2>1, StartedSame
  <2>3. BusyAwake'
    BY <1>1, <1>2, <2>1, BusyAwakeIs
  <2> QED
    BY <1>1, <1>2, <2>1, <2>2, <2>3, ExactSame
<1>5. CASE "TIMED_OUT" \notin flags[i]
  <2>1. /\ flags' = Set(i, "TIMED_OUT") /\ nsps_to_invoke' = nsps_to_invoke + 1
        /\ pc' = wakeup_nsp_forker
    BY <1>5 DEF nsptimeout
  <2>2. Wakes(pc') /\ \A j \in Slots : pc'[j] = pc[j]
    BY <1>1, <2>1, WokenWakes
  <2>3. \A j \in AllSlots : flags'[j] = IF j = i THEN flags[j] \cup {"TIMED_OUT"} ELSE flags[j]
    BY <1>1, <2>1 DEF Set, FlagSets
  <2>4. BusyAwake'
    <3>1. BusyAt(pc', flags', i)
      <4>1. pc'[i] = pc[i] /\ flags'[i] = flags[i] \cup {"TIMED_OUT"}
        BY <1>1, <2>2, <2>3
      <4> QED
        BY <1>3, <4>1 DEF BusyAt
    <3>2. \A j \in AllSlots : j # i => /\ serving'[j] = serving[j]
                                       /\ pc'[j] \in Works <=> pc[j] \in Works
      BY <1>2, <2>2 DEF Wakes, Works
    <3>3. \A j \in Slots : j # i => pc'[j] = pc[j] /\ flags'[j] = flags[j]
      BY <1>1, <2>2, <2>3
    <3>4. flags'[0] = flags[0] /\ (pc'[0] = "exec" => pc[0] = "exec")
      BY <1>1, <2>2, <2>3 DEF Wakes
    <3>5. serving'[i] # NoReq <=> pc'[i] \in Works
      BY <1>2, <1>3, <2>2
    <3> QED
      BY <1>1, <1>2, <3>1, <3>2, <3>3, <3>4, <3>5, BusyStep
  <2>5. Started'
    <3>1. /\ Stays(flags, i) /\ ~Stays(flags', i)
          /\ \A j \in Slots : j # i => (Stays(flags', j) <=> Stays(flags, j))
      BY <1>1, <1>3, <1>5, <2>3 DEF Stays
    <3> QED
      BY <1>1, <1>2, <2>1, <3>1, StartedLess
  <2> QED
    BY <1>1, <1>2, <2>2, <2>4, <2>5, ExactSame
<1> QED
  BY <1>4, <1>5

(* The steps of the limited NSP by itself.                                 *)
LEMMA LnspRun ==
  ASSUME RunInv, LnspTakes \/ LnspDone \/ LnspSleeps \/ LnspForks \/ ForkNoProc
  PROVE  BusyAwake' /\ Exact'
<1>1. /\ TypeOK /\ Where /\ BusyAwake /\ Exact /\ Started /\ pc \in Pcs /\ flags \in FlagSets
      /\ 0 \in AllSlots /\ (\A j \in Slots : j \in AllSlots /\ j # 0)
      /\ serving \in [AllSlots -> Reqs \cup {NoReq}] /\ nsps_to_invoke \in Int
  BY TheSlots DEF RunInv, TableInv, SlotInv, TypeOK, Pcs, FlagSets, Exact, Started
<1>2. /\ sched.mode = "idle" /\ UNCHANGED <<free_nsps, nsps_to_invoke, nsps_started, sched, kill>>
      /\ pc[0] # "newproc"
  BY <1>1 DEF LnspTakes, LnspDone, LnspSleeps, LnspForks, ForkNoProc, countVars, AtLoop, CpuFree
<1>3. "VALID" \in flags[0]
  BY <1>1, BusyAwakeIs
<1>4. /\ \A j \in Slots : flags'[j] = flags[j]
      /\ "VALID" \in flags'[0] /\ (LnspTakes => "BUSY" \in flags'[0])
  <2>1. /\ flags' = Set(0, "BUSY") \/ flags' = Clear(0, "BUSY") \/ flags' = flags
        /\ LnspTakes => flags' = Set(0, "BUSY")
    BY DEF LnspTakes, LnspDone, LnspSleeps, LnspForks, ForkNoProc
  <2> QED
    BY <1>1, <1>3, <2>1 DEF Set, Clear, FlagSets
<1>5. /\ \E l \in {"asleep", "loop", "exec", "getpid"} :
           pc' = [pc EXCEPT ![0] = l] /\ (l = "exec" <=> LnspTakes)
      /\ \A j \in Slots : serving'[j] = serving[j]
      /\ serving'[0] # NoReq <=> LnspTakes
  <2>1. CASE LnspTakes
    <3>1. /\ limited # <<>> /\ serving' = [serving EXCEPT ![0] = Head(limited)]
          /\ pc' = [pc EXCEPT ![0] = "exec"]
      BY <2>1 DEF LnspTakes
    <3>2. Head(limited) # NoReq
      BY <1>1, <3>1, NspAssumption, HeadTailProperties DEF TypeOK
    <3>3. (\A j \in Slots : serving'[j] = serving[j]) /\ serving'[0] # NoReq
      BY <1>1, <3>1, <3>2
    <3> QED
      BY <2>1, <3>1, <3>3
  <2>2. CASE ~LnspTakes
    <3>1. \E l \in {"asleep", "loop", "getpid"} : pc' = [pc EXCEPT ![0] = l]
      <4>1. CASE LnspDone \/ LnspSleeps
        BY <4>1 DEF LnspDone, LnspSleeps
      <4>2. CASE LnspForks \/ ForkNoProc
        <5>1. ForkLoop(pc, nsps_to_invoke, TRUE) \/ ForkLoop(pc, nsps_to_invoke, FALSE)
          BY <4>2 DEF LnspForks, ForkNoProc
        <5> QED
          BY <1>1, <5>1, ForkLoopTypes
      <4> QED
        BY <2>2, <4>1, <4>2
    <3>2. /\ \A j \in Slots : serving'[j] = serving[j]
          /\ serving'[0] = NoReq
      <4>1. CASE LnspDone
        BY <1>1, <4>1 DEF LnspDone
      <4>2. CASE LnspSleeps \/ LnspForks \/ ForkNoProc
        <5>1. pc[0] \in {"ready", "loop", "getpid"} /\ serving' = serving
          BY <1>1, <4>2, LoopRuns DEF LnspSleeps, LnspForks, ForkNoProc
        <5>2. serving[0] = NoReq
          BY <1>1, <5>1, BusyAwakeIs DEF Works
        <5> QED
          BY <5>1, <5>2
      <4> QED
        BY <2>2, <4>1, <4>2
    <3> QED
      BY <2>2, <3>1, <3>2
  <2> QED
    BY <2>1, <2>2
<1>6. PICK l \in {"asleep", "loop", "exec", "getpid"} :
         pc' = [pc EXCEPT ![0] = l] /\ (l = "exec" <=> LnspTakes)
  BY <1>5
<1>7. pc'[0] = l /\ \A j \in Slots : pc'[j] = pc[j]
  BY <1>1, <1>6 DEF Pcs
<1>8. BusyAwake'
  <2>1. \A j \in AllSlots : j # 0 => /\ serving'[j] = serving[j]
                                     /\ pc'[j] \in Works <=> pc[j] \in Works
    BY <1>5, <1>7, TheSlots
  <2>2. serving'[0] # NoReq <=> pc'[0] \in Works
    BY <1>5, <1>6, <1>7 DEF Works
  <2>3. "VALID" \in flags'[0] /\ (pc'[0] = "exec" => "BUSY" \in flags'[0])
    BY <1>4, <1>6, <1>7
  <2>4. \A j \in Slots : j # 0 => pc'[j] = pc[j] /\ flags'[j] = flags[j]
    BY <1>4, <1>7
  <2> QED
    BY <1>1, <1>2, <2>1, <2>2, <2>3, <2>4, BusyStep
<1>9. Started'
  <2>1. \A j \in Slots : Stays(flags', j) <=> Stays(flags, j)
    BY <1>4 DEF Stays
  <2> QED
    BY <1>1, <1>2, <2>1, StartedSame
<1> QED
  BY <1>1, <1>2, <1>7, <1>8, <1>9, ExactSame

(* A slot is reserved, given back, or has its process.                     *)
LEMMA ForkRun ==
  ASSUME RunInv, ForkReserves \/ ForkBacksOut \/ ForkDone
  PROVE  BusyAwake' /\ Exact'
<1>1. /\ TypeOK /\ Where /\ Table /\ BusyAwake /\ Exact /\ Started /\ pc \in Pcs /\ flags \in FlagSets
      /\ 0 \in AllSlots /\ (\A j \in Slots : j \in AllSlots /\ j # 0)
      /\ nsps_to_invoke \in Int
  BY TheSlots DEF RunInv, TableInv, SlotInv, TypeOK, Pcs, FlagSets, Exact, Started
<1>2. /\ sched.mode = "idle" /\ UNCHANGED <<serving, free_nsps, nsps_started, sched, kill>>
      /\ pc[0] \in {"getpid", "newproc"}
  BY <1>1 DEF ForkReserves, ForkBacksOut, ForkDone, countVars, CpuFree
<1>3. ASSUME NEW i \in Slots, NEW f, pc[i] \in {"none", "reserved"}, pc'[i] \in {"none", "reserved", "ready"},
             \A j \in AllSlots : flags'[j] = IF j = i THEN f ELSE flags[j],
             \A j \in Slots : j # i => pc'[j] = pc[j],
             pc'[0] \in {"getpid", "newproc", "loop"},
             pc'[i] # "none" => "BUSY" \in f, "TIMED_OUT" \notin f, Started'
      PROVE  BusyAwake' /\ Exact'
  <2>1. flags'[i] = f /\ flags'[0] = flags[0] /\ \A j \in Slots : j # i => pc'[j] = pc[j] /\ flags'[j] = flags[j]
    BY <1>1, <1>3
  <2>2. BusyAt(pc', flags', i)
    BY <1>3, <2>1 DEF BusyAt
  <2>3. \A j \in AllSlots : j # i => /\ serving'[j] = serving[j]
                                     /\ pc'[j] \in Works <=> pc[j] \in Works
    BY <1>2, <1>3, TheSlots DEF Works
  <2>4. serving'[i] # NoReq <=> pc'[i] \in Works
    BY <1>1, <1>2, <1>3, BusyAwakeIs DEF Works
  <2>5. BusyAwake'
    BY <1>1, <1>2, <1>3, <2>1, <2>2, <2>3, <2>4, BusyStep
  <2>6. \A j \in Slots : pc'[j] = "asleep" <=> pc[j] = "asleep"
    BY <1>3
  <2> QED
    BY <1>1, <1>2, <1>3, <2>5, <2>6, ExactSame
<1>4. CASE ForkReserves
  <2>1. PICK i \in Slots : /\ "VALID" \notin flags[i] /\ flags' = [flags EXCEPT ![i] = {"BUSY", "VALID"}]
                           /\ pc' = [pc EXCEPT ![0] = "newproc", ![i] = "reserved"]
    BY <1>4 DEF ForkReserves
  <2>2. nsps_to_invoke' = nsps_to_invoke - 1 /\ pc[i] = "none"
    BY <1>1, <1>4, <2>1 DEF ForkReserves, Where
  <2>3. pc'[0] = "newproc" /\ pc'[i] = "reserved" /\ \A j \in Slots : j # i => pc'[j] = pc[j]
    BY <1>1, <2>1 DEF Pcs
  <2>4. \A j \in AllSlots : flags'[j] = IF j = i THEN {"BUSY", "VALID"} ELSE flags[j]
    BY <1>1, <2>1 DEF FlagSets
  <2>5. Started'
    <3>1. ~Stays(flags, i) /\ Stays(flags', i) /\ \A j \in Slots : j # i => (Stays(flags', j) <=> Stays(flags, j))
      BY <1>1, <2>1, <2>4 DEF Stays
    <3> QED
      BY <1>1, <1>2, <2>2, <3>1, StartedMore
  <2> QED
    BY <1>3, <2>2, <2>3, <2>4, <2>5
<1>5. CASE ForkBacksOut \/ ForkDone
  <2>1. /\ pc[0] = "newproc" /\ fork.slot \in Slots /\ pc[fork.slot] = "reserved"
    BY <1>1, <1>5 DEF ForkBacksOut, ForkDone, Table
  <2>2. PICK i \in Slots : i = fork.slot
    BY <2>1
  <2>3. pc[i] = "reserved" /\ "VALID" \in flags[i] /\ "BUSY" \in flags[i] /\ "TIMED_OUT" \notin flags[i]
    <3>1. pc[i] = "reserved"
      BY <2>1, <2>2
    <3>2. BusyAt(pc, flags, i) /\ (pc[i] # "none" <=> "VALID" \in flags[i])
      BY <1>1, BusyAwakeIs DEF Where
    <3> QED
      BY <3>1, <3>2 DEF BusyAt
  <2>4. CASE ForkBacksOut
    <3>1. /\ nsps_to_invoke' = nsps_to_invoke + 1 /\ flags' = [flags EXCEPT ![i] = {}]
          /\ ForkLoop([pc EXCEPT ![i] = "none"], nsps_to_invoke + 1, TRUE)
      BY <2>2, <2>4 DEF ForkBacksOut
    <3>2. \E l \in {"getpid", "loop"} : pc' = [[pc EXCEPT ![i] = "none"] EXCEPT ![0] = l]
      <4>1. nsps_to_invoke + 1 \in Int
        BY <1>1
      <4> QED
        BY <3>1, <4>1, ForkLoopTypes
    <3>3. pc'[0] \in {"getpid", "loop"} /\ pc'[i] = "none" /\ \A j \in Slots : j # i => pc'[j] = pc[j]
      BY <1>1, <3>2 DEF Pcs
    <3>4. \A j \in AllSlots : flags'[j] = IF j = i THEN {} ELSE flags[j]
      BY <1>1, <3>1 DEF FlagSets
    <3>5. Started'
      <4>1. /\ Stays(flags, i) /\ ~Stays(flags', i)
            /\ \A j \in Slots : j # i => (Stays(flags', j) <=> Stays(flags, j))
        BY <1>1, <2>3, <3>4 DEF Stays
      <4> QED
        BY <1>1, <1>2, <3>1, <4>1, StartedLess
    <3> QED
      BY <1>3, <2>3, <3>3, <3>4, <3>5
  <2>5. CASE ForkDone
    <3>1. /\ UNCHANGED <<flags, nsps_to_invoke>>
          /\ ForkLoop([pc EXCEPT ![i] = "ready"], nsps_to_invoke, FALSE)
      BY <2>2, <2>5 DEF ForkDone, countVars
    <3>2. \E l \in {"getpid", "loop"} : pc' = [[pc EXCEPT ![i] = "ready"] EXCEPT ![0] = l]
      BY <1>1, <3>1, ForkLoopTypes
    <3>3. pc'[0] \in {"getpid", "loop"} /\ pc'[i] = "ready" /\ \A j \in Slots : j # i => pc'[j] = pc[j]
      BY <1>1, <3>2 DEF Pcs
    <3>4. \A j \in AllSlots : flags'[j] = IF j = i THEN flags[i] ELSE flags[j]
      BY <3>1
    <3>5. Started'
      BY <1>1, <1>2, <3>1, StartedSame
    <3> QED
      BY <1>3, <2>3, <3>3, <3>4, <3>5
  <2> QED
    BY <1>5, <2>4, <2>5
<1> QED
  BY <1>4, <1>5

(* While kill_nsps() has not been called, an NSP is free when it is asleep. *)
LEMMA FreeAsleep ==
  ASSUME TypeOK, Where, BusyAwake
  PROVE  Free = Asleep
<1>1. ASSUME NEW i \in Slots
      PROVE  "VALID" \in flags[i] /\ "BUSY" \notin flags[i] <=> pc[i] = "asleep"
  <2>1. BusyAt(pc, flags, i) /\ (pc[i] # "none" <=> "VALID" \in flags[i])
    BY BusyAwakeIs DEF Where
  <2> QED
    BY <2>1 DEF BusyAt
<1> QED
  BY <1>1 DEF Free, Asleep

(* A choice keeps the counts exact.                                        *)
LEMMA ChosenRun ==
  ASSUME RunInv, Chosen, UNCHANGED <<serving, nsps_to_invoke, nsps_started, kill>>
  PROVE  BusyAwake' /\ Exact'
<1>1. /\ TypeOK /\ Where /\ BusyAwake /\ Exact /\ Started /\ pc \in Pcs /\ flags \in FlagSets
      /\ 0 \in AllSlots /\ (\A j \in Slots : j \in AllSlots /\ j # 0) /\ free_nsps \in Int
  BY TheSlots DEF RunInv, TableInv, SlotInv, TypeOK, Pcs, FlagSets, Exact, Started
<1>2. Free = Asleep
  BY <1>1, FreeAsleep
<1>3. CASE /\ UNCHANGED <<flags, free_nsps>>
           /\ Wakes(pc') /\ \A j \in Slots : pc'[j] = pc[j]
  <2>1. Started'
    BY <1>1, <1>3, StartedSame
  <2>2. pc'[0] = pc[0] \/ (pc[0] = "asleep" /\ pc'[0] = "ready")
    BY <1>1, <1>3 DEF Wakes
  <2>3. BusyAwake'
    <3>1. \A j \in AllSlots : j # 0 => /\ serving'[j] = serving[j]
                                       /\ pc'[j] \in Works <=> pc[j] \in Works
      BY <1>3, TheSlots
    <3>2. serving'[0] # NoReq <=> pc'[0] \in Works
      BY <1>1, <2>2, BusyAwakeIs DEF Works
    <3>3. "VALID" \in flags'[0] /\ (pc'[0] = "exec" => "BUSY" \in flags'[0])
      BY <1>1, <1>3, <2>2, BusyAwakeIs
    <3> QED
      BY <1>1, <1>3, <3>1, <3>2, <3>3, BusyStep
  <2> QED
    BY <1>1, <1>2, <1>3, <2>1, <2>3, ExactSame
<1>4. CASE \E i \in Free : /\ flags' = Set(i, "BUSY") /\ free_nsps' = free_nsps - 1
                           /\ pc' = Woken(i)
  <2>1. PICK i \in Free : flags' = Set(i, "BUSY") /\ free_nsps' = free_nsps - 1 /\ pc' = Woken(i)
    BY <1>4
  <2>2. i \in Slots /\ i \in AllSlots /\ i # 0 /\ pc[i] = "asleep" /\ i \in Asleep
    BY <1>1, <1>2 DEF Asleep
  <2>3. \A j \in AllSlots : pc'[j] = IF j = i THEN "ready" ELSE pc[j]
    BY <1>1, <2>1, <2>2, WokenIs
  <2>4. \A j \in AllSlots : flags'[j] = IF j = i THEN flags[j] \cup {"BUSY"} ELSE flags[j]
    BY <1>1, <2>1, <2>2 DEF Set, FlagSets
  <2>5. BusyAwake'
    <3>1. BusyAt(pc, flags, i) /\ serving[i] = NoReq
      BY <1>1, <2>2, BusyAwakeIs DEF Works
    <3>2. BusyAt(pc', flags', i)
      <4>1. pc'[i] = "ready" /\ flags'[i] = flags[i] \cup {"BUSY"}
        BY <2>2, <2>3, <2>4
      <4> QED
        BY <2>2, <3>1, <4>1 DEF BusyAt
    <3>3. \A j \in AllSlots : j # i => flags'[j] = flags[j] /\ serving'[j] = serving[j]
      BY <2>4
    <3>4. kill' = kill /\ (serving'[i] # NoReq <=> "ready" \in Works)
      BY <3>1 DEF Works
    <3> QED
      BY <1>1, <2>2, <2>3, <3>2, <3>3, <3>4, BusyOwn
  <2>6. Started'
    <3>1. ASSUME NEW j \in Slots PROVE Stays(flags', j) <=> Stays(flags, j)
      <4>1. flags'[j] = flags[j] \/ flags'[j] = flags[j] \cup {"BUSY"}
        BY <1>1, <2>4
      <4> QED
        BY <4>1 DEF Stays
    <3> QED
      BY <1>1, <3>1, StartedSame
  <2>7. Asleep' = Asleep \ {i}
    BY <1>1, <2>2, <2>3, AsleepIs DEF Asleep
  <2>8. free_nsps' = Cardinality(Asleep')
    <3>1. IsFiniteSet(Asleep) /\ Cardinality(Asleep \ {i}) = Cardinality(Asleep) - 1
      BY <2>2, AsleepIs, FS_RemoveElement
    <3> QED
      BY <1>1, <2>1, <2>7, <3>1 DEF Exact
  <2> QED
    BY <2>5, <2>6, <2>8 DEF Exact, Started
<1> QED
  BY <1>3, <1>4 DEF Chosen

(* The other steps, as long as kill_nsps() is not called.                  *)
LEMMA OtherRun ==
  ASSUME RunInv,
         \/ Arrives
         \/ \E n \in AllSlots : StartNsps(n)
         \/ \E r \in Reqs : signalnsp(r)
         \/ \E s \in Sites : SiteFails(s) \/ no_nsp(s) \/ SiteJoins(s)
         \/ UNCHANGED vars
  PROVE  BusyAwake' /\ Exact'
<1>1. /\ TypeOK /\ Where /\ Table /\ BusyAwake /\ Exact /\ Started /\ pc \in Pcs /\ kill.mode = "idle"
      /\ 0 \in AllSlots /\ (\A j \in Slots : j \in AllSlots /\ j # 0)
  BY TheSlots DEF RunInv, TableInv, SlotInv, TypeOK, Pcs, Exact, Started, BusyAwake, NoKill
<1>2. CASE Arrives
  <2>1. ~KillInvokes
    BY <1>1 DEF KillInvokes
  <2>2. Chosen /\ UNCHANGED <<serving, nsps_to_invoke, nsps_started>>
    BY <1>1, <1>2, ArrivalChooses
  <2>3. UNCHANGED kill
    BY <1>2, <2>1 DEF Arrives, RecvRequest, LocalRequest, ScheduleLowSearches
  <2> QED
    BY <2>2, <2>3, ChosenRun
<1>3. CASE \E n \in AllSlots : StartNsps(n)
  <2>1. PICK n \in AllSlots : StartNsps(n)
    BY <1>3
  <2>2. /\ nsps_to_invoke' = nsps_to_invoke + Wanted(n) - nsps_started /\ nsps_started' = Wanted(n)
        /\ pc' = wakeup_nsp_forker /\ sched.mode = "idle"
        /\ UNCHANGED <<flags, serving, free_nsps, sched, kill>>
    BY <2>1 DEF StartNsps, CpuFree
  <2>3. Wakes(pc') /\ \A j \in Slots : pc'[j] = pc[j]
    BY <1>1, <2>2, WokenWakes
  <2>4. pc'[0] = pc[0] \/ (pc[0] = "asleep" /\ pc'[0] = "ready")
    BY <1>1, <2>3 DEF Wakes
  <2>5. BusyAwake'
    <3>1. \A j \in AllSlots : j # 0 => /\ serving'[j] = serving[j]
                                       /\ pc'[j] \in Works <=> pc[j] \in Works
      BY <2>2, <2>3, TheSlots
    <3>2. serving'[0] # NoReq <=> pc'[0] \in Works
      BY <1>1, <2>2, <2>4, BusyAwakeIs DEF Works
    <3>3. "VALID" \in flags'[0] /\ (pc'[0] = "exec" => "BUSY" \in flags'[0])
      BY <1>1, <2>2, <2>4, BusyAwakeIs
    <3> QED
      BY <1>1, <2>2, <2>3, <3>1, <3>2, <3>3, BusyStep
  <2>6. Started'
    <3>1. Unmarked' = Unmarked /\ Cardinality(Unmarked) \in Nat
      BY <2>2, UnmarkedIs
    <3>2. nsps_to_invoke \in Int /\ nsps_started \in Int /\ Wanted(n) \in Int
      BY <1>1, TheSlots, WantedIs DEF TypeOK
    <3>3. nsps_started = Cardinality(Unmarked) + nsps_to_invoke
      BY <1>1 DEF Started
    <3>4. nsps_to_invoke' = nsps_to_invoke + Wanted(n) - nsps_started /\ nsps_started' = Wanted(n)
      BY <2>2
    <3>5. nsps_started' = Cardinality(Unmarked) + nsps_to_invoke'
      BY <3>1, <3>2, <3>3, <3>4
    <3> QED
      BY <3>1, <3>5 DEF Started
  <2> QED
    BY <1>1, <2>2, <2>3, <2>5, <2>6, ExactSame
<1>4. CASE \/ \E r \in Reqs : signalnsp(r)
           \/ \E s \in Sites : SiteFails(s) \/ no_nsp(s) \/ SiteJoins(s)
           \/ UNCHANGED vars
  <2>1. UNCHANGED <<flags, pc, serving, free_nsps, nsps_to_invoke, nsps_started, sched, kill>>
    BY <1>4 DEF signalnsp, SiteFails, no_nsp, SiteJoins, vars, countVars
  <2>2. BusyAwake'
    BY <1>1, <2>1, BusyAwakeIs
  <2>3. Started'
    BY <1>1, <2>1, StartedSame
  <2> QED
    BY <1>1, <2>1, <2>2, <2>3, ExactSame DEF Exact
<1> QED
  BY <1>2, <1>3, <1>4

(* The number of reductions left never grows.                              *)
LEMMA ReducedStays ==
  ASSUME TypeOK, [Next]_vars, NotReduced'
  PROVE  NotReduced /\ \A n \in AllSlots : ~KillNsps(n)
<1>1. left \in [kills : 0 .. MaxKills, fails : 0 .. MaxFails] /\ MaxKills \in Nat
  BY NspAssumption DEF TypeOK
<1>2. ASSUME NEW n \in AllSlots, KillNsps(n) PROVE FALSE
  <2>1. left' = [left EXCEPT !.kills = left.kills - 1]
    BY <1>2 DEF KillNsps
  <2> QED
    BY <1>1, <2>1 DEF NotReduced
<1>3. CASE left' = left
  BY <1>2, <1>3 DEF NotReduced
<1>4. CASE ForkNoProc \/ ForkBacksOut
  <2>1. left' = [left EXCEPT !.fails = left.fails - 1]
    BY <1>4 DEF ForkNoProc, ForkBacksOut, FailsOnce
  <2>2. left'.kills = left.kills
    BY <1>1, <2>1
  <2> QED
    BY <1>2, <2>2 DEF NotReduced
<1>5. CASE \E i \in Slots : NspStep(i) \/ nsptimeout(i)
  BY <1>3, <1>5 DEF NspStep, NspSleeps, NspRevives, NspDies, NspDead, NspTakes, NspArms, NspCalls,
       NspDone, nsptimeout
<1>6. CASE LnspTakes \/ LnspDone \/ LnspSleeps \/ LnspForks \/ ForkReserves \/ ForkDone
  BY <1>3, <1>6 DEF LnspTakes, LnspDone, LnspSleeps, LnspForks, ForkReserves, ForkDone
<1>7. CASE (\E n \in AllSlots : StartNsps(n)) \/ KillMarks \/ KillMarked \/ KillReturns
  BY <1>3, <1>7 DEF StartNsps, KillMarks, KillMarked, KillReturns
<1>8. CASE Arrives
  BY <1>3, <1>8, ArrivalChooses
<1>9. CASE \/ \E r \in Reqs : signalnsp(r)
           \/ \E s \in Sites : SiteFails(s) \/ no_nsp(s) \/ SiteJoins(s)
           \/ UNCHANGED vars
  BY <1>3, <1>9 DEF signalnsp, SiteFails, no_nsp, SiteJoins, vars
<1> QED
  BY <1>2, <1>4, <1>5, <1>6, <1>7, <1>8, <1>9, NextIs DEF LnspStep

(* Busy NSPs and exact counts, in every step.                              *)
LEMMA RunStep ==
  ASSUME RunInv, NotReduced', [Next]_vars
  PROVE  BusyAwake' /\ Exact'
<1>1. TypeOK /\ kill.mode = "idle"
  BY DEF RunInv, TableInv, SlotInv, BusyAwake, NoKill
<1>2. ~KillMarks /\ ~KillMarked /\ ~KillReturns
  BY <1>1 DEF KillMarks, KillMarked, KillReturns
<1>3. \A n \in AllSlots : ~KillNsps(n)
  BY <1>1, ReducedStays
<1>4. CASE LnspStep
  BY <1>4, LnspRun, ForkRun DEF LnspStep
<1> QED
  BY <1>2, <1>3, <1>4, NextIs, NspRun, TimeoutRun, OtherRun

-----------------------------------------------------------------------------
(* Nobody works for a site that has been cleaned up after.                 *)

(* The requests queued or being served in the next state.                  *)
LEMMA OutstandingIs ==
  Outstanding' = Queued(general') \cup Queued(limited') \cup Queued(kill'.mp)
                   \cup {serving'[i] : i \in AllSlots}
  BY DEF Outstanding, Queued

(* No request is new, and no site is newly inactive.                       *)
LEMMA DeadSame ==
  ASSUME NoneForDead, \A s \in Sites : status'[s] = "inactive" => status[s] = "inactive",
         Outstanding' \subseteq Outstanding \cup {NoReq}
  PROVE  NoneForDead'
  BY DEF NoneForDead

(* An NSP takes the first request of a queue, or is done with one.         *)
LEMMA TakesDead ==
  ASSUME TypeOK, Places, NoneForDead, NEW i \in AllSlots, UNCHANGED <<kill, status>>,
         \/ /\ general # <<>> /\ serving' = [serving EXCEPT ![i] = Head(general)]
            /\ general' = Tail(general) /\ UNCHANGED limited
         \/ /\ limited # <<>> /\ serving' = [serving EXCEPT ![i] = Head(limited)]
            /\ limited' = Tail(limited) /\ UNCHANGED general
         \/ serving' = [serving EXCEPT ![i] = NoReq] /\ UNCHANGED <<general, limited>>
  PROVE  NoneForDead'
<1>1. /\ general \in Seq(Reqs) /\ limited \in Seq(Reqs) /\ Once(general) /\ Once(limited)
      /\ serving \in [AllSlots -> Reqs \cup {NoReq}]
  BY DEF TypeOK, Places
<1>2. ASSUME NEW h, h \in Queued(general) \cup Queued(limited) \cup {NoReq},
             serving' = [serving EXCEPT ![i] = h],
             Queued(general') \subseteq Queued(general), Queued(limited') \subseteq Queued(limited)
      PROVE  NoneForDead'
  <2>1. \A j \in AllSlots : serving'[j] = IF j = i THEN h ELSE serving[j]
    BY <1>1, <1>2
  <2>2. Outstanding' \subseteq Outstanding \cup {NoReq}
    BY <1>2, <2>1, OutstandingIs DEF Outstanding
  <2> QED
    BY <2>2, DeadSame
<1>3. CASE /\ general # <<>> /\ serving' = [serving EXCEPT ![i] = Head(general)]
           /\ general' = Tail(general) /\ UNCHANGED limited
  <2>1. Head(general) \in Queued(general) /\ Queued(general') \subseteq Queued(general)
    BY <1>1, <1>3, QueueTail
  <2> QED
    BY <1>2, <1>3, <2>1
<1>4. CASE /\ limited # <<>> /\ serving' = [serving EXCEPT ![i] = Head(limited)]
           /\ limited' = Tail(limited) /\ UNCHANGED general
  <2>1. Head(limited) \in Queued(limited) /\ Queued(limited') \subseteq Queued(limited)
    BY <1>1, <1>4, QueueTail
  <2> QED
    BY <1>2, <1>4, <2>1
<1>5. CASE serving' = [serving EXCEPT ![i] = NoReq] /\ UNCHANGED <<general, limited>>
  BY <1>2, <1>5
<1> QED
  BY <1>3, <1>4, <1>5

(* no_nsp() has found nobody busy for the site: nobody is.                 *)
LEMMA CleanedUp ==
  ASSUME RunInv, NoneForDead, NEW s \in Sites, no_nsp(s)
  PROVE  NoneForDead'
<1> DEFINE busy == {i \in AllSlots : "BUSY" \in flags[i] /\ \E r \in Reqs : Source[r] = s /\ Shows(i, r)}
<1>1. /\ TypeOK /\ general \in Seq(Reqs) /\ limited \in Seq(Reqs) /\ BusyAwake /\ Where
      /\ kill = NoKill /\ status \in [Sites -> {"up", "failed", "inactive"}]
      /\ serving \in [AllSlots -> Reqs \cup {NoReq}]
  BY DEF RunInv, TableInv, SlotInv, TypeOK, BusyAwake
<1>2. /\ CpuFree /\ general' = Kept(general, s) /\ limited' = Kept(limited, s)
      /\ UNCHANGED <<serving, kill>>
      /\ status' = [status EXCEPT ![s] = IF busy = {} THEN "inactive" ELSE @] /\ status[s] = "failed"
  BY DEF no_nsp
<1>3. /\ Queued(general') \subseteq {r \in Queued(general) : Source[r] # s}
      /\ Queued(limited') \subseteq {r \in Queued(limited) : Source[r] # s}
      /\ Queued(kill'.mp) = {}
  BY <1>1, <1>2, KeptIs, QueueHolds DEF NoKill
<1>4. Outstanding' \subseteq Outstanding
  BY <1>2, <1>3, OutstandingIs DEF Outstanding
<1>5. CASE busy # {}
  <2>1. \A t \in Sites : status'[t] = status[t]
    BY <1>1, <1>2, <1>5
  <2> QED
    BY <1>4, <2>1, DeadSame
<1>6. CASE busy = {}
  <2>1. \A t \in Sites : t # s => status'[t] = status[t]
    BY <1>1, <1>2
  <2>2. ASSUME NEW i \in AllSlots, serving[i] # NoReq PROVE Source[serving[i]] # s
    <3>1. serving[i] \in Reqs /\ pc[i] \in Works
      BY <1>1, <2>2, BusyAwakeIs
    <3>2. pc[i] = "exec"
      BY <1>2, <3>1 DEF CpuFree, OnCpu, Works
    <3>3. "BUSY" \in flags[i]
      <4>1. CASE i = 0
        BY <1>1, <3>2, <4>1, BusyAwakeIs
      <4>2. CASE i # 0
        <5>1. BusyAt(pc, flags, i)
          BY <1>1, <4>2, BusyAwakeIs, TheSlots
        <5> QED
          BY <3>2, <5>1 DEF BusyAt
      <4> QED
        BY <4>1, <4>2
    <3>4. Shows(i, serving[i])
      BY <3>2 DEF Shows
    <3> QED
      BY <1>6, <3>1, <3>3, <3>4
  <2>3. ASSUME NEW r \in Outstanding' \ {NoReq} PROVE Source[r] # s
    <3>1. CASE r \in Queued(general') \cup Queued(limited')
      BY <1>3, <3>1
    <3>2. CASE r \in {serving'[i] : i \in AllSlots}
      <4>1. PICK i \in AllSlots : r = serving[i]
        BY <1>2, <3>2
      <4> QED
        BY <2>2, <2>3, <4>1
    <3> QED
      BY <1>3, <2>3, <3>1, <3>2, OutstandingIs
  <2>4. ASSUME NEW t \in Sites, status'[t] = "inactive", NEW r \in Outstanding' \ {NoReq}
        PROVE  Source[r] # t
    <3>1. CASE t = s
      BY <2>3, <3>1
    <3>2. CASE t # s
      BY <1>4, <2>1, <2>4, <3>2 DEF NoneForDead
    <3> QED
      BY <3>1, <3>2
  <2> QED
    BY <2>4 DEF NoneForDead
<1> QED
  BY <1>5, <1>6

(* NoneForDead in every step, as long as kill_nsps() is not called.        *)
LEMMA DeadStep ==
  ASSUME RunInv, NoneForDead, NotReduced', [Next]_vars
  PROVE  NoneForDead'
<1>1. /\ TypeOK /\ Places /\ kill = NoKill /\ kill.mode = "idle" /\ kill.mp = <<>>
      /\ 0 \in AllSlots /\ (\A i \in Slots : i \in AllSlots)
      /\ status \in [Sites -> {"up", "failed", "inactive"}]
      /\ general \in Seq(Reqs) /\ limited \in Seq(Reqs)
  BY TheSlots DEF RunInv, TableInv, SlotInv, BusyAwake, NoKill, TypeOK
<1>2. ~KillMarks /\ ~KillMarked /\ ~KillReturns /\ ~KillInvokes /\ (\A n \in AllSlots : ~KillNsps(n))
  BY <1>1, ReducedStays DEF KillMarks, KillMarked, KillReturns, KillInvokes
<1>3. ASSUME UNCHANGED <<general, limited, serving, kill>>,
             \A s \in Sites : status'[s] = "inactive" => status[s] = "inactive"
      PROVE  NoneForDead'
  BY <1>3, DeadSame, OutstandingIs DEF Outstanding
<1>4. CASE \E i \in Slots : NspStep(i)
  <2>1. PICK i \in Slots : NspStep(i)
    BY <1>4
  <2>2. CASE NspTakes(i)
    BY <1>1, <2>2, TakesDead DEF NspTakes
  <2>3. CASE NspDone(i)
    BY <1>1, <2>3, TakesDead DEF NspDone, queueVars
  <2>4. CASE NspSleeps(i) \/ NspRevives(i) \/ NspDies(i) \/ NspDead(i) \/ NspArms(i) \/ NspCalls(i)
    BY <1>3, <2>4 DEF NspSleeps, NspRevives, NspDies, NspDead, NspArms, NspCalls, queueVars
  <2> QED
    BY <2>1, <2>2, <2>3, <2>4 DEF NspStep
<1>5. CASE \E i \in Slots : nsptimeout(i)
  BY <1>3, <1>5 DEF nsptimeout, queueVars
<1>6. CASE LnspStep
  <2>1. CASE LnspTakes
    BY <1>1, <2>1, TakesDead DEF LnspTakes
  <2>2. CASE LnspDone
    BY <1>1, <2>2, TakesDead DEF LnspDone, queueVars
  <2>3. CASE LnspSleeps \/ LnspForks \/ ForkNoProc \/ ForkReserves \/ ForkBacksOut \/ ForkDone
    BY <1>3, <2>3 DEF LnspSleeps, LnspForks, ForkNoProc, ForkReserves, ForkBacksOut, ForkDone, queueVars
  <2> QED
    BY <1>6, <2>1, <2>2, <2>3 DEF LnspStep
<1>7. CASE \E n \in AllSlots : StartNsps(n)
  BY <1>3, <1>7 DEF StartNsps, queueVars
<1>8. CASE Arrives
  <2>1. CASE ScheduleLowSearches
    BY <1>3, <2>1 DEF ScheduleLowSearches, queueVars
  <2>2. CASE \E r \in Reqs : RecvRequest(r) \/ LocalRequest(r)
    <3>1. PICK r \in Reqs : RecvRequest(r) \/ LocalRequest(r)
      BY <2>2
    <3>2. /\ invoke_nsp(r, schedule_nsp) \/ invoke_nsp(r, ScheduleLow)
          /\ Source[r] = Local \/ status[Source[r]] = "up"
          /\ r \notin Outstanding /\ UNCHANGED <<serving, kill, status>>
      BY <3>1 DEF RecvRequest, LocalRequest
    <3>3. \/ general' = Append(general, r) /\ UNCHANGED limited
          \/ limited' = Append(limited, r) /\ UNCHANGED general
          \/ UNCHANGED <<general, limited>>
      BY <1>1, <3>2, InvokeChooses
    <3>4. Outstanding' \subseteq Outstanding \cup {r}
      <4>1. r \notin Queued(general) /\ r \notin Queued(limited)
        BY <3>2 DEF Outstanding
      <4>2. /\ Queued(Append(general, r)) = Queued(general) \cup {r}
            /\ Queued(Append(limited, r)) = Queued(limited) \cup {r}
        BY <1>1, <4>1, QueueAppend DEF Places
      <4>3. /\ Queued(general') \subseteq Queued(general) \cup {r}
            /\ Queued(limited') \subseteq Queued(limited) \cup {r}
        BY <3>3, <4>2
      <4> QED
        BY <3>2, <4>3, OutstandingIs DEF Outstanding
    <3>5. ASSUME NEW s \in Sites, status'[s] = "inactive" PROVE Source[r] # s
      BY <3>2, <3>5, NspAssumption
    <3> QED
      BY <3>2, <3>4, <3>5 DEF NoneForDead
  <2> QED
    BY <1>2, <1>8, <2>1, <2>2 DEF Arrives
<1>9. CASE \E r \in Reqs : signalnsp(r)
  BY <1>3, <1>9 DEF signalnsp, queueVars
<1>10. CASE \E s \in Sites : SiteFails(s) \/ SiteJoins(s)
  <2>1. PICK s \in Sites : SiteFails(s) \/ SiteJoins(s)
    BY <1>10
  <2>2. \E v \in {"up", "failed"} : status' = [status EXCEPT ![s] = v]
    BY <2>1 DEF SiteFails, SiteJoins
  <2>3. \A t \in Sites : status'[t] = "inactive" => status[t] = "inactive"
    BY <1>1, <2>2
  <2>4. UNCHANGED <<general, limited, serving, kill>>
    BY <2>1 DEF SiteFails, SiteJoins, queueVars
  <2> QED
    BY <1>3, <2>3, <2>4
<1>11. CASE \E s \in Sites : no_nsp(s)
  BY <1>11, CleanedUp
<1>12. CASE UNCHANGED vars
  BY <1>3, <1>12 DEF vars
<1> QED
  BY <1>2, <1>4, <1>5, <1>6, <1>7, <1>8, <1>9, <1>10, <1>11, <1>12, NextIs

-----------------------------------------------------------------------------
(* Signals reach the request they are meant for.                           *)

(* Why an NSP may be interrupted: the sender of its request was signalled, *)
(* or the sender's site has failed.                                        *)
Meant(r, a, st) == r \in a \/ (Source[r] # Local /\ st[Source[r]] # "up")

(* Signals, in this state and the next, by why an NSP is interrupted.      *)
LEMMA SignalsIs ==
  /\ Signals <=> /\ sigpending \subseteq acked
                 /\ \A i \in Slots : pc[i] = "exec" => serving[i] \notin sigpending
                 /\ \A i \in Slots : pc[i] = "exec" /\ i \in psig => Meant(serving[i], acked, status)
  /\ Signals' <=> /\ sigpending' \subseteq acked'
                  /\ \A i \in Slots : pc'[i] = "exec" => serving'[i] \notin sigpending'
                  /\ \A i \in Slots : pc'[i] = "exec" /\ i \in psig' => Meant(serving'[i], acked', status')
  BY DEF Signals, SignalMeant, Meant

(* Nobody begins with a request, and no signal comes.                      *)
LEMMA SignalsSame ==
  ASSUME Signals, UNCHANGED <<sigpending, psig, acked, status>>,
         \A i \in Slots : pc'[i] = "exec" => pc[i] = "exec" /\ serving'[i] = serving[i]
  PROVE  Signals'
  BY SignalsIs

SigInv == RunInv /\ NoneForDead /\ Signals

(* The steps of the general NSPs.                                          *)
LEMMA NspSignals ==
  ASSUME SigInv, NEW i \in Slots, NspStep(i)
  PROVE  Signals'
<1>1. /\ TypeOK /\ Signals /\ Places /\ BusyAwake /\ pc \in Pcs /\ i \in AllSlots /\ i # 0
      /\ (\A j \in Slots : j \in AllSlots /\ j # 0) /\ acked \subseteq Reqs
      /\ serving \in [AllSlots -> Reqs \cup {NoReq}]
  BY TheSlots DEF SigInv, RunInv, TableInv, SlotInv, TypeOK, Pcs
<1>2. CASE NspSleeps(i) \/ NspRevives(i) \/ NspDies(i) \/ NspArms(i)
  <2>1. PICK l \in {"asleep", "loop", "dying", "armed"} : pc' = [pc EXCEPT ![i] = l]
    BY <1>2 DEF NspSleeps, NspRevives, NspDies, NspArms
  <2>2. UNCHANGED <<serving, sigpending, psig, acked, status>>
    BY <1>2 DEF NspSleeps, NspRevives, NspDies, NspArms, sigVars
  <2>3. \A j \in Slots : pc'[j] = "exec" => pc[j] = "exec"
    BY <1>1, <2>1 DEF Pcs
  <2> QED
    BY <1>1, <2>2, <2>3, SignalsSame
<1>3. CASE NspDead(i)
  <2> DEFINE p == IF nsps_to_invoke # 0 THEN wakeup_nsp_forker ELSE pc
  <2>1. Wakes(p) /\ \A j \in Slots : p[j] = pc[j]
    BY <1>1, WokenWakes
  <2>2. pc' = [p EXCEPT ![i] = "none"] /\ UNCHANGED <<serving, sigpending, psig, acked, status>>
    BY <1>3 DEF NspDead, sigVars
  <2> HIDE DEF p
  <2>3. \A j \in Slots : pc'[j] = "exec" => pc[j] = "exec"
    BY <1>1, <2>1, <2>2 DEF Wakes, Pcs
  <2> QED
    BY <1>1, <2>2, <2>3, SignalsSame
<1>4. CASE NspTakes(i)
  <2>1. /\ pc' = [pc EXCEPT ![i] = "took"] /\ UNCHANGED <<sigpending, psig, acked, status>>
        /\ \E h : serving' = [serving EXCEPT ![i] = h]
    BY <1>4 DEF NspTakes, sigVars
  <2>2. \A j \in Slots : pc'[j] = "exec" => pc[j] = "exec" /\ serving'[j] = serving[j]
    BY <1>1, <2>1 DEF Pcs
  <2> QED
    BY <1>1, <2>1, <2>2, SignalsSame
<1>5. CASE NspCalls(i)
  <2>1. /\ psig' = IF serving[i] \in sigpending THEN psig \cup {i} ELSE psig \ {i}
        /\ sigpending' = sigpending \ {serving[i]} /\ pc' = [pc EXCEPT ![i] = "exec"]
        /\ UNCHANGED <<serving, acked, status>>
    BY <1>5 DEF NspCalls
  <2>2. \A j \in Slots : j # i => pc'[j] = pc[j] /\ (j \in psig' <=> j \in psig)
    BY <1>1, <2>1 DEF Pcs
  <2>3. sigpending \subseteq acked
    BY <1>1, SignalsIs
  <2>4. ASSUME NEW j \in Slots, pc'[j] = "exec"
        PROVE  serving'[j] \notin sigpending' /\ (j \in psig' => Meant(serving'[j], acked', status'))
    <3>1. CASE j = i
      BY <2>1, <2>3, <3>1 DEF Meant
    <3>2. CASE j # i
      BY <1>1, <2>1, <2>2, <2>4, <3>2, SignalsIs
    <3> QED
      BY <3>1, <3>2
  <2> QED
    BY <2>1, <2>3, <2>4, SignalsIs
<1>6. CASE NspDone(i)
  <2>1. /\ pc[i] = "exec" /\ pc' = [pc EXCEPT ![i] = "loop"] /\ serving' = [serving EXCEPT ![i] = NoReq]
        /\ acked' = acked \ {serving[i]} /\ UNCHANGED <<sigpending, psig, status>>
    BY <1>6 DEF NspDone
  <2>2. \A j \in Slots : pc'[j] = "exec" => j # i /\ pc[j] = "exec" /\ serving'[j] = serving[j]
    BY <1>1, <2>1 DEF Pcs
  <2>3. sigpending' \subseteq acked'
    BY <1>1, <2>1, SignalsIs
  <2>4. ASSUME NEW j \in Slots, pc'[j] = "exec"
        PROVE  serving'[j] \notin sigpending' /\ (j \in psig' => Meant(serving'[j], acked', status'))
    <3>1. j # i /\ pc[j] = "exec" /\ serving'[j] = serving[j]
      BY <2>2, <2>4
    <3>2. serving[j] \notin sigpending /\ (j \in psig => Meant(serving[j], acked, status))
      BY <1>1, <3>1, SignalsIs
    <3>3. serving[j] \in acked => serving[j] # serving[i]
      BY <1>1, <3>1, NspAssumption DEF Places
    <3> QED
      BY <2>1, <3>1, <3>2, <3>3 DEF Meant
  <2> QED
    BY <2>3, <2>4, SignalsIs
<1> QED
  BY <1>2, <1>3, <1>4, <1>5, <1>6 DEF NspStep

(* The steps of the limited NSP, and a timeout.                            *)
LEMMA LnspSignals ==
  ASSUME SigInv, LnspStep \/ \E i \in Slots : nsptimeout(i)
  PROVE  Signals'
<1>1. /\ TypeOK /\ Table /\ Signals /\ Places /\ pc \in Pcs /\ 0 \in AllSlots /\ nsps_to_invoke \in Int
      /\ (\A j \in Slots : j \in AllSlots /\ j # 0) /\ acked \subseteq Reqs
      /\ serving \in [AllSlots -> Reqs \cup {NoReq}]
  BY TheSlots DEF SigInv, RunInv, TableInv, SlotInv, TypeOK, Pcs
<1>2. CASE LnspTakes
  <2>1. /\ pc' = [pc EXCEPT ![0] = "exec"] /\ UNCHANGED <<sigpending, psig, acked, status>>
        /\ \E h : serving' = [serving EXCEPT ![0] = h]
    BY <1>2 DEF LnspTakes, sigVars
  <2>2. \A j \in Slots : pc'[j] = pc[j] /\ serving'[j] = serving[j]
    BY <1>1, <2>1 DEF Pcs
  <2> QED
    BY <1>1, <2>1, <2>2, SignalsSame
<1>3. CASE LnspDone
  <2>1. /\ pc' = [pc EXCEPT ![0] = "loop"] /\ serving' = [serving EXCEPT ![0] = NoReq]
        /\ acked' = acked \ {serving[0]} /\ sigpending' = sigpending \ {serving[0]}
        /\ UNCHANGED <<psig, status>>
    BY <1>3 DEF LnspDone
  <2>2. \A j \in Slots : pc'[j] = pc[j] /\ serving'[j] = serving[j]
    BY <1>1, <2>1 DEF Pcs
  <2>3. sigpending' \subseteq acked'
    BY <1>1, <2>1, SignalsIs
  <2>4. ASSUME NEW j \in Slots, pc'[j] = "exec"
        PROVE  serving'[j] \notin sigpending' /\ (j \in psig' => Meant(serving'[j], acked', status'))
    <3>1. j # 0 /\ pc[j] = "exec" /\ serving'[j] = serving[j]
      BY <1>1, <2>2, <2>4
    <3>2. serving[j] \notin sigpending /\ (j \in psig => Meant(serving[j], acked, status))
      BY <1>1, <3>1, SignalsIs
    <3>3. serving[j] \in acked => serving[j] # serving[0]
      BY <1>1, <3>1, NspAssumption DEF Places
    <3> QED
      BY <2>1, <3>1, <3>2, <3>3 DEF Meant
  <2> QED
    BY <2>3, <2>4, SignalsIs
<1>4. CASE LnspSleeps \/ LnspForks \/ ForkNoProc
  <2>1. UNCHANGED <<serving, sigpending, psig, acked, status>>
    BY <1>4 DEF LnspSleeps, LnspForks, ForkNoProc, sigVars
  <2>2. \E l : pc' = [pc EXCEPT ![0] = l]
    BY <1>4 DEF LnspSleeps, LnspForks, ForkNoProc, ForkLoop
  <2>3. \A j \in Slots : pc'[j] = pc[j]
    BY <1>1, <2>2 DEF Pcs
  <2> QED
    BY <1>1, <2>1, <2>3, SignalsSame
<1>5. CASE ForkReserves \/ ForkBacksOut \/ ForkDone
  <2>1. UNCHANGED <<serving, sigpending, psig, acked, status>>
    BY <1>5 DEF ForkReserves, ForkBacksOut, ForkDone, sigVars
  <2>2. \E i \in AllSlots, m \in {"reserved", "none", "ready"}, l \in {"newproc", "getpid", "loop"} :
          pc' = [[pc EXCEPT ![i] = m] EXCEPT ![0] = l] \/ pc' = [[pc EXCEPT ![0] = l] EXCEPT ![i] = m]
    <3>1. fork.slot \in AllSlots
      BY <1>1 DEF TypeOK
    <3>2. CASE ForkReserves
      <4>1. PICK i \in Slots : pc' = [pc EXCEPT ![0] = "newproc", ![i] = "reserved"]
        BY <3>2 DEF ForkReserves
      <4>2. i \in AllSlots /\ pc' = [[pc EXCEPT ![0] = "newproc"] EXCEPT ![i] = "reserved"]
        BY <1>1, <4>1
      <4> QED
        BY <4>2
    <3>3. CASE ForkBacksOut \/ ForkDone
      <4>1. PICK m \in {"none", "ready"}, l \in {"getpid", "loop"} :
              pc' = [[pc EXCEPT ![fork.slot] = m] EXCEPT ![0] = l]
        BY <3>3 DEF ForkBacksOut, ForkDone, ForkLoop
      <4> QED
        BY <3>1, <4>1
    <3> QED
      BY <1>5, <3>2, <3>3
  <2>3. \A j \in Slots : pc'[j] = "exec" => pc[j] = "exec"
    BY <1>1, <2>2 DEF Pcs
  <2> QED
    BY <1>1, <2>1, <2>3, SignalsSame
<1>6. CASE \E i \in Slots : nsptimeout(i)
  <2>1. UNCHANGED <<serving, sigpending, psig, acked, status>> /\ (pc' = pc \/ pc' = wakeup_nsp_forker)
    BY <1>6 DEF nsptimeout, sigVars
  <2>2. \A j \in Slots : pc'[j] = pc[j]
    BY <1>1, <2>1, WokenWakes
  <2> QED
    BY <1>1, <2>1, <2>2, SignalsSame
<1> QED
  BY <1>2, <1>3, <1>4, <1>5, <1>6 DEF LnspStep

(* A signal arrives.                                                       *)
LEMMA SignalArrives ==
  ASSUME SigInv, RidsDiffer, NEW r \in Reqs, signalnsp(r)
  PROVE  Signals'
<1>1. /\ TypeOK /\ Signals /\ Places /\ general \in Seq(Reqs) /\ (\A j \in Slots : j \in AllSlots /\ j # 0)
  BY TheSlots DEF SigInv, RunInv, TableInv, SlotInv, TypeOK
<1>2. acked' = acked \cup {r} /\ UNCHANGED <<pc, serving, status, general>>
  BY DEF signalnsp, queueVars
<1>3. /\ sigpending \subseteq acked
      /\ \A j \in Slots : pc[j] = "exec" => serving[j] \notin sigpending
      /\ \A j \in Slots : pc[j] = "exec" /\ j \in psig => Meant(serving[j], acked', status)
  BY <1>1, <1>2, SignalsIs DEF Meant
<1>4. CASE /\ \E i \in AllSlots : /\ \E q \in Reqs : Shows(i, q) /\ Rid[q] = Rid[r]
                                  /\ psig' = psig \cup ({i} \ {0})
           /\ UNCHANGED sigpending
  <2>1. PICK i \in AllSlots : /\ \E q \in Reqs : Shows(i, q) /\ Rid[q] = Rid[r]
                              /\ psig' = psig \cup ({i} \ {0})
    BY <1>4
  <2>2. serving[i] = r
    BY <2>1 DEF RidsDiffer, Shows
  <2>3. Meant(serving[i], acked', status)
    BY <1>2, <2>2 DEF Meant
  <2>4. \A j \in Slots : pc[j] = "exec" /\ j \in psig' => Meant(serving[j], acked', status)
    BY <1>3, <2>1, <2>3
  <2>5. sigpending' \subseteq acked' /\ \A j \in Slots : pc[j] = "exec" => serving[j] \notin sigpending'
    BY <1>2, <1>3, <1>4
  <2> QED
    BY <1>2, <2>4, <2>5, SignalsIs
<1>5. CASE /\ \E k \in DOMAIN general : /\ Rid[general[k]] = Rid[r]
                                        /\ sigpending' = sigpending \cup {general[k]}
           /\ UNCHANGED psig
  <2>1. PICK k \in DOMAIN general : Rid[general[k]] = Rid[r] /\ sigpending' = sigpending \cup {general[k]}
    BY <1>5
  <2>2. general[k] \in Reqs /\ general[k] \in Queued(general)
    BY <1>1, QueueHolds DEF Queued
  <2>3. general[k] = r
    BY <2>1, <2>2 DEF RidsDiffer
  <2>4. \A j \in Slots : serving[j] # r
    BY <1>1, <2>2, <2>3 DEF Places
  <2>5. /\ sigpending' \subseteq acked'
        /\ \A j \in Slots : pc[j] = "exec" => serving[j] \notin sigpending'
    BY <1>2, <1>3, <2>1, <2>3, <2>4
  <2>6. psig' = psig
    BY <1>5
  <2> QED
    BY <1>2, <1>3, <2>5, <2>6, SignalsIs
<1> QED
  BY <1>4, <1>5 DEF signalnsp

(* A site fails, is cleaned up after, or joins.                            *)
LEMMA SiteSignals ==
  ASSUME SigInv, NEW s \in Sites, SiteFails(s) \/ no_nsp(s) \/ SiteJoins(s)
  PROVE  Signals'
<1>1. /\ TypeOK /\ Signals /\ Places /\ BusyAwake /\ NoneForDead
      /\ (\A j \in Slots : j \in AllSlots /\ j # 0)
      /\ status \in [Sites -> {"up", "failed", "inactive"}]
      /\ serving \in [AllSlots -> Reqs \cup {NoReq}]
      /\ Local \notin Sites /\ Source \in [Reqs -> Sites \cup {Local}]
  BY TheSlots, NspAssumption DEF SigInv, RunInv, TableInv, SlotInv, TypeOK
<1>2. /\ sigpending \subseteq acked
      /\ \A j \in Slots : pc[j] = "exec" => serving[j] \notin sigpending
      /\ \A j \in Slots : pc[j] = "exec" /\ j \in psig => Meant(serving[j], acked, status)
  BY <1>1, SignalsIs
<1>3. ASSUME NEW j \in Slots, pc[j] = "exec" PROVE serving[j] \in Reqs /\ serving[j] \in Outstanding \ {NoReq}
  <2>1. serving[j] # NoReq /\ j \in AllSlots
    BY <1>1, <1>3, BusyAwakeIs DEF Works
  <2> QED
    BY <1>1, <2>1 DEF Outstanding
<1>4. ASSUME UNCHANGED <<pc, serving, sigpending, psig, acked>>,
             \A j \in Slots : pc[j] = "exec" /\ Source[serving[j]] # Local /\ status[Source[serving[j]]] # "up"
                                => status'[Source[serving[j]]] # "up"
      PROVE  Signals'
  BY <1>2, <1>4, SignalsIs DEF Meant
<1>5. CASE SiteFails(s)
  <2>1. status' = [status EXCEPT ![s] = "failed"] /\ UNCHANGED <<pc, serving, sigpending, psig, acked>>
    BY <1>5 DEF SiteFails, sigVars
  <2>2. ASSUME NEW j \in Slots, pc[j] = "exec", Source[serving[j]] # Local, status[Source[serving[j]]] # "up"
        PROVE  status'[Source[serving[j]]] # "up"
    BY <1>1, <1>3, <2>1, <2>2
  <2> QED
    BY <1>4, <2>1, <2>2
<1>6. CASE SiteJoins(s)
  <2>1. /\ status[s] = "inactive" /\ status' = [status EXCEPT ![s] = "up"]
        /\ UNCHANGED <<pc, serving, sigpending, psig, acked>>
    BY <1>6 DEF SiteJoins, sigVars
  <2>2. ASSUME NEW j \in Slots, pc[j] = "exec", Source[serving[j]] # Local, status[Source[serving[j]]] # "up"
        PROVE  status'[Source[serving[j]]] # "up"
    <3>1. Source[serving[j]] # s
      BY <1>1, <1>3, <2>1, <2>2 DEF NoneForDead
    <3>2. Source[serving[j]] \in Sites
      BY <1>1, <1>3, <2>2
    <3> QED
      BY <1>1, <2>1, <2>2, <3>1, <3>2
  <2> QED
    BY <1>4, <2>1, <2>2
<1>7. CASE no_nsp(s)
  <2> DEFINE busy == {i \in AllSlots : "BUSY" \in flags[i] /\ \E r \in Reqs : Source[r] = s /\ Shows(i, r)}
             flushed == {r \in Queued(general) \cup Queued(limited) : Source[r] = s}
  <2>1. /\ status[s] = "failed" /\ psig' = psig \cup (busy \ {0})
        /\ sigpending' = sigpending \ flushed /\ acked' = acked \ flushed
        /\ status' = [status EXCEPT ![s] = IF busy = {} THEN "inactive" ELSE @]
        /\ UNCHANGED <<pc, serving>>
    BY <1>7 DEF no_nsp
  <2>2. \A t \in Sites : status[t] # "up" => status'[t] # "up"
    BY <1>1, <2>1
  <2>3. \A j \in Slots : serving[j] \notin flushed
    BY <1>1 DEF Places
  <2>4. ASSUME NEW j \in Slots, pc[j] = "exec", j \in psig' PROVE Meant(serving[j], acked', status')
    <3>1. CASE j \in psig
      <4>1. Meant(serving[j], acked, status) /\ serving[j] \in Reqs
        BY <1>2, <1>3, <2>4, <3>1
      <4>2. CASE serving[j] \in acked
        BY <2>1, <2>3, <4>2 DEF Meant
      <4>3. CASE Source[serving[j]] # Local /\ status[Source[serving[j]]] # "up"
        <5>1. Source[serving[j]] \in Sites
          BY <1>1, <4>1, <4>3
        <5> QED
          BY <2>2, <4>3, <5>1 DEF Meant
      <4> QED
        BY <4>1, <4>2, <4>3 DEF Meant
    <3>2. CASE j \in busy
      <4>1. Source[serving[j]] = s
        BY <3>2 DEF Shows
      <4> QED
        BY <1>1, <2>1, <2>2, <4>1 DEF Meant
    <3> QED
      BY <2>1, <2>4, <3>1, <3>2
  <2>5. sigpending' \subseteq acked' /\ \A j \in Slots : pc[j] = "exec" => serving[j] \notin sigpending'
    BY <1>2, <2>1
  <2> QED
    BY <2>1, <2>4, <2>5, SignalsIs
<1> QED
  BY <1>5, <1>6, <1>7

(* Signals in every step, as long as kill_nsps() is not called.            *)
LEMMA SignalsStep ==
  ASSUME SigInv, RidsDiffer, NotReduced', [Next]_vars
  PROVE  Signals'
<1>1. TypeOK /\ Where /\ pc \in Pcs /\ Signals /\ kill.mode = "idle" /\ \A j \in Slots : j \in AllSlots
  BY TheSlots DEF SigInv, RunInv, TableInv, SlotInv, BusyAwake, NoKill, TypeOK, Pcs
<1>2. ~KillMarks /\ ~KillMarked /\ ~KillReturns /\ ~KillInvokes /\ (\A n \in AllSlots : ~KillNsps(n))
  BY <1>1, ReducedStays DEF KillMarks, KillMarked, KillReturns, KillInvokes
<1>3. CASE Arrives
  <2>1. Chosen /\ UNCHANGED <<serving, status>>
    BY <1>1, <1>3, ArrivalChooses
  <2>2. Wakes(pc')
    BY <1>1, <2>1, ChosenIs
  <2>3. UNCHANGED <<sigpending, psig, acked>>
    BY <1>2, <1>3 DEF Arrives, RecvRequest, LocalRequest, ScheduleLowSearches, sigVars
  <2>4. \A j \in Slots : pc'[j] = "exec" => pc[j] = "exec"
    BY <1>1, <2>2 DEF Wakes
  <2> QED
    BY <1>1, <2>1, <2>3, <2>4, SignalsSame
<1>4. CASE \E n \in AllSlots : StartNsps(n)
  <2>1. UNCHANGED <<serving, sigpending, psig, acked, status>> /\ pc' = wakeup_nsp_forker
    BY <1>4 DEF StartNsps, sigVars
  <2>2. \A j \in Slots : pc'[j] = pc[j]
    BY <1>1, <2>1, WokenWakes
  <2> QED
    BY <1>1, <2>1, <2>2, SignalsSame
<1>5. CASE UNCHANGED vars
  BY <1>1, <1>5, SignalsSame DEF vars
<1> QED
  BY <1>2, <1>3, <1>4, <1>5, NextIs, NspSignals, LnspSignals, SignalArrives, SiteSignals

-----------------------------------------------------------------------------
(* The invariant, and what follows from it.                                *)

(* At the start no general NSP exists, every site is up, and nobody has    *)
(* been signalled.                                                         *)
LEMMA RunInit ==
  ASSUME Init
  PROVE  BusyAwake /\ Exact /\ NoneForDead /\ Signals
<1>1. /\ 0 \in AllSlots /\ (\A i \in Slots : i \in AllSlots /\ i # 0)
  BY TheSlots
<1>2. /\ flags = [i \in AllSlots |-> IF i = 0 THEN {"VALID"} ELSE {}]
      /\ pc = [i \in AllSlots |-> IF i = 0 THEN "asleep" ELSE "none"]
      /\ serving = [i \in AllSlots |-> NoReq]
      /\ free_nsps = 0 /\ nsps_to_invoke = 0 /\ nsps_started = 0
      /\ sched = NoSched /\ kill = NoKill /\ sigpending = {} /\ psig = {} /\ acked = {}
      /\ status = [s \in Sites |-> "up"]
  BY DEF Init
<1>3. /\ flags[0] = {"VALID"} /\ pc[0] = "asleep"
      /\ \A i \in Slots : flags[i] = {} /\ pc[i] = "none"
      /\ \A i \in AllSlots : serving[i] = NoReq /\ pc[i] \in {"asleep", "none"}
  BY <1>1, <1>2
<1>4. BusyAwake
  BY <1>2, <1>3 DEF BusyAwake
<1>5. Exact
  <2>1. Asleep = {} /\ Unmarked = {}
    BY <1>3 DEF Asleep, Unmarked, Valid
  <2> QED
    BY <1>2, <2>1, FS_EmptySet DEF Exact, NoSched
<1>6. NoneForDead
  BY <1>2 DEF NoneForDead
<1>7. Signals
  BY <1>2, <1>3 DEF Signals, SignalMeant
<1> QED
  BY <1>4, <1>5, <1>6, <1>7

(* NspInv is TableInv and, while nothing has been reduced, SigInv.         *)
LEMMA NspInvIs ==
  NspInv <=> /\ TableInv
             /\ NotReduced => RunInv /\ NoneForDead /\ (RidsDiffer => SigInv)
  BY DEF NspInv, TableInv, SlotInv, RunInv, SigInv

(* The same in the next state.                                             *)
LEMMA NspInvNext ==
  NspInv' <=> /\ TableInv'
              /\ NotReduced' => /\ BusyAwake' /\ Exact' /\ NoneForDead'
                                /\ RidsDiffer => Signals'
  BY DEF NspInv, TableInv, SlotInv, RidsDiffer

(* Every step keeps the invariant.                                         *)
LEMMA NspInvStep ==
  ASSUME NspInv, [Next]_vars
  PROVE  NspInv'
<1>1. TableInv /\ TypeOK
  BY NspInvIs DEF TableInv, SlotInv
<1>2. TableInv'
  BY <1>1, SlotInvStep, EnoughStep, PlacesStep DEF TableInv
<1>3. ASSUME NotReduced'
      PROVE  BusyAwake' /\ Exact' /\ NoneForDead' /\ (RidsDiffer => Signals')
  <2>1. NotReduced
    BY <1>1, <1>3, ReducedStays
  <2>2. RunInv /\ NoneForDead /\ (RidsDiffer => SigInv)
    BY <2>1, NspInvIs
  <2> QED
    BY <1>3, <2>2, RunStep, DeadStep, SignalsStep
<1> QED
  BY <1>2, <1>3, NspInvNext

(* While nothing has been reduced, the counts are those of the table.      *)
LEMMA RunImplies ==
  ASSUME RunInv
  PROVE  CountsExact
<1>1. TypeOK /\ Where /\ BusyAwake /\ Exact /\ Free = Asleep
  BY FreeAsleep DEF RunInv, TableInv, SlotInv
<1>2. {i \in Free : pc[i] # "dying"} = Asleep
  BY <1>1 DEF Asleep
<1>3. {i \in Valid : "TIMED_OUT" \notin flags[i]} = Unmarked
  BY DEF Unmarked
<1> QED
  BY <1>1, <1>2, <1>3 DEF CountsExact, Exact

(* Every behaviour of nsp.c keeps the invariant, whatever the number of    *)
(* slots, sites and requests, and however often csp(1M) reduces the number *)
(* of NSPs.                                                                *)
THEOREM NspInvariant == Spec => []NspInv
<1>1. Init => NspInv
  BY TableInvInit, RunInit DEF NspInv, TableInv, SlotInv
<1>2. NspInv /\ [Next]_vars => NspInv'
  BY NspInvStep
<1> QED
  BY <1>1, <1>2, PTL DEF Spec

(* Every variable keeps its type: no count leaves its range, and nothing   *)
(* but requests is queued, through the sleeps of newproc() and kill_nsps().*)
THEOREM NspTypeCorrect == Spec => []TypeOK
<1>1. NspInv => TypeOK
  BY DEF NspInv
<1> QED
  BY <1>1, NspInvariant, PTL

(* The table nsp[] and its counts agree, and fork_nsp() finds a free slot, *)
(* whatever timed out, died or was backed out while newproc() slept.       *)
THEOREM NspSlotTable == Spec => []SlotTable
<1>1. NspInv => SlotTable
  BY NspInvIs, TableInvImplies
<1> QED
  BY <1>1, NspInvariant, PTL

(* kill_nsps() never panics for want of NSPs to kill, though NSPs time out *)
(* while it goes through the table.                                        *)
THEOREM KillNeverPanics == Spec => []EnoughToKill
<1>1. NspInv => EnoughToKill
  BY NspInvIs, TableInvImplies
<1> QED
  BY <1>1, NspInvariant, PTL

(* invoke_nsp(), kill_nsps() and no_nsp() never queue a request twice,     *)
(* give it to two NSPs, or leave it queued when an NSP has it.             *)
THEOREM NspServesOnce == Spec => []ServedOnce
<1>1. NspInv => ServedOnce
  BY NspInvIs, TableInvImplies
<1> QED
  BY <1>1, NspInvariant, PTL

(* Until csp(1M) first reduces the number of NSPs, free_nsps is the number *)
(* of NSPs that are not busy, and nsps_started counts the NSPs that are to *)
(* stay, through timeouts, replacements and failed forks.                  *)
THEOREM NspCountsExact == Spec => [](NotReduced => CountsExact)
<1>1. NspInv => (NotReduced => CountsExact)
  BY NspInvIs, RunImplies
<1> QED
  BY <1>1, NspInvariant, PTL

(* Until then, once no_nsp() has told recovery that it may clean up after  *)
(* a failed site, no request of that site is queued or being served.       *)
THEOREM NoNspForDead == Spec => [](NotReduced => NoneForDead)
<1>1. NspInv => (NotReduced => NoneForDead)
  BY NspInvIs
<1> QED
  BY <1>1, NspInvariant, PTL

(* Until then, and if no two sites use the same request id, signalnsp()    *)
(* and no_nsp() interrupt no request but the one whose sender was          *)
(* signalled, and those of failed sites.                                   *)
THEOREM SignalsAreMeant == RidsDiffer /\ Spec => [](NotReduced => SignalMeant)
<1>1. RidsDiffer /\ NspInv => (NotReduced => SignalMeant)
  BY NspInvIs DEF SigInv, Signals
<1>2. RidsDiffer => []RidsDiffer
  <2>1. ASSUME RidsDiffer PROVE []RidsDiffer
    BY <2>1, PTL
  <2> QED
    BY <2>1
<1> QED
  BY <1>1, <1>2, NspInvariant, PTL
=============================================================================
