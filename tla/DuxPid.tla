------------------------------- MODULE DuxPid -------------------------------
(***************************************************************************)
(* Cluster-wide allocation of process ids (dux/dux_getpid.c) and the two   *)
(* ways a new pid reaches the proc table: fork1() in sys/kern_fork.c and   *)
(* fork_nsp() in dux/nsp.c.                                                *)
(*                                                                         *)
(* The root server owns pidtable and hands out chunks of PIDCHUNK pids.    *)
(* Every site takes pids from its current chunk, asks for the next chunk   *)
(* ahead of time, and gives a chunk back when no process has a pid in it.  *)
(*                                                                         *)
(* A pid is the pair <<PIDTOCHUNK(pid), pid % PIDCHUNK>>, a chunk stands   *)
(* for its first pid.  A site runs one process in the kernel at a time:    *)
(* running[s] is that process, and it changes only where the code sleeps   *)
(* or returns.  Interrupts (recv_pid_reply) come at any moment.            *)
(***************************************************************************)
EXTENDS Integers, FiniteSets

CONSTANTS
  Clients,            \* the diskless sites
  Root,               \* root_site, the pid server
  Forkers,            \* on each site, processes that may be inside fork1()
  Lnsps,              \* on each site, the limited NSP, which calls fork_nsp()
  NumChunks,          \* NUMPIDCHUNKS
  PIDCHUNK,
  PID_MAXSYS,
  CHUNK_PREALLOCATE,
  MAX_CHUNKS_TO_RELEASE,
  NPROC,              \* nproc of each site: the size of proc[] and mypidchunks[]
  NSys                \* proc slots taken by system processes

Sites == Clients \cup {Root}
Callers == Forkers \cup Lnsps
Chunks == 0 .. NumChunks - 1
Offsets == 0 .. PIDCHUNK - 1
Pids == Chunks \X Offsets
NoSite == "nosite"      \* a zero entry of pidtable
NoChunk == -1           \* lastnewpid before the first chunk; "no chunk found"
NoProc == "noproc"
NoGroup == <<-1, -1>>   \* PGID_NOT_SET

ASSUME SitesAssumption == Root \notin Clients /\ NoSite \notin Sites
ASSUME CallersAssumption == Forkers \cap Lnsps = {} /\ NoProc \notin Callers
ASSUME SizesAssumption ==
  /\ NumChunks \in Nat \ {0}
  /\ PIDCHUNK \in Nat
  /\ PID_MAXSYS \in Nat /\ PID_MAXSYS + 1 < PIDCHUNK
  /\ CHUNK_PREALLOCATE \in 1 .. PIDCHUNK
  /\ MAX_CHUNKS_TO_RELEASE \in Nat \ {0}
  /\ NSys \in Nat
  /\ NPROC \in [Sites -> Nat]

\* The swapper, init and pageout (proc.h:449) have entries of proc[] on every site.
ASSUME SystemProcsAssumption == NSys >= 3 /\ \A s \in Sites : NPROC[s] >= NSys

PidZero == <<0, 0>>
SysPids == {0} \X (0 .. PID_MAXSYS)

VARIABLES
  pidtable,   \* root: the site holding each chunk
  lastalloc,  \* root: lastpidchunkallocated, as an index
  status,     \* root's view of each site: "up", "failed" (its NSPs are to be
              \* killed), "cleanup" (clean_up() is at work) or "inactive"
  procs,      \* proc table entries made through getnewpid()
  unhashed,   \* pids given to a new NSP that has not yet run proc_hash()
  held,       \* mypidchunks, the chunks of the non-empty entries
  lastnew,    \* lastnewpid
  cur, lim,   \* currentavailpid, lastavailpid, as indices of availpids
  zeroed,     \* the entries of availpids that are 0
  alloc,      \* the pid_alloc_* variables
  req,        \* the getpidreq message being filled in by preallocate_pid_chunk
  net,        \* the site's outstanding DM request to the root, or its reply
  queued,     \* the sites whose request has reached the root's NSP queue
  pc,         \* where each caller of dux_getnewpid is
  running     \* the process running in the site's kernel

rootVars  == <<pidtable, lastalloc>>
procVars  == <<procs, unhashed>>
chunkVars == <<held, lastnew, cur, lim, zeroed>>
commVars  == <<alloc, req, net, queued>>
vars == <<pidtable, lastalloc, status, procs, unhashed, held, lastnew, cur,
          lim, zeroed, alloc, req, net, queued, pc, running>>

NoAlloc == [initiated |-> FALSE, complete |-> FALSE, responsible |-> FALSE,
            waiting |-> FALSE, chunk |-> NoChunk]
NoReq == [rel |-> {}, scan |-> {}, next |-> NoChunk]
NoMsg == [op |-> "none", rel |-> {}, last |-> NoChunk, chunk |-> NoChunk]

Init ==
  /\ pidtable = [c \in Chunks |-> NoSite]
  /\ lastalloc = -1
  /\ status = [s \in Sites |-> "up"]
  /\ procs = [s \in Sites |-> {}]
  /\ unhashed = [s \in Sites |-> {}]
  /\ held = [s \in Sites |-> {}]
  /\ lastnew = [s \in Sites |-> NoChunk]
  /\ cur = [s \in Sites |-> 0]
  /\ lim = [s \in Sites |-> 0]
  /\ zeroed = [s \in Sites |-> {}]
  /\ alloc = [s \in Sites |-> NoAlloc]
  /\ req = [s \in Sites |-> NoReq]
  /\ net = [s \in Sites |-> NoMsg]
  /\ queued = {}
  /\ pc = [s \in Sites |-> [t \in Callers |-> "idle"]]
  /\ running = [s \in Sites |-> NoProc]

-----------------------------------------------------------------------------
(* The proc table                                                          *)

ProcPids(s) == {p.pid : p \in procs[s]} \cup SysPids

\* The ids that some process of the site has as its process group or session.
Pgrps(s) == {p.pgrp : p \in procs[s]}

HasSlot(s) == Cardinality(procs[s]) + Cardinality(unhashed[s]) < NPROC[s] - NSys

-----------------------------------------------------------------------------
(* The server's table                                                      *)

\* How many entries a cyclic scan that starts after entry a passes before c.
Ahead(a, c) == (c - a - 1 + NumChunks) % NumChunks

IsFirst(c, S, a) == c \in S /\ \A d \in S : Ahead(a, c) <= Ahead(a, d)

\* returnpidchunk() for every chunk of rel.
Returned(rel) == [c \in Chunks |-> IF c \in rel THEN NoSite ELSE pidtable[c]]

\* Step 1 of getpidchunk(): the requester's own chunks after its last one, up
\* to the last chunk allocated to anyone.
Skipped(tab, s, last) ==
  IF last = NoChunk \/ last = lastalloc THEN {}
  ELSE {c \in Chunks : tab[c] = s /\ Ahead(last, c) <= Ahead(last, lastalloc)}

\* Step 2: free or own chunks.  The scan stops when it is back at lastalloc,
\* so it never examines that entry.
Allocatable(tab, s) == {c \in Chunks \ {lastalloc} : tab[c] \in {NoSite, s}}

\* getpidchunk() on behalf of site s finds chunk c, or NoChunk.
getpidchunk(tab, s, last, c) ==
  \/ /\ IsFirst(c, Skipped(tab, s, last), last)
     /\ pidtable' = tab
     /\ UNCHANGED lastalloc
  \/ /\ Skipped(tab, s, last) = {}
     /\ IsFirst(c, Allocatable(tab, s), lastalloc)
     /\ pidtable' = [tab EXCEPT ![c] = s]
     /\ lastalloc' = c
  \/ /\ Skipped(tab, s, last) = {}
     /\ Allocatable(tab, s) = {}
     /\ c = NoChunk
     /\ pidtable' = tab
     /\ UNCHANGED lastalloc

-----------------------------------------------------------------------------
(* A site's chunks                                                         *)

\* Faulty: the flag found is not reset from one table entry to the next.
Bug_FoundNotReset(s, S) ==
  {c \in S : c # lastnew[s] /\ \A p \in ProcPids(s) : p[1] \notin S}

\* Faulty: the chunk pids are being taken from is released as well.
Bug_CurrentChunkReleased(s, S) ==
  {c \in S : \A p \in ProcPids(s) : p[1] # c}

\* releasefreepidchunks(): the chunks of S it would release.
Releasable(s, S) ==
  {c \in S : c # lastnew[s] /\ \A p \in ProcPids(s) : p[1] # c}

\* Faulty: a chunk given to the site again is refilled without holes.
Bug_NoHoles(s, c, kept) ==
  /\ lastnew' = [lastnew EXCEPT ![s] = c]
  /\ held' = [held EXCEPT ![s] = kept \cup {c}]
  /\ zeroed' = [zeroed EXCEPT ![s] = {}]
  /\ cur' = [cur EXCEPT ![s] = IF c = 0 THEN PID_MAXSYS + 1 ELSE 0]
  /\ lim' = [lim EXCEPT ![s] = PIDCHUNK]

\* The second half of neednewchunk(): enter chunk c in the table (kept is the
\* table so far) and refill availpids, with a hole for every pid in use when
\* the chunk was already held.
Refill(s, c, kept) ==
  /\ lastnew' = [lastnew EXCEPT ![s] = c]
  /\ held' = [held EXCEPT ![s] = kept \cup {c}]
  /\ zeroed' = [zeroed EXCEPT ![s] =
       IF c \in kept THEN {i \in Offsets : <<c, i>> \in ProcPids(s)} ELSE {}]
  /\ cur' = [cur EXCEPT ![s] = IF c = 0 THEN PID_MAXSYS + 1 ELSE 0]
  /\ lim' = [lim EXCEPT ![s] = PIDCHUNK]

\* *currentavailpid
PidAt(s, i) == IF i \in zeroed[s] THEN PidZero ELSE <<lastnew[s], i>>

\* The entry reached by skipping the zero entries from currentavailpid on.
SkipTo(s, i) ==
  /\ i \in cur[s] .. lim[s]
  /\ \A j \in cur[s] .. i - 1 : j \in zeroed[s]
  /\ i < lim[s] => i \notin zeroed[s]

Goto(s, t, l) == pc' = [pc EXCEPT ![s][t] = l]
At(s, t, l) == status[s] = "up" /\ pc[s][t] = l

\* Caller t, the one running in the kernel of site s, is at l.
Runs(s, t, l) == At(s, t, l) /\ running[s] = t

\* Caller t has been asleep at l and is now given the processor.
Resumes(s, t, l) == At(s, t, l) /\ running[s] = NoProc
Run(s, t) == running' = [running EXCEPT ![s] = t]
GiveUp(s) == running' = [running EXCEPT ![s] = NoProc]

-----------------------------------------------------------------------------
(* dux_getnewpid()                                                         *)

\* Faulty: pid_alloc_initiated is not tested before preallocating.
Bug_InitiatedNotTested(s, t) ==
  /\ \E i \in 0 .. PIDCHUNK :
       /\ SkipTo(s, i)
       /\ cur' = [cur EXCEPT ![s] = i]
       /\ IF s # Root /\ lim[s] - i < CHUNK_PREALLOCATE
          THEN /\ alloc' = [alloc EXCEPT ![s].initiated = TRUE]
               /\ Goto(s, t, "dm_alloc") /\ GiveUp(s)
          ELSE Goto(s, t, "check") /\ Run(s, t) /\ UNCHANGED alloc
  /\ UNCHANGED <<rootVars, status, procVars, held, lastnew, lim, zeroed, req,
                 net, queued>>

\* From restart: on: skip the holes; on a client with few pids left, start
\* preallocate_pid_chunk(), whose dm_alloc(WAIT) may sleep.
SkipHoles(s, t) ==
  /\ \E i \in 0 .. PIDCHUNK :
       /\ SkipTo(s, i)
       /\ cur' = [cur EXCEPT ![s] = i]
       /\ IF s # Root /\ ~alloc[s].initiated /\ lim[s] - i < CHUNK_PREALLOCATE
          THEN /\ alloc' = [alloc EXCEPT ![s].initiated = TRUE]
               /\ Goto(s, t, "dm_alloc") /\ GiveUp(s)
          ELSE Goto(s, t, "check") /\ Run(s, t) /\ UNCHANGED alloc
  /\ UNCHANGED <<rootVars, status, procVars, held, lastnew, lim, zeroed, req,
                 net, queued>>

getnewpid(s, t) == Resumes(s, t, "idle") /\ SkipHoles(s, t)

Restart(s, t) == Runs(s, t, "restart") /\ SkipHoles(s, t)

\* preallocate_pid_chunk() has its message and begins to scan mypidchunks.
MessageAllocated(s, t) ==
  /\ Resumes(s, t, "dm_alloc")
  /\ req' = [req EXCEPT ![s] = [rel |-> {}, scan |-> held[s], next |-> NoChunk]]
  /\ Goto(s, t, "release") /\ Run(s, t)
  /\ UNCHANGED <<rootVars, status, procVars, chunkVars, alloc, net, queued>>

\* Faulty: the table entries of the released chunks are not cleared.
Bug_EntryNotCleared(s, t) ==
  LET rel == req[s].rel \cup Releasable(s, req[s].scan) IN
  /\ Runs(s, t, "release")
  /\ Cardinality(rel) <= MAX_CHUNKS_TO_RELEASE
  /\ net' = [net EXCEPT ![s] = [op |-> "getpids", rel |-> rel,
                                last |-> lastnew[s], chunk |-> NoChunk]]
  /\ req' = [req EXCEPT ![s] = NoReq]
  /\ Goto(s, t, "check")
  /\ UNCHANGED <<rootVars, status, procVars, chunkVars, alloc, queued, running>>

\* The rest of the releasable chunks fit in the message: send DM_GETPIDS,
\* without waiting for the reply, and go on to the test for an empty list.
SendGetpids(s, t) ==
  LET rel == req[s].rel \cup Releasable(s, req[s].scan) IN
  /\ Runs(s, t, "release")
  /\ Cardinality(rel) <= MAX_CHUNKS_TO_RELEASE
  /\ held' = [held EXCEPT ![s] = @ \ rel]
  /\ net' = [net EXCEPT ![s] = [op |-> "getpids", rel |-> rel,
                                last |-> lastnew[s], chunk |-> NoChunk]]
  /\ req' = [req EXCEPT ![s] = NoReq]
  /\ Goto(s, t, "check")
  /\ UNCHANGED <<rootVars, status, procVars, lastnew, cur, lim, zeroed, alloc,
                 queued, running>>

\* fillreleasepidchunk() finds the message full when it comes to chunk c: it
\* sends the full message as DM_RELEASEPIDS and sleeps for the answer.  The
\* order of the table entries is left open: passed is what the scan went by.
SendReleasepids(s, t) ==
  /\ Runs(s, t, "release")
  /\ \E passed \in SUBSET req[s].scan : \E c \in Releasable(s, req[s].scan \ passed) :
       LET rel == req[s].rel \cup Releasable(s, passed) IN
       /\ Cardinality(rel) = MAX_CHUNKS_TO_RELEASE
       /\ held' = [held EXCEPT ![s] = @ \ rel]
       /\ net' = [net EXCEPT ![s] = [op |-> "releasepids", rel |-> rel,
                                     last |-> NoChunk, chunk |-> NoChunk]]
       /\ req' = [req EXCEPT ![s] =
            [rel |-> {}, scan |-> req[s].scan \ (passed \cup {c}), next |-> c]]
  /\ Goto(s, t, "relsend") /\ GiveUp(s)
  /\ UNCHANGED <<rootVars, status, procVars, lastnew, cur, lim, zeroed, alloc, queued>>

\* The answer is here: chunk next goes into the emptied message, its table
\* entry is cleared, and the scan goes on.
ReleasepidsDone(s, t) ==
  LET c == req[s].next IN
  /\ Resumes(s, t, "relsend")
  /\ net[s].op = "relreply"
  /\ net' = [net EXCEPT ![s] = NoMsg]
  /\ held' = [held EXCEPT ![s] = @ \ {c}]
  /\ req' = [req EXCEPT ![s].rel = {c}, ![s].next = NoChunk]
  /\ Goto(s, t, "release") /\ Run(s, t)
  /\ UNCHANGED <<rootVars, status, procVars, lastnew, cur, lim, zeroed, alloc, queued>>

\* The next entry is the pid of an existing group or session: start over.
PidIsGroup(s, t) ==
  /\ Runs(s, t, "check")
  /\ cur[s] < lim[s] /\ PidAt(s, cur[s]) \in Pgrps(s)
  /\ cur' = [cur EXCEPT ![s] = @ + 1]
  /\ Goto(s, t, "restart")
  /\ UNCHANGED <<rootVars, status, procVars, held, lastnew, lim, zeroed,
                 commVars, running>>

\* Faulty: the end of the list is tested with > instead of >=.
Bug_ListEndOffByOne(s, t) ==
  /\ Runs(s, t, "check")
  /\ cur[s] <= lim[s] /\ PidAt(s, cur[s]) \notin Pgrps(s)
  /\ cur' = [cur EXCEPT ![s] = @ + 1]
  /\ Goto(s, t, "idle") /\ GiveUp(s)
  /\ UNCHANGED <<rootVars, status, held, lastnew, lim, zeroed, commVars>>

\* The next entry is the new pid: dux_getnewpid() returns it.
TakesPid(s, t) ==
  /\ Runs(s, t, "check")
  /\ cur[s] < lim[s] /\ PidAt(s, cur[s]) \notin Pgrps(s)
  /\ cur' = [cur EXCEPT ![s] = @ + 1]
  /\ Goto(s, t, "idle") /\ GiveUp(s)
  /\ UNCHANGED <<rootVars, status, held, lastnew, lim, zeroed, commVars>>

\* dux_getnewpid() returns to fork1(), which gets a proc slot and hashes the
\* child there and then, in its parent's group.
Fork1(s, t) ==
  /\ t \in Forkers
  /\ TakesPid(s, t)
  /\ HasSlot(s)
  /\ \E g \in Pgrps(s) \cup {NoGroup} :
       procs' = [procs EXCEPT ![s] = @ \cup
                   {[pid |-> PidAt(s, cur[s]), pgrp |-> g, nsp |-> FALSE]}]
  /\ UNCHANGED unhashed

\* The fork fails after getnewpid(): the pid is wasted.
ForkFails(s, t) == TakesPid(s, t) /\ UNCHANGED procVars

\* dux_getnewpid() returns to fork_nsp(), which gets a proc slot and calls
\* newproc(); the pid stays in a local variable until the child runs.
ForkNsp(s, t) ==
  /\ t \in Lnsps
  /\ TakesPid(s, t)
  /\ HasSlot(s)
  /\ unhashed' = [unhashed EXCEPT ![s] = @ \cup {PidAt(s, cur[s])}]
  /\ UNCHANGED procs

\* No pids left on the server: neednewchunk() works on pidtable directly.
\* Without a chunk, dux_getnewpid() returns -1.
RefillRoot(s, t) ==
  LET rel == Releasable(s, held[s]) IN
  /\ s = Root
  /\ Runs(s, t, "check")
  /\ cur[s] >= lim[s]
  /\ \E c \in Chunks \cup {NoChunk} :
       /\ getpidchunk(Returned(rel), s, lastnew[s], c)
       /\ IF c = NoChunk
          THEN /\ held' = [held EXCEPT ![s] = @ \ rel]
               /\ Goto(s, t, "idle") /\ GiveUp(s)
               /\ UNCHANGED <<lastnew, cur, lim, zeroed>>
          ELSE /\ Refill(s, c, held[s] \ rel)
               /\ Goto(s, t, "restart") /\ UNCHANGED running
  /\ UNCHANGED <<status, procVars, commVars>>

-----------------------------------------------------------------------------
(* getpreallocatedpidchunk(), on a client with no pids left                *)

\* Somebody else is responsible for the chunk: sleep until he has it.
BecomesWaiter(s, t) ==
  /\ s # Root
  /\ Runs(s, t, "check")
  /\ cur[s] >= lim[s] /\ alloc[s].responsible
  /\ alloc' = [alloc EXCEPT ![s].waiting = TRUE]
  /\ Goto(s, t, "wait") /\ GiveUp(s)
  /\ UNCHANGED <<rootVars, status, procVars, chunkVars, req, net, queued>>

\* A waiter that has been woken looks at pid_alloc_responsible again.
WaiterWakes(s, t) ==
  /\ Resumes(s, t, "woken")
  /\ IF alloc[s].responsible
     THEN Goto(s, t, "wait") /\ UNCHANGED running
     ELSE Goto(s, t, "restart") /\ Run(s, t)
  /\ UNCHANGED <<rootVars, status, procVars, chunkVars, commVars>>

\* The first one takes responsibility, and sleeps if the reply is not in yet.
BecomesResponsible(s, t) ==
  /\ s # Root
  /\ Runs(s, t, "check")
  /\ cur[s] >= lim[s] /\ ~alloc[s].responsible
  /\ alloc' = [alloc EXCEPT ![s].responsible = TRUE]
  /\ Goto(s, t, "responsible")
  /\ IF alloc[s].complete THEN UNCHANGED running ELSE GiveUp(s)
  /\ UNCHANGED <<rootVars, status, procVars, chunkVars, req, net, queued>>

\* The answer is in: wake the waiters, clear every pid_alloc_ flag and, back
\* in neednewchunk(), set up the chunk or return -1.
TakesChunk(s, t) ==
  /\ At(s, t, "responsible") /\ running[s] \in {t, NoProc}
  /\ alloc[s].complete
  /\ alloc' = [alloc EXCEPT ![s] = NoAlloc]
  /\ LET c == alloc[s].chunk
         woken == [u \in Callers |-> IF alloc[s].waiting /\ pc[s][u] = "wait"
                                     THEN "woken" ELSE pc[s][u]]
     IN IF c = NoChunk
        THEN /\ pc' = [pc EXCEPT ![s] = [woken EXCEPT ![t] = "idle"]]
             /\ GiveUp(s)
             /\ UNCHANGED chunkVars
        ELSE /\ pc' = [pc EXCEPT ![s] = [woken EXCEPT ![t] = "restart"]]
             /\ Run(s, t)
             /\ Refill(s, c, held[s])
  /\ UNCHANGED <<rootVars, status, procVars, req, net, queued>>

-----------------------------------------------------------------------------
(* The server side and the interrupt handler                               *)

Requests == {"getpids", "releasepids"}

\* The request arrives at the root and is queued for an NSP, or dumped if the
\* server "has already declared a site dead" (protocol.c:1065).
net_receive(s) ==
  /\ net[s].op \in Requests /\ s \notin queued
  /\ IF status[s] = "up"
     THEN queued' = queued \cup {s} /\ UNCHANGED net
     ELSE net' = [net EXCEPT ![s] = NoMsg] /\ UNCHANGED queued
  /\ UNCHANGED <<rootVars, status, procVars, chunkVars, alloc, req, pc, running>>

\* An NSP of the root takes the request and runs serve_getpids().  The reply to
\* a site that has crashed meanwhile goes nowhere.
serve_getpids(s) ==
  LET tab == Returned(net[s].rel)
      answer(op, c) == net' = [net EXCEPT ![s] =
        IF status[s] = "up" THEN [NoMsg EXCEPT !.op = op, !.chunk = c] ELSE NoMsg]
  IN
  /\ running[Root] = NoProc
  /\ s \in queued /\ queued' = queued \ {s}
  /\ \/ /\ net[s].op = "releasepids"
        /\ pidtable' = tab
        /\ answer("relreply", NoChunk)
        /\ UNCHANGED lastalloc
     \/ /\ net[s].op = "getpids"
        /\ \E c \in Chunks \cup {NoChunk} :
             /\ getpidchunk(tab, s, net[s].last, c)
             /\ answer("getreply", c)
  /\ UNCHANGED <<status, procVars, chunkVars, alloc, req, pc, running>>

\* Faulty: an error reply does not complete the preallocation.
Bug_ErrorNotComplete(s) ==
  /\ status[s] = "up"
  /\ net[s].op = "getreply"
  /\ alloc' = [alloc EXCEPT ![s].complete = net[s].chunk # NoChunk,
                           ![s].chunk = net[s].chunk]
  /\ net' = [net EXCEPT ![s] = NoMsg]
  /\ UNCHANGED <<rootVars, status, procVars, chunkVars, req, queued, pc, running>>

\* The interrupt that brings the reply to DM_GETPIDS.
recv_pid_reply(s) ==
  /\ status[s] = "up"
  /\ net[s].op = "getreply"
  /\ alloc' = [alloc EXCEPT ![s].complete = TRUE, ![s].chunk = net[s].chunk]
  /\ net' = [net EXCEPT ![s] = NoMsg]
  /\ UNCHANGED <<rootVars, status, procVars, chunkVars, req, queued, pc, running>>

-----------------------------------------------------------------------------
(* Processes, and sites that fail and come back                            *)

\* The child of fork_nsp() runs and hashes itself.
NspChildRuns(s) ==
  /\ status[s] = "up" /\ running[s] = NoProc
  /\ \E p \in unhashed[s] :
       /\ unhashed' = [unhashed EXCEPT ![s] = @ \ {p}]
       /\ procs' = [procs EXCEPT ![s] = @ \cup
                      {[pid |-> p, pgrp |-> NoGroup, nsp |-> TRUE]}]
  /\ UNCHANGED <<rootVars, status, chunkVars, commVars, pc, running>>

SetPgrp(s) ==
  /\ status[s] = "up" /\ running[s] = NoProc
  /\ \E p \in procs[s] :
       /\ ~p.nsp /\ p.pgrp # p.pid
       /\ procs' = [procs EXCEPT ![s] = (@ \ {p}) \cup {[p EXCEPT !.pgrp = p.pid]}]
  /\ UNCHANGED <<rootVars, status, unhashed, chunkVars, commVars, pc, running>>

Exit(s) ==
  /\ status[s] = "up" /\ running[s] = NoProc
  /\ \E p \in procs[s] : procs' = [procs EXCEPT ![s] = @ \ {p}]
  /\ UNCHANGED <<rootVars, status, unhashed, chunkVars, commVars, pc, running>>

\* A client dies, and the root declares it failed.  A request it has sent may be
\* on its way, or in the root's NSP queue and be served all the same.
Crash(s) ==
  /\ s # Root /\ status[s] = "up"
  /\ status' = [status EXCEPT ![s] = "failed"]
  /\ procs' = [procs EXCEPT ![s] = {}]
  /\ unhashed' = [unhashed EXCEPT ![s] = {}]
  /\ held' = [held EXCEPT ![s] = {}]
  /\ lastnew' = [lastnew EXCEPT ![s] = NoChunk]
  /\ cur' = [cur EXCEPT ![s] = 0]
  /\ lim' = [lim EXCEPT ![s] = 0]
  /\ zeroed' = [zeroed EXCEPT ![s] = {}]
  /\ alloc' = [alloc EXCEPT ![s] = NoAlloc]
  /\ req' = [req EXCEPT ![s] = NoReq]
  /\ net' = [net EXCEPT ![s] =
               IF @.op \in Requests THEN @ ELSE NoMsg]
  /\ pc' = [pc EXCEPT ![s] = [t \in Callers |-> "idle"]]
  /\ running' = [running EXCEPT ![s] = NoProc]
  /\ UNCHANGED <<rootVars, queued>>

\* Faulty: clean_up() begins with the site's request still queued.
Bug_QueueNotFlushed(s) ==
  /\ s # Root /\ status[s] = "failed"
  /\ running[Root] = NoProc
  /\ \E st \in {"failed", "cleanup"} : status' = [status EXCEPT ![s] = st]
  /\ UNCHANGED <<rootVars, procVars, chunkVars, commVars, pc, running>>

\* A round of invoke_cleanup(): no_nsp() removes the site's request from the
\* queue.  clean_up() begins in the round in which the clients have all been
\* told of the failure and no NSP works for the site any more.
no_nsp(s) ==
  /\ s # Root /\ status[s] = "failed"
  /\ running[Root] = NoProc
  /\ queued' = queued \ {s}
  /\ net' = IF s \in queued THEN [net EXCEPT ![s] = NoMsg] ELSE net
  /\ \E st \in {"failed", "cleanup"} : status' = [status EXCEPT ![s] = st]
  /\ UNCHANGED <<rootVars, procVars, chunkVars, alloc, req, pc, running>>

\* One of the functions before pid_cleanup() in cleanuplist[], which may all
\* sleep, returns an error: clean_up() is run again from the beginning.
CleanupFails(s) ==
  /\ status[s] = "cleanup"
  /\ running[Root] = NoProc
  /\ status' = [status EXCEPT ![s] = "failed"]
  /\ UNCHANGED <<rootVars, procVars, chunkVars, commVars, pc, running>>

\* The last function, pid_cleanup(), returns all chunks of the site, and
\* clean_up() marks it inactive.
pid_cleanup(s) ==
  /\ status[s] = "cleanup"
  /\ running[Root] = NoProc
  /\ pidtable' = Returned({c \in Chunks : pidtable[c] = s})
  /\ status' = [status EXCEPT ![s] = "inactive"]
  /\ UNCHANGED <<lastalloc, procVars, chunkVars, commVars, pc, running>>

\* The site boots and joins again; by then no frame of its former life is on
\* its way.
Rejoin(s) ==
  /\ status[s] = "inactive" /\ net[s] = NoMsg
  /\ status' = [status EXCEPT ![s] = "up"]
  /\ UNCHANGED <<rootVars, procVars, chunkVars, commVars, pc, running>>

-----------------------------------------------------------------------------
CallerStep(s, t) ==
  \/ Restart(s, t)       \/ MessageAllocated(s, t) \/ SendGetpids(s, t)
  \/ SendReleasepids(s, t) \/ ReleasepidsDone(s, t) \/ PidIsGroup(s, t)
  \/ Fork1(s, t)         \/ ForkFails(s, t)        \/ ForkNsp(s, t)
  \/ RefillRoot(s, t)    \/ BecomesWaiter(s, t)    \/ WaiterWakes(s, t)
  \/ BecomesResponsible(s, t) \/ TakesChunk(s, t)

Next ==
  \E s \in Sites :
    \/ \E t \in Callers : getnewpid(s, t) \/ CallerStep(s, t)
    \/ net_receive(s) \/ serve_getpids(s) \/ recv_pid_reply(s)
    \/ NspChildRuns(s) \/ SetPgrp(s) \/ Exit(s)
    \/ Crash(s) \/ no_nsp(s) \/ CleanupFails(s) \/ pid_cleanup(s) \/ Rejoin(s)

Spec == Init /\ [][Next]_vars

\* Every runnable process, an NSP with a request queued included, gets the
\* processor again and again while others come and go (strong fairness), and
\* the network delivers the request and the reply.
Fairness ==
  \A s \in Sites :
    /\ WF_vars(net_receive(s)) /\ SF_vars(serve_getpids(s))
    /\ WF_vars(recv_pid_reply(s))
    /\ \A t \in Callers : SF_vars(CallerStep(s, t))

FairSpec == Spec /\ Fairness

-----------------------------------------------------------------------------
(* What must hold                                                          *)

Procs == [pid : Pids, pgrp : Pids \cup {NoGroup}, nsp : BOOLEAN]
Labels == {"idle", "restart", "dm_alloc", "release", "relsend", "check",
           "wait", "woken", "responsible"}
Ops == {"none", "getpids", "releasepids", "getreply", "relreply"}

Allocs == [initiated : BOOLEAN, complete : BOOLEAN, responsible : BOOLEAN,
           waiting : BOOLEAN, chunk : Chunks \cup {NoChunk}]
Reqs == [rel : SUBSET Chunks, scan : SUBSET Chunks, next : Chunks \cup {NoChunk}]
Msgs == [op : Ops, rel : SUBSET Chunks, last : Chunks \cup {NoChunk},
         chunk : Chunks \cup {NoChunk}]

\* The type of every variable.
TypeOK ==
  /\ pidtable \in [Chunks -> Sites \cup {NoSite}]
  /\ lastalloc \in Chunks \cup {-1}
  /\ status \in [Sites -> {"up", "failed", "cleanup", "inactive"}]
  /\ procs \in [Sites -> SUBSET Procs]
  /\ unhashed \in [Sites -> SUBSET Pids]
  /\ held \in [Sites -> SUBSET Chunks]
  /\ lastnew \in [Sites -> Chunks \cup {NoChunk}]
  /\ cur \in [Sites -> 0 .. PIDCHUNK]
  /\ lim \in [Sites -> 0 .. PIDCHUNK]
  /\ zeroed \in [Sites -> SUBSET Offsets]
  /\ alloc \in [Sites -> Allocs]
  /\ req \in [Sites -> Reqs]
  /\ net \in [Sites -> Msgs] /\ queued \subseteq Sites
  /\ pc \in [Sites -> [Callers -> Labels]]
  /\ running \in [Sites -> Callers \cup {NoProc}]

\* The pids dux_getnewpid() may still hand out from the current chunk.
Avail(s) == {<<lastnew[s], i>> : i \in (cur[s] .. lim[s] - 1) \ zeroed[s]}

\* The pids of processes made by fork1(); an entry 0 of availpids is no pid.
UserPids(s) == {p.pid : p \in {q \in procs[s] : ~q.nsp}} \ {PidZero}

\* Every process in the cluster gets a unique pid (dux_getpid.c:33): the pids
\* of two sites, in use or about to be handed out, are disjoint, and a site
\* never has a pid on offer that one of its processes still uses.
UniquePids ==
  /\ \A s \in Sites : Avail(s) \cap UserPids(s) = {}
  /\ \A s, r \in Sites :
       s # r => (Avail(s) \cup UserPids(s)) \cap (Avail(r) \cup UserPids(r)) = {}

\* The chunks a site has, is giving back or is being given.
Known(s) ==
  held[s] \cup req[s].rel \cup net[s].rel
    \cup ({net[s].chunk, alloc[s].chunk} \ {NoChunk})

\* The root's pidtable and the sites' own tables agree at every moment, with
\* requests and replies under way: a chunk is charged to a running site if and
\* only if that site has it, so none is used by a site that does not own it
\* and none is lost to the cluster.
TablesAgree ==
  \A s \in Sites : status[s] = "up" =>
    \A c \in Chunks : pidtable[c] = s <=> c \in Known(s)

\* "return all PIDs owned by that site to the pool" (dux_getpid.c:836): no chunk
\* is charged to a site from its clean-up until it joins again, although its
\* last request may have been under way or queued when it failed, and NSPs serve
\* requests before, between and after the steps of the clean-up.  Such a chunk
\* would be lost to the cluster, and later be given to the site unasked.
CleanedUp ==
  \A s \in Sites : status[s] = "inactive" => \A c \in Chunks : pidtable[c] # s

\* One preallocation at a time (the pid_alloc_ flags): while it is initiated
\* exactly one of these holds, a caller prepares the request, the request or
\* its reply is under way, the answer is stored; and exactly one caller has
\* the responsibility when the flag says so.
Preparing(s) == {t \in Callers : pc[s][t] \in {"dm_alloc", "release", "relsend"}}
Asked(s) == IF net[s].op \in {"getpids", "getreply"} THEN 1 ELSE 0
Stored(s) == IF alloc[s].complete THEN 1 ELSE 0
OneAllocation ==
  \A s \in Sites : status[s] = "up" =>
    /\ Cardinality(Preparing(s)) + Asked(s) + Stored(s)
         = (IF alloc[s].initiated THEN 1 ELSE 0)
    /\ Cardinality({t \in Callers : pc[s][t] = "responsible"})
         = (IF alloc[s].responsible THEN 1 ELSE 0)
    /\ alloc[s].responsible => alloc[s].initiated

\* neednewchunk() never runs out of mypidchunks entries ("This cannot happen,
\* becuse there is one slot for each possible process", dux_getpid.c:386).
TableFits == \A s \in Sites : Cardinality(held[s]) <= NPROC[s]

\* Whoever has taken responsibility for the next chunk gets an answer (or his
\* site crashes): no client is stuck in getpreallocatedpidchunk().
ResponsibleServed ==
  \A s \in Clients : alloc[s].responsible ~> ~alloc[s].responsible

\* "If anyone is waiting for me, wake them up" (dux_getpid.c:770): nobody
\* sleeps on pid_alloc_waiting when no process is responsible any more.
NoLostWaiter ==
  \A s \in Sites, t \in Callers :
    pc[s][t] = "wait" => alloc[s].responsible

\* "An entry of 0 means that the appropriate PID is already in the proc table
\* ..., and should be skipped" (dux_getpid.c:142): no process is created with
\* pid 0.
ZeroSkipped == \A s \in Sites : \A p \in procs[s] : p.pid # PidZero

\* "each process in the cluster gets a unique process ID" (dux_getpid.c:33),
\* for the NSPs made by fork_nsp() too.
UniqueWithNsps ==
  \A s, r \in Sites : s # r =>
    {p.pid : p \in procs[s]} \cap {p.pid : p \in procs[r]} \subseteq {PidZero}

-----------------------------------------------------------------------------
(* The inductive invariant behind UniquePids, TablesAgree and CleanedUp.   *)

\* t is between pid_alloc_initiated++ and the sending of DM_GETPIDS.
Prepares(s, t) == pc[s][t] \in {"dm_alloc", "release", "relsend"}

\* What the messages carry, that only requests are queued, and that the chunks
\* a request that will be served returns are the site's own.
Messages(s) ==
  /\ net[s].op \in {"none", "getreply", "relreply"} => net[s].rel = {}
  /\ net[s].op # "getreply" => net[s].chunk = NoChunk
  /\ s \in queued => net[s].op \in Requests
  /\ status[s] = "up" \/ s \in queued => \A c \in net[s].rel : pidtable[c] = s

\* A crashed site keeps nothing but what it has sent; while clean_up() is at
\* work nothing of it is queued any more.
Crashed(s) ==
  status[s] # "up" =>
    /\ s # Root
    /\ procs[s] = {} /\ unhashed[s] = {} /\ held[s] = {}
    /\ lastnew[s] = NoChunk /\ cur[s] = 0 /\ lim[s] = 0
    /\ alloc[s] = NoAlloc /\ req[s] = NoReq
    /\ \A t \in Callers : pc[s][t] = "idle"
    /\ net[s].op \in Requests \cup {"none"}
    /\ status[s] # "failed" => s \notin queued
    /\ status[s] = "inactive" => \A c \in Chunks : pidtable[c] # s

\* The stages of a preallocation exclude each other.
Stages(s) ==
  /\ \A t \in Callers : Prepares(s, t) =>
       /\ alloc[s].initiated /\ ~alloc[s].complete
       /\ \A u \in Callers : Prepares(s, u) => u = t
       /\ pc[s][t] # "relsend" => net[s].op = "none"
       /\ pc[s][t] = "dm_alloc" => req[s] = NoReq
       /\ pc[s][t] = "relsend" =>
            /\ net[s].op \in {"releasepids", "relreply"}
            /\ req[s].rel = {} /\ req[s].next # NoChunk
  /\ (status[s] = "up" /\ \A t \in Callers : ~Prepares(s, t)) =>
       /\ req[s] = NoReq
       /\ net[s].op \in {"none", "getpids", "getreply"}
  /\ (status[s] = "up" /\ net[s].op \in {"getpids", "getreply"}) =>
       alloc[s].initiated /\ ~alloc[s].complete
  /\ alloc[s].complete => alloc[s].initiated /\ net[s].op = "none"
  /\ ~alloc[s].complete => alloc[s].chunk = NoChunk
  /\ s = Root => ~alloc[s].initiated

\* A chunk is in one place at a time on its way back to the server, and the
\* chunk in the full-message case stays unused while its sender sleeps.
Releases(s) ==
  /\ req[s].rel \cap held[s] = {}
  /\ net[s].rel \cap held[s] = {}
  /\ net[s].rel \cap req[s].rel = {}
  /\ req[s].scan \subseteq held[s]
  /\ req[s].next # NoChunk =>
       /\ req[s].next \in held[s] \ req[s].scan
       /\ req[s].next # lastnew[s]
       /\ \A p \in UserPids(s) : p[1] # req[s].next

\* The pids in use or on offer lie in chunks the site holds.
Holds(s) ==
  /\ status[s] = "up" => \A c \in Chunks : pidtable[c] = s <=> c \in Known(s)
  /\ IF lastnew[s] = NoChunk THEN lim[s] = 0 ELSE lastnew[s] \in held[s]
  /\ cur[s] <= lim[s]
  /\ \A p \in UserPids(s) : p[1] \in held[s]
  /\ Avail(s) \cap UserPids(s) = {}

SiteInv(s) == Messages(s) /\ Crashed(s) /\ Stages(s) /\ Releases(s) /\ Holds(s)
PidInv == TypeOK /\ \A s \in Sites : SiteInv(s)

=============================================================================
