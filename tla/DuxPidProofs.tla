---------------------------- MODULE DuxPidProofs ----------------------------
(***************************************************************************)
(* PidInv is an invariant of DuxPid, for any number of clients, callers,   *)
(* chunks and pids; with it the uniqueness of pids, the agreement of the   *)
(* root's table with the sites' tables, and the clean-up after a failure.  *)
(*                                                                         *)
(* SiteInv(s) speaks of site s and of the entries pidtable has for s only. *)
(* So a step of site r preserves it at r by the argument of its action,    *)
(* and at every other site because the step leaves that site alone.        *)
(*                                                                         *)
(* On top of PidInv: Turn, by which at most one allocation is under way at *)
(* a site, and Fits, by which the table of chunks does not overflow.       *)
(***************************************************************************)
EXTENDS DuxPid, FiniteSetTheorems, TLAPS

\* The cleared entry of availpids[] is itself a pid number.
LEMMA PidZeroType == PidZero \in Pids
  BY SizesAssumption DEF PidZero, Pids, Chunks, Offsets

\* pid_init() and the boot of the root establish the invariant.
LEMMA InitInv == Init => PidInv
<1> SUFFICES ASSUME Init PROVE PidInv
  OBVIOUS
<1>1. TypeOK
  BY SizesAssumption DEF Init, TypeOK, Allocs, Reqs, Msgs, NoAlloc, NoReq, NoMsg, Ops, Labels, Chunks
<1>2. ASSUME NEW s \in Sites PROVE SiteInv(s)
  <2>1. Messages(s) /\ Crashed(s)
    BY DEF Init, Messages, Crashed, NoMsg, NoAlloc, NoReq
  <2>2. Stages(s)
    BY DEF Init, Stages, Prepares, NoMsg, NoAlloc, NoReq
  <2>3. Releases(s)
    BY DEF Init, Releases, NoMsg, NoReq
  <2>4. UserPids(s) = {} /\ Avail(s) = {}
    BY DEF Init, UserPids, Avail
  <2>5. Holds(s)
    BY <2>4, SitesAssumption DEF Init, Holds, Known, NoMsg, NoAlloc, NoReq, Sites
  <2> QED
    BY <2>1, <2>2, <2>3, <2>5 DEF SiteInv
<1> QED
  BY <1>1, <1>2 DEF PidInv

\* Everything that belongs to site s stays as it is, the entries of pidtable
\* that are charged to s included.
LeftAlone(s) ==
  /\ \A c \in Chunks : pidtable'[c] = s <=> pidtable[c] = s
  /\ status'[s] = status[s] /\ procs'[s] = procs[s]
  /\ unhashed'[s] = unhashed[s] /\ held'[s] = held[s]
  /\ lastnew'[s] = lastnew[s] /\ cur'[s] = cur[s] /\ lim'[s] = lim[s]
  /\ zeroed'[s] = zeroed[s] /\ alloc'[s] = alloc[s] /\ req'[s] = req[s]
  /\ net'[s] = net[s] /\ (s \in queued' <=> s \in queued)
  /\ pc'[s] = pc[s] /\ running'[s] = running[s]

\* A site whose tables, list, processes and messages a step leaves alone keeps
\* every per-site part of the invariant.
LEMMA LeftAloneInv ==
  ASSUME NEW s \in Sites, TypeOK, SiteInv(s), LeftAlone(s)
  PROVE  SiteInv(s)'
<1>1. UserPids(s)' = UserPids(s) /\ Avail(s)' = Avail(s) /\ Known(s)' = Known(s)
  BY DEF LeftAlone, UserPids, Avail, Known
<1>2. Messages(s)'
  BY DEF LeftAlone, Messages, SiteInv, TypeOK, Msgs
<1>3. Crashed(s)'
  BY DEF LeftAlone, Crashed, SiteInv
<1>4. Stages(s)'
  BY DEF LeftAlone, Stages, Prepares, SiteInv
<1>5. Releases(s)'
  BY <1>1 DEF LeftAlone, Releases, SiteInv
<1>6. Holds(s)'
  BY <1>1 DEF LeftAlone, Holds, SiteInv
<1> QED
  BY <1>2, <1>3, <1>4, <1>5, <1>6 DEF SiteInv

\* What every action lemma below shows of a step of site r.
Preserved(r) ==
  /\ TypeOK'
  /\ SiteInv(r)'
  /\ \A s \in Sites \ {r} : LeftAlone(s)

\* A step that moves one caller of a site to another place leaves the callers'
\* places well typed.
LEMMA PcType ==
  ASSUME TypeOK, NEW r \in Sites, NEW t \in Callers, NEW l \in Labels
  PROVE  [pc EXCEPT ![r][t] = l] \in [Sites -> [Callers -> Labels]]
  BY DEF TypeOK

\* A caller of site r moves between places outside preallocate_pid_chunk().
MovesOutside(r) ==
  \A u \in Callers : /\ Prepares(r, u)' <=> Prepares(r, u)
                     /\ Prepares(r, u) => pc'[r][u] = pc[r][u]

\* A step that moves a caller that prepares no request keeps the facts about
\* the request being prepared.
LEMMA StagesKept ==
  ASSUME NEW r \in Sites, Stages(r), MovesOutside(r),
         status'[r] = status[r], req'[r] = req[r], net'[r] = net[r],
         alloc'[r].initiated = alloc[r].initiated,
         alloc'[r].complete = alloc[r].complete,
         alloc'[r].chunk = alloc[r].chunk
  PROVE  Stages(r)'
  BY DEF Stages, MovesOutside

\* dux_getnewpid() skipping used entries of availpids, and its decision to start
\* a preallocation, preserve the invariant.
LEMMA SkipHolesInv ==
  ASSUME PidInv, NEW r \in Sites, NEW t \in Callers, status[r] = "up",
         pc[r][t] \in {"idle", "restart"}, SkipHoles(r, t)
  PROVE  Preserved(r)
<1> USE DEF PidInv, SiteInv
<1> PICK i \in 0 .. PIDCHUNK :
       /\ SkipTo(r, i)
       /\ cur' = [cur EXCEPT ![r] = i]
       /\ \/ /\ r # Root /\ ~alloc[r].initiated
             /\ alloc' = [alloc EXCEPT ![r].initiated = TRUE]
             /\ Goto(r, t, "dm_alloc") /\ GiveUp(r)
          \/ Goto(r, t, "check") /\ Run(r, t) /\ UNCHANGED alloc
  BY DEF SkipHoles
<1>0. UNCHANGED <<pidtable, lastalloc, status, procs, unhashed, held, lastnew,
                  lim, zeroed, req, net, queued>>
  BY DEF SkipHoles, rootVars, procVars
<1>1. TypeOK'
  <2>1. alloc' \in [Sites -> Allocs]
    <3>1. [alloc[r] EXCEPT !.initiated = TRUE] \in Allocs
      <4>1. alloc[r] \in Allocs
        BY DEF TypeOK
      <4> QED
        BY <4>1 DEF Allocs
    <3> QED
      BY <3>1 DEF TypeOK
  <2>2. pc' \in [Sites -> [Callers -> Labels]]
    BY PcType DEF Goto, Labels
  <2>3. running' \in [Sites -> Callers \cup {NoProc}]
    BY DEF TypeOK, GiveUp, Run
  <2> QED
    BY <1>0, <2>1, <2>2, <2>3 DEF TypeOK
<1>2. Messages(r)' /\ Crashed(r)' /\ Releases(r)'
  <2>1. UserPids(r)' = UserPids(r)
    BY <1>0 DEF UserPids
  <2> QED
    BY <1>0, <2>1 DEF Messages, Crashed, Releases
<1>3. Stages(r)'
  <2>1. CASE /\ r # Root /\ ~alloc[r].initiated
             /\ alloc' = [alloc EXCEPT ![r].initiated = TRUE]
             /\ Goto(r, t, "dm_alloc")
    <3>1. /\ alloc'[r].initiated /\ alloc'[r].complete = alloc[r].complete
          /\ alloc'[r].chunk = alloc[r].chunk
      BY <2>1 DEF TypeOK, Allocs
    <3>2. \A u \in Callers : ~Prepares(r, u)
      BY <2>1 DEF Stages
    <3>3. /\ pc'[r][t] = "dm_alloc"
          /\ \A u \in Callers \ {t} : pc'[r][u] = pc[r][u]
      BY <2>1 DEF Goto, TypeOK
    <3>4. req[r] = NoReq /\ net[r].op = "none" /\ ~alloc[r].complete
      BY <2>1, <3>2 DEF Stages
    <3> QED
      BY <1>0, <2>1, <3>1, <3>2, <3>3, <3>4 DEF Stages, Prepares
  <2>2. CASE Goto(r, t, "check") /\ UNCHANGED alloc
    <3>1. MovesOutside(r)
      BY <2>2 DEF MovesOutside, Goto, TypeOK, Prepares
    <3> QED
      BY <1>0, <2>2, <3>1, StagesKept
  <2> QED
    BY <2>1, <2>2
<1>4. Holds(r)'
  <2>1. UserPids(r)' = UserPids(r)
    BY <1>0 DEF UserPids
  <2>2. Known(r)' = Known(r)
    BY <1>0 DEF Known, TypeOK, Allocs
  <2>3. Avail(r)' \subseteq Avail(r)
    BY <1>0 DEF Avail, TypeOK, SkipTo
  <2> QED
    BY <1>0, <2>1, <2>2, <2>3 DEF Holds, TypeOK, SkipTo
<1>5. \A s \in Sites \ {r} : LeftAlone(s)
  BY <1>0 DEF LeftAlone, TypeOK, Goto, GiveUp, Run
<1> QED
  BY <1>1, <1>2, <1>3, <1>4, <1>5 DEF Preserved

\* preallocate_pid_chunk() with its message in hand preserves it.
LEMMA MessageAllocatedInv ==
  ASSUME PidInv, NEW r \in Sites, NEW t \in Callers, MessageAllocated(r, t)
  PROVE  Preserved(r)
<1> USE DEF PidInv, SiteInv
<1>0. /\ UNCHANGED <<pidtable, lastalloc, status, procs, unhashed, held,
                     lastnew, cur, lim, zeroed, alloc, net, queued>>
      /\ status[r] = "up" /\ pc[r][t] = "dm_alloc"
      /\ req' = [req EXCEPT ![r] =
                   [rel |-> {}, scan |-> held[r], next |-> NoChunk]]
      /\ pc' = [pc EXCEPT ![r][t] = "release"]
      /\ running' = [running EXCEPT ![r] = t]
  BY DEF MessageAllocated, rootVars, procVars, chunkVars, Resumes, At, Goto, Run
<1>1. TypeOK'
  <2>1. pc' \in [Sites -> [Callers -> Labels]]
    BY <1>0 DEF TypeOK, Labels
  <2>2. req' \in [Sites -> Reqs]
    BY <1>0 DEF TypeOK, Reqs
  <2> QED
    BY <1>0, <2>1, <2>2 DEF TypeOK
<1>2. Messages(r)' /\ Crashed(r)' /\ Releases(r)'
  BY <1>0 DEF Messages, Crashed, Releases, TypeOK
<1>3. Stages(r)'
  BY <1>0 DEF Stages, Prepares, TypeOK
<1>4. Holds(r)'
  <2>1. UserPids(r)' = UserPids(r) /\ Avail(r)' = Avail(r)
    BY <1>0 DEF UserPids, Avail
  <2>2. Known(r)' = Known(r)
    BY <1>0 DEF Known, TypeOK, Stages, Prepares, NoReq
  <2> QED
    BY <1>0, <2>1, <2>2 DEF Holds
<1>5. \A s \in Sites \ {r} : LeftAlone(s)
  BY <1>0 DEF LeftAlone, TypeOK
<1> QED
  BY <1>1, <1>2, <1>3, <1>4, <1>5 DEF Preserved

\* Sending DM_GETPIDS, with the chunks given back, preserves it.
LEMMA SendGetpidsInv ==
  ASSUME PidInv, NEW r \in Sites, NEW t \in Callers, SendGetpids(r, t)
  PROVE  Preserved(r)
<1> USE DEF PidInv, SiteInv
<1> DEFINE rel == req[r].rel \cup Releasable(r, req[r].scan)
<1>0. /\ UNCHANGED <<pidtable, lastalloc, status, procs, unhashed, lastnew, cur,
                     lim, zeroed, alloc, queued, running>>
      /\ status[r] = "up" /\ pc[r][t] = "release"
      /\ held' = [held EXCEPT ![r] = held[r] \ rel]
      /\ net' = [net EXCEPT ![r] = [op |-> "getpids", rel |-> rel,
                                    last |-> lastnew[r], chunk |-> NoChunk]]
      /\ req' = [req EXCEPT ![r] = NoReq]
      /\ pc' = [pc EXCEPT ![r][t] = "check"]
  BY DEF SendGetpids, rootVars, procVars, Runs, At, Goto
<1>a. rel \subseteq Chunks /\ rel \subseteq req[r].rel \cup held[r]
  BY DEF Releasable, Releases, TypeOK, Reqs
<1>b. UserPids(r)' = UserPids(r) /\ Avail(r)' = Avail(r)
  BY <1>0 DEF UserPids, Avail
<1>c. \A p \in UserPids(r) : p[1] \notin rel
  <2>1. UserPids(r) \subseteq ProcPids(r)
    BY DEF UserPids, ProcPids
  <2> QED
    BY <2>1 DEF Releasable, Releases, Holds
<1>d. lastnew[r] # NoChunk => lastnew[r] \notin rel
  BY DEF Releasable, Releases, Holds
<1>e. \A u \in Callers : Prepares(r, u) <=> u = t
  BY <1>0 DEF Stages, Prepares
<1>f. net[r].op = "none" /\ net[r].rel = {} /\ net[r].chunk = NoChunk
  BY <1>0 DEF Stages, Prepares, Messages
<1>1. TypeOK'
  <2>1. pc' \in [Sites -> [Callers -> Labels]]
    BY <1>0, PcType DEF Labels
  <2>2. req' \in [Sites -> Reqs]
    BY <1>0 DEF TypeOK, Reqs, NoReq
  <2>3. net' \in [Sites -> Msgs]
    BY <1>0, <1>a DEF TypeOK, Msgs, Ops
  <2> QED
    BY <1>0, <2>1, <2>2, <2>3 DEF TypeOK
<1>2. Messages(r)'
  BY <1>0, <1>a DEF Messages, Holds, Known, TypeOK, Requests
<1>3. Crashed(r)'
  BY <1>0 DEF Crashed
<1>4. Stages(r)'
  <2>1. \A u \in Callers : ~Prepares(r, u)'
    BY <1>0, <1>e DEF Prepares, TypeOK
  <2>2. alloc[r].initiated /\ ~alloc[r].complete
    BY <1>e DEF Stages
  <2> QED
    BY <1>0, <2>1, <2>2 DEF Stages, TypeOK
<1>5. Releases(r)'
  BY <1>0, <1>a DEF Releases, TypeOK, NoReq
<1>6. Holds(r)'
  <2>1. Known(r)' = Known(r)
    BY <1>0, <1>a, <1>f DEF Known, TypeOK, NoReq
  <2> QED
    BY <1>0, <2>1, <1>b, <1>c, <1>d DEF Holds, TypeOK
<1>7. \A s \in Sites \ {r} : LeftAlone(s)
  BY <1>0 DEF LeftAlone, TypeOK
<1> QED
  BY <1>1, <1>2, <1>3, <1>4, <1>5, <1>6, <1>7 DEF Preserved

\* Sending a full DM_RELEASEPIDS from fillreleasepidchunk() preserves it.
LEMMA SendReleasepidsInv ==
  ASSUME PidInv, NEW r \in Sites, NEW t \in Callers, SendReleasepids(r, t)
  PROVE  Preserved(r)
<1> USE DEF PidInv, SiteInv
<1>p. PICK passed \in SUBSET req[r].scan :
        \E c \in Releasable(r, req[r].scan \ passed) :
          LET rel == req[r].rel \cup Releasable(r, passed) IN
          /\ held' = [held EXCEPT ![r] = held[r] \ rel]
          /\ net' = [net EXCEPT ![r] = [op |-> "releasepids", rel |-> rel,
                                        last |-> NoChunk, chunk |-> NoChunk]]
          /\ req' = [req EXCEPT ![r] =
               [rel |-> {}, scan |-> req[r].scan \ (passed \cup {c}), next |-> c]]
  BY DEF SendReleasepids
<1> DEFINE rel == req[r].rel \cup Releasable(r, passed)
<1>c0. PICK c \in Releasable(r, req[r].scan \ passed) :
      /\ held' = [held EXCEPT ![r] = held[r] \ rel]
      /\ net' = [net EXCEPT ![r] = [op |-> "releasepids", rel |-> rel,
                                    last |-> NoChunk, chunk |-> NoChunk]]
      /\ req' = [req EXCEPT ![r] =
           [rel |-> {}, scan |-> req[r].scan \ (passed \cup {c}), next |-> c]]
  BY <1>p
<1>0. /\ UNCHANGED <<pidtable, lastalloc, status, procs, unhashed, lastnew, cur,
                     lim, zeroed, alloc, queued>>
      /\ status[r] = "up" /\ pc[r][t] = "release"
      /\ held' = [held EXCEPT ![r] = held[r] \ rel]
      /\ net' = [net EXCEPT ![r] = [op |-> "releasepids", rel |-> rel,
                                    last |-> NoChunk, chunk |-> NoChunk]]
      /\ req' = [req EXCEPT ![r] =
           [rel |-> {}, scan |-> req[r].scan \ (passed \cup {c}), next |-> c]]
      /\ pc' = [pc EXCEPT ![r][t] = "relsend"]
      /\ running' = [running EXCEPT ![r] = NoProc]
  BY <1>c0 DEF SendReleasepids, rootVars, procVars, Runs, At, Goto, GiveUp
<1>a. /\ rel \subseteq Chunks /\ rel \subseteq req[r].rel \cup held[r]
      /\ c \in held[r] \ rel /\ c \in Chunks /\ c # lastnew[r]
      /\ rel \cap (req[r].scan \ passed) = {}
  BY DEF Releasable, Releases, TypeOK, Reqs
<1>b. UserPids(r)' = UserPids(r) /\ Avail(r)' = Avail(r)
  BY <1>0 DEF UserPids, Avail
<1>c. \A p \in UserPids(r) : p[1] \notin rel /\ p[1] # c
  <2>1. UserPids(r) \subseteq ProcPids(r)
    BY DEF UserPids, ProcPids
  <2> QED
    BY <2>1 DEF Releasable, Releases, Holds
<1>d. lastnew[r] # NoChunk => lastnew[r] \notin rel
  BY DEF Releasable, Releases, Holds
<1>e. \A u \in Callers : Prepares(r, u) <=> u = t
  BY <1>0 DEF Stages, Prepares
<1>f. net[r].op = "none" /\ net[r].rel = {} /\ net[r].chunk = NoChunk
  BY <1>0 DEF Stages, Prepares, Messages
<1>g. c # NoChunk
  BY <1>a, SizesAssumption DEF Chunks, NoChunk
<1>1. TypeOK'
  <2>1. pc' \in [Sites -> [Callers -> Labels]]
    BY <1>0, PcType DEF Labels
  <2>2. req' \in [Sites -> Reqs]
    BY <1>0, <1>a DEF TypeOK, Reqs
  <2>3. net' \in [Sites -> Msgs]
    BY <1>0, <1>a DEF TypeOK, Msgs, Ops
  <2> QED
    BY <1>0, <2>1, <2>2, <2>3 DEF TypeOK
<1>2. Messages(r)'
  BY <1>0, <1>a DEF Messages, Holds, Known, TypeOK, Requests
<1>3. Crashed(r)'
  BY <1>0 DEF Crashed
<1>4. Stages(r)'
  <2>1. \A u \in Callers : Prepares(r, u)' <=> u = t
    BY <1>0, <1>e DEF Prepares, TypeOK
  <2>2. alloc[r].initiated /\ ~alloc[r].complete
    BY <1>e DEF Stages
  <2>3. /\ pc'[r][t] = "relsend" /\ net'[r].op = "releasepids"
        /\ req'[r].rel = {} /\ req'[r].next = c
    BY <1>0 DEF TypeOK
  <2> QED
    BY <1>0, <1>g, <2>1, <2>2, <2>3 DEF Stages
<1>5. Releases(r)'
  <2>1. /\ held'[r] = held[r] \ rel /\ net'[r].rel = rel /\ req'[r].rel = {}
        /\ req'[r].scan = req[r].scan \ (passed \cup {c}) /\ req'[r].next = c
    BY <1>0 DEF TypeOK
  <2> QED
    BY <1>0, <1>a, <1>b, <1>c, <2>1 DEF Releases
<1>6. Holds(r)'
  <2>1. Known(r)' = Known(r)
    BY <1>0, <1>a, <1>f DEF Known, TypeOK
  <2> QED
    BY <1>0, <2>1, <1>b, <1>c, <1>d DEF Holds, TypeOK
<1>7. \A s \in Sites \ {r} : LeftAlone(s)
  BY <1>0 DEF LeftAlone, TypeOK
<1> QED
  BY <1>1, <1>2, <1>3, <1>4, <1>5, <1>6, <1>7 DEF Preserved

\* The answer to DM_RELEASEPIDS, after which one more chunk leaves the site's
\* table, preserves it.
LEMMA ReleasepidsDoneInv ==
  ASSUME PidInv, NEW r \in Sites, NEW t \in Callers, ReleasepidsDone(r, t)
  PROVE  Preserved(r)
<1> USE DEF PidInv, SiteInv
<1> DEFINE c == req[r].next
<1>0. /\ UNCHANGED <<pidtable, lastalloc, status, procs, unhashed, lastnew, cur,
                     lim, zeroed, alloc, queued>>
      /\ status[r] = "up" /\ pc[r][t] = "relsend" /\ net[r].op = "relreply"
      /\ held' = [held EXCEPT ![r] = held[r] \ {c}]
      /\ net' = [net EXCEPT ![r] = NoMsg]
      /\ req' = [req EXCEPT ![r].rel = {c}, ![r].next = NoChunk]
      /\ pc' = [pc EXCEPT ![r][t] = "release"]
      /\ running' = [running EXCEPT ![r] = t]
  BY DEF ReleasepidsDone, rootVars, procVars, Resumes, At, Goto, Run
<1>a. c # NoChunk /\ c \in Chunks
  BY <1>0 DEF Stages, Prepares, TypeOK, Reqs
<1>b. UserPids(r)' = UserPids(r) /\ Avail(r)' = Avail(r)
  BY <1>0 DEF UserPids, Avail
<1>c. /\ c \in held[r] \ req[r].scan /\ c # lastnew[r]
      /\ \A p \in UserPids(r) : p[1] # c
  BY <1>a DEF Releases
<1>d. /\ req'[r].rel = {c} /\ req'[r].scan = req[r].scan
      /\ req'[r].next = NoChunk /\ req' \in [Sites -> Reqs]
  <2>1. req'[r] = [req[r] EXCEPT !.rel = {c}, !.next = NoChunk]
    BY <1>0 DEF TypeOK
  <2>2. req[r] \in Reqs
    BY DEF TypeOK
  <2>3. req'[r] \in Reqs
    BY <1>a, <2>1, <2>2 DEF Reqs
  <2>4. req' \in [Sites -> Reqs]
    BY <1>0, <2>1, <2>3 DEF TypeOK
  <2> QED
    BY <2>1, <2>2, <2>4 DEF Reqs
<1>e. \A u \in Callers : Prepares(r, u) <=> u = t
  BY <1>0 DEF Stages, Prepares
<1>f. net[r].rel = {} /\ net[r].chunk = NoChunk /\ net'[r] = NoMsg
  BY <1>0 DEF Messages, TypeOK
<1>g. held'[r] = held[r] \ {c}
  BY <1>0 DEF TypeOK
<1>1. TypeOK'
  <2>1. pc' \in [Sites -> [Callers -> Labels]]
    BY <1>0, PcType DEF Labels
  <2>2. net' \in [Sites -> Msgs]
    BY <1>0 DEF TypeOK, Msgs, NoMsg, Ops
  <2> QED
    BY <1>0, <1>d, <2>1, <2>2 DEF TypeOK
<1>2. Messages(r)'
  BY <1>0, <1>f DEF Messages, NoMsg, Requests
<1>3. Crashed(r)'
  BY <1>0 DEF Crashed
<1>4. Stages(r)'
  <2>1. \A u \in Callers : Prepares(r, u)' <=> u = t
    BY <1>0, <1>e DEF Prepares, TypeOK
  <2>2. alloc[r].initiated /\ ~alloc[r].complete
    BY <1>e DEF Stages
  <2>3. pc'[r][t] = "release"
    BY <1>0 DEF TypeOK
  <2> QED
    BY <1>0, <1>f, <2>1, <2>2, <2>3 DEF Stages, NoMsg
<1>5. Releases(r)'
  BY <1>b, <1>c, <1>d, <1>f, <1>g DEF Releases, NoMsg
<1>6. Holds(r)'
  <2>0. req[r].rel = {}
    BY <1>0 DEF Stages, Prepares
  <2>1. \A d \in Chunks : pidtable[d] = r <=> d \in Known(r)'
    BY <1>0, <1>a, <1>c, <1>d, <1>f, <1>g, <2>0 DEF Known, Holds, NoMsg
  <2> QED
    BY <1>0, <2>1, <1>b, <1>c, <1>g DEF Holds
<1>7. \A s \in Sites \ {r} : LeftAlone(s)
  BY <1>0 DEF LeftAlone, TypeOK
<1> QED
  BY <1>1, <1>2, <1>3, <1>4, <1>5, <1>6, <1>7 DEF Preserved

\* Taking the next entry of availpids, whatever becomes of it.
LEMMA TakesEntryInv ==
  ASSUME PidInv, NEW r \in Sites, NEW t \in Callers, NEW l \in {"idle", "restart"},
         status[r] = "up", pc[r][t] = "check", cur[r] < lim[r],
         cur' = [cur EXCEPT ![r] = cur[r] + 1],
         pc' = [pc EXCEPT ![r][t] = l],
         running' \in [Sites -> Callers \cup {NoProc}],
         UNCHANGED <<pidtable, lastalloc, status, held, lastnew, lim, zeroed,
                     alloc, req, net, queued>>,
         procs' \in [Sites -> SUBSET Procs], unhashed' \in [Sites -> SUBSET Pids],
         UserPids(r)' \subseteq UserPids(r) \cup {PidAt(r, cur[r])},
         \A s \in Sites \ {r} : /\ procs'[s] = procs[s]
                                /\ unhashed'[s] = unhashed[s]
                                /\ running'[s] = running[s]
  PROVE  Preserved(r)
<1> USE DEF PidInv, SiteInv
<1>a. /\ cur[r] \in Nat /\ cur[r] + 1 \in 0 .. PIDCHUNK /\ lim[r] \in Nat
      /\ cur'[r] = cur[r] + 1 /\ cur'[r] <= lim[r]
  BY SizesAssumption DEF TypeOK
<1>b. Avail(r)' = Avail(r) \ {<<lastnew[r], cur[r]>>}
  BY <1>a DEF Avail
<1>c. PidZero \notin UserPids(r)'
  BY DEF UserPids
<1>d. UserPids(r)' \subseteq UserPids(r) \cup {<<lastnew[r], cur[r]>>}
  BY <1>c DEF PidAt
<1>e. lastnew[r] \in held[r]
  BY <1>a DEF Holds
<1>1. TypeOK'
  <2>1. pc' \in [Sites -> [Callers -> Labels]]
    BY PcType DEF Labels
  <2> QED
    BY <1>a, <2>1 DEF TypeOK
<1>2. Messages(r)' /\ Crashed(r)'
  BY DEF Messages, Crashed
<1>3. Stages(r)'
  <2>1. MovesOutside(r)
    BY DEF MovesOutside, Prepares, TypeOK
  <2> QED
    BY <2>1, StagesKept
<1>4. Releases(r)'
  BY <1>d DEF Releases
<1>5. Holds(r)'
  <2>1. Known(r)' = Known(r)
    BY DEF Known
  <2>2. \A p \in UserPids(r)' : p[1] \in held[r]
    BY <1>d, <1>e DEF Holds
  <2>3. Avail(r)' \cap UserPids(r)' = {}
    BY <1>b, <1>d DEF Holds
  <2> QED
    BY <1>a, <2>1, <2>2, <2>3 DEF Holds
<1>6. \A s \in Sites \ {r} : LeftAlone(s)
  BY DEF LeftAlone, TypeOK
<1> QED
  BY <1>1, <1>2, <1>3, <1>4, <1>5, <1>6 DEF Preserved

\* Rejecting a pid that is the number of a group preserves it.
LEMMA PidIsGroupInv ==
  ASSUME PidInv, NEW r \in Sites, NEW t \in Callers, PidIsGroup(r, t)
  PROVE  Preserved(r)
<1>1. UserPids(r)' = UserPids(r)
  BY DEF PidIsGroup, UserPids, procVars
<1> QED
  BY <1>1, TakesEntryInv
  DEF PidInv, TypeOK, PidIsGroup, Runs, At, Goto, rootVars, procVars, commVars

\* Every entry of the list that dux_getnewpid() reads is a pid number.
LEMMA PidAtType ==
  ASSUME PidInv, NEW r \in Sites, cur[r] < lim[r]
  PROVE  PidAt(r, cur[r]) \in Pids
<1>1. cur[r] \in Offsets /\ lastnew[r] # NoChunk
  BY SizesAssumption DEF PidInv, SiteInv, Holds, TypeOK, Offsets
<1>2. lastnew[r] \in Chunks
  BY <1>1 DEF PidInv, TypeOK
<1> QED
  BY <1>1, <1>2, PidZeroType DEF PidAt, Pids

\* fork1() and fork_nsp() giving the new pid to a child, or wasting it, preserve
\* it.
LEMMA ForksInv ==
  ASSUME PidInv, NEW r \in Sites, NEW t \in Callers,
         Fork1(r, t) \/ ForkFails(r, t) \/ ForkNsp(r, t)
  PROVE  Preserved(r)
<1> DEFINE p == PidAt(r, cur[r])
<1>0. /\ status[r] = "up" /\ pc[r][t] = "check" /\ cur[r] < lim[r]
      /\ cur' = [cur EXCEPT ![r] = cur[r] + 1]
      /\ pc' = [pc EXCEPT ![r][t] = "idle"]
      /\ running' = [running EXCEPT ![r] = NoProc]
      /\ UNCHANGED <<pidtable, lastalloc, status, held, lastnew, lim, zeroed,
                     alloc, req, net, queued>>
  BY DEF Fork1, ForkFails, ForkNsp, TakesPid, Runs, At, Goto, GiveUp, rootVars,
         commVars
<1>1. p \in Pids
  BY <1>0, PidAtType
<1>2. running' \in [Sites -> Callers \cup {NoProc}]
  BY <1>0 DEF PidInv, TypeOK
<1>3. CASE Fork1(r, t)
  <2>1. PICK g \in Pgrps(r) \cup {NoGroup} :
          procs' = [procs EXCEPT ![r] =
                      procs[r] \cup {[pid |-> p, pgrp |-> g, nsp |-> FALSE]}]
    BY <1>3 DEF Fork1
  <2>2. g \in Pids \cup {NoGroup}
    BY DEF PidInv, TypeOK, Pgrps, Procs
  <2>3. [pid |-> p, pgrp |-> g, nsp |-> FALSE] \in Procs
    BY <1>1, <2>2 DEF Procs
  <2>4. procs' \in [Sites -> SUBSET Procs]
    BY <2>1, <2>3 DEF PidInv, TypeOK
  <2>5. procs'[r] = procs[r] \cup {[pid |-> p, pgrp |-> g, nsp |-> FALSE]}
    BY <2>1 DEF PidInv, TypeOK
  <2>6. UserPids(r)' \subseteq UserPids(r) \cup {p}
    BY <2>5 DEF UserPids
  <2>7. unhashed' = unhashed
    BY <1>3 DEF Fork1
  <2> QED
    BY <1>0, <1>2, <2>1, <2>4, <2>6, <2>7, TakesEntryInv DEF PidInv, TypeOK
<1>4. CASE ForkFails(r, t)
  <2>1. UNCHANGED <<procs, unhashed>>
    BY <1>4 DEF ForkFails, procVars
  <2>2. UserPids(r)' = UserPids(r)
    BY <2>1 DEF UserPids
  <2> QED
    BY <1>0, <1>2, <2>1, <2>2, TakesEntryInv DEF PidInv, TypeOK
<1>5. CASE ForkNsp(r, t)
  <2>1. /\ procs' = procs
        /\ unhashed' = [unhashed EXCEPT ![r] = unhashed[r] \cup {p}]
    BY <1>5 DEF ForkNsp
  <2>2. UserPids(r)' = UserPids(r)
    BY <2>1 DEF UserPids
  <2>3. unhashed' \in [Sites -> SUBSET Pids]
    BY <1>1, <2>1 DEF PidInv, TypeOK
  <2> QED
    BY <1>0, <1>2, <2>1, <2>2, <2>3, TakesEntryInv DEF PidInv, TypeOK
<1> QED
  BY <1>3, <1>4, <1>5

\* Processes come, go and change groups; no new pid is used by fork1().
LEMMA ProcessesInv ==
  ASSUME PidInv, NEW r \in Sites,
         NspChildRuns(r) \/ SetPgrp(r) \/ Exit(r)
  PROVE  Preserved(r)
<1> USE DEF PidInv, SiteInv
<1>0. /\ status[r] = "up"
      /\ UNCHANGED <<pidtable, lastalloc, status, held, lastnew, cur, lim,
                     zeroed, alloc, req, net, queued, pc, running>>
  BY DEF NspChildRuns, SetPgrp, Exit, rootVars, chunkVars, commVars
<1>1. /\ procs' \in [Sites -> SUBSET Procs]
      /\ unhashed' \in [Sites -> SUBSET Pids]
      /\ UserPids(r)' \subseteq UserPids(r)
      /\ \A s \in Sites \ {r} : procs'[s] = procs[s] /\ unhashed'[s] = unhashed[s]
  <2>1. CASE NspChildRuns(r)
    <3>1. PICK p \in unhashed[r] :
            /\ unhashed' = [unhashed EXCEPT ![r] = unhashed[r] \ {p}]
            /\ procs' = [procs EXCEPT ![r] =
                 procs[r] \cup {[pid |-> p, pgrp |-> NoGroup, nsp |-> TRUE]}]
      BY <2>1 DEF NspChildRuns
    <3>2. [pid |-> p, pgrp |-> NoGroup, nsp |-> TRUE] \in Procs
      BY DEF TypeOK, Procs
    <3>3. /\ procs' \in [Sites -> SUBSET Procs]
          /\ procs'[r] = procs[r] \cup {[pid |-> p, pgrp |-> NoGroup, nsp |-> TRUE]}
      BY <3>1, <3>2 DEF TypeOK
    <3>4. UserPids(r)' \subseteq UserPids(r)
      BY <3>3 DEF UserPids
    <3> QED
      BY <3>1, <3>3, <3>4 DEF TypeOK
  <2>2. CASE SetPgrp(r)
    <3>1. PICK p \in procs[r] :
            /\ ~p.nsp
            /\ procs' = [procs EXCEPT ![r] =
                 (procs[r] \ {p}) \cup {[p EXCEPT !.pgrp = p.pid]}]
      BY <2>2 DEF SetPgrp
    <3>2. p \in Procs
      BY DEF TypeOK
    <3>3. /\ [p EXCEPT !.pgrp = p.pid] \in Procs
          /\ [p EXCEPT !.pgrp = p.pid].pid = p.pid
      BY <3>2 DEF Procs
    <3>4. /\ procs' \in [Sites -> SUBSET Procs]
          /\ procs'[r] = (procs[r] \ {p}) \cup {[p EXCEPT !.pgrp = p.pid]}
      BY <3>1, <3>3 DEF TypeOK
    <3>5. UserPids(r)' \subseteq UserPids(r)
      BY <3>1, <3>3, <3>4 DEF UserPids
    <3>6. unhashed' = unhashed
      BY <2>2 DEF SetPgrp
    <3> QED
      BY <3>1, <3>4, <3>5, <3>6 DEF TypeOK
  <2>3. CASE Exit(r)
    <3>1. PICK p \in procs[r] : procs' = [procs EXCEPT ![r] = procs[r] \ {p}]
      BY <2>3 DEF Exit
    <3>2. procs'[r] \subseteq procs[r]
      BY <3>1 DEF TypeOK
    <3>3. UserPids(r)' \subseteq UserPids(r)
      BY <3>2 DEF UserPids
    <3>4. unhashed' = unhashed
      BY <2>3 DEF Exit
    <3> QED
      BY <3>1, <3>3, <3>4 DEF TypeOK
  <2> QED
    BY <2>1, <2>2, <2>3
<1>2. TypeOK'
  BY <1>0, <1>1 DEF TypeOK
<1>3. Messages(r)' /\ Crashed(r)' /\ Stages(r)' /\ Releases(r)'
  BY <1>0, <1>1 DEF Messages, Crashed, Stages, Prepares, Releases
<1>4. Holds(r)'
  <2>1. Known(r)' = Known(r) /\ Avail(r)' = Avail(r)
    BY <1>0 DEF Known, Avail
  <2> QED
    BY <1>0, <1>1, <2>1 DEF Holds
<1>5. \A s \in Sites \ {r} : LeftAlone(s)
  BY <1>0, <1>1 DEF LeftAlone
<1> QED
  BY <1>2, <1>3, <1>4, <1>5 DEF Preserved

\* The steps that only concern who waits and who is responsible.
LEMMA WaitingInv ==
  ASSUME PidInv, NEW r \in Sites, NEW t \in Callers,
         BecomesWaiter(r, t) \/ WaiterWakes(r, t) \/ BecomesResponsible(r, t)
  PROVE  Preserved(r)
<1> USE DEF PidInv, SiteInv
<1>0. /\ status[r] = "up"
      /\ UNCHANGED <<pidtable, lastalloc, status, procs, unhashed, held, lastnew,
                     cur, lim, zeroed, req, net, queued>>
  BY DEF BecomesWaiter, WaiterWakes, BecomesResponsible, Runs, Resumes, At,
         rootVars, procVars, chunkVars, commVars
<1>1. PICK l \in {"wait", "restart", "responsible"} :
        /\ pc[r][t] \in {"check", "woken"}
        /\ pc' = [pc EXCEPT ![r][t] = l]
  BY DEF BecomesWaiter, WaiterWakes, BecomesResponsible, Runs, Resumes, At, Goto
<1>2. \/ running' = running
      \/ \E u \in Callers \cup {NoProc} : running' = [running EXCEPT ![r] = u]
  BY DEF BecomesWaiter, WaiterWakes, BecomesResponsible, GiveUp, Run
<1>3. /\ alloc' \in [Sites -> Allocs]
      /\ alloc'[r].initiated = alloc[r].initiated
      /\ alloc'[r].complete = alloc[r].complete
      /\ alloc'[r].chunk = alloc[r].chunk
      /\ \A s \in Sites \ {r} : alloc'[s] = alloc[s]
  <2>1. CASE alloc' = alloc
    BY <2>1 DEF TypeOK
  <2>2. CASE alloc' = [alloc EXCEPT ![r].waiting = TRUE]
    <3>1. [alloc[r] EXCEPT !.waiting = TRUE] \in Allocs
      <4>1. alloc[r] \in Allocs
        BY DEF TypeOK
      <4> QED
        BY <4>1 DEF Allocs
    <3> QED
      BY <2>2, <3>1 DEF TypeOK, Allocs
  <2>3. CASE alloc' = [alloc EXCEPT ![r].responsible = TRUE]
    <3>1. [alloc[r] EXCEPT !.responsible = TRUE] \in Allocs
      <4>1. alloc[r] \in Allocs
        BY DEF TypeOK
      <4> QED
        BY <4>1 DEF Allocs
    <3> QED
      BY <2>3, <3>1 DEF TypeOK, Allocs
  <2> QED
    BY <2>1, <2>2, <2>3
    DEF BecomesWaiter, WaiterWakes, BecomesResponsible, commVars
<1>4. TypeOK'
  <2>1. pc' \in [Sites -> [Callers -> Labels]]
    BY <1>1, PcType DEF Labels
  <2>2. running' \in [Sites -> Callers \cup {NoProc}]
    BY <1>2 DEF TypeOK
  <2> QED
    BY <1>0, <1>3, <2>1, <2>2 DEF TypeOK
<1>5. Messages(r)' /\ Crashed(r)'
  BY <1>0 DEF Messages, Crashed
<1>6. Stages(r)'
  <2>1. MovesOutside(r)
    BY <1>1 DEF MovesOutside, Prepares, TypeOK
  <2> QED
    BY <1>0, <1>3, <2>1, StagesKept
<1>7. Releases(r)' /\ Holds(r)'
  <2>1. UserPids(r)' = UserPids(r) /\ Avail(r)' = Avail(r)
    BY <1>0 DEF UserPids, Avail
  <2>2. Known(r)' = Known(r)
    BY <1>0, <1>3 DEF Known
  <2> QED
    BY <1>0, <2>1, <2>2 DEF Releases, Holds
<1>8. \A s \in Sites \ {r} : LeftAlone(s)
  BY <1>0, <1>1, <1>2, <1>3 DEF LeftAlone, TypeOK
<1> QED
  BY <1>4, <1>5, <1>6, <1>7, <1>8 DEF Preserved

\* The refilled list offers no pid that is in use.
LEMMA RefillInv ==
  ASSUME PidInv, NEW r \in Sites, NEW c \in Chunks, NEW kept \in SUBSET held[r],
         Refill(r, c, kept), procs' = procs,
         \A p \in UserPids(r) : p[1] \in kept
  PROVE  /\ lastnew' \in [Sites -> Chunks \cup {NoChunk}]
         /\ held' \in [Sites -> SUBSET Chunks]
         /\ zeroed' \in [Sites -> SUBSET Offsets]
         /\ cur' \in [Sites -> 0 .. PIDCHUNK] /\ lim' \in [Sites -> 0 .. PIDCHUNK]
         /\ held'[r] = kept \cup {c} /\ lastnew'[r] = c
         /\ lastnew'[r] # NoChunk /\ cur'[r] <= lim'[r]
         /\ UserPids(r)' = UserPids(r)
         /\ Avail(r)' \cap UserPids(r)' = {}
         /\ \A s \in Sites \ {r} :
              /\ lastnew'[s] = lastnew[s] /\ held'[s] = held[s]
              /\ zeroed'[s] = zeroed[s] /\ cur'[s] = cur[s] /\ lim'[s] = lim[s]
<1> USE DEF PidInv
<1>1. /\ lastnew' \in [Sites -> Chunks \cup {NoChunk}]
      /\ held' \in [Sites -> SUBSET Chunks]
      /\ zeroed' \in [Sites -> SUBSET Offsets]
      /\ held'[r] = kept \cup {c} /\ lastnew'[r] = c
  BY DEF Refill, TypeOK
<1>2. /\ cur' \in [Sites -> 0 .. PIDCHUNK] /\ lim' \in [Sites -> 0 .. PIDCHUNK]
      /\ cur'[r] <= lim'[r] /\ lim'[r] = PIDCHUNK
  BY SizesAssumption DEF Refill, TypeOK
<1>3. c # NoChunk
  BY SizesAssumption DEF Chunks, NoChunk
<1>4. UserPids(r)' = UserPids(r)
  BY DEF UserPids
<1>5. Avail(r)' \cap UserPids(r) = {}
  <2> SUFFICES ASSUME NEW p \in Avail(r)', p \in UserPids(r) PROVE FALSE
    OBVIOUS
  <2>1. PICK i \in (cur'[r] .. lim'[r] - 1) \ zeroed'[r] : p = <<c, i>>
    BY <1>1 DEF Avail
  <2>2. i \in Offsets
    BY <1>2, SizesAssumption DEF Offsets
  <2>3. c \in kept
    BY <2>1
  <2>4. p \in ProcPids(r)
    BY DEF UserPids, ProcPids
  <2>5. i \in zeroed'[r]
    BY <2>1, <2>2, <2>3, <2>4 DEF Refill, TypeOK
  <2> QED
    BY <2>1, <2>5
<1>6. \A s \in Sites \ {r} :
        /\ lastnew'[s] = lastnew[s] /\ held'[s] = held[s]
        /\ zeroed'[s] = zeroed[s] /\ cur'[s] = cur[s] /\ lim'[s] = lim[s]
  BY DEF Refill, TypeOK
<1> QED
  BY <1>1, <1>2, <1>3, <1>4, <1>5, <1>6

\* The responsible caller setting up the chunk of the answer preserves it.
LEMMA TakesChunkInv ==
  ASSUME PidInv, NEW r \in Sites, NEW t \in Callers, TakesChunk(r, t)
  PROVE  Preserved(r)
<1> USE DEF PidInv, SiteInv
<1> DEFINE c == alloc[r].chunk
<1> DEFINE woken == [u \in Callers |-> IF alloc[r].waiting /\ pc[r][u] = "wait"
                                      THEN "woken" ELSE pc[r][u]]
<1>0. /\ status[r] = "up" /\ pc[r][t] = "responsible" /\ alloc[r].complete
      /\ UNCHANGED <<pidtable, lastalloc, status, procs, unhashed, req, net, queued>>
      /\ alloc' = [alloc EXCEPT ![r] = NoAlloc]
  BY DEF TakesChunk, At, rootVars, procVars
<1>1. \A u \in Callers : ~Prepares(r, u)
  BY <1>0 DEF Stages
<1>2. req[r] = NoReq /\ net[r].op = "none" /\ net[r].rel = {} /\ net[r].chunk = NoChunk
  BY <1>0, <1>1 DEF Stages, Messages
<1>3. PICK l \in {"idle", "restart"} :
        pc' = [pc EXCEPT ![r] = [woken EXCEPT ![t] = l]]
  BY DEF TakesChunk
<1>4. /\ pc' \in [Sites -> [Callers -> Labels]]
      /\ \A u \in Callers : ~Prepares(r, u)'
      /\ \A s \in Sites \ {r} : pc'[s] = pc[s]
  <2>1. woken \in [Callers -> Labels]
    BY DEF TypeOK, Labels
  <2>2. [woken EXCEPT ![t] = l] \in [Callers -> Labels]
    BY <2>1 DEF Labels
  <2>3. pc' \in [Sites -> [Callers -> Labels]] /\ pc'[r] = [woken EXCEPT ![t] = l]
    BY <1>3, <2>2 DEF TypeOK
  <2>4. \A u \in Callers : pc'[r][u] \in {"idle", "restart", "woken", pc[r][u]}
    BY <2>1, <2>3
  <2> QED
    BY <1>1, <1>3, <2>3, <2>4 DEF Prepares, TypeOK
<1>5. /\ running' \in [Sites -> Callers \cup {NoProc}]
      /\ \A s \in Sites \ {r} : running'[s] = running[s]
  <2>1. \/ running' = [running EXCEPT ![r] = t]
        \/ running' = [running EXCEPT ![r] = NoProc]
    BY DEF TakesChunk, GiveUp, Run
  <2> QED
    BY <2>1 DEF TypeOK
<1>6. /\ alloc' \in [Sites -> Allocs] /\ alloc'[r] = NoAlloc
      /\ \A s \in Sites \ {r} : alloc'[s] = alloc[s]
  <2>1. NoAlloc \in Allocs
    BY DEF NoAlloc, Allocs
  <2> QED
    BY <1>0, <2>1 DEF TypeOK
<1>7. Messages(r)' /\ Crashed(r)'
  BY <1>0 DEF Messages, Crashed
<1>8. Stages(r)'
  BY <1>0, <1>2, <1>4, <1>6 DEF Stages, NoAlloc
<1>9. CASE c = NoChunk
  <2>1. UNCHANGED <<held, lastnew, cur, lim, zeroed>>
    BY <1>9 DEF TakesChunk, chunkVars
  <2>2. TypeOK'
    BY <1>0, <1>4, <1>5, <1>6, <2>1 DEF TypeOK
  <2>3. UserPids(r)' = UserPids(r) /\ Avail(r)' = Avail(r)
    BY <1>0, <2>1 DEF UserPids, Avail
  <2>4. Known(r)' = Known(r)
    BY <1>0, <1>6, <1>9, <2>1 DEF Known, NoAlloc
  <2>5. Releases(r)' /\ Holds(r)'
    BY <1>0, <2>1, <2>3, <2>4 DEF Releases, Holds
  <2>6. \A s \in Sites \ {r} : LeftAlone(s)
    BY <1>0, <1>4, <1>5, <1>6, <2>1 DEF LeftAlone
  <2> QED
    BY <1>7, <1>8, <2>2, <2>5, <2>6 DEF Preserved
<1>10. CASE c # NoChunk
  <2>1. c \in Chunks /\ Refill(r, c, held[r])
    BY <1>10 DEF TakesChunk, TypeOK, Allocs
  <2>2. \A p \in UserPids(r) : p[1] \in held[r]
    BY DEF Holds
  <2> HIDE DEF c
  <2>3. /\ lastnew' \in [Sites -> Chunks \cup {NoChunk}]
        /\ held' \in [Sites -> SUBSET Chunks]
        /\ zeroed' \in [Sites -> SUBSET Offsets]
        /\ cur' \in [Sites -> 0 .. PIDCHUNK] /\ lim' \in [Sites -> 0 .. PIDCHUNK]
        /\ held'[r] = held[r] \cup {c} /\ lastnew'[r] = c
        /\ lastnew'[r] # NoChunk /\ cur'[r] <= lim'[r]
        /\ UserPids(r)' = UserPids(r)
        /\ Avail(r)' \cap UserPids(r)' = {}
        /\ \A s \in Sites \ {r} :
             /\ lastnew'[s] = lastnew[s] /\ held'[s] = held[s]
             /\ zeroed'[s] = zeroed[s] /\ cur'[s] = cur[s] /\ lim'[s] = lim[s]
    BY <1>0, <2>1, <2>2, RefillInv
  <2>4. TypeOK'
    BY <1>0, <1>4, <1>5, <1>6, <2>3 DEF TypeOK
  <2>5. Known(r)' = Known(r)
    BY <1>0, <1>2, <1>6, <2>1, <2>3 DEF Known, NoAlloc, NoChunk, Chunks, c
  <2>6. Releases(r)'
    BY <1>0, <1>2 DEF Releases, NoReq
  <2>7. Holds(r)'
    BY <1>0, <2>2, <2>3, <2>5 DEF Holds
  <2>8. \A s \in Sites \ {r} : LeftAlone(s)
    BY <1>0, <1>4, <1>5, <1>6, <2>3 DEF LeftAlone
  <2> QED
    BY <1>7, <1>8, <2>4, <2>6, <2>7, <2>8 DEF Preserved
<1> QED
  BY <1>9, <1>10

\* The reply interrupt, recv_pid_reply(), preserves it.
LEMMA RecvInv ==
  ASSUME PidInv, NEW r \in Sites, recv_pid_reply(r)
  PROVE  Preserved(r)
<1> USE DEF PidInv, SiteInv
<1>0. /\ status[r] = "up" /\ net[r].op = "getreply"
      /\ UNCHANGED <<pidtable, lastalloc, status, procs, unhashed, held, lastnew,
                     cur, lim, zeroed, req, queued, pc, running>>
      /\ alloc' = [alloc EXCEPT ![r].complete = TRUE, ![r].chunk = net[r].chunk]
      /\ net' = [net EXCEPT ![r] = NoMsg]
  BY DEF recv_pid_reply, rootVars, procVars, chunkVars
<1>1. alloc[r] \in Allocs /\ net[r] \in Msgs
  BY DEF TypeOK
<1>2. [alloc[r] EXCEPT !.complete = TRUE, !.chunk = net[r].chunk] \in Allocs
  BY <1>1 DEF Allocs, Msgs
<1>3. /\ alloc' \in [Sites -> Allocs] /\ alloc'[r].complete
      /\ alloc'[r].initiated = alloc[r].initiated
      /\ alloc'[r].chunk = net[r].chunk
      /\ \A s \in Sites \ {r} : alloc'[s] = alloc[s]
  BY <1>0, <1>1, <1>2 DEF TypeOK, Allocs
<1>4. /\ net' \in [Sites -> Msgs] /\ net'[r] = NoMsg
      /\ \A s \in Sites \ {r} : net'[s] = net[s]
  BY <1>0 DEF TypeOK, Msgs, NoMsg, Ops
<1>5. /\ alloc[r].initiated /\ ~alloc[r].complete
      /\ alloc[r].chunk = NoChunk /\ net[r].rel = {}
      /\ \A u \in Callers : ~Prepares(r, u)
  BY <1>0 DEF Stages, Messages, Prepares
<1>6. TypeOK'
  BY <1>0, <1>3, <1>4 DEF TypeOK
<1>7. Messages(r)' /\ Crashed(r)'
  BY <1>0, <1>4 DEF Messages, Crashed, NoMsg, Requests
<1>8. Stages(r)'
  BY <1>0, <1>3, <1>4, <1>5 DEF Stages, Prepares, NoMsg
<1>9. Releases(r)' /\ Holds(r)'
  <2>1. UserPids(r)' = UserPids(r) /\ Avail(r)' = Avail(r)
    BY <1>0 DEF UserPids, Avail
  <2>2. Known(r)' = Known(r)
    BY <1>0, <1>3, <1>4, <1>5 DEF Known, NoMsg
  <2> QED
    BY <1>0, <1>4, <2>1, <2>2 DEF Releases, Holds, NoMsg
<1>10. \A s \in Sites \ {r} : LeftAlone(s)
  BY <1>0, <1>3, <1>4 DEF LeftAlone
<1> QED
  BY <1>6, <1>7, <1>8, <1>9, <1>10 DEF Preserved

\* What returning chunks of site r and then looking for one for r does to the
\* server's table.
LEMMA GetpidchunkTable ==
  ASSUME TypeOK, NEW r \in Sites, NEW rel \in SUBSET Chunks,
         \A d \in rel : pidtable[d] = r,
         NEW last, NEW c \in Chunks \cup {NoChunk},
         getpidchunk(Returned(rel), r, last, c)
  PROVE  /\ pidtable' \in [Chunks -> Sites \cup {NoSite}]
         /\ lastalloc' \in Chunks \cup {-1}
         /\ \A d \in Chunks : pidtable'[d] = r <=>
              (pidtable[d] = r /\ d \notin rel) \/ d = c
         /\ \A s \in Sites \ {r}, d \in Chunks : pidtable'[d] = s <=> pidtable[d] = s
<1>1. /\ Returned(rel) \in [Chunks -> Sites \cup {NoSite}]
      /\ \A d \in Chunks : Returned(rel)[d] = r <=> pidtable[d] = r /\ d \notin rel
      /\ \A s \in Sites \ {r}, d \in Chunks : Returned(rel)[d] = s <=> pidtable[d] = s
  BY SitesAssumption DEF Returned, TypeOK
<1>2. NoChunk \notin Chunks
  BY SizesAssumption DEF NoChunk, Chunks
<1>3. CASE IsFirst(c, Skipped(Returned(rel), r, last), last)
           /\ pidtable' = Returned(rel) /\ lastalloc' = lastalloc
  <2>1. c \in Chunks /\ Returned(rel)[c] = r
    BY <1>3 DEF IsFirst, Skipped
  <2> QED
    BY <1>1, <1>3, <2>1 DEF TypeOK
<1>4. CASE /\ IsFirst(c, Allocatable(Returned(rel), r), lastalloc)
           /\ pidtable' = [Returned(rel) EXCEPT ![c] = r] /\ lastalloc' = c
  <2>1. c \in Chunks /\ Returned(rel)[c] \in {NoSite, r}
    BY <1>4 DEF IsFirst, Allocatable
  <2> QED
    BY <1>1, <1>4, <2>1, SitesAssumption
<1>5. CASE c = NoChunk /\ pidtable' = Returned(rel) /\ lastalloc' = lastalloc
  BY <1>1, <1>2, <1>5 DEF TypeOK
<1> QED
  BY <1>3, <1>4, <1>5 DEF getpidchunk

\* serve_getpids(), for either request, preserves it.
LEMMA ServeInv ==
  ASSUME PidInv, NEW r \in Sites, serve_getpids(r)
  PROVE  Preserved(r)
<1> USE DEF PidInv, SiteInv
<1> DEFINE rel == net[r].rel
<1>0. /\ UNCHANGED <<status, procs, unhashed, held, lastnew, cur, lim, zeroed, alloc,
                     req, pc, running>>
      /\ r \in queued /\ queued' = queued \ {r}
  BY DEF serve_getpids, procVars, chunkVars
<1>1. PICK c \in Chunks \cup {NoChunk}, op \in {"relreply", "getreply"} :
        /\ \/ /\ net[r].op = "releasepids" /\ op = "relreply" /\ c = NoChunk
              /\ pidtable' = Returned(rel) /\ lastalloc' = lastalloc
           \/ /\ net[r].op = "getpids" /\ op = "getreply"
              /\ getpidchunk(Returned(rel), r, net[r].last, c)
        /\ net' = [net EXCEPT ![r] =
             IF status[r] = "up" THEN [NoMsg EXCEPT !.op = op, !.chunk = c] ELSE NoMsg]
  <2>1. CASE net[r].op = "releasepids"
    BY <2>1 DEF serve_getpids
  <2>2. CASE net[r].op = "getpids"
    BY <2>2 DEF serve_getpids
  <2> QED
    BY <2>1, <2>2 DEF serve_getpids
<1>2. rel \subseteq Chunks /\ \A d \in rel : pidtable[d] = r
  BY <1>0 DEF TypeOK, Msgs, Messages
<1>3. /\ pidtable' \in [Chunks -> Sites \cup {NoSite}]
      /\ lastalloc' \in Chunks \cup {-1}
      /\ \A d \in Chunks : pidtable'[d] = r <=>
           (pidtable[d] = r /\ d \notin rel) \/ d = c
      /\ \A s \in Sites \ {r}, d \in Chunks : pidtable'[d] = s <=> pidtable[d] = s
  <2>1. CASE getpidchunk(Returned(rel), r, net[r].last, c)
    BY <1>2, <2>1, GetpidchunkTable
  <2>2. CASE c = NoChunk /\ pidtable' = Returned(rel) /\ lastalloc' = lastalloc
    <3>1. NoChunk \notin Chunks
      BY SizesAssumption DEF NoChunk, Chunks
    <3> QED
      BY <1>2, <2>2, <3>1, SitesAssumption DEF Returned, TypeOK
  <2> QED
    BY <1>1, <2>1, <2>2
<1>4. /\ net' \in [Sites -> Msgs]
      /\ \A s \in Sites \ {r} : net'[s] = net[s]
      /\ net'[r].rel = {}
      /\ status[r] # "up" => net'[r] = NoMsg
      /\ status[r] = "up" => net'[r].op = op /\ net'[r].chunk = c
  <2>1. NoMsg \in Msgs /\ [NoMsg EXCEPT !.op = op, !.chunk = c] \in Msgs
    BY DEF NoMsg, Msgs, Ops
  <2> QED
    BY <1>1, <2>1 DEF TypeOK, NoMsg
<1>5. net[r].chunk = NoChunk
  BY <1>1 DEF Messages
<1>6. TypeOK'
  BY <1>0, <1>3, <1>4 DEF TypeOK
<1>7. Messages(r)'
  BY <1>0, <1>1, <1>4 DEF Messages, NoMsg
<1>8. Crashed(r)'
  BY <1>0, <1>1, <1>4 DEF Crashed, NoMsg
<1>9. Stages(r)'
  <2>1. CASE status[r] = "up"
    BY <1>0, <1>1, <1>4, <2>1 DEF Stages, Prepares
  <2>2. CASE status[r] # "up"
    BY <1>0, <1>4, <2>2 DEF Stages, Prepares, Crashed, NoAlloc, NoMsg
  <2> QED
    BY <2>1, <2>2
<1>10. UserPids(r)' = UserPids(r) /\ Avail(r)' = Avail(r)
  BY <1>0 DEF UserPids, Avail
<1>11. Releases(r)'
  BY <1>0, <1>4, <1>10 DEF Releases
<1>12. Holds(r)'
  <2>1. status[r] = "up" => \A d \in Chunks : pidtable'[d] = r <=> d \in Known(r)'
    <3> SUFFICES ASSUME status[r] = "up", NEW d \in Chunks
                 PROVE  pidtable'[d] = r <=> d \in Known(r)'
      OBVIOUS
    <3>1. alloc[r].chunk = NoChunk
      BY <1>1 DEF Stages
    <3>2. NoChunk \notin Chunks
      BY SizesAssumption DEF NoChunk, Chunks
    <3>3. Known(r)' = held[r] \cup req[r].rel \cup ({c} \ {NoChunk})
      BY <1>0, <1>4, <3>1 DEF Known
    <3>4. pidtable[d] = r <=> d \in held[r] \cup req[r].rel \cup rel
      BY <1>5, <3>1 DEF Holds, Known
    <3>5. rel \cap (held[r] \cup req[r].rel) = {}
      BY DEF Releases
    <3> QED
      BY <1>3, <3>2, <3>3, <3>4, <3>5
  <2> QED
    BY <1>0, <1>10, <2>1 DEF Holds
<1>13. \A s \in Sites \ {r} : LeftAlone(s)
  BY <1>0, <1>3, <1>4 DEF LeftAlone
<1> QED
  BY <1>6, <1>7, <1>8, <1>9, <1>11, <1>12, <1>13 DEF Preserved

\* The root refilling its own list without a message preserves it.
LEMMA RefillRootInv ==
  ASSUME PidInv, NEW r \in Sites, NEW t \in Callers, RefillRoot(r, t)
  PROVE  Preserved(r)
<1> USE DEF PidInv, SiteInv
<1> DEFINE rel == Releasable(r, held[r])
<1>0. /\ r = Root /\ status[r] = "up" /\ pc[r][t] = "check"
      /\ UNCHANGED <<status, procs, unhashed, alloc, req, net, queued>>
  BY DEF RefillRoot, Runs, At, procVars, commVars
<1>1. PICK c \in Chunks \cup {NoChunk} :
        /\ getpidchunk(Returned(rel), r, lastnew[r], c)
        /\ IF c = NoChunk
           THEN /\ held' = [held EXCEPT ![r] = held[r] \ rel]
                /\ Goto(r, t, "idle") /\ GiveUp(r)
                /\ UNCHANGED <<lastnew, cur, lim, zeroed>>
           ELSE /\ Refill(r, c, held[r] \ rel)
                /\ Goto(r, t, "restart") /\ UNCHANGED running
  BY DEF RefillRoot
<1>2. \A u \in Callers : ~Prepares(r, u)
  BY <1>0 DEF Stages
<1>3. /\ req[r] = NoReq /\ net[r].rel = {} /\ net[r].chunk = NoChunk
      /\ alloc[r].chunk = NoChunk
  BY <1>0, <1>2 DEF Stages, Messages
<1>4. Known(r) = held[r]
  BY <1>3 DEF Known, NoReq
<1>5. rel \subseteq held[r] /\ rel \subseteq Chunks /\ \A d \in rel : pidtable[d] = r
  BY <1>0, <1>4 DEF Releasable, TypeOK, Holds
<1>6. /\ pidtable' \in [Chunks -> Sites \cup {NoSite}]
      /\ lastalloc' \in Chunks \cup {-1}
      /\ \A d \in Chunks : pidtable'[d] = r <=>
           (pidtable[d] = r /\ d \notin rel) \/ d = c
      /\ \A s \in Sites \ {r}, d \in Chunks : pidtable'[d] = s <=> pidtable[d] = s
  BY <1>1, <1>5, GetpidchunkTable
<1>7. /\ \A p \in UserPids(r) : p[1] \in held[r] \ rel
      /\ lastnew[r] # NoChunk => lastnew[r] \in held[r] \ rel
  <2>1. UserPids(r) \subseteq ProcPids(r)
    BY DEF UserPids, ProcPids
  <2> QED
    BY <2>1 DEF Releasable, Holds
<1>8. PICK l \in {"idle", "restart"} : pc' = [pc EXCEPT ![r][t] = l]
  BY <1>1 DEF Goto
<1>9. /\ running' \in [Sites -> Callers \cup {NoProc}]
      /\ \A s \in Sites \ {r} : running'[s] = running[s]
  <2>1. running' = running \/ running' = [running EXCEPT ![r] = NoProc]
    BY <1>1 DEF GiveUp
  <2> QED
    BY <2>1 DEF TypeOK
<1>10. pc' \in [Sites -> [Callers -> Labels]]
  BY <1>8, PcType DEF Labels
<1>11. Messages(r)' /\ Crashed(r)'
  BY <1>0, <1>3 DEF Messages, Crashed
<1>12. Stages(r)'
  <2>1. MovesOutside(r)
    BY <1>0, <1>8 DEF MovesOutside, Prepares, TypeOK
  <2> QED
    BY <1>0, <2>1, StagesKept
<1>13. Releases(r)'
  BY <1>0, <1>3 DEF Releases, NoReq
<1>14. CASE c = NoChunk
  <2>1. UNCHANGED <<lastnew, cur, lim, zeroed>> /\ held' = [held EXCEPT ![r] = held[r] \ rel]
    BY <1>1, <1>14
  <2>2. held'[r] = held[r] \ rel /\ held' \in [Sites -> SUBSET Chunks]
    BY <2>1 DEF TypeOK
  <2>3. TypeOK'
    BY <1>0, <1>6, <1>9, <1>10, <2>1, <2>2 DEF TypeOK
  <2>4. Known(r)' = held[r] \ rel
    BY <1>0, <1>3, <2>2 DEF Known, NoReq
  <2>5. UserPids(r)' = UserPids(r) /\ Avail(r)' = Avail(r)
    BY <1>0, <2>1 DEF UserPids, Avail
  <2>6. NoChunk \notin Chunks
    BY SizesAssumption DEF NoChunk, Chunks
  <2>7. \A d \in Chunks : pidtable'[d] = r <=> d \in Known(r)'
    BY <1>0, <1>4, <1>6, <1>14, <2>4, <2>6 DEF Holds
  <2>8. Holds(r)'
    BY <1>0, <1>7, <2>1, <2>2, <2>5, <2>7 DEF Holds
  <2>9. \A s \in Sites \ {r} : LeftAlone(s)
    BY <1>0, <1>6, <1>8, <1>9, <2>1 DEF LeftAlone, TypeOK
  <2> QED
    BY <1>11, <1>12, <1>13, <2>3, <2>8, <2>9 DEF Preserved
<1>15. CASE c # NoChunk
  <2>1. c \in Chunks /\ Refill(r, c, held[r] \ rel)
    BY <1>1, <1>15
  <2> HIDE DEF rel
  <2>2. /\ lastnew' \in [Sites -> Chunks \cup {NoChunk}]
        /\ held' \in [Sites -> SUBSET Chunks]
        /\ zeroed' \in [Sites -> SUBSET Offsets]
        /\ cur' \in [Sites -> 0 .. PIDCHUNK] /\ lim' \in [Sites -> 0 .. PIDCHUNK]
        /\ held'[r] = (held[r] \ rel) \cup {c} /\ lastnew'[r] = c
        /\ lastnew'[r] # NoChunk /\ cur'[r] <= lim'[r]
        /\ UserPids(r)' = UserPids(r)
        /\ Avail(r)' \cap UserPids(r)' = {}
        /\ \A s \in Sites \ {r} :
             /\ lastnew'[s] = lastnew[s] /\ held'[s] = held[s]
             /\ zeroed'[s] = zeroed[s] /\ cur'[s] = cur[s] /\ lim'[s] = lim[s]
    BY <1>0, <1>7, <2>1, RefillInv
  <2>3. TypeOK'
    BY <1>0, <1>6, <1>9, <1>10, <2>2 DEF TypeOK
  <2>4. Known(r)' = (held[r] \ rel) \cup {c}
    BY <1>0, <1>3, <2>2 DEF Known, NoReq
  <2>5. \A d \in Chunks : pidtable'[d] = r <=> d \in Known(r)'
    BY <1>0, <1>4, <1>6, <2>4 DEF Holds
  <2>6. Holds(r)'
    BY <1>0, <1>7, <2>2, <2>5 DEF Holds
  <2>7. \A s \in Sites \ {r} : LeftAlone(s)
    BY <1>0, <1>6, <1>8, <1>9, <2>2 DEF LeftAlone, TypeOK
  <2> QED
    BY <1>11, <1>12, <1>13, <2>3, <2>6, <2>7 DEF Preserved
<1> QED
  BY <1>14, <1>15

\* A client that fails, its tables lost, preserves it.
LEMMA CrashInv ==
  ASSUME PidInv, NEW r \in Sites, Crash(r)
  PROVE  Preserved(r)
<1> USE DEF PidInv, SiteInv
<1>0. /\ r # Root /\ status[r] = "up" /\ UNCHANGED <<pidtable, lastalloc, queued>>
      /\ status' = [status EXCEPT ![r] = "failed"]
      /\ procs' = [procs EXCEPT ![r] = {}]
      /\ unhashed' = [unhashed EXCEPT ![r] = {}]
      /\ held' = [held EXCEPT ![r] = {}]
      /\ lastnew' = [lastnew EXCEPT ![r] = NoChunk]
      /\ cur' = [cur EXCEPT ![r] = 0] /\ lim' = [lim EXCEPT ![r] = 0]
      /\ zeroed' = [zeroed EXCEPT ![r] = {}]
      /\ alloc' = [alloc EXCEPT ![r] = NoAlloc]
      /\ req' = [req EXCEPT ![r] = NoReq]
      /\ net' = [net EXCEPT ![r] =
           IF net[r].op \in Requests THEN net[r] ELSE NoMsg]
      /\ pc' = [pc EXCEPT ![r] = [t \in Callers |-> "idle"]]
      /\ running' = [running EXCEPT ![r] = NoProc]
  BY DEF Crash, rootVars
<1>1. NoAlloc \in Allocs /\ NoReq \in Reqs /\ NoMsg \in Msgs
  BY DEF NoAlloc, Allocs, NoReq, Reqs, NoMsg, Msgs, Ops
<1>2. /\ net' \in [Sites -> Msgs] /\ net'[r] \in {net[r], NoMsg}
      /\ net'[r].op \in Requests \cup {"none"}
      /\ net[r].op \in Requests => net'[r] = net[r]
  BY <1>0, <1>1 DEF TypeOK, NoMsg
<1>3. TypeOK'
  <2>1. /\ alloc' \in [Sites -> Allocs] /\ req' \in [Sites -> Reqs]
    BY <1>0, <1>1 DEF TypeOK
  <2>2. pc' \in [Sites -> [Callers -> Labels]]
    BY <1>0 DEF TypeOK, Labels
  <2>3. cur' \in [Sites -> 0 .. PIDCHUNK] /\ lim' \in [Sites -> 0 .. PIDCHUNK]
    BY <1>0, SizesAssumption DEF TypeOK
  <2> QED
    BY <1>0, <1>2, <2>1, <2>2, <2>3 DEF TypeOK
<1>4. /\ status'[r] = "failed" /\ procs'[r] = {} /\ unhashed'[r] = {}
      /\ held'[r] = {} /\ lastnew'[r] = NoChunk /\ cur'[r] = 0 /\ lim'[r] = 0
      /\ alloc'[r] = NoAlloc /\ req'[r] = NoReq
      /\ \A t \in Callers : pc'[r][t] = "idle"
  BY <1>0 DEF TypeOK
<1>5. Messages(r)'
  BY <1>0, <1>2 DEF Messages, NoMsg
<1>6. Crashed(r)'
  BY <1>0, <1>2, <1>4 DEF Crashed
<1>7. Stages(r)'
  BY <1>0, <1>4 DEF Stages, Prepares, NoAlloc
<1>8. UserPids(r)' = {} /\ Avail(r)' = {}
  BY <1>4 DEF UserPids, Avail
<1>9. Releases(r)' /\ Holds(r)'
  BY <1>4, <1>8 DEF Releases, Holds, NoReq
<1>10. \A s \in Sites \ {r} : LeftAlone(s)
  BY <1>0 DEF LeftAlone, TypeOK
<1> QED
  BY <1>3, <1>5, <1>6, <1>7, <1>9, <1>10 DEF Preserved

\* A request of site r that arrives at the root, or is dumped there, preserves it.
LEMMA ReceiveInv ==
  ASSUME PidInv, NEW r \in Sites, net_receive(r)
  PROVE  Preserved(r)
<1> USE DEF PidInv, SiteInv
<1>0. /\ net[r].op \in Requests
      /\ \/ status[r] = "up" /\ queued' = queued \cup {r} /\ net' = net
         \/ status[r] # "up" /\ queued' = queued /\ r \notin queued
              /\ net' = [net EXCEPT ![r] = NoMsg]
      /\ UNCHANGED <<pidtable, lastalloc, status, procs, unhashed, held, lastnew,
                     cur, lim, zeroed, alloc, req, pc, running>>
  BY DEF net_receive, rootVars, procVars, chunkVars
<1>1. NoMsg \in Msgs
  BY DEF NoMsg, Msgs, Ops
<1>2. UserPids(r)' = UserPids(r) /\ Avail(r)' = Avail(r)
  BY <1>0 DEF UserPids, Avail
<1>3. TypeOK'
  BY <1>0, <1>1 DEF TypeOK
<1>4. \A s \in Sites \ {r} : LeftAlone(s)
  BY <1>0 DEF LeftAlone, TypeOK
<1>5. CASE status[r] = "up"
  <2>1. Messages(r)' /\ Crashed(r)' /\ Stages(r)' /\ Releases(r)'
    BY <1>0, <1>2, <1>5 DEF Messages, Crashed, Stages, Prepares, Releases
  <2>2. Known(r)' = Known(r)
    BY <1>0, <1>5 DEF Known
  <2>3. Holds(r)'
    BY <1>0, <1>2, <2>2 DEF Holds
  <2> QED
    BY <1>3, <1>4, <2>1, <2>3 DEF Preserved
<1>6. CASE status[r] # "up"
  <2>1. net'[r] = NoMsg
    BY <1>0, <1>6 DEF TypeOK
  <2>2. Messages(r)' /\ Crashed(r)'
    BY <1>0, <1>6, <2>1 DEF Messages, Crashed, NoMsg
  <2>3. Stages(r)'
    BY <1>0, <1>6, <2>1 DEF Stages, Prepares, Crashed, NoAlloc
  <2>4. Releases(r)' /\ Holds(r)'
    BY <1>0, <1>2, <1>6, <2>1 DEF Releases, Holds, NoMsg
  <2> QED
    BY <1>3, <1>4, <2>2, <2>3, <2>4 DEF Preserved
<1> QED
  BY <1>5, <1>6

\* A round of no_nsp(), after which clean_up() may begin, and a round of it that
\* fails, preserve it.
LEMMA CleanupRoundInv ==
  ASSUME PidInv, NEW r \in Sites, no_nsp(r) \/ CleanupFails(r)
  PROVE  Preserved(r)
<1> USE DEF PidInv, SiteInv
<1>0. /\ UNCHANGED <<pidtable, lastalloc, procs, unhashed, held, lastnew, cur, lim,
                     zeroed, alloc, req, pc, running>>
      /\ status[r] \in {"failed", "cleanup"}
  BY DEF no_nsp, CleanupFails, rootVars, procVars, chunkVars, commVars
<1>1. PICK st \in {"failed", "cleanup"} :
        /\ status' = [status EXCEPT ![r] = st]
        /\ \/ queued' = queued /\ net' = net /\ st = "failed"
           \/ /\ queued' = queued \ {r}
              /\ net' = IF r \in queued THEN [net EXCEPT ![r] = NoMsg] ELSE net
  <2>1. CASE no_nsp(r)
    BY <2>1 DEF no_nsp
  <2>2. CASE CleanupFails(r)
    BY <2>2 DEF CleanupFails, commVars
  <2> QED
    BY <2>1, <2>2
<1>2. NoMsg \in Msgs
  BY DEF NoMsg, Msgs, Ops
<1>3. /\ status'[r] = st /\ net' \in [Sites -> Msgs]
      /\ queued' \subseteq queued /\ (st = "failed" \/ r \notin queued')
      /\ net'[r] = NoMsg \/ net'[r] = net[r]
      /\ r \in queued' => net'[r] = net[r]
      /\ \A s \in Sites \ {r} : /\ net'[s] = net[s] /\ status'[s] = status[s]
                                /\ s \in queued' <=> s \in queued
  BY <1>1, <1>2 DEF TypeOK
<1>4. TypeOK'
  BY <1>0, <1>1, <1>3 DEF TypeOK
<1>5. Messages(r)' /\ Crashed(r)'
  BY <1>0, <1>3 DEF Messages, Crashed, NoMsg
<1>6. Stages(r)'
  BY <1>0, <1>3 DEF Stages, Prepares, Crashed, NoAlloc
<1>7. UserPids(r)' = UserPids(r) /\ Avail(r)' = Avail(r)
  BY <1>0 DEF UserPids, Avail
<1>8. Releases(r)' /\ Holds(r)'
  BY <1>0, <1>3, <1>7 DEF Releases, Holds, Crashed, NoReq
<1>9. \A s \in Sites \ {r} : LeftAlone(s)
  BY <1>0, <1>3 DEF LeftAlone
<1> QED
  BY <1>4, <1>5, <1>6, <1>8, <1>9 DEF Preserved

\* pid_cleanup() returning a dead site's chunks preserves it: nothing of the
\* site is queued, so no NSP can charge it another one.
LEMMA PidCleanupInv ==
  ASSUME PidInv, NEW r \in Sites, pid_cleanup(r)
  PROVE  Preserved(r)
<1> USE DEF PidInv, SiteInv
<1>0. /\ status[r] = "cleanup" /\ r \notin queued
      /\ pidtable' = Returned({c \in Chunks : pidtable[c] = r})
      /\ status' = [status EXCEPT ![r] = "inactive"]
      /\ UNCHANGED <<lastalloc, procs, unhashed, held, lastnew, cur, lim, zeroed,
                     alloc, req, net, queued, pc, running>>
  BY DEF pid_cleanup, procVars, chunkVars, commVars, Crashed
<1>1. /\ pidtable' \in [Chunks -> Sites \cup {NoSite}]
      /\ \A c \in Chunks : pidtable'[c] # r
      /\ \A s \in Sites \ {r}, c \in Chunks : pidtable'[c] = s <=> pidtable[c] = s
  BY <1>0, SitesAssumption DEF Returned, TypeOK
<1>2. status'[r] = "inactive"
  BY <1>0 DEF TypeOK
<1>3. TypeOK'
  BY <1>0, <1>1 DEF TypeOK
<1>4. Messages(r)' /\ Crashed(r)'
  BY <1>0, <1>1, <1>2 DEF Messages, Crashed
<1>5. Stages(r)'
  BY <1>0, <1>2 DEF Stages, Prepares, Crashed, NoAlloc
<1>6. UserPids(r)' = UserPids(r) /\ Avail(r)' = Avail(r)
  BY <1>0 DEF UserPids, Avail
<1>7. Releases(r)' /\ Holds(r)'
  BY <1>0, <1>2, <1>6 DEF Releases, Holds, Crashed, NoReq
<1>8. \A s \in Sites \ {r} : LeftAlone(s)
  BY <1>0, <1>1 DEF LeftAlone, TypeOK
<1> QED
  BY <1>3, <1>4, <1>5, <1>7, <1>8 DEF Preserved

\* A site that boots again with empty tables preserves it.
LEMMA RejoinInv ==
  ASSUME PidInv, NEW r \in Sites, Rejoin(r)
  PROVE  Preserved(r)
<1> USE DEF PidInv, SiteInv
<1>0. /\ status[r] = "inactive" /\ net[r] = NoMsg
      /\ status' = [status EXCEPT ![r] = "up"]
      /\ UNCHANGED <<pidtable, lastalloc, procs, unhashed, held, lastnew, cur, lim,
                     zeroed, alloc, req, net, queued, pc, running>>
  BY DEF Rejoin, rootVars, procVars, chunkVars, commVars
<1>1. TypeOK' /\ status'[r] = "up"
  BY <1>0 DEF TypeOK
<1>2. /\ r # Root /\ held[r] = {} /\ alloc[r] = NoAlloc /\ req[r] = NoReq
      /\ r \notin queued /\ \A c \in Chunks : pidtable[c] # r
      /\ \A t \in Callers : pc[r][t] = "idle"
  BY <1>0 DEF Crashed
<1>3. Messages(r)' /\ Crashed(r)'
  BY <1>0, <1>1, <1>2 DEF Messages, Crashed, NoMsg
<1>4. Stages(r)'
  BY <1>0, <1>2 DEF Stages, Prepares, NoAlloc, NoMsg
<1>5. UserPids(r)' = UserPids(r) /\ Avail(r)' = Avail(r)
  BY <1>0 DEF UserPids, Avail
<1>6. Known(r)' = {}
  BY <1>0, <1>2 DEF Known, NoReq, NoMsg, NoAlloc
<1>7. Releases(r)' /\ Holds(r)'
  BY <1>0, <1>2, <1>5, <1>6 DEF Releases, Holds
<1>8. \A s \in Sites \ {r} : LeftAlone(s)
  BY <1>0 DEF LeftAlone, TypeOK
<1> QED
  BY <1>1, <1>3, <1>4, <1>7, <1>8 DEF Preserved

\* What can happen at site r, or at the root on its behalf.
SiteStep(r) ==
  \/ \E t \in Callers : getnewpid(r, t) \/ CallerStep(r, t)
  \/ net_receive(r) \/ serve_getpids(r) \/ recv_pid_reply(r)
  \/ NspChildRuns(r) \/ SetPgrp(r) \/ Exit(r)
  \/ Crash(r) \/ no_nsp(r) \/ CleanupFails(r) \/ pid_cleanup(r) \/ Rejoin(r)

\* Each of these preserves the invariant of its site and leaves others alone.
LEMMA SiteStepInv ==
  ASSUME PidInv, NEW r \in Sites, SiteStep(r)
  PROVE  Preserved(r)
<1>2. ASSUME NEW t \in Callers, getnewpid(r, t) \/ Restart(r, t)
      PROVE  Preserved(r)
  BY <1>2, SkipHolesInv DEF getnewpid, Restart, Resumes, Runs, At
<1>3. ASSUME NEW t \in Callers, CallerStep(r, t)
      PROVE  Preserved(r)
  BY <1>2, <1>3, MessageAllocatedInv, SendGetpidsInv, SendReleasepidsInv,
     ReleasepidsDoneInv, PidIsGroupInv, ForksInv, RefillRootInv, WaitingInv,
     TakesChunkInv DEF CallerStep
<1>4. CASE net_receive(r) \/ serve_getpids(r) \/ recv_pid_reply(r)
  BY <1>4, ReceiveInv, ServeInv, RecvInv
<1>5. CASE NspChildRuns(r) \/ SetPgrp(r) \/ Exit(r)
  BY <1>5, ProcessesInv
<1>6. CASE Crash(r) \/ no_nsp(r) \/ CleanupFails(r) \/ pid_cleanup(r) \/ Rejoin(r)
  BY <1>6, CrashInv, CleanupRoundInv, PidCleanupInv, RejoinInv
<1> QED
  BY <1>2, <1>3, <1>4, <1>5, <1>6 DEF SiteStep

\* Every step is one of a site, or changes nothing.
LEMMA StepIsOfSite ==
  ASSUME PidInv, [Next]_vars
  PROVE  \/ \E r \in Sites : SiteStep(r)
         \/ \A s \in Sites : LeftAlone(s)
<1>1. CASE UNCHANGED vars
  BY <1>1 DEF vars, LeftAlone
<1>2. CASE Next
  BY <1>2 DEF Next, SiteStep
<1> QED
  BY <1>1, <1>2

\* Every step of the system preserves it: one case per action.
LEMMA NextInv == PidInv /\ [Next]_vars => PidInv'
<1> SUFFICES ASSUME PidInv, [Next]_vars PROVE PidInv'
  OBVIOUS
<1>1. CASE UNCHANGED vars
  <2>1. TypeOK'
    BY <1>1 DEF vars, PidInv, TypeOK
  <2>2. \A s \in Sites : LeftAlone(s)
    BY <1>1 DEF vars, LeftAlone
  <2> QED
    BY <2>1, <2>2, LeftAloneInv DEF PidInv
<1>2. CASE Next
  <2>1. PICK r \in Sites : SiteStep(r)
    BY <1>2 DEF Next, SiteStep
  <2> QED
    BY <2>1, SiteStepInv, LeftAloneInv DEF Preserved, PidInv
<1> QED
  BY <1>1, <1>2

-----------------------------------------------------------------------------
\* PidInv holds in every reachable state: it holds initially and every step,
\* of a caller of dux_getnewpid(), of the server, of the reply interrupt or of
\* a site that fails and comes back, preserves it.
THEOREM PidInvariant == Spec => []PidInv
  BY InitInv, NextInv, PTL DEF Spec

\* Every variable keeps its type; the index into availpids never leaves the
\* array, whatever happens while dux_getnewpid() sleeps.
THEOREM TypeCorrect == Spec => []TypeOK
<1>1. PidInv => TypeOK
  BY DEF PidInv
<1> QED
  BY <1>1, PidInvariant, PTL

\* What a site has in use or on offer lies in chunks that pidtable charges to
\* the site, so that two sites never share a pid.
LEMMA PidsLieInOwnChunks ==
  ASSUME PidInv, NEW s \in Sites, NEW p \in Avail(s) \cup UserPids(s)
  PROVE  p[1] \in Chunks /\ pidtable[p[1]] = s
<1> USE DEF PidInv, SiteInv
<1>1. UserPids(s) # {} => status[s] = "up"
  BY DEF UserPids, Crashed
<1>2. Avail(s) # {} => status[s] = "up" /\ lim[s] # 0
  BY DEF Avail, Crashed, TypeOK
<1>3. p[1] \in held[s] /\ status[s] = "up"
  <2>1. CASE p \in UserPids(s)
    BY <1>1, <2>1 DEF Holds
  <2>2. CASE p \in Avail(s)
    BY <1>2, <2>2 DEF Holds, Avail
  <2> QED
    BY <2>1, <2>2
<1> QED
  BY <1>3 DEF Holds, Known, TypeOK

\* Cluster-wide uniqueness (the purpose of dux_getpid.c): no pid is in use or
\* on offer at two sites, and none is on offer at a site that still uses it,
\* across any interleaving of forks, releases, refills, crashes and rejoins.
THEOREM PidsAreUnique == Spec => []UniquePids
<1>1. PidInv => UniquePids
  <2> SUFFICES ASSUME PidInv PROVE UniquePids
    OBVIOUS
  <2>1. \A s \in Sites : Avail(s) \cap UserPids(s) = {}
    BY DEF PidInv, SiteInv, Holds
  <2>2. ASSUME NEW s \in Sites, NEW r \in Sites, s # r
        PROVE  (Avail(s) \cup UserPids(s)) \cap (Avail(r) \cup UserPids(r)) = {}
    BY <2>2, PidsLieInOwnChunks
  <2> QED
    BY <2>1, <2>2 DEF UniquePids
<1> QED
  BY <1>1, PidInvariant, PTL

\* The root's pidtable and the tables of the running sites agree, counting the
\* chunks in requests and replies under way: no chunk is lost or doubly owned.
THEOREM TablesAlwaysAgree == Spec => []TablesAgree
<1>1. PidInv => TablesAgree
  BY DEF PidInv, SiteInv, Holds, TablesAgree
<1> QED
  BY <1>1, PidInvariant, PTL

\* From pid_cleanup() until the site joins again no chunk is charged to it, for
\* any number of sites whose requests are served meanwhile: no_nsp() has emptied
\* the queue before clean_up() began, an error in clean_up() leads back to
\* no_nsp(), and the frames of a site that is not a member are dumped.
THEOREM CleanupComplete == Spec => []CleanedUp
<1>1. PidInv => CleanedUp
  BY DEF PidInv, SiteInv, Crashed, CleanedUp
<1> QED
  BY <1>1, PidInvariant, PTL

-----------------------------------------------------------------------------
(* One allocation at a time.                                               *)

\* Whoever is inside dux_getnewpid() and not asleep has the processor, so that
\* nobody takes the preallocated chunk between his test of the list and his
\* taking the responsibility; and a preallocation that was begun is at one of
\* its stages until its answer is taken.
Turn(s) ==
  /\ \A t \in Callers : pc[s][t] \in {"restart", "release", "check"} => running[s] = t
  /\ \A t \in Callers : pc[s][t] = "check" /\ s # Root =>
                          alloc[s].initiated \/ cur[s] < lim[s]
  /\ \A t, u \in Callers : pc[s][t] = "responsible" /\ pc[s][u] = "responsible" => t = u
  /\ alloc[s].responsible <=> \E t \in Callers : pc[s][t] = "responsible"
  /\ alloc[s].responsible => alloc[s].initiated
  /\ alloc[s].initiated => \/ \E t \in Callers : Prepares(s, t)
                           \/ net[s].op \in {"getpids", "getreply"}
                           \/ alloc[s].complete

\* A caller that had the processor, or gets it, begins with dux_getnewpid().
LEMMA SkipHolesTurn ==
  ASSUME PidInv, NEW r \in Sites, Turn(r), NEW t \in Callers, status[r] = "up",
         \/ pc[r][t] = "idle" /\ running[r] = NoProc
         \/ pc[r][t] = "restart" /\ running[r] = t,
         SkipHoles(r, t)
  PROVE  Turn(r)'
<1>1. PICK i \in 0 .. PIDCHUNK :
        /\ cur' = [cur EXCEPT ![r] = i]
        /\ IF r # Root /\ ~alloc[r].initiated /\ lim[r] - i < CHUNK_PREALLOCATE
           THEN /\ alloc' = [alloc EXCEPT ![r].initiated = TRUE]
                /\ Goto(r, t, "dm_alloc") /\ GiveUp(r)
           ELSE Goto(r, t, "check") /\ Run(r, t) /\ UNCHANGED alloc
  BY DEF SkipHoles
<1>2. /\ alloc[r] \in Allocs /\ alloc \in [Sites -> Allocs] /\ pc[r] \in [Callers -> Labels]
      /\ lim[r] \in 0 .. PIDCHUNK /\ cur'[r] = i /\ UNCHANGED <<lim, net>>
      /\ CHUNK_PREALLOCATE \in 1 .. PIDCHUNK /\ PIDCHUNK \in Nat /\ NoProc \notin Callers
  BY <1>1, SizesAssumption, CallersAssumption DEF PidInv, TypeOK, SkipHoles
<1>3. CASE r # Root /\ ~alloc[r].initiated /\ lim[r] - i < CHUNK_PREALLOCATE
  <2>1. /\ \A u \in Callers : pc'[r][u] = IF u = t THEN "dm_alloc" ELSE pc[r][u]
        /\ running'[r] = NoProc
        /\ alloc'[r].initiated /\ alloc'[r].responsible = alloc[r].responsible
    BY <1>1, <1>2, <1>3 DEF Goto, GiveUp, PidInv, TypeOK, Allocs
  <2> QED
    BY <1>2, <1>3, <2>1 DEF Turn, Prepares
<1>4. CASE ~(r # Root /\ ~alloc[r].initiated /\ lim[r] - i < CHUNK_PREALLOCATE)
  <2>1. /\ \A u \in Callers : pc'[r][u] = IF u = t THEN "check" ELSE pc[r][u]
        /\ running'[r] = t /\ alloc' = alloc
    BY <1>1, <1>2, <1>4 DEF Goto, Run, PidInv, TypeOK
  <2>2. r = Root \/ alloc[r].initiated \/ cur'[r] < lim'[r]
    BY <1>2, <1>4
  <2>3. \A u \in Callers : pc[r][u] \in {"restart", "release", "check"} => u = t
    BY <1>2 DEF Turn
  <2> QED
    BY <1>2, <2>1, <2>2, <2>3 DEF Turn, Prepares
<1> QED
  BY <1>3, <1>4

\* A caller t of site r goes from one label to another, and other labels stay.
Moves(r, t, l) == \A u \in Callers : pc'[r][u] = IF u = t THEN l ELSE pc[r][u]

\* What Goto() does.
LEMMA GotoMoves ==
  ASSUME PidInv, NEW r \in Sites, NEW t \in Callers, NEW l, Goto(r, t, l)
  PROVE  Moves(r, t, l)
  BY DEF PidInv, TypeOK, Goto, Moves

\* The scan for chunks to release, and the messages.
LEMMA PreparesTurn ==
  ASSUME PidInv, NEW r \in Sites, Turn(r), NEW t \in Callers,
         \/ MessageAllocated(r, t) \/ SendGetpids(r, t)
         \/ SendReleasepids(r, t) \/ ReleasepidsDone(r, t)
  PROVE  Turn(r)'
<1>1. NoProc \notin Callers /\ running \in [Sites -> Callers \cup {NoProc}] /\ net \in [Sites -> Msgs]
  BY CallersAssumption DEF PidInv, TypeOK
<1>2. Stages(r)
  BY DEF PidInv, SiteInv
<1>3. CASE MessageAllocated(r, t)
  <2>1. /\ pc[r][t] = "dm_alloc" /\ running[r] = NoProc /\ running'[r] = t
        /\ Moves(r, t, "release") /\ UNCHANGED <<alloc, net, cur, lim>>
    BY <1>1, <1>3, GotoMoves DEF MessageAllocated, Resumes, At, Run, chunkVars
  <2> QED
    BY <1>1, <1>2, <2>1 DEF Turn, Prepares, Moves, Stages
<1>4. CASE SendGetpids(r, t)
  <2>1. /\ pc[r][t] = "release" /\ running[r] = t /\ running' = running
        /\ Moves(r, t, "check") /\ UNCHANGED <<alloc, cur, lim>> /\ net'[r].op = "getpids"
    BY <1>1, <1>4, GotoMoves DEF SendGetpids, Runs, At
  <2>2. alloc[r].initiated
    BY <1>2, <2>1 DEF Stages, Prepares
  <2> QED
    BY <1>1, <1>2, <2>1, <2>2 DEF Turn, Prepares, Moves
<1>5. CASE SendReleasepids(r, t)
  <2>1. /\ pc[r][t] = "release" /\ running[r] = t /\ running'[r] = NoProc
        /\ Moves(r, t, "relsend") /\ UNCHANGED <<alloc, cur, lim>>
    BY <1>1, <1>5, GotoMoves DEF SendReleasepids, Runs, At, GiveUp
  <2> QED
    BY <1>1, <1>2, <2>1 DEF Turn, Prepares, Moves
<1>6. CASE ReleasepidsDone(r, t)
  <2>1. /\ pc[r][t] = "relsend" /\ running[r] = NoProc /\ running'[r] = t
        /\ Moves(r, t, "release") /\ UNCHANGED <<alloc, cur, lim>>
    BY <1>1, <1>6, GotoMoves DEF ReleasepidsDone, Resumes, At, Run
  <2> QED
    BY <1>1, <1>2, <2>1 DEF Turn, Prepares, Moves
<1> QED
  BY <1>3, <1>4, <1>5, <1>6

\* A caller takes a pid, or a chunk at the root, or finds that he must wait.
LEMMA ChecksTurn ==
  ASSUME PidInv, NEW r \in Sites, Turn(r), NEW t \in Callers,
         \/ PidIsGroup(r, t) \/ Fork1(r, t) \/ ForkFails(r, t) \/ ForkNsp(r, t)
         \/ RefillRoot(r, t) \/ BecomesWaiter(r, t) \/ WaiterWakes(r, t)
  PROVE  Turn(r)'
<1>1. NoProc \notin Callers /\ running \in [Sites -> Callers \cup {NoProc}] /\ alloc \in [Sites -> Allocs]
  BY CallersAssumption DEF PidInv, TypeOK
<1>2. ASSUME NEW l \in {"idle", "restart", "wait"}, Moves(r, t, l),
             pc[r][t] \in {"check", "woken"},
             pc[r][t] = "check" => running[r] = t,
             pc[r][t] = "woken" => running[r] = NoProc,
             l = "restart" => running'[r] = t,
             UNCHANGED net, alloc'[r].initiated = alloc[r].initiated,
             alloc'[r].responsible = alloc[r].responsible, alloc'[r].complete = alloc[r].complete
      PROVE  Turn(r)'
  <2>1. \A u \in Callers : pc'[r][u] \in {"restart", "release", "check"} => u = t
    BY <1>1, <1>2 DEF Turn, Moves
  <2>2. \A u \in Callers : /\ Prepares(r, u)' <=> Prepares(r, u)
                           /\ pc'[r][u] = "responsible" <=> pc[r][u] = "responsible"
    BY <1>2 DEF Prepares, Moves
  <2>3. pc'[r][t] = l
    BY <1>2 DEF Moves
  <2> QED
    BY <1>2, <2>1, <2>2, <2>3 DEF Turn
<1>3. CASE PidIsGroup(r, t)
  <2>1. pc[r][t] = "check" /\ running[r] = t /\ UNCHANGED <<running, net, alloc>> /\ Moves(r, t, "restart")
    BY <1>3, GotoMoves DEF PidIsGroup, Runs, At, commVars
  <2> QED
    BY <1>2, <2>1
<1>4. CASE TakesPid(r, t)
  <2>1. pc[r][t] = "check" /\ running[r] = t /\ UNCHANGED <<net, alloc>> /\ Moves(r, t, "idle")
    BY <1>4, GotoMoves DEF TakesPid, Runs, At, commVars
  <2> QED
    BY <1>2, <2>1
<1>5. CASE RefillRoot(r, t)
  <2>1. /\ pc[r][t] = "check" /\ running[r] = t /\ UNCHANGED <<net, alloc>>
        /\ Goto(r, t, "idle") \/ (Goto(r, t, "restart") /\ UNCHANGED running)
    BY <1>5 DEF RefillRoot, Runs, At, commVars
  <2> QED
    BY <1>2, <2>1, GotoMoves
<1>6. CASE BecomesWaiter(r, t)
  <2>1. /\ pc[r][t] = "check" /\ running[r] = t /\ net' = net /\ Moves(r, t, "wait")
        /\ alloc' = [alloc EXCEPT ![r].waiting = TRUE]
    BY <1>6, GotoMoves DEF BecomesWaiter, Runs, At
  <2>2. /\ alloc'[r].initiated = alloc[r].initiated
        /\ alloc'[r].responsible = alloc[r].responsible /\ alloc'[r].complete = alloc[r].complete
    BY <1>1, <2>1 DEF Allocs
  <2> QED
    BY <1>2, <2>1, <2>2
<1>7. CASE WaiterWakes(r, t)
  <2>1. /\ pc[r][t] = "woken" /\ running[r] = NoProc /\ UNCHANGED <<net, alloc>>
        /\ Goto(r, t, "wait") \/ (Goto(r, t, "restart") /\ running'[r] = t)
    BY <1>1, <1>7 DEF WaiterWakes, Resumes, At, Run, commVars
  <2> QED
    BY <1>2, <2>1, GotoMoves
<1> QED
  BY <1>3, <1>4, <1>5, <1>6, <1>7 DEF Fork1, ForkFails, ForkNsp

\* A caller takes the responsibility: there is an allocation he can wait for.
LEMMA ResponsibleTurn ==
  ASSUME PidInv, NEW r \in Sites, Turn(r), NEW t \in Callers, BecomesResponsible(r, t)
  PROVE  Turn(r)'
<1>1. /\ NoProc \notin Callers /\ running \in [Sites -> Callers \cup {NoProc}]
      /\ alloc \in [Sites -> Allocs] /\ cur[r] \in 0 .. PIDCHUNK /\ lim[r] \in 0 .. PIDCHUNK
  BY CallersAssumption DEF PidInv, TypeOK
<1>2. /\ r # Root /\ pc[r][t] = "check" /\ running[r] = t /\ ~alloc[r].responsible
      /\ cur[r] >= lim[r] /\ alloc' = [alloc EXCEPT ![r].responsible = TRUE]
      /\ Moves(r, t, "responsible") /\ net' = net
  BY GotoMoves DEF BecomesResponsible, Runs, At
<1>3. /\ alloc'[r].responsible /\ alloc'[r].initiated = alloc[r].initiated
      /\ alloc'[r].complete = alloc[r].complete
  BY <1>1, <1>2 DEF Allocs
<1>4. alloc[r].initiated
  <2>1. ~(cur[r] < lim[r])
    BY <1>1, <1>2, SizesAssumption
  <2> QED
    BY <1>2, <2>1 DEF Turn
<1>5. \A u \in Callers : /\ Prepares(r, u)' <=> Prepares(r, u)
                         /\ pc'[r][u] = "responsible" <=> u = t
                         /\ pc'[r][u] \notin {"restart", "release", "check"}
  BY <1>1, <1>2 DEF Turn, Prepares, Moves
<1> QED
  BY <1>2, <1>3, <1>4, <1>5 DEF Turn

\* The answer is taken, and everything is as before the preallocation.
LEMMA TakesChunkTurn ==
  ASSUME PidInv, NEW r \in Sites, Turn(r), NEW t \in Callers, TakesChunk(r, t)
  PROVE  Turn(r)'
<1> DEFINE woken == [u \in Callers |-> IF alloc[r].waiting /\ pc[r][u] = "wait"
                                      THEN "woken" ELSE pc[r][u]]
<1>1. /\ NoProc \notin Callers /\ running \in [Sites -> Callers \cup {NoProc}]
      /\ pc \in [Sites -> [Callers -> Labels]] /\ alloc \in [Sites -> Allocs]
  BY CallersAssumption DEF PidInv, TypeOK
<1>2. /\ pc[r][t] = "responsible" /\ running[r] \in {t, NoProc} /\ alloc[r].complete
      /\ alloc'[r] = NoAlloc
      /\ \/ pc' = [pc EXCEPT ![r] = [woken EXCEPT ![t] = "idle"]]
         \/ /\ pc' = [pc EXCEPT ![r] = [woken EXCEPT ![t] = "restart"]]
            /\ running'[r] = t
  BY <1>1 DEF TakesChunk, At, Run
<1>3. \A u \in Callers : u # t => pc'[r][u] \in {"woken", pc[r][u]}
  BY <1>1, <1>2
<1>4. pc'[r][t] = "idle" \/ (pc'[r][t] = "restart" /\ running'[r] = t)
  BY <1>1, <1>2
<1>5. \A u \in Callers : u # t => pc[r][u] \notin {"restart", "release", "check", "responsible"}
  BY <1>1, <1>2 DEF Turn
<1>6. ~alloc'[r].initiated /\ ~alloc'[r].responsible
  BY <1>2 DEF NoAlloc
<1> HIDE DEF woken
<1> QED
  BY <1>3, <1>4, <1>5, <1>6 DEF Turn

\* The server, the reply, and what happens to processes and sites.
LEMMA OthersTurn ==
  ASSUME PidInv, NEW r \in Sites, Turn(r),
         \/ net_receive(r) \/ serve_getpids(r) \/ recv_pid_reply(r)
         \/ NspChildRuns(r) \/ SetPgrp(r) \/ Exit(r)
         \/ Crash(r) \/ no_nsp(r) \/ CleanupFails(r) \/ pid_cleanup(r) \/ Rejoin(r)
  PROVE  Turn(r)'
<1>1. net \in [Sites -> Msgs] /\ alloc \in [Sites -> Allocs] /\ pc \in [Sites -> [Callers -> Labels]]
  BY DEF PidInv, TypeOK
<1>2. CASE serve_getpids(r)
  <2>1. UNCHANGED <<pc, running, alloc, cur, lim>>
    BY <1>2 DEF serve_getpids, chunkVars
  <2>2. \/ net[r].op \notin {"getpids", "getreply"} \/ status[r] # "up"
        \/ net'[r].op = "getreply"
    BY <1>1, <1>2 DEF serve_getpids, NoMsg
  <2>3. status[r] # "up" => ~alloc[r].initiated
    BY DEF PidInv, SiteInv, Crashed, NoAlloc
  <2> QED
    BY <2>1, <2>2, <2>3 DEF Turn, Prepares
<1>3. CASE recv_pid_reply(r)
  <2>1. /\ UNCHANGED <<pc, running, cur, lim>>
        /\ alloc' = [alloc EXCEPT ![r].complete = TRUE, ![r].chunk = net[r].chunk]
    BY <1>3 DEF recv_pid_reply, chunkVars
  <2>2. /\ alloc'[r].initiated = alloc[r].initiated /\ alloc'[r].complete
        /\ alloc'[r].responsible = alloc[r].responsible
    BY <1>1, <2>1 DEF Allocs
  <2> QED
    BY <2>1, <2>2 DEF Turn, Prepares
<1>4. CASE NspChildRuns(r) \/ SetPgrp(r) \/ Exit(r) \/ Rejoin(r)
  <2>1. UNCHANGED <<pc, running, cur, lim, alloc, net>>
    BY <1>4 DEF NspChildRuns, SetPgrp, Exit, Rejoin, chunkVars, commVars
  <2> QED
    BY <2>1 DEF Turn, Prepares
<1>5. CASE Crash(r)
  <2>1. alloc'[r] = NoAlloc /\ \A u \in Callers : pc'[r][u] = "idle"
    BY <1>1, <1>5 DEF Crash
  <2> QED
    BY <2>1 DEF Turn, NoAlloc
<1>6. CASE \/ no_nsp(r) \/ CleanupFails(r) \/ pid_cleanup(r)
           \/ net_receive(r) /\ status[r] # "up"
  <2>1. status[r] # "up" /\ UNCHANGED <<alloc, pc>>
    BY <1>6 DEF no_nsp, CleanupFails, pid_cleanup, net_receive, commVars
  <2>2. alloc[r] = NoAlloc /\ \A u \in Callers : pc[r][u] = "idle"
    BY <2>1 DEF PidInv, SiteInv, Crashed
  <2> QED
    BY <2>1, <2>2 DEF Turn, NoAlloc
<1>7. CASE net_receive(r) /\ status[r] = "up"
  <2>1. UNCHANGED <<pc, running, cur, lim, alloc, net>>
    BY <1>7 DEF net_receive, chunkVars
  <2> QED
    BY <2>1 DEF Turn, Prepares
<1> QED
  BY <1>2, <1>3, <1>4, <1>5, <1>6, <1>7

\* Every step of a site keeps Turn there.
LEMMA TurnStep ==
  ASSUME PidInv, NEW r \in Sites, Turn(r), SiteStep(r)
  PROVE  Turn(r)'
<1>1. ASSUME NEW t \in Callers, getnewpid(r, t) \/ Restart(r, t)
      PROVE  Turn(r)'
  BY <1>1, SkipHolesTurn DEF getnewpid, Restart, Resumes, Runs, At
<1>2. ASSUME NEW t \in Callers, CallerStep(r, t)
      PROVE  Turn(r)'
  BY <1>1, <1>2, PreparesTurn, ChecksTurn, ResponsibleTurn, TakesChunkTurn DEF CallerStep
<1> QED
  BY <1>1, <1>2, OthersTurn DEF SiteStep

\* The invariant behind OneAllocation.
TurnInv == PidInv /\ \A s \in Sites : Turn(s)

\* The allocations of a site, counted.
LEMMA TurnImplies == TurnInv => OneAllocation
<1> SUFFICES ASSUME TurnInv, NEW s \in Sites, status[s] = "up"
             PROVE  /\ Cardinality(Preparing(s)) + Asked(s) + Stored(s)
                         = (IF alloc[s].initiated THEN 1 ELSE 0)
                    /\ Cardinality({t \in Callers : pc[s][t] = "responsible"})
                         = (IF alloc[s].responsible THEN 1 ELSE 0)
                    /\ alloc[s].responsible => alloc[s].initiated
  BY DEF OneAllocation
<1>1. Turn(s) /\ Stages(s) /\ alloc[s] \in Allocs
  BY DEF TurnInv, PidInv, SiteInv, TypeOK
<1>2. ASSUME NEW S \in SUBSET Callers, \A t, u \in S : t = u
      PROVE  Cardinality(S) = IF S = {} THEN 0 ELSE 1
  <2>1. CASE S = {}
    BY <2>1, FS_EmptySet
  <2>2. CASE S # {}
    <3>1. PICK t \in S : S = {t}
      BY <1>2, <2>2
    <3> QED
      BY <3>1, FS_Singleton
  <2> QED
    BY <2>1, <2>2
<1>3. Cardinality(Preparing(s)) = IF \E t \in Callers : Prepares(s, t) THEN 1 ELSE 0
  <2>1. Preparing(s) = {t \in Callers : Prepares(s, t)}
    BY DEF Preparing, Prepares
  <2>2. \A t, u \in Preparing(s) : t = u
    BY <1>1, <2>1 DEF Stages
  <2> QED
    BY <1>2, <2>1, <2>2
<1>4. Cardinality({t \in Callers : pc[s][t] = "responsible"}) = IF alloc[s].responsible THEN 1 ELSE 0
  <2> DEFINE S == {t \in Callers : pc[s][t] = "responsible"}
  <2>1. (\A t, u \in S : t = u) /\ (S # {} <=> alloc[s].responsible)
    BY <1>1 DEF Turn
  <2> QED
    BY <1>2, <2>1
<1>5. CASE ~alloc[s].initiated
  <2>1. /\ \A t \in Callers : ~Prepares(s, t)
        /\ net[s].op \notin {"getpids", "getreply"} /\ ~alloc[s].complete
    BY <1>1, <1>5 DEF Stages
  <2> QED
    BY <1>1, <1>3, <1>4, <1>5, <2>1 DEF Asked, Stored, Turn
<1>6. CASE alloc[s].initiated
  <2>1. CASE \E t \in Callers : Prepares(s, t)
    <3>1. net[s].op \notin {"getpids", "getreply"} /\ ~alloc[s].complete
      BY <1>1, <2>1 DEF Stages, Prepares
    <3> QED
      BY <1>3, <1>4, <1>6, <2>1, <3>1 DEF Asked, Stored
  <2>2. CASE ~\E t \in Callers : Prepares(s, t)
    <3>1. \/ net[s].op \in {"getpids", "getreply"} /\ ~alloc[s].complete
          \/ net[s].op \notin {"getpids", "getreply"} /\ alloc[s].complete
      BY <1>1, <1>6, <2>2 DEF Stages, Turn
    <3> QED
      BY <1>3, <1>4, <1>6, <2>2, <3>1 DEF Asked, Stored
  <2> QED
    BY <2>1, <2>2
<1> QED
  BY <1>5, <1>6

\* There is at most one preallocation under way on a site, whose stage is known
\* by the pid_alloc_ flags, and one process responsible for taking its answer:
\* preallocate_pid_chunk() and getpreallocatedpidchunk() do not get into each
\* other's way, though both sleep.
THEOREM OneAllocationAtATime == Spec => []OneAllocation
<1>1. Init => TurnInv
  <2> SUFFICES ASSUME Init, NEW s \in Sites PROVE Turn(s)
    BY InitInv DEF TurnInv
  <2>1. alloc[s] = NoAlloc /\ \A t \in Callers : pc[s][t] = "idle"
    BY DEF Init
  <2> QED
    BY <2>1 DEF Turn, NoAlloc
<1>2. TurnInv /\ [Next]_vars => TurnInv'
  <2> SUFFICES ASSUME TurnInv, [Next]_vars, NEW s \in Sites PROVE Turn(s)'
    BY NextInv DEF TurnInv
  <2>1. CASE LeftAlone(s)
    BY <2>1 DEF LeftAlone, TurnInv, Turn, Prepares
  <2>2. CASE SiteStep(s)
    BY <2>2, TurnStep DEF TurnInv
  <2> QED
    BY <2>1, <2>2, StepIsOfSite, SiteStepInv DEF TurnInv, Preserved
<1> QED
  BY <1>1, <1>2, TurnImplies, PTL DEF Spec

-----------------------------------------------------------------------------
(* mypidchunks does not overflow.                                          *)

\* The chunks of the processes of a site, NSPs that have not run included.
Used(s) == {p.pid[1] : p \in procs[s]} \cup {p[1] : p \in unhashed[s]}

\* A scan for chunks to release is under way, or has been made for the chunk
\* that is asked for; and the chunks it has left, or will leave, in the table,
\* besides the current one and the one of the system processes.
Scanned(s) == \/ \E t \in Callers : pc[s][t] \in {"release", "relsend"}
              \/ net[s].op \in {"getpids", "getreply"}
              \/ alloc[s].complete
Staying(s) == {c \in held[s] \ {lastnew[s], 0, req[s].next} :
                 c \notin req[s].scan \/ c \in Used(s)}

\* There are no more processes than slots for them, and no more chunks stay
\* than processes, however they come and go while the scan sleeps: new ones
\* have pids of the current chunk.  Then one chunk is added.
Fits(s) ==
  /\ IsFiniteSet(procs[s]) /\ IsFiniteSet(unhashed[s])
  /\ Cardinality(procs[s]) + Cardinality(unhashed[s]) <= NPROC[s] - NSys
  /\ Cardinality(held[s]) <= NPROC[s] - NSys + 3
  /\ Scanned(s) => Cardinality(Staying(s)) <= NPROC[s] - NSys
  /\ \A t \in Callers : pc[s][t] = "release" => req[s].next = NoChunk

\* Sizes, and sets of chunks.
LEMMA ChunkSets ==
  ASSUME NEW s \in Sites
  PROVE  /\ NSys \in Nat /\ NSys >= 3 /\ NPROC[s] \in Nat /\ NPROC[s] - NSys \in Nat
         /\ \A S \in SUBSET Chunks : IsFiniteSet(S) /\ Cardinality(S) \in Nat
         /\ \A S \in SUBSET Chunks : \A T \in SUBSET S : Cardinality(T) <= Cardinality(S)
<1>1. IsFiniteSet(Chunks)
  BY SizesAssumption, FS_Interval DEF Chunks
<1>2. \A S \in SUBSET Chunks : IsFiniteSet(S) /\ Cardinality(S) \in Nat
  BY <1>1, FS_Subset, FS_CardinalityType
<1>3. \A S \in SUBSET Chunks : \A T \in SUBSET S : Cardinality(T) <= Cardinality(S)
  BY <1>2, FS_Subset
<1> QED
  BY <1>2, <1>3, SizesAssumption, SystemProcsAssumption

\* The processes have pids of as many chunks at most.
LEMMA UsedSmall ==
  ASSUME NEW s \in Sites, Fits(s)
  PROVE  IsFiniteSet(Used(s)) /\ Cardinality(Used(s)) <= NPROC[s] - NSys
<1> DEFINE A == {p.pid[1] : p \in procs[s]}
           B == {p[1] : p \in unhashed[s]}
           f == [p \in procs[s] |-> p.pid[1]]
           g == [p \in unhashed[s] |-> p[1]]
<1>1. IsFiniteSet(procs[s]) /\ IsFiniteSet(unhashed[s])
  BY DEF Fits
<1>2. f \in Surjection(procs[s], A) /\ g \in Surjection(unhashed[s], B)
  BY DEF Surjection
<1> HIDE DEF f, g
<1>3. /\ IsFiniteSet(A) /\ Cardinality(A) <= Cardinality(procs[s])
      /\ IsFiniteSet(B) /\ Cardinality(B) <= Cardinality(unhashed[s])
  BY <1>1, <1>2, FS_Surjection
<1> HIDE DEF A, B
<1>4. /\ IsFiniteSet(A \cup B) /\ IsFiniteSet(A \cap B)
      /\ Cardinality(A \cup B) = Cardinality(A) + Cardinality(B) - Cardinality(A \cap B)
  <2>1. A \cap B \in SUBSET A
    OBVIOUS
  <2> QED
    BY <1>3, <2>1, FS_Union, FS_Subset
<1>5. /\ Cardinality(A) \in Nat /\ Cardinality(B) \in Nat /\ Cardinality(A \cap B) \in Nat
      /\ Cardinality(procs[s]) \in Nat /\ Cardinality(unhashed[s]) \in Nat
  BY <1>1, <1>3, <1>4, FS_CardinalityType
<1>6. Cardinality(A \cup B) <= NPROC[s] - NSys
  BY <1>3, <1>4, <1>5, ChunkSets DEF Fits
<1> QED
  BY <1>4, <1>6 DEF Used, A, B

\* Chunks go, or nothing that matters happens.
LEMMA FitsKept ==
  ASSUME PidInv, NEW r \in Sites, Fits(r), held'[r] \subseteq held[r],
         Scanned(r)' => Scanned(r) /\ Staying(r)' \subseteq Staying(r),
         IsFiniteSet(procs'[r]), IsFiniteSet(unhashed'[r]),
         Cardinality(procs'[r]) + Cardinality(unhashed'[r]) <= NPROC[r] - NSys,
         \A t \in Callers : pc'[r][t] = "release" => req'[r].next = NoChunk
  PROVE  Fits(r)'
<1>1. held[r] \in SUBSET Chunks /\ Staying(r) \in SUBSET Chunks
  BY DEF PidInv, TypeOK, Staying
<1>2. /\ Cardinality(held'[r]) \in Nat /\ Cardinality(held[r]) \in Nat
      /\ Cardinality(held'[r]) <= Cardinality(held[r])
  BY <1>1, ChunkSets
<1>3. ASSUME Scanned(r)' PROVE Cardinality(Staying(r)') <= NPROC[r] - NSys
  <2>1. /\ Cardinality(Staying(r)') \in Nat /\ Cardinality(Staying(r)) \in Nat
        /\ Cardinality(Staying(r)') <= Cardinality(Staying(r))
    BY <1>1, <1>3, ChunkSets
  <2> QED
    BY <1>3, <2>1, ChunkSets DEF Fits
<1>4. Cardinality(held'[r]) <= NPROC[r] - NSys + 3
  BY <1>2, ChunkSets DEF Fits
<1> QED
  BY <1>3, <1>4 DEF Fits

\* Nobody has asked for a chunk.
LEMMA NotScanned ==
  ASSUME NEW s \in Sites, SiteInv(s), status[s] = "up", ~alloc[s].initiated
  PROVE  ~Scanned(s)
  BY DEF SiteInv, Stages, Prepares, Scanned

\* Steps that change neither the table nor the processes nor the messages.
LEMMA MovesFits ==
  ASSUME PidInv, NEW r \in Sites, Fits(r), NEW t \in Callers,
         \/ getnewpid(r, t) \/ Restart(r, t) \/ PidIsGroup(r, t) \/ ForkFails(r, t)
         \/ BecomesWaiter(r, t) \/ WaiterWakes(r, t) \/ BecomesResponsible(r, t)
  PROVE  Fits(r)'
<1>1. /\ UNCHANGED <<held, lastnew, req, net, procs, unhashed>>
      /\ \E l \in Labels \ {"release", "relsend"} : Goto(r, t, l)
  BY DEF getnewpid, Restart, SkipHoles, PidIsGroup, ForkFails, TakesPid, BecomesWaiter, WaiterWakes,
         BecomesResponsible, chunkVars, commVars, procVars, Labels
<1>2. alloc'[r].complete = alloc[r].complete
  <2>1. \/ UNCHANGED alloc
        \/ alloc' = [alloc EXCEPT ![r].initiated = TRUE]
        \/ alloc' = [alloc EXCEPT ![r].waiting = TRUE]
        \/ alloc' = [alloc EXCEPT ![r].responsible = TRUE]
    BY DEF getnewpid, Restart, SkipHoles, PidIsGroup, ForkFails, TakesPid, BecomesWaiter, WaiterWakes,
         BecomesResponsible, commVars
  <2> QED
    BY <2>1 DEF PidInv, TypeOK, Allocs
<1>3. PICK l \in Labels \ {"release", "relsend"} : Moves(r, t, l)
  BY <1>1, GotoMoves
<1>4. Scanned(r)' => Scanned(r)
  BY <1>1, <1>2, <1>3 DEF Scanned, Moves
<1>5. Staying(r)' = Staying(r)
  BY <1>1 DEF Staying, Used
<1>6. \A u \in Callers : pc'[r][u] = "release" => req'[r].next = NoChunk
  BY <1>1, <1>3 DEF Fits, Moves
<1> QED
  BY <1>1, <1>4, <1>5, <1>6, FitsKept DEF Fits

\* The scan begins: no more chunks will stay than there are processes.
LEMMA MessageAllocatedFits ==
  ASSUME PidInv, NEW r \in Sites, Fits(r), NEW t \in Callers, MessageAllocated(r, t)
  PROVE  Fits(r)'
<1>1. /\ UNCHANGED <<held, lastnew, procs, unhashed>>
      /\ req' = [req EXCEPT ![r] = [rel |-> {}, scan |-> held[r], next |-> NoChunk]]
  BY DEF MessageAllocated, chunkVars, procVars
<1>2. req'[r].scan = held[r] /\ req'[r].next = NoChunk /\ Used(r)' = Used(r)
  BY <1>1 DEF PidInv, TypeOK, Used
<1>3. Staying(r)' \in SUBSET Used(r)
  BY <1>1, <1>2 DEF Staying
<1>4. /\ IsFiniteSet(Used(r)) /\ Cardinality(Used(r)) <= NPROC[r] - NSys
      /\ IsFiniteSet(Staying(r)') /\ Cardinality(Staying(r)') <= Cardinality(Used(r))
  BY <1>3, UsedSmall, FS_Subset
<1>5. Cardinality(Used(r)) \in Nat /\ Cardinality(Staying(r)') \in Nat /\ NPROC[r] - NSys \in Nat
  BY <1>4, FS_CardinalityType, ChunkSets
<1> QED
  BY <1>1, <1>2, <1>4, <1>5 DEF Fits

\* The scan goes on: a chunk that stays has a process now, and had one before.
LEMMA ReleasesFits ==
  ASSUME PidInv, NEW r \in Sites, Fits(r), NEW t \in Callers,
         SendGetpids(r, t) \/ SendReleasepids(r, t) \/ ReleasepidsDone(r, t)
  PROVE  Fits(r)'
<1>1. /\ pc[r][t] \in {"release", "relsend"} /\ status[r] = "up"
      /\ UNCHANGED <<procs, unhashed, lastnew>>
  BY DEF SendGetpids, SendReleasepids, ReleasepidsDone, Runs, Resumes, At, procVars
<1>2. Scanned(r) /\ Used(r)' = Used(r)
  BY <1>1 DEF Scanned, Used
<1>3. ASSUME NEW S, NEW c \in S, c \notin Releasable(r, S), c # lastnew[r], c # 0
      PROVE  c \in Used(r)
  BY <1>3 DEF Releasable, ProcPids, SysPids, Used
<1>4. req[r] \in Reqs /\ req \in [Sites -> Reqs] /\ held \in [Sites -> SUBSET Chunks]
  BY DEF PidInv, TypeOK
<1>5. ASSUME held'[r] \subseteq held[r], Staying(r)' \subseteq Staying(r),
             \A u \in Callers : pc'[r][u] = "release" => req'[r].next = NoChunk
      PROVE  Fits(r)'
  BY <1>1, <1>2, <1>5, FitsKept DEF Fits
<1>6. \A u \in Callers : Prepares(r, u) => u = t
  BY <1>1 DEF PidInv, SiteInv, Stages, Prepares
<1>7. CASE SendGetpids(r, t)
  <2> DEFINE rel == req[r].rel \cup Releasable(r, req[r].scan)
  <2>1. /\ held' = [held EXCEPT ![r] = held[r] \ rel] /\ req' = [req EXCEPT ![r] = NoReq]
        /\ pc[r][t] = "release"
    BY <1>7 DEF SendGetpids, Runs, At
  <2>2. held'[r] = held[r] \ rel /\ req'[r].scan = {} /\ req'[r].next = NoChunk /\ req[r].next = NoChunk
    BY <1>4, <2>1 DEF NoReq, Fits
  <2>3. ASSUME NEW c \in Staying(r)' PROVE c \in Staying(r)
    <3>1. c \in held[r] \ rel /\ c # lastnew[r] /\ c # 0 /\ c # NoChunk
      BY <1>1, <2>2, <2>3 DEF Staying
    <3>2. c \notin req[r].scan \/ c \in Used(r)
      BY <1>3, <3>1
    <3> QED
      BY <2>2, <3>1, <3>2 DEF Staying
  <2> QED
    BY <1>5, <2>2, <2>3
<1>8. CASE SendReleasepids(r, t)
  <2>0. PICK passed \in SUBSET req[r].scan : \E c \in Releasable(r, req[r].scan \ passed) :
          /\ held' = [held EXCEPT ![r] = held[r] \ (req[r].rel \cup Releasable(r, passed))]
          /\ req' = [req EXCEPT ![r] =
               [rel |-> {}, scan |-> req[r].scan \ (passed \cup {c}), next |-> c]]
    BY <1>8 DEF SendReleasepids
  <2>1. PICK c \in Releasable(r, req[r].scan \ passed) :
          /\ held' = [held EXCEPT ![r] = held[r] \ (req[r].rel \cup Releasable(r, passed))]
          /\ req' = [req EXCEPT ![r] =
               [rel |-> {}, scan |-> req[r].scan \ (passed \cup {c}), next |-> c]]
    BY <2>0
  <2>2. /\ held'[r] = held[r] \ (req[r].rel \cup Releasable(r, passed))
        /\ req'[r].scan = req[r].scan \ (passed \cup {c}) /\ req'[r].next = c
        /\ pc[r][t] = "release" /\ Moves(r, t, "relsend")
    BY <1>4, <1>8, <2>1, GotoMoves DEF SendReleasepids, Runs, At
  <2>3. req[r].next = NoChunk
    BY <2>2 DEF Fits
  <2>4. ASSUME NEW d \in Staying(r)' PROVE d \in Staying(r)
    <3>1. /\ d \in held[r] /\ d \notin Releasable(r, passed)
          /\ d # lastnew[r] /\ d # 0 /\ d # c
          /\ d \notin req[r].scan \ (passed \cup {c}) \/ d \in Used(r)
      BY <1>1, <1>2, <2>2, <2>4 DEF Staying
    <3>2. d \notin req[r].scan \/ d \in Used(r)
      BY <1>3, <3>1
    <3>3. d # NoChunk
      BY <1>4, <3>1, SizesAssumption DEF Chunks, NoChunk
    <3> QED
      BY <2>3, <3>1, <3>2, <3>3 DEF Staying
  <2>5. \A u \in Callers : pc'[r][u] # "release"
    BY <1>6, <2>2 DEF Moves, Prepares
  <2> QED
    BY <1>5, <2>2, <2>4, <2>5
<1>9. CASE ReleasepidsDone(r, t)
  <2>1. /\ held' = [held EXCEPT ![r] = held[r] \ {req[r].next}]
        /\ req' = [req EXCEPT ![r].rel = {req[r].next}, ![r].next = NoChunk]
    BY <1>9 DEF ReleasepidsDone
  <2>2. held'[r] = held[r] \ {req[r].next} /\ req'[r].scan = req[r].scan /\ req'[r].next = NoChunk
    BY <1>4, <2>1 DEF Reqs
  <2>3. Staying(r)' \subseteq Staying(r)
    BY <1>1, <1>2, <2>2 DEF Staying
  <2> QED
    BY <1>5, <2>2, <2>3
<1> QED
  BY <1>7, <1>8, <1>9

\* A new process has a pid of the current chunk, or 0.
LEMMA ForkFits ==
  ASSUME PidInv, NEW r \in Sites, Fits(r), NEW t \in Callers, Fork1(r, t) \/ ForkNsp(r, t)
  PROVE  Fits(r)'
<1> DEFINE p == PidAt(r, cur[r])
<1>1. /\ UNCHANGED <<held, lastnew, req, net, alloc>> /\ Moves(r, t, "idle") /\ HasSlot(r)
  BY GotoMoves DEF Fork1, ForkNsp, TakesPid, commVars
<1>2. p[1] \in {lastnew[r], 0}
  BY DEF PidAt, PidZero
<1> HIDE DEF p
<1>3. PICK g : \/ /\ procs' = [procs EXCEPT ![r] = procs[r] \cup {[pid |-> p, pgrp |-> g, nsp |-> FALSE]}]
                  /\ unhashed' = unhashed
               \/ unhashed' = [unhashed EXCEPT ![r] = unhashed[r] \cup {p}] /\ procs' = procs
  BY DEF Fork1, ForkNsp, p
<1> DEFINE x == [pid |-> p, pgrp |-> g, nsp |-> FALSE]
<1>4. x.pid = p
  OBVIOUS
<1> HIDE DEF x
<1>5. \/ procs'[r] = procs[r] \cup {x} /\ unhashed'[r] = unhashed[r]
      \/ procs'[r] = procs[r] /\ unhashed'[r] = unhashed[r] \cup {p}
  BY <1>3 DEF PidInv, TypeOK, x
<1>6. Used(r)' \subseteq Used(r) \cup {lastnew[r], 0}
  BY <1>2, <1>4, <1>5 DEF Used
<1>7. Staying(r)' \subseteq Staying(r)
  BY <1>1, <1>6 DEF Staying
<1>8. /\ IsFiniteSet(procs'[r]) /\ IsFiniteSet(unhashed'[r])
      /\ Cardinality(procs'[r]) + Cardinality(unhashed'[r]) <= NPROC[r] - NSys
  <2>1. /\ IsFiniteSet(procs[r]) /\ IsFiniteSet(unhashed[r])
        /\ Cardinality(procs[r]) \in Nat /\ Cardinality(unhashed[r]) \in Nat
    BY FS_CardinalityType DEF Fits
  <2>2. /\ IsFiniteSet(procs[r] \cup {x}) /\ IsFiniteSet(unhashed[r] \cup {p})
        /\ Cardinality(procs[r] \cup {x}) \in {Cardinality(procs[r]), Cardinality(procs[r]) + 1}
        /\ Cardinality(unhashed[r] \cup {p}) \in {Cardinality(unhashed[r]), Cardinality(unhashed[r]) + 1}
    BY <2>1, FS_AddElement
  <2>3. Cardinality(procs[r]) + Cardinality(unhashed[r]) < NPROC[r] - NSys /\ NPROC[r] - NSys \in Nat
    BY <1>1, ChunkSets DEF HasSlot
  <2>4. CASE procs'[r] = procs[r] \cup {x} /\ unhashed'[r] = unhashed[r]
    BY <2>1, <2>2, <2>3, <2>4
  <2>5. CASE procs'[r] = procs[r] /\ unhashed'[r] = unhashed[r] \cup {p}
    BY <2>1, <2>2, <2>3, <2>5
  <2> QED
    BY <1>5, <2>4, <2>5
<1>9. (Scanned(r)' => Scanned(r)) /\ \A u \in Callers : pc'[r][u] = "release" => req'[r].next = NoChunk
  BY <1>1 DEF Scanned, Moves, Fits
<1> QED
  BY <1>1, <1>7, <1>8, <1>9, FitsKept

\* A process ends, changes its group, or begins to run.
LEMMA ProcessesFits ==
  ASSUME PidInv, NEW r \in Sites, Fits(r), NspChildRuns(r) \/ SetPgrp(r) \/ Exit(r)
  PROVE  Fits(r)'
<1>1. UNCHANGED <<held, lastnew, req, net, alloc, pc>>
  BY DEF NspChildRuns, SetPgrp, Exit, chunkVars, commVars
<1>2. /\ IsFiniteSet(procs[r]) /\ IsFiniteSet(unhashed[r])
      /\ Cardinality(procs[r]) \in Nat /\ Cardinality(unhashed[r]) \in Nat
      /\ Cardinality(procs[r]) + Cardinality(unhashed[r]) <= NPROC[r] - NSys /\ NPROC[r] - NSys \in Nat
  BY FS_CardinalityType, ChunkSets DEF Fits
<1>3. ASSUME Used(r)' \subseteq Used(r), IsFiniteSet(procs'[r]), IsFiniteSet(unhashed'[r]),
             Cardinality(procs'[r]) + Cardinality(unhashed'[r]) <= NPROC[r] - NSys
      PROVE  Fits(r)'
  <2>1. Staying(r)' \subseteq Staying(r) /\ (Scanned(r)' => Scanned(r))
    BY <1>1, <1>3 DEF Staying, Scanned
  <2>2. \A u \in Callers : pc'[r][u] = "release" => req'[r].next = NoChunk
    BY <1>1 DEF Fits
  <2> QED
    BY <1>1, <1>3, <2>1, <2>2, FitsKept
<1>4. CASE NspChildRuns(r)
  <2>1. PICK p \in unhashed[r] :
          /\ unhashed' = [unhashed EXCEPT ![r] = unhashed[r] \ {p}]
          /\ procs' = [procs EXCEPT ![r] = procs[r] \cup {[pid |-> p, pgrp |-> NoGroup, nsp |-> TRUE]}]
    BY <1>4 DEF NspChildRuns
  <2> DEFINE x == [pid |-> p, pgrp |-> NoGroup, nsp |-> TRUE]
  <2>2. x.pid = p
    OBVIOUS
  <2> HIDE DEF x
  <2>3. unhashed'[r] = unhashed[r] \ {p} /\ procs'[r] = procs[r] \cup {x}
    BY <2>1 DEF PidInv, TypeOK, x
  <2>4. Used(r)' \subseteq Used(r)
    BY <2>1, <2>2, <2>3 DEF Used
  <2>5. /\ IsFiniteSet(procs[r] \cup {x}) /\ IsFiniteSet(unhashed[r] \ {p})
        /\ Cardinality(procs[r] \cup {x}) \in {Cardinality(procs[r]), Cardinality(procs[r]) + 1}
        /\ Cardinality(unhashed[r] \ {p}) = Cardinality(unhashed[r]) - 1
    BY <1>2, <2>1, FS_AddElement, FS_RemoveElement
  <2> QED
    BY <1>2, <1>3, <2>3, <2>4, <2>5
<1>5. CASE SetPgrp(r)
  <2>1. PICK p \in procs[r] :
          procs' = [procs EXCEPT ![r] = (procs[r] \ {p}) \cup {[p EXCEPT !.pgrp = p.pid]}]
    BY <1>5 DEF SetPgrp
  <2> DEFINE x == [p EXCEPT !.pgrp = p.pid]
  <2>2. x.pid = p.pid
    BY <2>1 DEF PidInv, TypeOK, Procs
  <2> HIDE DEF x
  <2>3. unhashed' = unhashed /\ procs'[r] = (procs[r] \ {p}) \cup {x}
    BY <1>5, <2>1 DEF SetPgrp, PidInv, TypeOK, x
  <2>4. Used(r)' \subseteq Used(r)
    BY <2>1, <2>2, <2>3 DEF Used
  <2> DEFINE Rest == procs[r] \ {p}
  <2>5. IsFiniteSet(Rest) /\ Cardinality(Rest) = Cardinality(procs[r]) - 1
    BY <1>2, <2>1, FS_RemoveElement
  <2> HIDE DEF Rest
  <2>6. IsFiniteSet(Rest \cup {x}) /\ Cardinality(Rest \cup {x}) \in {Cardinality(Rest), Cardinality(Rest) + 1}
    BY <2>5, FS_AddElement
  <2> QED
    BY <1>2, <1>3, <2>3, <2>4, <2>5, <2>6 DEF Rest
<1>6. CASE Exit(r)
  <2>1. PICK p \in procs[r] : procs' = [procs EXCEPT ![r] = procs[r] \ {p}]
    BY <1>6 DEF Exit
  <2>2. unhashed' = unhashed /\ procs'[r] = procs[r] \ {p}
    BY <1>6, <2>1 DEF Exit, PidInv, TypeOK
  <2>3. Used(r)' \subseteq Used(r)
    BY <2>2 DEF Used
  <2>4. IsFiniteSet(procs[r] \ {p}) /\ Cardinality(procs[r] \ {p}) = Cardinality(procs[r]) - 1
    BY <1>2, <2>1, FS_RemoveElement
  <2> QED
    BY <1>2, <1>3, <2>2, <2>3, <2>4
<1> QED
  BY <1>4, <1>5, <1>6

\* The server and the reply, and sites that fail and come back.
LEMMA OthersFits ==
  ASSUME PidInv, NEW r \in Sites, Fits(r),
         \/ net_receive(r) \/ serve_getpids(r) \/ recv_pid_reply(r)
         \/ Crash(r) \/ no_nsp(r) \/ CleanupFails(r) \/ pid_cleanup(r) \/ Rejoin(r)
  PROVE  Fits(r)'
<1>1. net \in [Sites -> Msgs] /\ alloc \in [Sites -> Allocs] /\ pc \in [Sites -> [Callers -> Labels]]
  BY DEF PidInv, TypeOK
<1>2. ASSUME UNCHANGED <<held, lastnew, req, procs, unhashed, pc>>, Scanned(r)' => Scanned(r)
      PROVE  Fits(r)'
  <2>1. Staying(r)' = Staying(r)
    BY <1>2 DEF Staying, Used
  <2> QED
    BY <1>2, <2>1, FitsKept DEF Fits
<1>3. CASE serve_getpids(r)
  <2>1. UNCHANGED <<held, lastnew, req, procs, unhashed, pc, alloc>>
    BY <1>3 DEF serve_getpids, chunkVars, procVars
  <2>2. net'[r].op \in {"getpids", "getreply"} => net[r].op \in {"getpids", "getreply"}
    <3>1. CASE net[r].op \in {"getpids", "getreply"}
      BY <3>1
    <3>2. CASE net[r].op \notin {"getpids", "getreply"}
      <4>1. net' = [net EXCEPT ![r] = IF status[r] = "up"
                      THEN [NoMsg EXCEPT !.op = "relreply", !.chunk = NoChunk] ELSE NoMsg]
        BY <1>3, <3>2 DEF serve_getpids
      <4> QED
        BY <1>1, <4>1 DEF NoMsg
    <3> QED
      BY <3>1, <3>2
  <2> QED
    BY <1>2, <2>1, <2>2 DEF Scanned
<1>4. CASE recv_pid_reply(r)
  <2>1. UNCHANGED <<held, lastnew, req, procs, unhashed, pc>> /\ net[r].op = "getreply"
    BY <1>4 DEF recv_pid_reply, chunkVars, procVars
  <2> QED
    BY <1>2, <2>1 DEF Scanned
<1>5. CASE Crash(r)
  <2>1. /\ held'[r] = {} /\ procs'[r] = {} /\ unhashed'[r] = {}
        /\ \A u \in Callers : pc'[r][u] = "idle"
    BY <1>1, <1>5 DEF Crash, PidInv, TypeOK
  <2>2. Staying(r)' = {}
    BY <2>1 DEF Staying
  <2> QED
    BY <2>1, <2>2, FS_EmptySet, ChunkSets DEF Fits
<1>6. CASE no_nsp(r) \/ net_receive(r)
  <2>1. /\ UNCHANGED <<held, lastnew, req, procs, unhashed, pc, alloc>>
        /\ net'[r] \in {NoMsg, net[r]}
    BY <1>1, <1>6 DEF no_nsp, net_receive, chunkVars, procVars
  <2> QED
    BY <1>2, <2>1 DEF Scanned, NoMsg
<1>7. CASE CleanupFails(r) \/ pid_cleanup(r) \/ Rejoin(r)
  <2>1. UNCHANGED <<held, lastnew, req, procs, unhashed, pc, alloc, net>>
    BY <1>7 DEF CleanupFails, pid_cleanup, Rejoin, chunkVars, procVars, commVars
  <2> QED
    BY <1>2, <2>1 DEF Scanned
<1> QED
  BY <1>3, <1>4, <1>5, <1>6, <1>7

\* A chunk is added to those that stay, the old current one and that of the
\* system processes.
LEMMA ChunkAdded ==
  ASSUME NEW s \in Sites, NEW S \in SUBSET Chunks, NEW n, NEW c,
         IsFiniteSet(S), Cardinality(S) <= NPROC[s] - NSys,
         NEW H \in SUBSET (S \cup {n} \cup {0} \cup {c})
  PROVE  Cardinality(H) <= NPROC[s] - NSys + 3
<1> DEFINE A == S \cup {n}
           B == A \cup {0}
           C == B \cup {c}
<1>1. Cardinality(S) \in Nat /\ NPROC[s] - NSys \in Nat
  BY FS_CardinalityType, ChunkSets
<1>2. IsFiniteSet(A) /\ Cardinality(A) \in {Cardinality(S), Cardinality(S) + 1}
  BY FS_AddElement
<1> HIDE DEF A
<1>3. IsFiniteSet(B) /\ Cardinality(B) \in {Cardinality(A), Cardinality(A) + 1}
  BY <1>2, FS_AddElement
<1> HIDE DEF B
<1>4. IsFiniteSet(C) /\ Cardinality(C) \in {Cardinality(B), Cardinality(B) + 1}
  BY <1>3, FS_AddElement
<1> HIDE DEF C
<1>5. H \in SUBSET C
  BY DEF A, B, C
<1>6. Cardinality(H) \in Nat /\ Cardinality(H) <= Cardinality(C)
  BY <1>4, <1>5, FS_Subset, FS_CardinalityType
<1> QED
  BY <1>1, <1>2, <1>3, <1>4, <1>6

\* A client takes the chunk it was given.
LEMMA TakesChunkFits ==
  ASSUME PidInv, NEW r \in Sites, SiteInv(r)', Fits(r), NEW t \in Callers, TakesChunk(r, t)
  PROVE  Fits(r)'
<1>1. /\ status[r] = "up" /\ alloc[r].complete /\ alloc'[r] = NoAlloc
      /\ UNCHANGED <<status, procs, unhashed, req>>
      /\ held' = held \/ Refill(r, alloc[r].chunk, held[r])
  BY DEF TakesChunk, At, procVars, chunkVars, PidInv, TypeOK
<1>2. ~Scanned(r)'
  BY <1>1, NotScanned DEF SiteInv, Stages, Prepares, Scanned, NoAlloc
<1>3. held[r] \in SUBSET Chunks /\ req[r] = NoReq /\ SiteInv(r)
  BY <1>1 DEF PidInv, TypeOK, SiteInv, Stages
<1>4. held[r] \subseteq Staying(r) \cup {lastnew[r]} \cup {0}
  <2>1. \A c \in Chunks : c # NoChunk
    BY SizesAssumption DEF Chunks, NoChunk
  <2> QED
    BY <1>3, <2>1 DEF Staying, NoReq
<1>5. /\ Staying(r) \in SUBSET Chunks /\ IsFiniteSet(Staying(r))
      /\ Cardinality(Staying(r)) <= NPROC[r] - NSys
  BY <1>1, <1>3, ChunkSets DEF Staying, Fits, Scanned
<1>6. held'[r] \subseteq held[r] \cup {alloc[r].chunk}
  BY <1>1 DEF Refill, PidInv, TypeOK
<1>7. Cardinality(held'[r]) <= NPROC[r] - NSys + 3
  BY <1>4, <1>5, <1>6, ChunkAdded
<1>8. \A u \in Callers : pc'[r][u] # "release"
  BY <1>2 DEF Scanned
<1> QED
  BY <1>1, <1>2, <1>7, <1>8 DEF Fits

\* The root server releases what it can, and takes a chunk, in one go.
LEMMA RefillRootFits ==
  ASSUME PidInv, NEW r \in Sites, SiteInv(r)', Fits(r), NEW t \in Callers, RefillRoot(r, t)
  PROVE  Fits(r)'
<1> DEFINE rel == Releasable(r, held[r])
<1>1. PICK c \in Chunks \cup {NoChunk} :
        /\ r = Root /\ status[r] = "up" /\ UNCHANGED <<status, procs, unhashed, req>>
        /\ held' = [held EXCEPT ![r] = held[r] \ rel] \/ Refill(r, c, held[r] \ rel)
  BY DEF RefillRoot, Runs, At, procVars, commVars
<1>2. ~Scanned(r)'
  BY <1>1 DEF SiteInv, Stages, Prepares, Scanned
<1>3. held[r] \in SUBSET Chunks /\ held'[r] \subseteq (held[r] \ rel) \cup {c}
  BY <1>1 DEF Refill, PidInv, TypeOK
<1> DEFINE S == (held[r] \ rel) \ {lastnew[r], 0}
<1>4. S \in SUBSET Used(r) /\ S \in SUBSET Chunks
  BY <1>3 DEF Releasable, ProcPids, SysPids, Used
<1>5. IsFiniteSet(S) /\ Cardinality(S) <= NPROC[r] - NSys
  <2>1. /\ IsFiniteSet(Used(r)) /\ Cardinality(Used(r)) <= NPROC[r] - NSys
        /\ Cardinality(Used(r)) \in Nat
    BY UsedSmall, FS_CardinalityType
  <2>2. IsFiniteSet(S) /\ Cardinality(S) \in Nat /\ Cardinality(S) <= Cardinality(Used(r))
    BY <1>4, <2>1, FS_Subset, FS_CardinalityType
  <2> QED
    BY <2>1, <2>2, ChunkSets
<1>6. held'[r] \subseteq S \cup {lastnew[r]} \cup {0} \cup {c}
  BY <1>3
<1> HIDE DEF S
<1>7. Cardinality(held'[r]) <= NPROC[r] - NSys + 3
  BY <1>4, <1>5, <1>6, ChunkAdded
<1>8. \A u \in Callers : pc'[r][u] # "release"
  BY <1>2 DEF Scanned
<1> QED
  BY <1>1, <1>2, <1>7, <1>8 DEF Fits

\* The table mypidchunks, with one entry for each entry of proc[], is large
\* enough on every site ("This cannot happen, becuse there is one slot for each
\* possible process", dux_getpid.c:386): chunks that were in use when the scan
\* began, the current one, the first one and the new one are no more than that.
THEOREM ChunkTableFits == Spec => []TableFits
<1> DEFINE Inv == PidInv /\ \A s \in Sites : Fits(s)
<1>1. Init => Inv
  <2> SUFFICES ASSUME Init, NEW s \in Sites PROVE Fits(s)
    BY InitInv
  <2>1. /\ procs[s] = {} /\ unhashed[s] = {} /\ held[s] = {}
        /\ \A t \in Callers : pc[s][t] = "idle"
    BY DEF Init
  <2>2. Staying(s) = {}
    BY <2>1 DEF Staying
  <2> QED
    BY <2>1, <2>2, FS_EmptySet, ChunkSets DEF Fits
<1>2. Inv /\ [Next]_vars => Inv'
  <2> SUFFICES ASSUME Inv, [Next]_vars, NEW s \in Sites PROVE Fits(s)'
    BY NextInv
  <2>1. CASE LeftAlone(s)
    <3>1. Staying(s)' = Staying(s) /\ (Scanned(s)' <=> Scanned(s))
      BY <2>1 DEF LeftAlone, Staying, Used, Scanned
    <3> QED
      BY <2>1, <3>1 DEF LeftAlone, Fits
  <2>2. CASE SiteStep(s)
    <3>1. SiteInv(s)'
      BY <2>2, SiteStepInv DEF Preserved
    <3>2. ASSUME NEW t \in Callers, getnewpid(s, t) \/ CallerStep(s, t)
          PROVE  Fits(s)'
      BY <3>1, <3>2, MovesFits, MessageAllocatedFits, ReleasesFits, ForkFits, TakesChunkFits,
         RefillRootFits DEF CallerStep
    <3> QED
      BY <2>2, <3>2, ProcessesFits, OthersFits DEF SiteStep
  <2> QED
    BY <2>1, <2>2, StepIsOfSite, SiteStepInv DEF Preserved
<1>3. Inv => TableFits
  <2> SUFFICES ASSUME Inv, NEW s \in Sites PROVE Cardinality(held[s]) <= NPROC[s]
    BY DEF TableFits
  <2>1. Cardinality(held[s]) \in Nat /\ Cardinality(held[s]) <= NPROC[s] - NSys + 3
    BY ChunkSets DEF PidInv, TypeOK, Fits
  <2> QED
    BY <2>1, ChunkSets
<1> HIDE DEF Inv
<1> QED
  BY <1>1, <1>2, <1>3, PTL DEF Spec
=============================================================================
