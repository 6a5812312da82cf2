# Diskless HP-UX clusters (DUX): a TLA+ model

This directory holds TLA+ modules for the part of the HP-UX 9.10 kernel that
turns a root server and its diskless workstations ("sites", "cnodes") into one
system: `source_product/9.10/sys.A.B9.10/dux/` (37 000 lines), called DUX below.
The repository as a whole is a source product of 2.7 million lines: kernel,
commands, libraries, ARPA and NFS services. Most of it is inherited or
sequential. DUX is the kernel's own distributed logic, with what makes such code hard: processes that
sleep in the middle of an operation, interrupt handlers, requests to other
machines, timeouts, and machines that crash and come back.

Paths below are relative to `sys.A.B9.10/`.

## 1. Inventory

| component | state | operations | correct when |
|---|---|---|---|
| process ids, `dux/dux_getpid.c` | root: `pidtable`, `lastpidchunkallocated`; each site: `mypidchunks`, `availpids`, `pid_alloc_*` | `getnewpid`, preallocate, release, serve, reply interrupt, `pid_cleanup` | no pid is used twice in the cluster, no chunk is lost, no fork waits for ever |
| network server processes (NSPs), `dux/nsp.c` | `nsp[]`, two request queues, six counters | invoke, schedule, serve, fork, time out, start/kill, signal, flush | each request is served once, counts are right, no request is left behind, a dead site's work ends |
| messages (DM), `dux/dm.c`, `dux_mbuf.c` | headers, reply state | send, wait, receive, reply, signal | a reply reaches its request, once |
| transport, `dux/protocol.c`, `netbuf.c` | using and serving arrays, retry counts, buffers | request, reply, ack, retry, slow/idempotent replies | at-most-once execution over a lossy LAN, every request answered |
| recovery, `dux/recovery.c` | `clustab[].status`, `failed_sites`, `cleanup_running`, retry counts | alive messages, declare failed, mark failed, clean up, reboot | a dead site is cleaned up after exactly once, on every site |
| membership, `dux/cluster.c` | `clustab` | join, add member | nobody joins before his former life is cleaned up |
| site maps, `dux/sitemap.c` | per inode: which site references it how often | update, list, double counts | counts equal the references, across sleeps |
| synchronous I/O, `dux/dux_sync.c`, `syncio.c` | `ISYNC` flags on all sites | switch a file to synchronous mode and back | no site caches a file another one writes |
| locks, FIFOs, opens (`dux_lockf.c`, `dux_lkmsg.c`, `dux_fifo.c`, `dux_opend.c`) | tables at the serving site | remote lock, pipe, open | as on one machine |
| user NSPs `unsp.c`, self test `selftest.c`, clock `clocksync.c`, swap `rmswap.c` | small tables | | |

How they interact. A system call on a client sends a DM request to the server
(`dm_send`), the transport delivers it, `dm_recv_request` queues it for an NSP
(`invoke_nsp`), the NSP runs the service routine (`serve_getpids` and a hundred
others) and replies; the reply runs a routine under interrupt or wakes the
sleeping process. Recovery removes a failed site's requests (`no_nsp`) and then
calls the cleanup routine of every component (`pid_cleanup` among them); a site
joins again only when that is done (`add_site`).

What is hard: state tested before a `sleep` and used after it; interrupt
handlers between two statements of a process; a crash with requests queued;
counters changed by several parties; a wakeup that finds nobody asleep. The
hazards are listed one by one, with their lines, in `PROJECT.json`.

## 2. Modules

| module | what it is |
|---|---|
| `DuxPid` | cluster-wide process ids |
| `DuxPidProofs` | theorems about `DuxPid`, for every value of its constants |
| `MCDuxPid` | instances of `DuxPid` for TLC |
| `Nsp` | the NSPs of one site |
| `RemoteCall` | what a request to another site promises (abstract) |
| `DuxProto` | the transport between two sites; implements `RemoteCall` |
| `DuxWindow` | the requesting side towards several sites: using array and windows |
| `DuxMulti` | one request to several sites: multisite and clustercast |
| `Recovery` | failure, cleanup and joining, on the root server and its clients |
| `Sitemap` | the site map of a file and the double counts of its users |
| `NspProofs`, `DuxProtoProofs`, `DuxWindowProofs`, `DuxMultiProofs`, `RecoveryProofs`, `SitemapProofs` | theorems about `Nsp`, `DuxProto` (with the refinement of `RemoteCall`), `DuxWindow`, `DuxMulti`, `Recovery` and `Sitemap` |
| `SumLemmas` | induction by least elements, and sums over finite sets; used by `DuxWindowProofs` and `SitemapProofs` |
| `MCNsp`, `MCDuxProto`, `MCDuxWindow`, `MCDuxMulti`, `MCRecovery`, `MCSitemap` | their instances for TLC |

How they fit together. `DuxProto` is the wire; `DuxWindow` and `DuxMulti` take its
reply and its slow request as given and look at the tables of the requester.
`DuxPid`, `Recovery` and `Sitemap` use requests as `RemoteCall` describes them: run
once, answered in the end, in any order among each other. `Recovery` has the NSPs of
a site (`Nsp`) as the one bit `no_nsp` asks for, and the clustercasts of `DuxMulti`
as a set of sites still to answer.

### DuxPid

State. A pid is a pair of chunk and offset. `pidtable` and `lastalloc` are the
server's; `held` (`mypidchunks`), `lastnew`, `cur`, `lim` and `zeroed` (the
pointers and holes of `availpids`) and `alloc` (the `pid_alloc_*` flags) exist on
each site. `req` is the message `preallocate_pid_chunk` is filling in, `net` the
site's single outstanding request to the server or its reply, and `queued` says whose
request has reached the server's NSP queue. `procs` is the proc
table with groups, `unhashed` the pids of NSPs that were created but have not run.

Processes. One process runs in a site's kernel at a time (`running`), and the
processor changes hands only where the code sleeps or returns: in `dm_alloc`,
while a full release message is answered, while waiting for a chunk. Each piece
between two sleeps is one action; the label `pc` says which is next.

| actions | code |
|---|---|
| `getnewpid`, `Restart`, `PidIsGroup`, `Fork1`, `ForkFails`, `ForkNsp` | `dux_getnewpid` and its callers `fork1`, `fork_nsp` |
| `MessageAllocated`, `SendGetpids`, `SendReleasepids`, `ReleasepidsDone` | `preallocate_pid_chunk`, `releasefreepidchunks`, `fillreleasepidchunk` |
| `RefillRoot`, `BecomesWaiter`, `WaiterWakes`, `BecomesResponsible`, `TakesChunk` | `neednewchunk`, `getpreallocatedpidchunk` |
| `net_receive`, `serve_getpids`, `recv_pid_reply` | the network interrupt of the server, its NSP, the reply interrupt |
| `NspChildRuns`, `SetPgrp`, `Exit` | what else changes the proc table |
| `Crash`, `no_nsp`, `CleanupFails`, `pid_cleanup`, `Rejoin` | failure; cleanup at the root, as `invoke_cleanup` and `clean_up` do it; joining again |

The order of `mypidchunks` entries is left open: where the scan meets a full
message any order is allowed. The last chunk is as large as the others. Sessions
are merged with process groups, since both are only compared with the new pid. The server does
not crash: the clients reboot when it does.

A failed site's request may still be on the wire, where `net_receive` dumps it once the
site is no member, or queued. Each round of `invoke_cleanup` flushes the queue (`no_nsp`);
in some round `clean_up` begins, whose functions sleep while NSPs serve others, and may
fail, which leads to another round; `pid_cleanup` comes last. `Rejoin` assumes that by
then no frame of the site's former life is under way (it has booted, minutes later).

### Nsp

State. The two queues; for each slot of `nsp[]` its flags, the process's label,
and the request it has; the counters under their own names; `fork`, the locals of
the limited NSP while it forks; `timer`, the pending timeouts; `sched`, a
`schedule_nsp` call made from softclock that the network has interrupted (its
`nsp_count` is static); `kill`, the `kill_nsps` call; `sigpending`, `psig` and
`acked` for signals.

NSPs run at `spl0`, not preempted: while a process is at a label of `OnCpu` only
interrupts happen. The network interrupt is `RecvRequest` and `signalnsp`;
softclock is `nsptimeout` and `LocalRequest`, and is itself interrupted by the
network. The site does what either kind of site may do: `nsp_init` lets the last NSP
go once there is no client, as on the root server, and `getnewpid` may sleep, as on a
client. A request is interrupted by the signal of its sender only if
it is in `Interruptable`; its `Rid` is unique among the requests of one site.

Not modelled: `kill_limited_nsp` (called by reboot only), the statistics, and
user NSPs. `MaxKills` and `MaxFails` bound how often the number of NSPs is
reduced and how often a fork fails.

### RemoteCall and DuxProto

`RemoteCall` has three steps for a request: sent, run, returned. It is run once
unless `DM_REPEATABLE`, and returns only if it was run. `DuxProto` is shown to
implement it: `phase` is the state of the using entry, `sending` and `waiting` both
being "called", and `runs` is the same variable.

State: `using` (the requester's entries, one per request; a request id is never
given twice), `serving` (the serving site's array, which requests compete for), the
frames under way in each direction, `choked` (`nak_time` lies ahead), and the faults
left. A message is a number of parts; parts stand for `byte_recved`, the offset of a
part for its place in the sequence (`badseq`).

| actions | code |
|---|---|
| `net_request`, `dux_send`, `retry_request` | a request is made, sent part by part, sent again |
| `DeliverToServer`: `recv_request_*`, `recv_ack` with `AckIsOld`, `OldEntries`, `badseq` | the interrupt routine of the serving site, for the frame at hand |
| `net_reply`, `dux_send_reply`, `retry_reply`, `IdemReply` | the reply, kept till acknowledged or dropped |
| `DeliverToClient`: `recv_reply`, `recv_old_reply`, `recv_slow_request`, `recv_nak_msg` | the interrupt routine of the requester |
| `Lose`, `DeliverToServerTwice`, `DeliverToClientTwice`, `NoBuffers` | the LAN and the buffers; external |
| `flow_control`, `GrowOld` | time passes |

Frames do not overtake each other on one LAN segment; late ones do happen, through
retries and doubling. Left out: the buffers the driver still holds
(`B2_DUXCANTFREE`), which only put a retry or a release off.

### DuxWindow

State: for each request where its process is; `entry`, the using array with its
`U_` flags and `req_waiting_next`; for each site its membership, `req_count` and the
ends of `req_waiting_Q`; which requests have been on the wire; the pending timers.

| actions | code |
|---|---|
| `net_request`, `get_using_array`, `dux_send` | up to the next sleep |
| `retry_request`, `recv_reply`, `recv_slow_request` | timeout and interrupts; `recv_reply` frees the entry and calls `check_protocol_window` |
| `declare_failed`, `cleanup_using_array` (`clean_u_entry`), `add_site` | a site fails, is cleaned up after, joins |

`Spec` lets a site fail when nobody is between the two sleeps of `net_request` for
it; `FailSpec` lets it fail at any time, which is what the code has to cope with.

### DuxMulti

State: the list of destinations with its two counts, `next_dest`, the timer, frames
to and from each site, each site's serving entry, and the members. `mode` and
`repeatable` are chosen at the start. Actions: `net_request`, `send_clustercast`,
`send_multisite`, `retry_request` at the requester; `recv_request`, `net_reply`,
`retry_reply` at a site; `recv_reply`, `recv_slow_request`; `declare_failed` and
`clean_u_entry`; and `Lose`. A reply is one frame, as the code says of multisite
requests (the "quick reply").

`net_request` counts the members and takes a using entry in one step: the code may sleep
in `get_using_array` in between (`protocol.c:599`-`636`, `734`), so that a site which is
cleaned up after meanwhile stays on the list. An acknowledgement for an entry that is
not kept is ignored; the panic of `recv_ack` for an entry in another state
(`protocol.c:2616`) is the subject of `NoAckPanic` in `DuxProto`.

### Recovery

State: `clustab[].status` on every site, where `CL_ACTIVE` and `CL_ALIVE` are merged;
`failed_sites`, `cleanup_running` and whether an NSP is on its way to clean up;
`mark` and `joinWait`, the sites that `DM_MARK_FAILED` and `DM_ADD_MEMBER` still wait
for; what `serve_clusterreq` does; and for each client what its requests have left at
other sites, of this life or of an earlier one.

| actions | code |
|---|---|
| `broadcast_failure`, `boot_crash`, `recv_suicide_msg` | a site panics and tells some or all of the others; dies without a word; is told to die |
| `register_alive`, `dux_check_alive`, `dux_retry_alive`, `check_lan_break` | the root server's watch |
| `record_failure` | `serve_mark_failed` at a client |
| `dux_init_cleanup`, `invoke_cleanup`, `cleanup_ends` | the cleanup process: one pass over a failed site; its end |
| `ws_cluster`, `serve_clusterreq`, `send_add_member`, `serve_add_member`, `add_member_reply`, `cluster_reply` | joining, with `add_site` on every site |
| `Served`, `ServedDone` | a request of a client is being served and leaves something |

The root server stays up: without it the clients reboot. Cleaning up file systems,
locks, swap and pids is one step at the end of a pass; `DuxPid` has the one for pids.

### Sitemap

State: the map as it is kept (`s_maptype`, `s_count`, one entry or a list of arrays),
what each server process does (asleep on the lock, in `kmem_alloc`), `dcount` of each
client, and the requests under way, a bag: one that was lost is sent again seconds
later, so requests overtake each other.

| actions | code |
|---|---|
| `serve`, `resume` | `serve_ref_update` or a lookup: `updatesitecount` up to its end or its first sleep (`waitlock`, `getnewsitearray`); again after the sleep |
| `kmem_alloc` | the array is there: the rest of `getnewsitearray`, `getsiteentry`, `updatesitecount` and `wakeup` |
| `lookup`, `lookup_reply`, `lookup_fails` | a lookup that ends at the file; no inode for it |
| `hold`, `release` | `update_duxref` for a reference of the site's own |

The case that `ifind` or `cdfind` finds no inode for an update, which "should never"
happen (`dux_vnops.c:1119`, `1135`) and is only printed, is left out. One file; `createsitelist` and the cleanup of a failed site's entries are left for
`DuxSync` (section 5).

## 3. Runs

Passing runs:

* `pid_tables` (`MCDuxPid.cfg`): server and one client, 3 chunks of 2 pids, one
  process slot at the server and two at the client, so that chunks come back while
  a process of the previous round still lives, groups outlive their leaders, and
  the pid space wraps. `UniquePids`, `TablesAgree`, `CleanedUp`, `TypeOK`.
  1.5 million states. Requests are served or dumped at any point of a cleanup that
  takes several rounds.
* `pid_release` (`MCDuxPidTable.cfg`): 5 chunks and messages that hold one
  released chunk, so that the client has more to release than fits and the extra
  `DM_RELEASEPIDS` is sent. `TableFits` (the panic "no pid chunk table entries"
  is unreachable) and `PidInv`, the invariant of the proofs.
* `pid_wait` (`MCDuxPidWait.cfg`): a forking process and the limited NSP on one
  client. `OneAllocation`; and `ResponsibleServed`, under fairness.
* `nsp_tables` (`MCNsp.cfg`): two general NSPs, two requests (one from another
  site, one from softclock that the limited NSP may serve), two reductions, one failed fork.
  `SlotTable`, `EnoughToKill`, `ServedOnce`, `TypeOK`. 1.5 million states.
* `nsp_serve` (`MCNspServe.cfg`): two general NSPs, three requests (one from
  softclock), timeouts, a failed fork, signals, a site that fails, no reductions.
  `CountsExact`, `NoneForDead`, `Attended`, `SignalMeant`, and `Taken` under fairness.
  165 000 states. There is one request more than there can be NSPs: an NSP that timed out
  is replaced only while there are fewer than `ngcsp` (`nsp.c:128`, `282`), so that
  `ngcsp` requests that never end tie all of them up, and what is queued stays queued.
  That is the first exception in `Taken`; up to it, a request that never ends keeps no
  other from being taken. The second is a fork that fails: the limited NSP does not try
  again on its own (`couldnt_fork`), and a queued request then waits until the next one,
  or the end of another, comes along. `Attended` says that no request waits while an NSP
  sleeps (checked with three NSPs too: 3.9 million states); the endless search, in which
  no NSP is left to sleep, is another matter (`SearchEnds`, observations).
* `proto` (`MCDuxProto.cfg`): two requests, one of them repeatable, of two parts
  each way, that compete for one serving entry; two faults, each a loss, a doubled
  frame or missing buffers. `Implements` (the refinement), `NoAckPanic`,
  `SlowIsServed`, and under fairness `Completes` and `RepliesReleased`. 167 000
  states. Two parts are needed for parts of two sendings to mix, one entry for the
  array to be full, two faults for a retry to be lost or doubled as well. `MaxNet`
  lets a retry start with at most one frame under way: retries are seconds apart.
* `window` (`MCDuxWindow.cfg`): four requests (one urgent) to two sites, a window of
  one and three using entries, two failures. `QueueSound`, `WindowExact`, `NoPanic`,
  and `Served` under fairness. Entries are short of requests, and a queue holds two.
* `multi` (`MCDuxMulti.cfg`): three sites, two lost frames, one failure; both modes,
  repeatable or not. `RemainExact`, `NotLeftOut`, `RunOnce`. 1.25 million states.
  Three sites are the fewest with one silent, one slow and one done. A repeatable
  request is repeated into an empty network only (see the observations).
* `recovery` (`MCRecovery.cfg`): root server and two clients, two crashes (a wrong
  suspicion counts as one) and one request that leaves something behind.
  `FailedCount`, `CleanBeforeJoin`, `Notified`, and under fairness `Rejoins` and
  `CleanupEnds`. 41 000 states. With two crashes a client fails while it is awaited
  by the cleanup or the joining of the other, or while it joins itself.
* `sitemap` (`MCSitemap.cfg`): three clients, two server processes, arrays of two
  entries, `CHECKVCOUNT` 1, four references. `TypeOK`, `Balanced`, `TotalExact`,
  `KnownInUse`, `Decrements`, and `Updated` under fairness. 149 000 states. Three
  clients make the map grow from one entry to an array and to a second array.

Two general NSPs are the smallest number with one that is marked and one that is
idle; two requests the smallest with one queued behind another, three with one queued
behind as many as there are NSPs. Chunks, pids and
slots are as small as they can be with every branch of the code taken: TLC's
coverage shows every action firing in some passing run.

Each property of a passing run has a faulty version of an operation (`Bug_...` in
the module, named in `PROJECT.json`) under which TLC finds it violated. The type
invariants of `DuxProto`, `DuxWindow`, `DuxMulti` and `Recovery` are conjuncts of
`NoAckPanic`, `WindowExact`, `RemainExact` and `FailedCount`.

Runs that show a disagreement between the code and what its comments and assertions
say:

* `window_panic` (`MCDuxWindowFail.cfg`, `FailSpec`): a process sleeps in
  `dux_send()`, its destination fails, `cleanup_using_array()` ends its request and
  frees the entry, another request takes it and is queued. The sleeper starts the
  retry timer for the request id it now finds there (`protocol.c:4786`); that request
  is sent and answered while queued, and `free_using_entry()` panics.
* `multi_retry` (`MCDuxMultiRetry.cfg`): a site that sends a slow request and then
  its reply is counted off `no_response_sites` twice (`protocol.c:2720`, `2075`), so
  the retries, which go on "forever", end while a third site has not responded.

### Observations

The modules also hold specifications and properties that the code breaks and that
have no run of their own. They can be checked by putting them in a configuration.

| module | what breaks | why |
|---|---|---|
| `DuxPid` | `NoLostWaiter` | a process woken for a chunk finds another one responsible for the next and sleeps again, without counting itself in `pid_alloc_waiting` (two forkers) |
| `DuxPid` | `ZeroSkipped` | `dux_getnewpid` skips the zero entries, may sleep in the preallocation, and takes the entry the pointer is at now |
| `DuxPid` | `UniqueWithNsps` | the pid of a new NSP is in no table until the child runs; its chunk can be released meanwhile and another site gets the same pid |
| `Nsp` | `NotStranded`, with reductions | `schedule_nsp` wakes one NSP for a request, `kill_nsps` marks it, it dies without a look at the queue |
| `Nsp` | `NoneForDead`, with reductions | an idle NSP woken by `kill_nsps` and revived serves without `NSP_BUSY`; `no_nsp` does not see it |
| `Nsp` | `SearchEnds`, three slots | `nsp_first_try` is a slot whose NSP has timed out and died while the limited NSP slept in `getnewpid`, so it is beyond `max_nsp`. `schedule_nsp` from softclock has read it, and not yet called `splimp`, when the network takes the last free NSP: the search goes on from there, never meets its start, and loops at `splimp` for ever (`nsp.c:906`-`928`), which the comment at `nsp.c:895`-`899` holds to be impossible. Two requests are enough (22 steps: `Spec`, `ngcsp = 3`, `Source <- OneLocal`, no kills, no failures). On the root server, where `getnewpid` does not sleep, the sleep in `newproc` leads there too, with three requests. With two slots and no reductions the search does end |
| `Nsp` | `SignalKept` | a signal between the setting of `nsp_rid` and the clearing of `p_sig` is acknowledged and lost |
| `Nsp` | `SignalMeant`, two sites with the same request id | `signalnsp` looks for the id alone |
| `DuxProto` | `AtMostOnce` under `CrashSpec` | `cleanup_serving_array` sets every entry in `SENDING_REPLY` to `ACK_RECEIVED`, also those of live sites (`protocol.c:5625`); a retry is then run again |
| `DuxMulti` | `RemainExact`, with `MaxNet` 1 for repeatable requests | a slow request that arrives after the site's reply makes a site that is done unfinished again |
| `Recovery` | `CleanupEnds` under `RaceSpec` | `dux_check_alive` tests the status before it raises the priority (`recovery.c:298`); a failure recorded in between is overwritten and `failed_sites` stays too high |

`Decrements` of `Sitemap` is as strong as it can be: if an addition that was sent
because `d_vcount` had grown past `CHECKVCOUNT` is overtaken by later decrements, the
server does panic (`sitemap.c:319`).

Made with reductions allowed and kept out of the passing runs: `free_nsps` is
decremented twice when an interrupt chooses a dying NSP (`nsp.c:504`);
`nsps_to_invoke` becomes -1 when `kill_nsps` runs while `fork_nsp` sleeps
(`nsp.c:380`); with reductions, `SearchEnds` breaks with two slots already, and
`CountsExact` breaks too. From reading: a site can be refused a chunk though the one at `lastpidchunkallocated`
is free or its own (`dux_getpid.c:494`);
`createsitelist` has the map by value, so a process that finds its copy locked waits
for a wakeup nobody sends (`sitemap.c:387`); a lookup of two files that fails at the
second gives the first back in two updates (`dux_lkmsg.c:195`).

### Fairness

`DuxPid`: strong fairness on the steps of each process inside `dux_getnewpid` and
on the server's NSP: they share a processor that is given up at every sleep, so a
runnable process is only enabled again and again. Weak fairness on the arrival of
requests and replies: the transport repeats them until they are answered. No fairness on
new forks, exits, crashes or cleanup.

`Nsp`: strong fairness on the steps of each NSP and of the limited NSP, for the
same reason; weak fairness on timeouts and on the interrupted softclock routine.
None on `NspDone`: a service routine may take for ever, which is what the
timeouts are for; at most `ngcsp` of them, see `nsp_serve`. The limited NSP's requests do end (the rule at `nsp.c:549`).

`DuxProto`: weak fairness on frames, on processes and NSPs; strong on the two retry
timeouts, because `MaxNet`, a bound of the model, may disable them again and again.
The faults are finitely many. `DuxWindow`: processes go on, a member answers what it
was sent, a failed site is cleaned up after; nothing on failures and joining.

`Recovery`: timeouts expire, processes go on, machines that are down are booted,
requests are repeated till answered. Strong fairness on declaring failed a site that
is down: a break of the LAN may put it off, but not for ever. `Sitemap`: processes
that were woken run, memory is found; none on the clients, who need not do anything.

## 4. Proofs

Seven modules hold theorems, `SumLemmas` lemmas for two of them. Each has one inductive invariant, shown to hold at the
start and to be kept by every action, one lemma per action or group of actions; the
properties follow from it. Every safety property of a passing run but `Attended` is
stated by a theorem, some under a condition that the sections below explain. None depends on the bounds of section 3: constants such as
`MaxFaults` or `MaxCrashes` are any natural numbers. The invariants were model-checked
with the configurations of section 3, and `NspInv` with three NSPs by simulation,
before they were proved.

| module | theorem | statement |
|---|---|---|
| `DuxPidProofs` | `PidInvariant` | `Spec => []PidInv` |
| | `TypeCorrect` | `Spec => []TypeOK` |
| | `PidsAreUnique` | `Spec => []UniquePids` |
| | `TablesAlwaysAgree` | `Spec => []TablesAgree` |
| | `CleanupComplete` | `Spec => []CleanedUp` |
| | `OneAllocationAtATime` | `Spec => []OneAllocation` |
| | `ChunkTableFits` | `Spec => []TableFits` |
| `DuxProtoProofs` | `ProtoInvariant` | `Spec => []ProtoInv` |
| | `AckNeverPanics` | `Spec => []NoAckPanic` |
| | `SlowNotForgotten` | `Spec => []SlowIsServed` |
| | `RunAtMostOnce` | `Spec => []AtMostOnce` |
| | `ProtoRefinesRemoteCall` | `Spec => Implements` |
| `DuxWindowProofs` | `WindowInvariant` | `Spec => []WindowInv` |
| | `QueuesAreSound` | `Spec => []QueueSound` |
| | `WindowsAreExact` | `Spec => []WindowExact` |
| | `WindowNeverPanics` | `Spec => []NoPanic` |
| `DuxMultiProofs` | `MultiInvariant` | `Spec => []MultiInv` |
| | `RemainIsExact` | `Spec => [](repeatable \/ RemainExact)` |
| | `NobodyLeftOut` | `Spec => [](repeatable \/ NotLeftOut)` |
| | `RunAtMostOnceEverywhere` | `Spec => []RunOnce` |
| `RecoveryProofs` | `RecoveryInvariant` | `Spec => []RecInv` |
| | `FailedSitesCounted` | `Spec => []FailedCount` |
| | `CleanedBeforeJoin` | `Spec => []CleanBeforeJoin` |
| | `ClientsNotified` | `Spec => []Notified` |
| `NspProofs` | `NspInvariant` | `Spec => []NspInv` |
| | `NspTypeCorrect` | `Spec => []TypeOK` |
| | `NspSlotTable` | `Spec => []SlotTable` |
| | `KillNeverPanics` | `Spec => []EnoughToKill` |
| | `NspServesOnce` | `Spec => []ServedOnce` |
| | `NspCountsExact` | `Spec => [](NotReduced => CountsExact)` |
| | `NoNspForDead` | `Spec => [](NotReduced => NoneForDead)` |
| | `SignalsAreMeant` | `RidsDiffer /\ Spec => [](NotReduced => SignalMeant)` |
| `SitemapProofs` | `SitemapInvariant` | `Spec => []SitemapInv` |
| | `MapIsTyped` | `Spec => []TypeOK` |
| | `CountsBalance` | `Spec => []Balanced` |
| | `TotalsAreExact` | `Spec => []TotalExact` |
| | `UsersAreKnown` | `Spec => []KnownInUse` |
| | `DecrementsAreCounted` | `Spec => []Decrements` |

### Induction over data

The queue of `DuxWindow` and the sums of `Sitemap` are recursive functions, and what
they compute is a matter of induction. The induction rules of the prover's library take
an operator as a parameter, which its backends cannot instantiate; the theorem that a
well-founded relation has minimal elements (`WFMin`) takes none. `SumLemmas` derives
from it that a set of numbers has a least element (`LeastNat`) and a family of subsets
of a finite set a minimal one (`LeastSet`). A fact about all numbers, or about all
finite sets, is then proved of the least counterexample. The sum over a finite set is
defined by choosing a function that satisfies its equation: `SumsExist` shows that
there is one, `SumsUnique` that there is only one, and from these follow the equation
(`SumRec`), that any element may be taken out first (`SumTakeOut`), and what is needed
of sums that differ in one place, are compared or are added.

### DuxPid

For any set of clients and callers, any number of chunks, pids per chunk and process
slots. Assumptions: `SitesAssumption`, `CallersAssumption`, `SizesAssumption`, which
only say that names differ, sizes are natural numbers, and a chunk is larger than the
reserved pids. `ChunkTableFits` alone also uses `SystemProcsAssumption`: the swapper,
init and pageout have slots of their own in `proc[]` on every site (`proc.h:449`).

`UniquePids` is not inductive: that two sites never share a pid follows from the
chunks each holds being charged to it in `pidtable`, which is one function. So the
invariant has, for each site, `Holds`: pids in use or on offer lie in held chunks,
and the server's entries are exactly the chunks the site holds or that are under
way. That survives the messages only with `Messages` (what each kind carries, and that
the chunks which a queued request returns are still charged to its sender) and
`Releases` (a chunk on its way back is in one place, and the chunk the sender sleeps
over stays unused). Both need `Stages`: preparing a request, the request or reply
under way, and the stored answer exclude each other. `Crashed` says that a failed
site leaves nothing but its last request, which is not queued while `clean_up` is at
work. `CleanupComplete` needs that from the first round of `no_nsp` on: the queue stays
empty of the site, since what arrives is dumped, while the functions before
`pid_cleanup` sleep; an error returns to `no_nsp`.

Every conjunct of `SiteInv(s)` speaks of site `s` and the entries charged to `s`
only. One lemma (`LeftAloneInv`) shows that a step that leaves those alone preserves
it; each action has a lemma for its own site; `NextInv` puts them together.

`OneAllocation` needs `Turn(s)` besides: whoever is inside `dux_getnewpid` and awake
has the processor, so nobody takes the stored chunk between another's test of the
flags and his becoming responsible; and a preallocation that was begun is being
prepared, on the wire, or stored. `Stages` gives "at most one of these", `Turn` "at
least one".

`TableFits` needs `Fits(s)`: once the scan for chunks to release has begun, the chunks
that will stay in the table, the current one and chunk 0 aside, are no more than the
process slots. The scan may sleep in `DM_RELEASEPIDS` while processes fork and exit:
new ones only have pids of the current chunk, so `Staying` does not grow. With the
current chunk, chunk 0 and the one being added, the table needs three entries more
than there are slots for user processes. They are those of the three system processes,
which is what "one slot for each possible process" (`dux_getpid.c:386`) comes to.

### DuxProto

For any set of requests, numbers of parts, serving entries, faults and frames under
way (`ProtoAssumption`: a message has a part, the array an entry). A request that was
run and may not be repeated must never be taken for a new one. `Remembered` says why:
either an entry keeps its reply and recognises the retries, or the requester has the
reply and no frame of the request is left that `badseq` would let through. The entry
goes when the acknowledgement arrives, so `AckIsLast` is needed: nothing new of a
request follows its acknowledgement, as frames do not overtake each other. The first
frame of a request is the one the code takes without a search (`FirstIsNew`).
`ToldToWait` is what `SlowIsServed` needs about slow requests still under way.

`ProtoRefinesRemoteCall` is the refinement: the initial state maps to an initial
state, and each action to a step of `RemoteCall` or to none. `net_request` is the call,
the end of `net_reply` the run, for which `Remembered` is needed, and the last part of
the reply, first or repeated, the return, for which `Ran` is (only what was run is
replied to). The theorem is about `Spec`, without crashes of the requester:
`CrashSpec` breaks `AtMostOnce` (observations).

### DuxWindow

For any number of sites, requests and using entries, any window and any number of
failures (`WindowAssumption`), about `Spec`: a site is declared failed when nobody is
between the two sleeps of `net_request` for it. That is no property of the code, and
without it `NoPanic` is false, which is what the run `window_panic` shows.

`Hangs(s, n, q)` says that the list `q` of `n` entries hangs on the queue of site `s`:
head, links and tail lead along it, and its entries are those outside the window.
`WindowInv` has such a list for each member. A request that has to wait appends to it,
`check_protocol_window` drops its first entry, and `Queue(s)`, defined along the links,
is `q` followed by zeros, since there is no least position where they differ. Nobody
waits at an open window, so an answer to a counted request lets in one and the window
is full again. `Owned` ties entries to calls, `Unsent` says that what waits has not
been on the wire, so nobody answers it, and `Members` that no entry outlives the
cleanup after its site, so a site that joins again starts with an empty queue and no
request counted.

### DuxMulti

For any number of sites, frames, losses and failures. `RunAtMostOnceEverywhere` is
unconditional, as `RunOnce` is itself about requests without `DM_REPEATABLE`; the
counts are proved for those alone, because a repeatable request can be answered
"slow" after its reply, which makes a finished site unfinished again (observations).
`SiteInv` has the same argument as `DuxProto`, with the order of the two queues of
each site (`NoneAfter`): no retry after an acknowledgement, no "slow" after a reply.
`Counts` bounds `no_response_sites` from below only: that it is off is the subject of
the run `multi_retry`.

### Recovery

For any finite number of clients, crashes and requests (`RecoveryAssumption`), about
`Spec`; `RaceSpec` breaks the count (observations). `CleanBeforeJoin` speaks of all
members at the moment a client comes back, so `Answered` has it for those that have
answered `DM_ADD_MEMBER` already, `Joining` for the root server from the start, and
`Absent` and `Lives` say what can be held for whom: nothing by a site that is down,
nothing for one that is `CL_INACTIVE`, nothing of the present life of a site that is
not up. `Adding` covers a client that sleeps in `serve_add_member` when it, or the
joining site, fails. `Marking` is the same for `DM_MARK_FAILED` and `Notified`.

### Nsp

For any number of slots, sites, requests, reductions and failing forks
(`NspAssumption`: there is a slot; request ids are unique within a site). `OneRuns`
and `Where` say who may run and which labels go with which flags. `Table` has what the
limited NSP relies on after `newproc` slept: its slot is still reserved and no other
lies beyond the `max_nsp` it goes back to. `Enough` counts the NSPs that are not
marked, all of them and those ahead of the scan of `kill_nsps`; a timeout takes one
off and adds one to `nsps_to_invoke`. `Places` keeps the queues, the list `kill_nsps`
took off, and the requests in service apart.

The second half of `NspInv` is conditional on `NotReduced`: `csp` has not yet reduced
the number of NSPs, as in the run `nsp_serve`. After a reduction the counts are indeed
wrong (observations). `BusyAwake` says that a general NSP is busy unless it sleeps and
has a request exactly while it works on one; so `Free` are the sleeping NSPs, which
`free_nsps` counts (`Exact`), and `no_nsp` sees every NSP that works for a site.
`Signals` is about interrupts: a pending mark is on an unserved request whose sender
was told so. `RidsDiffer`, that no two sites use the same request id, is a hypothesis
the code does not ensure; without it `SignalMeant` is false (observations). The other
theorems do not need it.

The proof attempt for "the search ends" is how the loop of `schedule_nsp` was found
(observations).

### Sitemap

For any finite sets of clients (at least one) and server processes, arrays of at least
two entries, any `CHECKVCOUNT` and any number of references (`SitemapAssumption`).

The map is described by the counts `k` it holds, one number for each site. `Holds(k)`
reads them off the single entry or the list of arrays, `Shape(k)` says what
`s_maptype`, `s_count` and the lock mean for them, also while a process sleeps in
`kmem_alloc`: only one does, its request is an addition, and the map does not count
its site, which stays so since nobody updates a locked map. Every step of the server
then is "`k` gets the request's value" or "`k` stays", whichever way the map is kept:
`InArrayMap` and `OneSiteMap` are the two ways.

`Total(w)` is the sum of the weights `w` over the requests in the bag and those that
processes hold. A request that is sent adds its weight, one that is dealt with takes
it away, one that is taken, waits or goes on leaves the sum alone (`TotalSent`,
`TotalTaken`). With the request's value as its weight this keeps `Level(k)`, that is
`Balanced`. With weight 1 for each addition it keeps `Doubles`: `adding` is the number
of additions under way, and no larger than `d_rcount`, as a process that sleeps does
not give up its reference, nor than `d_vcount`, which each of them has raised and
which never falls below `d_rcount` in a step that lowers it.

`KnownInUse`: with no addition under way values are at most the lookups, so
`Level(k)` leaves `k[c] >= d_vcount`, and `d_vcount` is positive while `d_rcount` is.
`Decrements`: if no addition of the kind "limit" is under way, the others are of 1
each, so values sum up to no more than lookups and additions, and additions to no
more than `d_vcount`; what is left in the map covers the decrement (`Enough`).

### Model-checked only

* Liveness (`ResponsibleServed`, `Taken`, `Completes`, `RepliesReleased`, `Served`,
  `Rejoins`, `CleanupEnds`, `Updated`): out of the prover's reach.
* `Attended`: that an interrupted search misses no free NSP is a matter of slot numbers
  modulo a `max_nsp` that changes.
* That the specifications which let more happen break a property: the violation
  runs, and the observations of section 3.

## 5. Not modelled, and the plan

1. `DuxSync`, on top of `Sitemap`: switching a file to synchronous mode while sites
   open and close it, with `createsitelist` and its copy of the map, and the cleanup
   of a failed site's entries. Abstract specification: no site caches a file while
   another one writes.
2. Composition of `Recovery` with `Nsp`: the cleanup request competes with the
   requests of the site that failed.
3. Remote locks, FIFOs and opens; user NSPs.

Of the transport, the network buffers are seen only as a resource that may be missing.
Of DM, the marshalling and the interface to signals are left out.

Left out for good: vnode operations and disk I/O of DUX (data movement), debugging
code; the inherited kernel (file systems, BSD networking, NFS, drivers, graphics,
floating point); commands and libraries; the ARPA and NFS products. They are two
million lines, nearly all of them sequential or inherited: the modules here cover
the distributed core of the kernel, and a very small share of the repository.
