------------------------------ MODULE Recovery ------------------------------
(***************************************************************************)
(* Members of the cluster fail and come back: dux/recovery.c and the part  *)
(* of dux/cluster.c by which a site joins.  The root server watches the    *)
(* clients; whoever learns of a failure marks the site CL_FAILED and has   *)
(* it cleaned up after, by a process of which there is one at a time on    *)
(* each site; the root server also tells the other clients and waits for   *)
(* them.  A client that boots again asks the root server, which has        *)
(* everybody clean up after the old life of the site first.                *)
(*                                                                         *)
(* The messages DM_MARK_FAILED and DM_ADD_MEMBER are clustercast requests  *)
(* (DuxMulti): a set of sites that are still to answer stands for one.     *)
(* What a client uses at another site is a process there that serves a     *)
(* request of its (nsp) and what the request leaves behind (held: files,   *)
(* locks, swap space, pids), of its present life ("new") or of an earlier  *)
(* one ("old").  The root server stays up: without it the clients reboot.  *)
(***************************************************************************)
EXTENDS Integers, FiniteSets

CONSTANTS Clients,      \* the sites other than the root server
          Root,
          None,
          MaxCrashes,   \* bound: crashes, and sites wrongly declared failed
          MaxRequests   \* bound: requests that leave something behind

ASSUME RecoveryAssumption == /\ Root \notin Clients /\ None \notin Clients
                             /\ IsFiniteSet(Clients)
                             /\ MaxCrashes \in Nat /\ MaxRequests \in Nat

Sites == Clients \cup {Root}

VARIABLES up,           \* up[c]: "up", "dead", or "boot": asks to join
          status,       \* status[n][c]: clustab[c].status at n
          failed_sites, \* failed_sites[n]
          cleaner,      \* who runs invoke_cleanup(): "none", an "nsp", or
                        \* "own", the process in add_site() (cleanup_running)
          init,         \* init[n]: an NSP is to call invoke_cleanup()
          mark,         \* mark[c]: the sites DM_MARK_FAILED waits for, None
                        \* when request[c] of send_mark_failed() is NULL
          join,         \* what serve_clusterreq() is doing
          joinWait,     \* the sites DM_ADD_MEMBER waits for
          adding,       \* adding[n]: the site n is in serve_add_member() for
          nsp,          \* nsp[n][c]: the process that serves c at n
          held,         \* held[n][c]: what n holds for lives of c
          crashes, requests

work == <<nsp, held, requests>>
tables == <<status, failed_sites, cleaner, init>>
vars == <<up, tables, mark, join, joinWait, adding, work, crashes>>

(* CL_IS_MEMBER.  A site is CL_ACTIVE, and CL_ALIVE a period after, until  *)
(* it is asked for a sign of life: both are "ACTIVE" here.                 *)
Member == {"ACTIVE", "RETRY"}
Failed == {"FAILED", "CLEANUP"}

Idle == [site |-> None, stage |-> "idle", asked |-> FALSE]

(* All clients are members.                                                *)
Init ==
    /\ up = [c \in Clients |-> "up"]
    /\ status = [n \in Sites |-> [c \in Clients |-> "ACTIVE"]]
    /\ failed_sites = [n \in Sites |-> 0]
    /\ cleaner = [n \in Sites |-> "none"] /\ init = [n \in Sites |-> FALSE]
    /\ mark = [c \in Clients |-> {None}]
    /\ join = Idle /\ joinWait = {}
    /\ adding = [n \in Sites |-> None]
    /\ nsp = [n \in Sites |-> [c \in Clients |-> "none"]]
    /\ held = [n \in Sites |-> [c \in Clients |-> {}]]
    /\ crashes = MaxCrashes /\ requests = MaxRequests

Runs(n) == n \in Clients => up[n] = "up"   \* n takes part in the cluster
Members == {c \in Clients: status[Root][c] \in Member}
-----------------------------------------------------------------------------
(* declare_failed(c) at the sites of S.                                    *)

\* Faulty: the site is counted again when it is already known to be failed.
Bug_Again(n, c) == c # n

Declares(n, c) == c # n /\ status[n][c] \in Member

(* The entry of c, the count, and whether init_cleanup() is called.        *)
Marked(S, c) ==
    [n \in Sites |-> IF n \in S /\ Declares(n, c)
                     THEN [status[n] EXCEPT ![c] = "FAILED"] ELSE status[n]]

Counted(S, c) ==
    [n \in Sites |-> failed_sites[n] + IF n \in S /\ Declares(n, c) THEN 1 ELSE 0]

Initiated(S, c) ==
    [n \in Sites |-> \/ init[n]
                     \/ /\ n \in S /\ Declares(n, c)
                        /\ failed_sites[n] = 0 /\ cleaner[n] = "none"]

declare_failed(S, c) == /\ status' = Marked(S, c)
                        /\ failed_sites' = Counted(S, c)
                        /\ init' = Initiated(S, c)
                        /\ UNCHANGED cleaner

(* What c leaves behind at other sites belongs to an old life; what it     *)
(* held for others is gone with it.                                        *)
Old(x) == CASE x = "new" -> "old" [] x = "newwait" -> "oldwait" [] OTHER -> x

LeavesBehind(c) ==
    /\ nsp' = [n \in Sites |-> [d \in Clients |->
                 IF n = c THEN "none"
                 ELSE IF d = c THEN Old(nsp[n][d]) ELSE nsp[n][d]]]
    /\ held' = [n \in Sites |-> [d \in Clients |->
                 IF n = c THEN {}
                 ELSE IF d = c THEN {Old(x): x \in held[n][d]} ELSE held[n][d]]]
    /\ UNCHANGED requests

(* A client goes down, and S hears its broadcast_failure() (nobody, if it  *)
(* loses power or the datagram is lost): record_failure() of DM_FAILURE.   *)
GoesDown(c, S) ==
    /\ up' = [up EXCEPT ![c] = "dead"]
    /\ LET R == {n \in S: Runs(n)} IN
       /\ status' = [Marked(R, c) EXCEPT ![c] = [d \in Clients |-> "INACTIVE"]]
       /\ failed_sites' = [Counted(R, c) EXCEPT ![c] = 0]
       /\ init' = [Initiated(R, c) EXCEPT ![c] = FALSE]
       /\ cleaner' = [cleaner EXCEPT ![c] = "none"]
    /\ LeavesBehind(c)
    /\ adding' = [adding EXCEPT ![c] = None]
    /\ join' = IF join.site = c THEN [join EXCEPT !.asked = FALSE] ELSE join
    /\ UNCHANGED <<mark, joinWait>>

broadcast_failure(c, S) ==
    /\ up[c] = "up" /\ crashes > 0
    /\ crashes' = crashes - 1
    /\ GoesDown(c, S)

(* It goes down while it boots.                                            *)
boot_crash(c) ==
    /\ up[c] = "boot" /\ crashes > 0
    /\ crashes' = crashes - 1
    /\ GoesDown(c, {})

(* A client that the root server has declared failed is told so as soon as *)
(* it sends something, and reboots (P_SUICIDE).                            *)
recv_suicide_msg(c) ==
    /\ up[c] = "up" /\ status[Root][c] \notin Member
    /\ GoesDown(c, {})
    /\ UNCHANGED crashes
-----------------------------------------------------------------------------
(* A request of c is served at n, by a process that may have to wait for c *)
(* itself, and leaves something behind.                                    *)
Served(n, c) ==
    /\ Runs(n) /\ up[c] = "up" /\ n # c
    /\ status[n][c] \in Member /\ nsp[n][c] = "none"
    /\ requests > 0
    /\ requests' = requests - 1
    /\ \E kind \in {"new", "newwait"}: nsp' = [nsp EXCEPT ![n][c] = kind]
    /\ UNCHANGED <<up, tables, mark, join, joinWait, adding, held,
                   crashes>>

(* The process is done: at once, or when c has answered.                   *)
ServedDone(n, c) ==
    /\ Runs(n)
    /\ \/ nsp[n][c] \in {"new", "old"}
       \/ nsp[n][c] = "newwait" /\ up[c] = "up"
    /\ nsp' = [nsp EXCEPT ![n][c] = "none"]
    /\ held' = [held EXCEPT ![n][c] = @ \cup {IF nsp[n][c] = "old" THEN "old"
                                                                   ELSE "new"}]
    /\ UNCHANGED <<up, tables, mark, join, joinWait, adding, requests,
                   crashes>>
-----------------------------------------------------------------------------
(* Detection at the root server.  A frame of a member makes it CL_ACTIVE   *)
(* (register_alive(), dux_recv_routines()).                                *)
register_alive(c) ==
    /\ up[c] = "up" /\ status[Root][c] \in Member \ {"ACTIVE"}
    /\ status' = [status EXCEPT ![Root][c] = "ACTIVE"]
    /\ UNCHANGED <<up, failed_sites, cleaner, init, mark, join, joinWait, adding,
                   work, crashes>>

(* dux_check_alive(): a site that was not heard of for two periods is      *)
(* asked for a sign of life.                                               *)
dux_check_alive(c) ==
    /\ status[Root][c] = "ACTIVE"
    /\ status' = [status EXCEPT ![Root][c] = "RETRY"]
    /\ UNCHANGED <<up, failed_sites, cleaner, init, mark, join, joinWait, adding,
                   work, crashes>>

(* dux_retry_alive(), after the last of its retries: the site is declared  *)
(* failed, also if it is up and only its frames were lost.                 *)
dux_retry_alive(c) ==
    /\ status[Root][c] = "RETRY"
    /\ up[c] = "up" => crashes > 0
    /\ crashes' = IF up[c] = "up" THEN crashes - 1 ELSE crashes
    /\ declare_failed({Root}, c)
    /\ UNCHANGED <<up, mark, join, joinWait, adding, work>>

(* Not so if the LAN is found to be broken.                                *)
check_lan_break(c) ==
    /\ status[Root][c] = "RETRY"
    /\ status' = [status EXCEPT ![Root][c] = "ACTIVE"]
    /\ UNCHANGED <<up, failed_sites, cleaner, init, mark, join, joinWait, adding,
                   work, crashes>>

(* The client gets DM_MARK_FAILED and answers: record_failure().           *)
record_failure(n, c) ==
    /\ n \in mark[c] /\ n \in Members /\ up[n] = "up"
    /\ mark' = [mark EXCEPT ![c] = @ \ {n}]
    /\ declare_failed({n}, c)
    /\ UNCHANGED <<up, join, joinWait, adding, work, crashes>>
-----------------------------------------------------------------------------
(* Cleaning up.                                                            *)

(* The NSP of dux_init_cleanup() enters invoke_cleanup(), and leaves it at *)
(* once if somebody is there.                                              *)
dux_init_cleanup(n) ==
    /\ Runs(n) /\ init[n]
    /\ init' = [init EXCEPT ![n] = FALSE]
    /\ cleaner' = [cleaner EXCEPT ![n] = IF @ = "none" THEN "nsp" ELSE @]
    /\ UNCHANGED <<up, status, failed_sites, mark, join, joinWait, adding, work, crashes>>

\* Faulty: clustercasts are not looked at.
Bug_SinglesOnly(S, c) == S

(* cleanup_using_array(c): a clustercast no longer waits for c.            *)
cleanup_using_array(S, c) == S \ {c}

\* Faulty: the clients are told, but not waited for.
Bug_NotAwaited(wait) == TRUE

MarkDone(wait) == wait = {}      \* DM_DONE

\* Faulty: the processes are sent their signal, but not waited for.
Bug_NspLeft(n, c) == TRUE

(* no_nsp(c): no process serves c.  One that waited for c has its answer   *)
(* from cleanup_using_array().                                             *)
no_nsp(n, c) == nsp[n][c] = "none"

CountDown(n, c, st) == IF st = "INACTIVE" THEN failed_sites[n] - 1
                                          ELSE failed_sites[n]

(* invoke_cleanup(): what one pass of its loop does about the failed c.    *)
(* The root server first sends DM_MARK_FAILED and waits, without sleeping  *)
(* for it, till it is done.                                                *)
invoke_cleanup(n, c) ==
    LET left == [d \in Clients |-> cleanup_using_array(mark[d], c)]
        wait == IF mark[c] = {None} THEN Members ELSE left[c]
        told == n # Root \/ MarkDone(wait)
        st == IF status[n][c] = "FAILED" /\ ~told THEN "FAILED"
              ELSE IF no_nsp(n, c) THEN "INACTIVE" ELSE "CLEANUP"
    IN
    /\ Runs(n) /\ cleaner[n] # "none" /\ status[n][c] \in Failed
    /\ status' = [status EXCEPT ![n][c] = st]
    /\ failed_sites' = [failed_sites EXCEPT ![n] = CountDown(n, c, st)]
    /\ held' = [held EXCEPT ![n][c] = IF st = "INACTIVE" THEN {} ELSE @]
    /\ nsp' = [nsp EXCEPT ![n][c] = CASE @ = "newwait" -> "new"
                                      [] @ = "oldwait" -> "old" [] OTHER -> @]
    /\ IF n = Root
       THEN /\ joinWait' = cleanup_using_array(joinWait, c)
            /\ mark' = IF status[n][c] = "FAILED"
                       THEN [left EXCEPT ![c] = IF told THEN {None} ELSE wait]
                       ELSE left
       ELSE UNCHANGED <<mark, joinWait>>
    /\ UNCHANGED <<up, cleaner, init, join, adding, requests, crashes>>

(* The end of invoke_cleanup(): nobody is left to clean up after.          *)
cleanup_ends(n) ==
    /\ Runs(n) /\ cleaner[n] # "none" /\ failed_sites[n] <= 0
    /\ cleaner' = [cleaner EXCEPT ![n] = "none"]
    /\ UNCHANGED <<up, status, failed_sites, init, mark, join, joinWait, adding,
                   work, crashes>>
-----------------------------------------------------------------------------
(* Joining.                                                                *)

(* The machine boots and asks to join (ws_cluster()).                      *)
ws_cluster(c) ==
    /\ up[c] = "dead"
    /\ up' = [up EXCEPT ![c] = "boot"]
    /\ UNCHANGED <<tables, mark, join, joinWait, adding, work, crashes>>

FailedAt(n) == {c \in Clients: status[n][c] \in Failed}

(* add_site(c) at n, as far as its sleep: c is still a member, and was     *)
(* down for too short a time to be noticed; or it is being cleaned up      *)
(* after.  If nobody does so, this process does.                           *)
add_site(n, c) ==
    /\ status' = [status EXCEPT ![n][c] = IF @ \in Member THEN "FAILED" ELSE @]
    /\ failed_sites' = [failed_sites EXCEPT ![n] =
          IF status[n][c] \in Member THEN @ + 1
          ELSE IF status[n][c] \in Failed /\ cleaner[n] = "none" /\ @ = 0
               THEN Cardinality(FailedAt(n)) ELSE @]
    /\ cleaner' = [cleaner EXCEPT ![n] =
          IF status[n][c] # "INACTIVE" /\ @ = "none" THEN "own" ELSE @]
    /\ UNCHANGED init

(* The rest of add_site(): the cleanup is done.                            *)
SiteAdded(n, c) == cleaner[n] # "own" /\ status[n][c] \notin Failed

(* serve_clusterreq() at the root server, one request at a time (others    *)
(* get EAGAIN and ask again).                                              *)
serve_clusterreq(c) ==
    /\ up[c] = "boot" /\ join = Idle
    /\ join' = [site |-> c, stage |-> "add", asked |-> TRUE]
    /\ add_site(Root, c)
    /\ UNCHANGED <<up, mark, joinWait, adding, work, crashes>>

(* It goes on: everybody is sent DM_ADD_MEMBER.                            *)
send_add_member ==
    /\ join.stage = "add" /\ SiteAdded(Root, join.site)
    /\ join' = [join EXCEPT !.stage = "told"]
    /\ joinWait' = Members
    /\ UNCHANGED <<up, tables, mark, adding, work, crashes>>

(* serve_add_member() at a client, as far as the sleep in add_site().      *)
serve_add_member(n) ==
    /\ n \in joinWait /\ n \in Members /\ up[n] = "up" /\ adding[n] = None
    /\ adding' = [adding EXCEPT ![n] = join.site]
    /\ add_site(n, join.site)
    /\ UNCHANGED <<up, mark, join, joinWait, work, crashes>>

(* Its rest: the site is a member, and the root server gets the answer.    *)
add_member_reply(n) ==
    /\ adding[n] # None /\ SiteAdded(n, adding[n])
    /\ status' = [status EXCEPT ![n][adding[n]] = "ACTIVE"]
    /\ joinWait' = IF adding[n] = join.site THEN joinWait \ {n} ELSE joinWait
    /\ adding' = [adding EXCEPT ![n] = None]
    /\ UNCHANGED <<up, failed_sites, cleaner, init, mark, join, work,
                   crashes>>

(* The end of serve_clusterreq(): the site is a member; if it is still     *)
(* there to get the answer it starts with a copy of clustab[].             *)
cluster_reply ==
    LET c == join.site IN
    /\ join.stage = "told" /\ joinWait = {}
    /\ join' = Idle
    /\ up' = IF join.asked THEN [up EXCEPT ![c] = "up"] ELSE up
    /\ status' = [n \in Sites |->
          CASE n = Root -> [status[n] EXCEPT ![c] = "ACTIVE"]
            [] n = c /\ join.asked ->
                 [d \in Clients |-> IF d \in Members \cup {c} THEN "ACTIVE"
                                                              ELSE "INACTIVE"]
            [] OTHER -> status[n]]
    /\ UNCHANGED <<failed_sites, cleaner, init, mark, joinWait, adding, work,
                   crashes>>
-----------------------------------------------------------------------------
(* dux_check_alive() has read the status of c, and is interrupted by the   *)
(* DM_FAILURE of c before it raises its priority and writes the next one.  *)
check_alive_interrupted(c) ==
    /\ up[c] = "up" /\ crashes > 0
    /\ status[Root][c] = "ACTIVE"
    /\ crashes' = crashes - 1
    /\ up' = [up EXCEPT ![c] = "dead"]
    /\ status' = [status EXCEPT ![Root][c] = "RETRY",
                                ![c] = [d \in Clients |-> "INACTIVE"]]
    /\ failed_sites' = [Counted({Root}, c) EXCEPT ![c] = 0]
    /\ init' = [Initiated({Root}, c) EXCEPT ![c] = FALSE]
    /\ cleaner' = [cleaner EXCEPT ![c] = "none"]
    /\ LeavesBehind(c)
    /\ adding' = [adding EXCEPT ![c] = None]
    /\ UNCHANGED <<mark, join, joinWait>>

Next ==
    \/ \E c \in Clients: \/ \E S \in SUBSET (Sites \ {c}): broadcast_failure(c, S)
                         \/ boot_crash(c) \/ recv_suicide_msg(c)
                         \/ register_alive(c)
                         \/ dux_check_alive(c) \/ dux_retry_alive(c)
                         \/ check_lan_break(c)
                         \/ ws_cluster(c) \/ serve_clusterreq(c)
    \/ \E n \in Sites, c \in Clients: \/ Served(n, c) \/ ServedDone(n, c)
                                      \/ record_failure(n, c)
                                      \/ invoke_cleanup(n, c)
    \/ \E n \in Sites: \/ dux_init_cleanup(n) \/ cleanup_ends(n)
                       \/ serve_add_member(n) \/ add_member_reply(n)
    \/ send_add_member \/ cluster_reply

(* Timeouts expire, processes go on when they can, requests are sent until *)
(* they are answered, and machines that are down are booted.  The LAN is   *)
(* not broken whenever a site that is down is about to be declared failed. *)
Fairness ==
    /\ \A c \in Clients: /\ WF_vars(recv_suicide_msg(c))
                         /\ WF_vars(dux_check_alive(c))
                         /\ SF_vars(up[c] # "up" /\ dux_retry_alive(c))
                         /\ WF_vars(ws_cluster(c)) /\ WF_vars(serve_clusterreq(c))
    /\ \A n \in Sites, c \in Clients: /\ WF_vars(ServedDone(n, c))
                                      /\ WF_vars(record_failure(n, c))
                                      /\ WF_vars(invoke_cleanup(n, c))
    /\ \A n \in Sites: /\ WF_vars(dux_init_cleanup(n)) /\ WF_vars(cleanup_ends(n))
                       /\ WF_vars(serve_add_member(n))
                       /\ WF_vars(add_member_reply(n))
    /\ WF_vars(send_add_member) /\ WF_vars(cluster_reply)

Spec == Init /\ [][Next]_vars /\ Fairness

RaceSpec == /\ Init /\ [][Next \/ \E c \in Clients: check_alive_interrupted(c)]_vars
            /\ Fairness
-----------------------------------------------------------------------------
(* Every variable has its type; no count of failed sites goes below zero.  *)
TypeOK ==
    /\ up \in [Clients -> {"up", "dead", "boot"}]
    /\ status \in [Sites -> [Clients -> Member \cup Failed \cup {"INACTIVE"}]]
    /\ failed_sites \in [Sites -> 0..Cardinality(Clients)]
    /\ cleaner \in [Sites -> {"none", "nsp", "own"}]
    /\ init \in [Sites -> BOOLEAN]
    /\ mark \in [Clients -> SUBSET (Clients \cup {None})]
    /\ join \in [site: Clients \cup {None}, stage: {"idle", "add", "told"},
                 asked: BOOLEAN]
    /\ joinWait \subseteq Clients
    /\ adding \in [Sites -> Clients \cup {None}]
    /\ nsp \in [Sites -> [Clients -> {"none", "new", "newwait", "old", "oldwait"}]]
    /\ held \in [Sites -> [Clients -> SUBSET {"new", "old"}]]

(* failed_sites is the number of sites that are CL_FAILED or CL_CLEANUP,   *)
(* on every site, and while there are any somebody cleans up or is about   *)
(* to: a cleanup neither ends too early nor is it never begun.             *)
FailedCount ==
    /\ TypeOK
    /\ \A n \in Sites: Runs(n) =>
          /\ failed_sites[n] = Cardinality(FailedAt(n))
          /\ failed_sites[n] > 0 => init[n] \/ cleaner[n] # "none"

(* When a client is back in the cluster nothing of its earlier lives is    *)
(* left anywhere, neither a process that serves it nor what one left.      *)
CleanBeforeJoin ==
    \A c \in Clients, n \in Members \cup {Root}:
        up[c] = "up" /\ Runs(n) => /\ nsp[n][c] \notin {"old", "oldwait"}
                                   /\ "old" \notin held[n][c]

(* cct.h says of CL_CLEANUP "site has crashed and all clients notified":   *)
(* the root server has cleaned up after a site, or begins to, only when    *)
(* no client takes it for a member any more.  And "The client site should  *)
(* have already received a DM_MARK_FAILED from the root site before the    *)
(* DM_ADD_MEMBER message was sent": a client that is to add a site does    *)
(* not have it as a member.                                                *)
Notified ==
    /\ \A c \in Clients, n \in Members:
          /\ up[n] = "up" /\ n # c /\ status[n][c] \in Member
          /\ status[Root][c] \in {"CLEANUP", "INACTIVE"}
          => join.site = c /\ join.stage = "told"
    /\ \A n \in joinWait \cap Members:
          up[n] = "up" /\ adding[n] = None => status[n][join.site] \notin Member

(* Nobody who boots waits for ever, whoever fails meanwhile.               *)
Rejoins == \A c \in Clients: up[c] = "boot" ~> up[c] # "boot"

(* "The cleanup process will continuously looking for cleanup work to do   *)
(* until there is no work": it ends.                                       *)
CleanupEnds == \A n \in Sites: cleaner[n] # "none" ~> cleaner[n] = "none"
=============================================================================
