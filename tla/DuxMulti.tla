------------------------------ MODULE DuxMulti ------------------------------
(***************************************************************************)
(* A request to several sites in dux/protocol.c: DM_MULTISITE, sent to one *)
(* site after the other, or DM_CLUSTERCAST, sent once to all and again, if *)
(* need be, to one after the other.  One using entry stands for all of it, *)
(* with a list of the destinations and two counts: the sites that have not *)
(* replied (remain_sites) and those that have not responded at all         *)
(* (no_response_sites).  The frames of the LAN may be lost, and sites may  *)
(* fail while the request is under way.                                    *)
(*                                                                         *)
(* A request and a reply are one frame each ("By definition the should     *)
(* only be a quick_reply for multisites as well as clustercasts").  The    *)
(* receiving routines and the retries are one action each; the process     *)
(* may sleep in dux_send() between two destinations.                       *)
(***************************************************************************)
EXTENDS Integers, Sequences, FiniteSets, FiniteSetsExt

CONSTANTS NumSites,     \* the other sites are 1..NumSites
          MaxNet,       \* bound: frames on their way when a retry adds some,
                        \* for requests that may be repeated and for others
          MaxLost,      \* bound: frames lost
          MaxFailures   \* bound: sites that fail

ASSUME MultiAssumption == /\ NumSites \in Nat \ {0}
                          /\ MaxNet \in [BOOLEAN -> Nat] /\ MaxLost \in Nat
                          /\ MaxFailures \in Nat

Sites == 1..NumSites

VARIABLES pc,         \* the requesting process
          mode,       \* dm_dest
          repeatable, \* DM_REPEATABLE
          status,     \* dest_list->dm_sites[].status
          valid,      \* those with site_is_valid
          remain,     \* remain_sites
          noresp,     \* no_response_sites
          next,       \* next_dest: the destination dux_send() goes on with
          timer,      \* retry_request is due
          toSite,     \* frames on their way to each site
          fromSite,   \* frames on their way back
          serving,    \* each site's serving entry of the request
          runs,       \* how often each site has run it (2: twice or more)
          member,     \* the sites that clustab[] has as members
          dirty,      \* failed sites that are still to be cleaned up after
          lost, failures

list == <<status, valid, remain, noresp>>
vars == <<pc, mode, repeatable, list, next, timer, toSite, fromSite, serving,
          runs, member, dirty, lost, failures>>

Init ==
    /\ pc = "idle" /\ mode \in {"DM_MULTISITE", "DM_CLUSTERCAST"}
    /\ repeatable \in BOOLEAN
    /\ status = [s \in Sites |-> "NORESP"] /\ valid = {}
    /\ remain = 0 /\ noresp = 0 /\ next = 0 /\ timer = FALSE
    /\ toSite = [s \in Sites |-> <<>>] /\ fromSite = [s \in Sites |-> <<>>]
    /\ serving = [s \in Sites |-> "none"] /\ runs = [s \in Sites |-> 0]
    /\ member = Sites /\ dirty = {}
    /\ lost = MaxLost /\ failures = MaxFailures

Live == pc \in {"sending", "waiting"}      \* the using entry is in use
-----------------------------------------------------------------------------
(* The requester: sending.                                                 *)

(* Frames on their way.                                                    *)
Frames == MapThenSumSet(LAMBDA s: Len(toSite[s]) + Len(fromSite[s]), Sites)

(* Destinations from n on that have sent neither reply nor slow request.   *)
Silent(n) == {s \in valid: n <= s /\ status[s] = "NORESP"}

dest_count == Cardinality(member)

(* net_request(): the members among the destinations are counted; with     *)
(* none the request is over.                                               *)
net_request ==
    /\ pc = "idle"
    /\ valid' = member
    /\ remain' = dest_count /\ noresp' = dest_count
    /\ next' = IF member = {} THEN 0 ELSE Min(member)
    /\ pc' = IF member = {} THEN "over" ELSE "sending"
    /\ UNCHANGED <<mode, repeatable, status, timer, toSite, fromSite, serving,
                   runs, member, dirty, lost, failures>>

(* dux_send() of a clustercast: one frame for all.                         *)
send_clustercast ==
    /\ pc = "sending" /\ mode = "DM_CLUSTERCAST"
    /\ toSite' = [s \in Sites |-> IF s \in member THEN Append(toSite[s], "request")
                                  ELSE toSite[s]]
    /\ pc' = "waiting" /\ timer' = TRUE
    /\ UNCHANGED <<mode, repeatable, list, next, fromSite, serving, runs,
                   member, dirty, lost, failures>>

(* dux_send() of a multisite request: the next destination; after the last *)
(* one the timer is started.                                               *)
send_multisite ==
    LET rest == Silent(next + 1) IN
    /\ pc = "sending" /\ mode = "DM_MULTISITE"
    /\ toSite' = IF next \in member
                 THEN [toSite EXCEPT ![next] = Append(@, "request")]
                 ELSE toSite
    /\ next' = IF rest = {} THEN 0 ELSE Min(rest)
    /\ pc' = IF rest = {} THEN "waiting" ELSE pc
    /\ timer' = (rest = {})
    /\ UNCHANGED <<mode, repeatable, list, fromSite, serving, runs, member,
                   dirty, lost, failures>>

(* retry_request(): the timer expires.  A clustercast becomes a multisite  *)
(* request, sent to those that have not responded (the timeout routine is  *)
(* not interrupted by replies); with none of those it is not started again.*)
retry_request ==
    /\ timer
    /\ Frames <= MaxNet[repeatable]
    /\ mode' = "DM_MULTISITE"
    /\ timer' = (Silent(1) # {})
    /\ toSite' = [s \in Sites |-> IF s \in Silent(1) \cap member
                                  THEN Append(toSite[s], "retry") ELSE toSite[s]]
    /\ UNCHANGED <<pc, repeatable, list, next, fromSite, serving, runs, member,
                   dirty, lost, failures>>
-----------------------------------------------------------------------------
(* The other sites.  "none", "serving", "slow" (it has been said to take   *)
(* long) and "waitack" are the states of the serving entry.                *)

Took(s) == toSite' = [toSite EXCEPT ![s] = Tail(@)]

(* recv_request(): a request that is not being served is started, even a   *)
(* retry, since the first frame may have been lost; while it is served the *)
(* sender of a retry is told so; a request that has been answered is       *)
(* dropped.  recv_ack(): the entry is freed.                               *)
recv_request(s) ==
    LET f == Head(toSite[s]) IN
    /\ s \in member /\ toSite[s] # <<>>
    /\ Took(s)
    /\ \/ /\ f \in {"request", "retry"} /\ serving[s] = "none"
          /\ serving' = [serving EXCEPT ![s] = "serving"]
          /\ UNCHANGED fromSite
       \/ /\ f = "retry" /\ serving[s] \in {"serving", "slow"}
          /\ serving' = [serving EXCEPT ![s] = "slow"]
          /\ fromSite' = [fromSite EXCEPT ![s] = Append(@, "slow")]
       \/ /\ f = "retry" /\ serving[s] = "waitack"
          /\ UNCHANGED <<serving, fromSite>>
       \/ /\ f = "ack"
          /\ serving' = [serving EXCEPT ![s] = IF @ = "waitack" THEN "none" ELSE @]
          /\ UNCHANGED fromSite
    /\ UNCHANGED <<pc, mode, repeatable, list, next, timer, runs, member, dirty,
                   lost, failures>>

\* Faulty: no reply is kept.
Bug_NeverKept(s) == TRUE

(* The reply of a request that may be repeated, and was never said to be   *)
(* slow, is not kept.                                                      *)
NotKept(s) == repeatable /\ serving[s] = "serving"

(* The request has been run and net_reply() answers it.                    *)
net_reply(s) ==
    /\ s \in member /\ serving[s] \in {"serving", "slow"}
    /\ runs' = [runs EXCEPT ![s] = IF @ = 0 THEN 1 ELSE 2]
    /\ serving' = [serving EXCEPT ![s] =
                     IF NotKept(s) THEN "none" ELSE "waitack"]
    /\ fromSite' = [fromSite EXCEPT ![s] = Append(@,
                     IF NotKept(s) THEN "idem" ELSE "reply")]
    /\ UNCHANGED <<pc, mode, repeatable, list, next, timer, toSite, member,
                   dirty, lost, failures>>

(* retry_reply(): the reply is sent again until its ack is there.          *)
retry_reply(s) ==
    /\ s \in member /\ serving[s] = "waitack"
    /\ Frames <= MaxNet[repeatable]
    /\ fromSite' = [fromSite EXCEPT ![s] = Append(@, "reply")]
    /\ UNCHANGED <<pc, mode, repeatable, list, next, timer, toSite, serving,
                   runs, member, dirty, lost, failures>>
-----------------------------------------------------------------------------
(* The requester: receiving.                                               *)

\* Faulty: a reply that comes twice is counted twice.
Bug_EveryReply(s) == TRUE

(* Is this the first reply of s?  (A second one comes when an ack is late.)*)
FirstReply(s) == status[s] # "DONE"

(* Was this the last site to be done with?                                 *)
LastOne == remain = 1

(* recv_reply() of a multicast request that is still waited for; of one    *)
(* that is over, recv_old_reply acknowledges the frame.                    *)
recv_reply(s) ==
    LET f == Head(fromSite[s])
        over == FirstReply(s) /\ LastOne
    IN
    /\ s \in member /\ fromSite[s] # <<>> /\ f \in {"reply", "idem"}
    /\ fromSite' = [fromSite EXCEPT ![s] = Tail(@)]
    /\ toSite' = IF f = "reply" THEN [toSite EXCEPT ![s] = Append(@, "ack")]
                 ELSE toSite
    /\ IF Live /\ FirstReply(s)
       THEN /\ status' = [status EXCEPT ![s] = "DONE"]
            /\ noresp' = noresp - 1
            /\ remain' = remain - 1
       ELSE UNCHANGED <<status, noresp, remain>>
    /\ pc' = IF Live /\ over THEN "over" ELSE pc
    /\ timer' = IF Live /\ over THEN FALSE ELSE timer
    /\ UNCHANGED <<mode, repeatable, valid, next, serving, runs, member, dirty,
                   lost, failures>>

(* recv_slow_request(): s need not be asked again; the timer is stopped    *)
(* when nobody need be.  For a second such frame of s the code tests the   *)
(* variable stop_retry without having set it.                              *)
recv_slow_request(s) ==
    /\ s \in member /\ fromSite[s] # <<>> /\ Head(fromSite[s]) = "slow"
    /\ fromSite' = [fromSite EXCEPT ![s] = Tail(@)]
    /\ IF Live /\ status[s] # "SLOWOP"
       THEN /\ status' = [status EXCEPT ![s] = "SLOWOP"]
            /\ noresp' = noresp - 1
            /\ timer' = (timer /\ noresp - 1 > 0)
       ELSE /\ timer' \in {timer, timer /\ ~Live}
            /\ UNCHANGED <<status, noresp>>
    /\ UNCHANGED <<pc, mode, repeatable, valid, remain, next, toSite, serving,
                   runs, member, dirty, lost, failures>>
-----------------------------------------------------------------------------
(* A frame is lost.                                                        *)
Lose(s) ==
    /\ lost > 0
    /\ lost' = lost - 1
    /\ \/ /\ toSite[s] # <<>> /\ Took(s)
          /\ UNCHANGED fromSite
       \/ /\ fromSite[s] # <<>>
          /\ fromSite' = [fromSite EXCEPT ![s] = Tail(@)]
          /\ UNCHANGED toSite
    /\ UNCHANGED <<pc, mode, repeatable, list, next, timer, serving, runs,
                   member, dirty, failures>>

(* A site goes down and is declared failed; its frames are dropped.        *)
declare_failed(s) ==
    /\ s \in member
    /\ failures > 0
    /\ failures' = failures - 1
    /\ member' = member \ {s}
    /\ dirty' = dirty \cup {s}
    /\ toSite' = [toSite EXCEPT ![s] = <<>>]
    /\ fromSite' = [fromSite EXCEPT ![s] = <<>>]
    /\ UNCHANGED <<pc, mode, repeatable, list, next, timer, serving, runs, lost>>

\* Faulty: the sites whose reply is already there are counted again.
Bug_Everybody(s) == s \in valid

(* A failed site that the request still waits for.                         *)
StillAwaited(s) == s \in valid /\ status[s] \in {"SLOWOP", "NORESP"}

(* clean_u_entry(): a failed site is done with, and the request is over    *)
(* with the last one.                                                      *)
clean_u_entry(s) ==
    LET silent == status[s] = "NORESP" IN
    /\ s \in dirty
    /\ dirty' = dirty \ {s}
    /\ IF Live /\ StillAwaited(s)
       THEN /\ status' = [status EXCEPT ![s] = "DONE"]
            /\ remain' = remain - 1
            /\ noresp' = IF silent THEN noresp - 1 ELSE noresp
            /\ timer' = (timer /\ ~LastOne /\ ~(silent /\ noresp = 1))
            /\ pc' = IF LastOne THEN "over" ELSE pc
       ELSE UNCHANGED <<status, remain, noresp, timer, pc>>
    /\ UNCHANGED <<mode, repeatable, valid, next, toSite, fromSite, serving,
                   runs, member, lost, failures>>
-----------------------------------------------------------------------------
Next ==
    \/ net_request \/ send_clustercast \/ send_multisite \/ retry_request
    \/ \E s \in Sites: \/ recv_request(s) \/ net_reply(s) \/ retry_reply(s)
                       \/ recv_reply(s) \/ recv_slow_request(s)
                       \/ Lose(s) \/ declare_failed(s) \/ clean_u_entry(s)

Spec == Init /\ [][Next]_vars
-----------------------------------------------------------------------------
(* Every variable has its type; the counts do not go below zero.           *)
TypeOK ==
    /\ pc \in {"idle", "sending", "waiting", "over"}
    /\ mode \in {"DM_MULTISITE", "DM_CLUSTERCAST"}
    /\ repeatable \in BOOLEAN
    /\ status \in [Sites -> {"NORESP", "SLOWOP", "DONE"}]
    /\ valid \subseteq Sites
    /\ remain \in 0..NumSites
    /\ noresp \in -NumSites..NumSites
    /\ next \in 0..NumSites
    /\ timer \in BOOLEAN
    /\ toSite \in [Sites -> Seq({"request", "retry", "ack"})]
    /\ fromSite \in [Sites -> Seq({"reply", "idem", "slow"})]
    /\ serving \in [Sites -> {"none", "serving", "slow", "waitack"}]
    /\ runs \in [Sites -> 0..2]
    /\ member \subseteq Sites /\ dirty \subseteq Sites

Unfinished == {s \in valid: status[s] # "DONE"}

(* remain_sites is what dm.h says, the "no of sites that have not sent     *)
(* reply back", and the request is over exactly when there are none: it    *)
(* neither ends early nor is it waited for with everybody done.            *)
RemainExact ==
    /\ TypeOK
    /\ remain = Cardinality(Unfinished)
    /\ Live => remain > 0
    /\ pc = "over" => remain = 0

(* When the process goes on, every site that was a member when the request *)
(* was made has run it, or has failed.                                     *)
NotLeftOut == pc = "over" => \A s \in valid: runs[s] > 0 \/ s \notin member

(* Whatever is lost, a request that may not be repeated is run at most     *)
(* once by each site, also when a clustercast is repeated site by site.    *)
RunOnce == repeatable \/ \A s \in Sites: runs[s] <= 1

(* "Request retries take place in 2,3,4,5,5,5.... secs forever!": while    *)
(* the process waits, the timer is only stopped when every site has sent   *)
(* some response.                                                          *)
RetriesGoOn == pc = "waiting" /\ ~timer => Silent(1) = {}
=============================================================================
