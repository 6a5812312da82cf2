------------------------------ MODULE DuxWindow ------------------------------
(***************************************************************************)
(* The requesting side of dux/protocol.c towards several sites: the using  *)
(* array, which requests of all destinations share, and the sliding window *)
(* of each destination, through which at most dux_window_size requests are *)
(* outstanding while later ones hang on the site's req_waiting_Q, a list   *)
(* linked through the using entries themselves.  Sites fail, are cleaned   *)
(* up after and join the cluster again.                                    *)
(*                                                                         *)
(* DuxProto models what happens on the wire; here a request that was sent  *)
(* to a member may be answered, by a reply or by a "slow request" frame,   *)
(* and is sent again while its timer runs.  Interrupt routines and         *)
(* cleanup_using_array() are one action each; net_request() has the two    *)
(* places where its process may sleep, in get_using_array() and in         *)
(* dux_send().                                                             *)
(***************************************************************************)
EXTENDS Integers, FiniteSets

CONSTANTS Sites,        \* the other sites
          Calls,        \* requests, each made once; a call stands for its rid
          Dest,         \* Dest[c]: the site a call is for
          Urgent,       \* those with DM_URGENT, which no window holds back
          UsingSize,    \* using_array_size
          WindowSize,   \* dux_window_size
          MaxFailures,  \* bound: failures of sites
          NoCall

ASSUME WindowAssumption ==
    /\ Urgent \subseteq Calls
    /\ UsingSize \in Nat \ {0} /\ WindowSize \in Nat \ {0}
    /\ MaxFailures \in Nat
    /\ NoCall \notin Calls
    /\ Dest \in [Calls -> Sites]

Index == 1..UsingSize

VARIABLES call,      \* call[c]: its state and the index of its using entry
          entry,     \* using_array[]
          site,      \* what clustab[] says of each site
          asked,     \* requests of which a frame has been sent
          timers,    \* requests whose retry_request timeout is pending
          failures   \* failures still to come

vars == <<call, entry, site, asked, timers, failures>>

(* idle; asleep in get_using_array(); in dux_send(); waiting for the reply *)
(* (dm_wait()); over.                                                      *)
CallState == {"idle", "get", "send", "wait", "over"}

Call == [st: CallState, index: 0..UsingSize]

Entry == [rid: Calls \cup {NoCall},
          used: BOOLEAN,        \* U_USED
          outside: BOOLEAN,     \* U_OUTSIDE_WINDOW
          counted: BOOLEAN,     \* U_COUNTED
          next: 0..UsingSize]   \* req_waiting_next

SiteEntry == [status: {"member", "failed", "inactive"},
              count: 0..WindowSize,                     \* req_count
              head: 0..UsingSize, tail: 0..UsingSize]   \* req_waiting_Q

FreeEntry == [rid |-> NoCall, used |-> FALSE, outside |-> FALSE,
              counted |-> FALSE, next |-> 0]

Init ==
    /\ call = [c \in Calls |-> [st |-> "idle", index |-> 0]]
    /\ entry = [i \in Index |-> FreeEntry]
    /\ site = [s \in Sites |-> [status |-> "member", count |-> 0,
                                head |-> 0, tail |-> 0]]
    /\ asked = {} /\ timers = {}
    /\ failures = MaxFailures

IsMember(s) == site[s].status = "member"     \* CL_IS_MEMBER

(* The entry of a request: retry_request() looks for its rid, an answer    *)
(* carries the index and is compared with the rid.                         *)
EntryOf(c) == {i \in Index: entry[i].used /\ entry[i].rid = c}
-----------------------------------------------------------------------------
(* get_using_array() gives the first free entry.                           *)
NoneFree == \A i \in Index: entry[i].used
FirstFree == CHOOSE i \in Index: /\ ~entry[i].used
                                 /\ \A j \in 1..i - 1: entry[j].used

\* Faulty: the last one on the queue is not linked to the new one.
Bug_NotLinked(s, i) == entry

(* The request hangs itself behind the last one on the queue.              *)
Linked(s, i) == IF site[s].head # 0
                THEN [entry EXCEPT ![site[s].tail].next = i]
                ELSE entry

(* Room for one more request in the window of s.                           *)
WindowOpen(s) == site[s].count < WindowSize

(* The rest of net_request(c) once there is an entry: the request is sent  *)
(* if the window is open or does not concern it, and queued otherwise.     *)
GoOn(c) ==
    LET s == Dest[c]
        i == FirstFree
        new == [FreeEntry EXCEPT !.used = TRUE, !.rid = c]
        Now(st) == call' = [call EXCEPT ![c] = [st |-> st, index |-> i]]
    IN
    \/ /\ c \in Urgent
       /\ entry' = [entry EXCEPT ![i] = new]
       /\ Now("send")
       /\ UNCHANGED site
    \/ /\ c \notin Urgent
       /\ WindowOpen(s)
       /\ entry' = [entry EXCEPT ![i] = [new EXCEPT !.counted = TRUE]]
       /\ site' = [site EXCEPT ![s].count = @ + 1]
       /\ Now("send")
    \/ /\ c \notin Urgent
       /\ ~WindowOpen(s)
       /\ entry' = [Linked(s, i) EXCEPT ![i] = [new EXCEPT !.outside = TRUE]]
       /\ site' = [site EXCEPT ![s].head = IF @ = 0 THEN i ELSE @,
                               ![s].tail = i]
       /\ Now("wait")

(* net_request(): the destination is no member; there is no entry and the  *)
(* process goes to sleep in get_using_array(); or the request goes on.     *)
net_request(c) ==
    /\ call[c].st = "idle"
    /\ \/ /\ ~IsMember(Dest[c])
          /\ call' = [call EXCEPT ![c].st = "over"]
          /\ UNCHANGED <<entry, site>>
       \/ /\ IsMember(Dest[c])
          /\ NoneFree
          /\ call' = [call EXCEPT ![c].st = "get"]
          /\ UNCHANGED <<entry, site>>
       \/ /\ IsMember(Dest[c])
          /\ ~NoneFree
          /\ GoOn(c)
    /\ UNCHANGED <<asked, timers, failures>>

(* get_using_array() after a wakeup: whether the destination is still a    *)
(* member is not asked again.                                              *)
get_using_array(c) ==
    /\ call[c].st = "get"
    /\ ~NoneFree
    /\ GoOn(c)
    /\ UNCHANGED <<asked, timers, failures>>

(* dux_send() of the process has sent the whole request.  It starts the    *)
(* timer for the rid it finds in the using entry.                          *)
dux_send(c) ==
    LET rid == entry[call[c].index].rid IN
    /\ call[c].st = "send"
    /\ asked' = asked \cup {c}
    /\ timers' = IF rid = NoCall THEN timers ELSE timers \cup {rid}
    /\ call' = [call EXCEPT ![c].st = IF rid = c THEN "wait" ELSE "over"]
    /\ UNCHANGED <<entry, site, failures>>

(* retry_request(): sent again if the entry is still there.                *)
retry_request(c) ==
    /\ c \in timers
    /\ asked' = IF EntryOf(c) # {} THEN asked \cup {c} ELSE asked
    /\ timers' = IF EntryOf(c) # {} THEN timers ELSE timers \ {c}
    /\ UNCHANGED <<call, entry, site, failures>>
-----------------------------------------------------------------------------
(* The queue of a site, as the entries lie on it: Queue(s)[1] is its head. *)
Queue(s) ==
    LET at[n \in Index] ==
            IF n = 1 THEN site[s].head
            ELSE IF at[n - 1] = 0 THEN 0 ELSE entry[at[n - 1]].next
    IN  at

\* Faulty: the window is opened, but nobody is let in.
Bug_Nobody(s) == {}

(* What check_protocol_window() takes off the queue of s: with one request *)
(* less in the window, as many as the window then has room for.            *)
Admitted(s) ==
    IF IsMember(s) /\ site[s].count # 0
    THEN {n \in 1..WindowSize - site[s].count + 1:
            n \in Index /\ Queue(s)[n] # 0}
    ELSE {}

(* check_protocol_window(s), and what becomes of entry i, whose request is *)
(* no longer counted in the window.                                        *)
WindowOpens(s, i, left) ==
    LET n == Cardinality(Admitted(s))
        in == {Queue(s)[k]: k \in Admitted(s)}
        rest == IF n < UsingSize /\ n > 0 THEN Queue(s)[n + 1]
                ELSE IF n = 0 THEN site[s].head ELSE 0
    IN
    /\ entry' = [j \in Index |->
                   IF j = i THEN left
                   ELSE IF j \in in
                        THEN [entry[j] EXCEPT !.outside = FALSE,
                                              !.counted = TRUE, !.next = 0]
                        ELSE entry[j]]
    /\ site' = IF IsMember(s) /\ site[s].count # 0
               THEN [site EXCEPT ![s].count = @ - 1 + n, ![s].head = rest,
                                 ![s].tail = IF rest = 0 THEN 0 ELSE @]
               ELSE site
    /\ asked' = asked \cup {entry[j].rid: j \in in}

(* The requests let in are sent, and their timers started.                 *)
Sent(s) == {entry[Queue(s)[k]].rid: k \in Admitted(s)}

(* recv_reply(): the entry is freed, the window opens if it was counted.   *)
(* The call is over once its process is through with dux_send().           *)
Returned(c) == IF call[c].st = "wait" THEN "over" ELSE call[c].st

recv_reply(c) ==
    LET s == Dest[c] IN
    /\ c \in asked
    /\ IsMember(s)
    /\ \E i \in EntryOf(c):
         \/ /\ entry[i].counted
            /\ WindowOpens(s, i, FreeEntry)
            /\ timers' = (timers \ {c}) \cup Sent(s)
         \/ /\ ~entry[i].counted
            /\ entry' = [entry EXCEPT ![i] = FreeEntry]
            /\ timers' = timers \ {c}
            /\ UNCHANGED <<site, asked>>
    /\ call' = [call EXCEPT ![c].st = Returned(c)]
    /\ UNCHANGED failures

(* recv_slow_request(): no more retries, and the window opens.             *)
recv_slow_request(c) ==
    LET s == Dest[c] IN
    /\ c \in asked
    /\ IsMember(s)
    /\ \E i \in EntryOf(c):
         \/ /\ entry[i].counted
            /\ WindowOpens(s, i, [entry[i] EXCEPT !.counted = FALSE])
            /\ timers' = (timers \ {c}) \cup Sent(s)
         \/ /\ ~entry[i].counted
            /\ timers' = timers \ {c}
            /\ UNCHANGED <<entry, site, asked>>
    /\ UNCHANGED <<call, failures>>
-----------------------------------------------------------------------------
(* declare_failed(): the site is no member any more.                       *)
declare_failed(s) ==
    /\ IsMember(s)
    /\ failures > 0
    /\ failures' = failures - 1
    /\ site' = [site EXCEPT ![s].status = "failed"]
    /\ UNCHANGED <<call, entry, asked, timers>>

\* Faulty: requests that were never sent are passed over.
Bug_OnlySent(s) == {c \in Calls: Dest[c] = s /\ EntryOf(c) # {} /\ c \in asked}

(* clean_u_entry(): the calls whose entries cleanup_using_array() frees.   *)
clean_u_entry(s) == {c \in Calls: Dest[c] = s /\ EntryOf(c) # {}}

(* cleanup_using_array(), then the rest of the cleanup.                    *)
cleanup_using_array(s) ==
    LET lost == clean_u_entry(s) IN
    /\ site[s].status = "failed"
    /\ site' = [site EXCEPT ![s].status = "inactive"]
    /\ entry' = [i \in Index |-> IF entry[i].rid \in lost THEN FreeEntry
                                 ELSE entry[i]]
    /\ timers' = timers \ lost
    /\ call' = [c \in Calls |-> IF c \in lost
                                THEN [call[c] EXCEPT !.st = Returned(c)]
                                ELSE call[c]]
    /\ UNCHANGED <<asked, failures>>

\* Faulty: the window of a site that joins again is what it was.
Bug_OldWindow(s) ==
    /\ site[s].status = "inactive"
    /\ site' = [site EXCEPT ![s].status = "member"]
    /\ UNCHANGED <<call, entry, asked, timers, failures>>

(* add_site(): the site joins again, with an empty window.                 *)
add_site(s) ==
    /\ site[s].status = "inactive"
    /\ site' = [site EXCEPT ![s] = [status |-> "member", count |-> 0,
                                    head |-> 0, tail |-> 0]]
    /\ UNCHANGED <<call, entry, asked, timers, failures>>
-----------------------------------------------------------------------------
(* Nobody on his way to s sleeps inside net_request().                     *)
NobodyInside(s) ==
    \A c \in Calls: Dest[c] = s => call[c].st \notin {"get", "send"}

Step ==
    \/ \E c \in Calls: \/ net_request(c)
                       \/ get_using_array(c)
                       \/ dux_send(c)
                       \/ retry_request(c)
                       \/ recv_reply(c)
                       \/ recv_slow_request(c)
    \/ \E s \in Sites: cleanup_using_array(s) \/ add_site(s)

Next == Step \/ \E s \in Sites: NobodyInside(s) /\ declare_failed(s)

(* Processes go on when they can, timeouts expire, members answer the      *)
(* requests they get, and failed sites are cleaned up after.               *)
Fairness ==
    /\ \A c \in Calls: /\ WF_vars(get_using_array(c)) /\ WF_vars(dux_send(c))
                       /\ WF_vars(recv_reply(c))
    /\ \A s \in Sites: WF_vars(cleanup_using_array(s))

(* Sites fail, but not while somebody is inside net_request() for them.    *)
Spec == Init /\ [][Next]_vars /\ Fairness

(* Sites fail at any time.                                                 *)
FailSpec == Init /\ [][Step \/ \E s \in Sites: declare_failed(s)]_vars
-----------------------------------------------------------------------------
(* Every variable has its type.                                            *)
TypeOK ==
    /\ call \in [Calls -> Call]
    /\ entry \in [Index -> Entry]
    /\ site \in [Sites -> SiteEntry]
    /\ asked \subseteq Calls /\ timers \subseteq Calls
    /\ failures \in 0..MaxFailures

Outside(s) == {i \in Index: entry[i].outside /\ Dest[entry[i].rid] = s}

(* The queue of a member is what check_protocol_window() takes it for: its *)
(* links lead through exactly the entries that wait outside the window of  *)
(* this site, each once, and end at the tail.                              *)
QueueSound ==
    \A s \in Sites: IsMember(s) =>
        LET on == {n \in Index: Queue(s)[n] # 0} IN
        /\ {Queue(s)[n]: n \in on} = Outside(s)
        /\ Cardinality(on) = Cardinality(Outside(s))
        /\ site[s].tail = IF on = {} THEN 0 ELSE Queue(s)[Cardinality(on)]

Counted(s) == {i \in Index: entry[i].counted /\ Dest[entry[i].rid] = s}

(* req_count of a member is the number of its requests counted in the      *)
(* window, at most dux_window_size, and nobody waits outside a window that *)
(* is open.                                                                *)
WindowExact ==
    /\ TypeOK
    /\ \A s \in Sites: IsMember(s) =>
          /\ site[s].count = Cardinality(Counted(s))
          /\ site[s].count <= WindowSize
          /\ site[s].head # 0 => site[s].count = WindowSize

(* The panics of check_protocol_window(), "Empty req in protocol window Q" *)
(* and "Bad req in protocol window Q", and that of free_using_entry(),     *)
(* "Freeing using entry that's in proto window queue", are not about to    *)
(* happen.                                                                 *)
NoPanic ==
    /\ \A s \in Sites: IsMember(s) /\ site[s].head # 0 =>
          entry[site[s].head].used /\ entry[site[s].head].outside
    /\ \A c \in asked: \A i \in EntryOf(c):
          entry[i].outside => ~IsMember(Dest[c])

(* Nobody waits for ever: neither for an entry of the using array, nor     *)
(* outside the window, nor for a site that failed.                         *)
Served == \A c \in Calls: call[c].st \in {"get", "wait"} ~> call[c].st = "over"
=============================================================================
