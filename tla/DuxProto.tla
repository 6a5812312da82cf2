------------------------------ MODULE DuxProto ------------------------------
(***************************************************************************)
(* The transport protocol of the diskless cluster, dux/protocol.c as it is *)
(* built for the series 700 and 800: one requesting site, one serving      *)
(* site, and a LAN between them that loses frames and delivers some of     *)
(* them twice.                                                             *)
(*                                                                         *)
(* A request is sent in parts, its last one starts the retry timer, and    *)
(* every retry sends all of it.  The serving site gathers the parts in an  *)
(* entry of serving_array[], has an NSP run the request, and sends the     *)
(* reply.  A repeatable ("idempotent") request leaves no trace once its    *)
(* reply is sent.  Any other reply is sent again until it is acknowledged, *)
(* and its entry is what lets the site recognise a retry of the request it *)
(* has already run.  A retry that finds its request still being served is  *)
(* answered by a "slow request" frame, after which the requester stops     *)
(* retrying for good and relies on the serving site.                       *)
(*                                                                         *)
(* The receiving routines run under the network interrupt, the retries at  *)
(* spl_arrays() or splimp(): each is one action.  A process may sleep in   *)
(* dux_send() between two parts, so the first sending of a message is one  *)
(* action per part; the last part and what follows it are sent at spl5().  *)
(*                                                                         *)
(* A request id stands for its call: dux_rid never gives one twice.  The   *)
(* window, the using array at its limit and failed sites are the subject   *)
(* of DuxWindow, requests to several sites that of DuxMulti.  Not          *)
(* modelled: data buffers that the LAN driver still holds                  *)
(* (B2_DUXCANTFREE), which only put a retry or a release off.              *)
(***************************************************************************)
EXTENDS Integers, Sequences

CONSTANTS Calls,         \* the requests made, each once
          Repeatable,    \* those whose dm_flags have DM_REPEATABLE
          ReqParts,      \* frames of a request
          RepParts,      \* frames of a reply
          ServingSize,   \* serving_array_size
          MaxNet,        \* bound: frames on their way when a retry adds some
          MaxFaults,     \* bound: lost or doubled frames and lacking buffers
          NoCall         \* the call of an entry that is not in use

ASSUME ProtoAssumption ==
    /\ Repeatable \subseteq Calls
    /\ NoCall \notin Calls
    /\ ReqParts \in Nat \ {0} /\ RepParts \in Nat \ {0}
    /\ ServingSize \in Nat \ {0}
    /\ MaxNet \in Nat /\ MaxFaults \in Nat

Slots == 1..ServingSize

VARIABLES using,      \* the requester's using_array[] entries and timers, by call
          serving,    \* the serving site's serving_array[]
          toServer,   \* frames on their way to the serving site, oldest first
          toClient,   \* frames on their way to the requesting site
          choked,     \* flow control: nak_time of the serving site lies ahead
          runs,       \* how often each call was run (2: twice or more)
          faults      \* faults still to come

vars == <<using, serving, toServer, toClient, choked, runs, faults>>

UsingState == {"idle", "sending", "waiting", "done"}

ServingState == {"NOT_ACTIVE", "RECVING_REQUEST", "SERVING", "SENDING_REPLY",
                 "WAITING_ACK", "ACK_RECEIVED"}

UsingEntry == [st: UsingState,
               sent: 0..ReqParts,     \* parts sent by the first dux_send()
               retried: BOOLEAN,      \* no_retried # 0
               timer: BOOLEAN,        \* retry_request is due
               got: 0..RepParts]      \* byte_recved, in parts

ServingEntry == [state: ServingState,
                 call: Calls \cup {NoCall},   \* rid
                 got: 0..ReqParts,    \* byte_recved, in parts
                 slow: BOOLEAN,       \* S_SLOW_REQUEST
                 sent: 0..RepParts,   \* parts sent by net_reply()'s dux_send()
                 old: BOOLEAN]        \* time_stamp is ten minutes back

(* P_REQUEST frames carry p_retry_cnt # 0 and p_seqno; of the latter all   *)
(* that badseq() can tell is whether this or a later one has been seen.    *)
Request == [type: {"request"}, call: Calls, part: 0..ReqParts - 1,
            retry: BOOLEAN, seen: BOOLEAN]
Ack == [type: {"ack"}, call: Calls, slot: Slots]
Reply == [type: {"reply"}, call: Calls, part: 0..RepParts - 1,
          idem: BOOLEAN, slot: Slots]
Slow == [type: {"slow"}, call: Calls]
Nak == [type: {"nak"}]

NoEntry == [state |-> "NOT_ACTIVE", call |-> NoCall, got |-> 0,
            slow |-> FALSE, sent |-> 0, old |-> FALSE]

Init ==
    /\ using = [c \in Calls |-> [st |-> "idle", sent |-> 0, retried |-> FALSE,
                                 timer |-> FALSE, got |-> 0]]
    /\ serving = [i \in Slots |-> NoEntry]
    /\ toServer = <<>> /\ toClient = <<>>
    /\ choked = FALSE
    /\ runs = [c \in Calls |-> 0]
    /\ faults = MaxFaults
-----------------------------------------------------------------------------
(* The requesting site: sending.                                           *)

RequestFrame(c, p, r) == [type |-> "request", call |-> c, part |-> p,
                          retry |-> r, seen |-> FALSE]

(* net_request(): the using entry is set up and dux_send() begins.         *)
net_request(c) ==
    /\ using[c].st = "idle"
    /\ using' = [using EXCEPT ![c].st = "sending"]
    /\ UNCHANGED <<serving, toServer, toClient, choked, runs, faults>>

(* dux_send() of a process: the next part, unless flow control delays it.  *)
(* The last part starts the retry timer.                                   *)
dux_send(c) ==
    LET last == using[c].sent = ReqParts - 1 IN
    /\ using[c].st = "sending"
    /\ ~choked
    /\ toServer' = Append(toServer, RequestFrame(c, using[c].sent, FALSE))
    /\ using' = [using EXCEPT ![c].sent = IF last THEN 0 ELSE @ + 1,
                              ![c].st = IF last THEN "waiting" ELSE @,
                              ![c].timer = last]
    /\ UNCHANGED <<serving, toClient, choked, runs, faults>>

(* retry_request(): all parts at once, under interrupt.  Under flow        *)
(* control dux_send() escapes at once; either way the timer is restarted.  *)
retry_request(c) ==
    /\ using[c].timer
    /\ Len(toServer \o toClient) <= MaxNet
    /\ using' = [using EXCEPT ![c].retried = TRUE]
    /\ toServer' = IF choked THEN toServer
                   ELSE toServer \o [p \in 1..ReqParts |->
                                        RequestFrame(c, p - 1, TRUE)]
    /\ UNCHANGED <<serving, toClient, choked, runs, faults>>
-----------------------------------------------------------------------------
(* The requesting site: receiving the frame f.                             *)

AckFrame(f) == [type |-> "ack", call |-> f.call, slot |-> f.slot]

\* Faulty: a reply that is not expected is just dropped.
Bug_NoSecondAck(f) ==
    /\ f.type = "reply"
    /\ using[f.call].st # "waiting"
    /\ UNCHANGED <<using, serving, toServer, choked, runs>>

(* recv_reply(), a reply nobody waits for, or not any more.                *)
recv_old_reply(f) ==
    /\ f.type = "reply"
    /\ using[f.call].st # "waiting"
    /\ toServer' = IF f.idem THEN toServer ELSE Append(toServer, AckFrame(f))
    /\ UNCHANGED <<using, serving, choked, runs>>

(* recv_reply(), a part that is not the one expected.                      *)
recv_other_part(f) ==
    /\ f.type = "reply"
    /\ using[f.call].st = "waiting"
    /\ f.part # using[f.call].got
    /\ UNCHANGED <<using, serving, toServer, choked, runs>>

(* recv_reply(), the expected part.  The last one stops the retries, is    *)
(* acknowledged unless idempotent, and ends the call.                      *)
recv_reply(f) ==
    LET last == f.part = RepParts - 1 IN
    /\ f.type = "reply"
    /\ using[f.call].st = "waiting"
    /\ f.part = using[f.call].got
    /\ using' = [using EXCEPT
                   ![f.call].got = IF last THEN 0 ELSE @ + 1,
                   ![f.call].st = IF last THEN "done" ELSE @,
                   ![f.call].timer = @ /\ ~last,
                   ![f.call].retried = @ /\ ~last]
    /\ toServer' = IF last /\ ~f.idem THEN Append(toServer, AckFrame(f))
                   ELSE toServer
    /\ UNCHANGED <<serving, choked, runs>>

(* recv_slow_request(): no more retries of a request still waiting.        *)
recv_slow_request(f) ==
    /\ f.type = "slow"
    /\ using' = [using EXCEPT ![f.call].timer = FALSE]
    /\ UNCHANGED <<serving, toServer, choked, runs>>

(* recv_nak_msg(): requests to the site are held back for a while.         *)
recv_nak_msg(f) ==
    /\ f.type = "nak"
    /\ choked' = TRUE
    /\ UNCHANGED <<using, serving, toServer, runs>>

(* The choke period passes: flow_control() lets requests through again.    *)
flow_control ==
    /\ choked
    /\ choked' = FALSE
    /\ UNCHANGED <<using, serving, toServer, toClient, runs, faults>>
-----------------------------------------------------------------------------
(* The serving site: receiving a request.                                  *)

\* Faulty: sequence numbers are not looked at.
Bug_NoSequence(f) == FALSE

(* badseq(): the frame, or a later one, has been received before.          *)
badseq(f) == f.seen

(* locate_serving_array(): the entry of the frame's request.               *)
locate_serving_array(f) == {i \in Slots: serving[i].state # "NOT_ACTIVE"
                                           /\ serving[i].call = f.call}

(* The first frame of a first sending is new without a search.             *)
Located(f) == IF f.part = 0 /\ ~f.retry THEN {} ELSE locate_serving_array(f)

FreeSlots == {i \in Slots: serving[i].state = "NOT_ACTIVE"}

\* Faulty: nothing is ever removed.
Bug_KeepsOld == {}

(* remove_old_serving_entries(): the retry of an idempotent request whose  *)
(* rest was lost, after the reply, is in nobody's interest any more.       *)
OldEntries == {i \in Slots: /\ serving[i].state = "RECVING_REQUEST"
                            /\ serving[i].call \in Repeatable
                            /\ serving[i].old}

(* get_serving_array(): the array as it leaves it, and the entry it gives: *)
(* the first free one, or the last of the old ones.                        *)
get_serving_array ==
    IF FreeSlots # {}
    THEN [array |-> serving, slots |-> {CHOOSE i \in FreeSlots:
                                          \A j \in FreeSlots: i <= j}]
    ELSE [array |-> [i \in Slots |-> IF i \in OldEntries THEN NoEntry
                                     ELSE serving[i]],
          slots |-> {i \in OldEntries: \A j \in OldEntries: j <= i}]

(* The state of an entry that has n parts of its request.                  *)
Gathered(n) == IF n = ReqParts THEN "SERVING" ELSE "RECVING_REQUEST"

(* A frame the site has seen, a part that is not the next one, one whose   *)
(* beginning was lost, or a retry of what has already been run.            *)
Unwanted(f) ==
    \/ badseq(f)
    \/ /\ Located(f) = {}
       /\ f.part # 0
    \/ \E i \in Located(f):
          \/ serving[i].state = "RECVING_REQUEST" /\ f.part # serving[i].got
          \/ serving[i].state \in {"SENDING_REPLY", "WAITING_ACK", "ACK_RECEIVED"}

recv_request_drop(f) ==
    /\ f.type = "request"
    /\ Unwanted(f)
    /\ UNCHANGED <<using, serving, toClient, choked, runs>>

(* The next part of a request that is being received.                      *)
recv_request_part(f) ==
    /\ f.type = "request"
    /\ ~badseq(f)
    /\ \E i \in Located(f):
         /\ serving[i].state = "RECVING_REQUEST"
         /\ f.part = serving[i].got
         /\ serving' = [serving EXCEPT ![i].got = @ + 1,
                                       ![i].state = Gathered(f.part + 1),
                                       ![i].old = FALSE]
    /\ UNCHANGED <<using, toClient, choked, runs>>

(* net_slow_request(): a retry of a request that is being served.          *)
recv_request_slow(f) ==
    /\ f.type = "request"
    /\ ~badseq(f)
    /\ \E i \in Located(f):
         /\ serving[i].state = "SERVING"
         /\ serving' = [serving EXCEPT ![i].slow = TRUE]
    /\ toClient' = Append(toClient, [type |-> "slow", call |-> f.call])
    /\ UNCHANGED <<using, choked, runs>>

(* A new request that finds no mbuf or no buffer is answered by a NAK.     *)
recv_request_nak(f) ==
    /\ f.type = "request"
    /\ ~badseq(f)
    /\ Located(f) = {} /\ f.part = 0
    /\ toClient' = Append(toClient, [type |-> "nak"])
    /\ UNCHANGED <<using, serving, choked, runs>>

(* A new request gets an entry of the serving array, or is dropped without *)
(* a NAK when there is none.                                               *)
recv_request_new(f) ==
    LET got == get_serving_array IN
    /\ f.type = "request"
    /\ ~badseq(f)
    /\ Located(f) = {} /\ f.part = 0
    /\ serving' = [i \in Slots |->
                     IF i \in got.slots
                     THEN [NoEntry EXCEPT !.state = Gathered(1),
                                          !.call = f.call, !.got = 1]
                     ELSE got.array[i]]
    /\ UNCHANGED <<using, toClient, choked, runs>>

(* Ten minutes pass over a request that is only partly received.           *)
GrowOld(i) ==
    /\ serving[i].state = "RECVING_REQUEST"
    /\ ~serving[i].old
    /\ serving' = [serving EXCEPT ![i].old = TRUE]
    /\ UNCHANGED <<using, toServer, toClient, choked, runs, faults>>
-----------------------------------------------------------------------------
(* The serving site: replying.                                             *)

(* The NSP has run the request and calls net_reply().                      *)
net_reply(i) ==
    /\ serving[i].state = "SERVING"
    /\ serving' = [serving EXCEPT ![i].state = "SENDING_REPLY"]
    /\ runs' = [runs EXCEPT ![serving[i].call] = IF @ = 0 THEN 1 ELSE 2]
    /\ UNCHANGED <<using, toServer, toClient, choked, faults>>

\* Faulty: slow requests are not told apart.
Bug_SlowForgotten(i) == serving[i].call \in Repeatable

(* A reply is idempotent if its request is and was not slow.               *)
IdemReply(i) == serving[i].call \in Repeatable /\ ~serving[i].slow

ReplyFrame(i, p) == [type |-> "reply", call |-> serving[i].call, part |-> p,
                     idem |-> IdemReply(i), slot |-> i]

(* What dux_send() makes of the entry after the last part of a reply.      *)
AfterReply(i) ==
    IF IdemReply(i) \/ serving[i].state = "ACK_RECEIVED"
    THEN NoEntry
    ELSE [serving[i] EXCEPT !.state = "WAITING_ACK", !.sent = 0]

(* dux_send() of the NSP: the next part.                                   *)
dux_send_reply(i) ==
    /\ serving[i].state \in {"SENDING_REPLY", "ACK_RECEIVED"}
    /\ toClient' = Append(toClient, ReplyFrame(i, serving[i].sent))
    /\ serving' = [serving EXCEPT
                     ![i] = IF @.sent = RepParts - 1 THEN AfterReply(i)
                            ELSE [@ EXCEPT !.sent = serving[i].sent + 1]]
    /\ UNCHANGED <<using, toServer, choked, runs, faults>>

(* retry_reply(): the whole reply again, every half second.                *)
retry_reply(i) ==
    /\ serving[i].state = "WAITING_ACK"
    /\ Len(toServer \o toClient) <= MaxNet
    /\ toClient' = toClient \o [p \in 1..RepParts |-> ReplyFrame(i, p - 1)]
    /\ UNCHANGED <<using, serving, toServer, choked, runs, faults>>

\* Faulty: the rid is not compared.
Bug_AnyRid(f) == serving[f.slot].state = "NOT_ACTIVE"

(* recv_ack(): the acknowledgement of an entry that is free or has another *)
(* request by now is ignored; one that comes while the reply is being sent *)
(* leaves it to dux_send() to free the entry.  Any other state is a panic, *)
(* "bad serving_array state".                                              *)
AckIsOld(f) == \/ serving[f.slot].state = "NOT_ACTIVE"
               \/ serving[f.slot].call # f.call

recv_ack(f) ==
    /\ f.type = "ack"
    /\ \/ /\ AckIsOld(f)
          /\ UNCHANGED serving
       \/ /\ ~AckIsOld(f)
          /\ serving[f.slot].state = "WAITING_ACK"
          /\ serving' = [serving EXCEPT ![f.slot] = NoEntry]
       \/ /\ ~AckIsOld(f)
          /\ serving[f.slot].state \in {"SENDING_REPLY", "ACK_RECEIVED"}
          /\ serving' = [serving EXCEPT ![f.slot].state = "ACK_RECEIVED"]
    /\ UNCHANGED <<using, toClient, choked, runs>>
-----------------------------------------------------------------------------
(* The network.  The frames of one direction arrive in the order they were *)
(* sent; one that arrives may arrive again, after all that are now on      *)
(* their way.  badseq() knows the second of two request frames.            *)

AtServer(f) == \/ recv_request_drop(f)
               \/ recv_request_part(f)
               \/ recv_request_slow(f)
               \/ recv_request_new(f)
               \/ recv_ack(f)

AtClient(f) == \/ recv_old_reply(f)
               \/ recv_other_part(f)
               \/ recv_reply(f)
               \/ recv_slow_request(f)
               \/ recv_nak_msg(f)

Copy(f) == IF f.type = "request" THEN [f EXCEPT !.seen = TRUE] ELSE f

Fault == /\ faults > 0
         /\ faults' = faults - 1

(* dux_recv_routines() at the serving site.                                *)
DeliverToServer ==
    /\ toServer # <<>>
    /\ AtServer(Head(toServer))
    /\ toServer' = Tail(toServer)
    /\ UNCHANGED faults

DeliverToServerTwice ==
    /\ toServer # <<>>
    /\ AtServer(Head(toServer))
    /\ toServer' = Append(Tail(toServer), Copy(Head(toServer)))
    /\ Fault

NoBuffers ==
    /\ toServer # <<>>
    /\ recv_request_nak(Head(toServer))
    /\ toServer' = Tail(toServer)
    /\ Fault

(* dux_recv_routines() at the requesting site.                             *)
DeliverToClient ==
    /\ toClient # <<>>
    /\ AtClient(Head(toClient))
    /\ toClient' = Tail(toClient)
    /\ UNCHANGED faults

DeliverToClientTwice ==
    /\ toClient # <<>>
    /\ AtClient(Head(toClient))
    /\ toClient' = Append(Tail(toClient), Copy(Head(toClient)))
    /\ Fault

Lose ==
    /\ Fault
    /\ \/ /\ toServer # <<>>
          /\ toServer' = Tail(toServer)
          /\ UNCHANGED toClient
       \/ /\ toClient # <<>>
          /\ toClient' = Tail(toClient)
          /\ UNCHANGED toServer
    /\ UNCHANGED <<using, serving, choked, runs>>
-----------------------------------------------------------------------------
Next ==
    \/ \E c \in Calls: net_request(c) \/ dux_send(c) \/ retry_request(c)
    \/ \E i \in Slots: \/ net_reply(i) \/ dux_send_reply(i)
                       \/ retry_reply(i) \/ GrowOld(i)
    \/ flow_control
    \/ DeliverToServer \/ DeliverToServerTwice \/ NoBuffers
    \/ DeliverToClient \/ DeliverToClientTwice
    \/ Lose

(* cleanup_serving_array(), run at the serving site for some other site    *)
(* that crashed: of the entries of the requester, which is alive, those in *)
(* SENDING_REPLY are changed all the same.                                 *)
cleanup_serving_array ==
    /\ serving' = [i \in Slots |->
                     IF serving[i].state = "SENDING_REPLY"
                     THEN [serving[i] EXCEPT !.state = "ACK_RECEIVED"]
                     ELSE serving[i]]
    /\ UNCHANGED <<using, toServer, toClient, choked, runs, faults>>

(* Frames that are not lost arrive, timeouts expire, processes that are    *)
(* not asleep go on, an NSP ends its request; the faults are finitely many.*)
(* The fairness of the two timeouts is strong because of MaxNet, a bound   *)
(* of the model that other frames may reach time and again.                *)
Fairness ==
    /\ \A c \in Calls: WF_vars(dux_send(c)) /\ SF_vars(retry_request(c))
    /\ \A i \in Slots: /\ WF_vars(net_reply(i)) /\ WF_vars(dux_send_reply(i))
                       /\ SF_vars(retry_reply(i)) /\ WF_vars(GrowOld(i))
    /\ WF_vars(flow_control)
    /\ WF_vars(DeliverToServer) /\ WF_vars(DeliverToClient)

Spec == Init /\ [][Next]_vars /\ Fairness

(* The same, in a cluster where another site crashes.                      *)
CrashSpec == Init /\ [][Next \/ cleanup_serving_array]_vars
-----------------------------------------------------------------------------
(* Every variable has its type.                                            *)
TypeOK ==
    /\ using \in [Calls -> UsingEntry]
    /\ serving \in [Slots -> ServingEntry]
    /\ toServer \in Seq(Request \cup Ack)
    /\ toClient \in Seq(Reply \cup Slow \cup Nak)
    /\ choked \in BOOLEAN
    /\ runs \in [Calls -> 0..2]
    /\ faults \in 0..MaxFaults

(* recv_ack() never meets the acknowledgement of an entry in a state       *)
(* other than those it handles: it would panic ("recv_ack: bad             *)
(* serving_array state").  No frame names an entry or a part there is not. *)
NoAckPanic ==
    /\ TypeOK
    /\ toServer # <<>> /\ Head(toServer).type = "ack" =>
          \/ AckIsOld(Head(toServer))
          \/ serving[Head(toServer).slot].state
                \in {"WAITING_ACK", "SENDING_REPLY", "ACK_RECEIVED"}

(* A requester that recv_slow_request() has stopped from retrying is not   *)
(* forgotten: the serving site still holds its request and will send, or   *)
(* keep sending, the reply.                                                *)
SlowIsServed ==
    \A c \in Calls:
        using[c].st = "waiting" /\ ~using[c].timer =>
            \E i \in Slots: /\ serving[i].call = c
                            /\ serving[i].state \in {"SERVING", "SENDING_REPLY",
                                                     "WAITING_ACK"}

(* A request that is not repeatable is run at most once: its retries are   *)
(* recognised as long as the requester may send one.                       *)
AtMostOnce == \A c \in Calls \ Repeatable: runs[c] <= 1

Phase == [c \in Calls |-> IF using[c].st \in {"sending", "waiting"}
                          THEN "called" ELSE using[c].st]

Abstract == INSTANCE RemoteCall WITH phase <- Phase

(* The protocol implements RemoteCall: a request that is not repeatable is *)
(* run once, whatever is lost, doubled or retried, and a process gets a     *)
(* reply only of a request that was run.                                   *)
Implements == Abstract!Spec

(* Every call gets its reply: the retries of the request, or after a slow  *)
(* request those of the reply, overcome every loss.                        *)
Completes == \A c \in Calls: using[c].st = "waiting" ~> using[c].st = "done"

(* No reply is kept for ever: the acknowledgement comes, by the answer of  *)
(* recv_reply() to a reply it no longer knows if need be, and the entry is *)
(* free for another request.                                               *)
RepliesReleased ==
    \A i \in Slots: serving[i].state = "WAITING_ACK"
                       ~> serving[i].state = "NOT_ACTIVE"
=============================================================================
