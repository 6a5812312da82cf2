--------------------------- MODULE DuxProtoProofs ---------------------------
(***************************************************************************)
(* DuxProto implements RemoteCall, never meets an acknowledgement it would *)
(* panic at, and never forgets a request whose sender it has told to wait: *)
(* for any requests, any number of parts, entries, faults and frames under *)
(* way.                                                                    *)
(*                                                                         *)
(* The argument.  Once a request that is not repeatable has been run, or a *)
(* reply has been sent that is to be acknowledged, its entry is kept until *)
(* the acknowledgement is there.  The requester sends the acknowledgement  *)
(* when it has its reply, and nothing of the request after it; frames that *)
(* arrive twice are known to badseq().  So by the time the entry is freed  *)
(* no frame of the request is left that would be taken for a new one.      *)
(***************************************************************************)
EXTENDS DuxProto, SequenceTheorems, WellFoundedInduction, TLAPS

(* Frames of the request c that badseq() lets through, and its very first. *)
Unseen(f, c) == f.type = "request" /\ f.call = c /\ ~f.seen
First(f, c) == Unseen(f, c) /\ f.part = 0 /\ ~f.retry

IsAck(f, c) == f.type = "ack" /\ f.call = c
IsKeptReply(f, c) == f.type = "reply" /\ f.call = c /\ ~f.idem

Active(i, c) == serving[i].state # "NOT_ACTIVE" /\ serving[i].call = c

(* The parts of c that have been sent.                                     *)
Sent(c) == IF using[c].st = "idle" THEN 0
           ELSE IF using[c].st = "sending" THEN using[c].sent ELSE ReqParts

(* The places in the two arrays are within the message, a timer runs for a *)
(* request that waits only, and only a reply to be acknowledged is kept.   *)
Ranges ==
    /\ \A c \in Calls: /\ using[c].sent < ReqParts /\ using[c].got < RepParts
                       /\ using[c].timer => using[c].st = "waiting"
    /\ \A i \in Slots:
          /\ serving[i].state # "NOT_ACTIVE" => serving[i].call \in Calls
          /\ serving[i].sent < RepParts
          /\ serving[i].state = "RECVING_REQUEST" => serving[i].got < ReqParts
          /\ serving[i].state = "WAITING_ACK" => ~IdemReply(i)

(* No part is on its way, has been received or was run before it was sent. *)
Known ==
    /\ \A k \in 1..Len(toServer):
          toServer[k].type = "request" => toServer[k].part < Sent(toServer[k].call)
    /\ \A i \in Slots: serving[i].state # "NOT_ACTIVE" =>
          /\ serving[i].got \in 1..Sent(serving[i].call)
          /\ serving[i].state = "RECVING_REQUEST" \/ serving[i].got = ReqParts
    /\ \A c \in Calls: runs[c] # 0 => Sent(c) = ReqParts

(* There is a reply, or an acknowledgement, only of what was run.          *)
Ran ==
    /\ \A k \in 1..Len(toServer):
          toServer[k].type = "ack" => runs[toServer[k].call] # 0
    /\ \A k \in 1..Len(toClient):
          toClient[k].type = "reply" => runs[toClient[k].call] # 0
    /\ \A i \in Slots:
          serving[i].state \in {"SENDING_REPLY", "WAITING_ACK", "ACK_RECEIVED"}
             => runs[serving[i].call] # 0

OneEntry == \A i, j \in Slots: \A c \in Calls: Active(i, c) /\ Active(j, c) => i = j

(* The first frame of a request is taken for new without a search: and it  *)
(* is, because nothing of the request was received before.                 *)
FirstIsNew ==
    \A c \in Calls: \A k \in 1..Len(toServer): First(toServer[k], c) =>
        /\ \A i \in Slots: ~Active(i, c)
        /\ runs[c] = 0
        /\ \A j \in 1..Len(toServer): j < k => ~Unseen(toServer[j], c)

(* An acknowledgement is the last the requester says of a request.         *)
AckIsLast ==
    \A c \in Calls: \A k \in 1..Len(toServer): IsAck(toServer[k], c) =>
        /\ using[c].st = "done"
        /\ \A j \in 1..Len(toServer): j > k => ~Unseen(toServer[j], c)

(* The requester has its reply, and nothing of c is left to be received.   *)
Quiet(c) == /\ using[c].st = "done"
            /\ \A k \in 1..Len(toServer): ~Unseen(toServer[k], c)

(* The reply to c is being sent, or sent again, till it is acknowledged.   *)
Kept(c) == \E i \in Slots: /\ serving[i].call = c
                           /\ serving[i].state \in {"SENDING_REPLY", "WAITING_ACK"}
                           /\ ~IdemReply(i)

(* c must not be run again.                                                *)
Answered(c) == \/ \E k \in 1..Len(toClient): IsKeptReply(toClient[k], c)
               \/ \E k \in 1..Len(toServer): IsAck(toServer[k], c)
               \/ c \notin Repeatable /\ runs[c] # 0

(* It will not be: either the entry that recognises its retries is there,  *)
(* or there are no more retries.                                           *)
Remembered ==
    /\ \A c \in Calls: Answered(c) =>
          /\ Kept(c) \/ Quiet(c)
          /\ \A i \in Slots: serving[i].call = c =>
                serving[i].state \notin {"RECVING_REQUEST", "SERVING"}
    /\ \A i \in Slots: serving[i].state = "ACK_RECEIVED" => Quiet(serving[i].call)

(* The entry of a request whose sender was told that it takes long.        *)
SlowKept(c) == \E i \in Slots:
                  /\ serving[i].call = c /\ serving[i].slow
                  /\ serving[i].state \in {"SERVING", "SENDING_REPLY", "WAITING_ACK"}

ToldToWait ==
    /\ \A c \in Calls: using[c].st = "waiting" /\ ~using[c].timer => SlowKept(c)
    /\ \A k \in 1..Len(toClient): toClient[k].type = "slow" =>
          SlowKept(toClient[k].call) \/ using[toClient[k].call].st = "done"

ProtoInv == /\ TypeOK /\ Ranges /\ Known /\ Ran /\ OneEntry /\ FirstIsNew
            /\ AckIsLast /\ Remembered /\ ToldToWait
-----------------------------------------------------------------------------
(* Sequences of frames.                                                    *)

ServerFrame == Request \cup Ack
ClientFrame == Reply \cup Slow \cup Nak

(* The first frame of s has been taken off; e may have come after the rest. *)
Later(t, s, e) ==
    /\ Len(t) <= Len(s)
    /\ \A k \in 1..Len(t): \/ k < Len(s) /\ t[k] = s[k + 1]
                           \/ k = Len(s) /\ t[k] = e

\* Taking the first frame, with or without adding one, leaves a later queue.
LEMMA TailIsLater ==
    ASSUME NEW S, NEW s \in Seq(S), s # <<>>, NEW t, NEW e \in S,
           t = Tail(s) \/ t = Append(Tail(s), e)
    PROVE  /\ t \in Seq(S) /\ Later(t, s, e) /\ Head(s) = s[1]
           /\ Len(s) \in Nat \ {0} /\ Len(t) \in Nat /\ s[1] \in S
<1>1. /\ Tail(s) \in Seq(S) /\ Len(Tail(s)) = Len(s) - 1
      /\ \A i \in 1..Len(Tail(s)): Tail(s)[i] = s[i + 1]
  BY HeadTailProperties
<1>2. Len(s) \in Nat \ {0}
  BY EmptySeq
<1>3. Head(s) = s[1] /\ s[1] \in S
  BY <1>2, ElementOfSeq
<1> DEFINE n == Len(s)
           r == Tail(s)
<1>4. /\ n \in Nat \ {0} /\ r \in Seq(S) /\ Len(r) = n - 1
      /\ \A i \in 1..(n - 1): r[i] = s[i + 1]
  BY <1>1, <1>2
<1> HIDE DEF n, r
<1>5. ASSUME t = r PROVE t \in Seq(S) /\ Later(t, s, e)
  <2>1. Len(t) <= n /\ \A k \in 1..Len(t): k < n /\ t[k] = s[k + 1]
    BY <1>4, <1>5
  <2> QED
    BY <2>1, <1>4, <1>5 DEF Later, n
<1>6. ASSUME t = Append(r, e) PROVE t \in Seq(S) /\ Later(t, s, e)
  <2>1. /\ t \in Seq(S) /\ Len(t) = Len(r) + 1
        /\ \A i \in 1..Len(r): t[i] = r[i]
        /\ t[Len(r) + 1] = e
    BY <1>4, <1>6, AppendProperties
  <2> HIDE <1>6
  <2>2. Len(t) = n /\ t[n] = e
    BY <2>1, <1>4
  <2>3. ASSUME NEW k \in 1..Len(t)
        PROVE  (k < n /\ t[k] = s[k + 1]) \/ (k = n /\ t[k] = e)
    BY <2>1, <2>2, <1>4
  <2> QED
    BY <2>1, <2>2, <2>3, <1>4 DEF Later, n
<1>7. t \in Seq(S) /\ Later(t, s, e)
  BY <1>5, <1>6 DEF r
<1> QED
  BY <1>2, <1>3, <1>7, LenProperties

(* Frames are told apart by their type, and a copy is of the same kind.    *)
LEMMA FrameTypes ==
    /\ \A f \in ServerFrame: \/ f.type = "request" /\ f \in Request
                             \/ f.type = "ack" /\ f \in Ack
    /\ \A f \in ClientFrame: \/ f.type = "reply" /\ f \in Reply
                             \/ f.type = "slow" /\ f \in Slow
                             \/ f.type = "nak" /\ f \in Nak
  BY DEF ServerFrame, ClientFrame, Request, Ack, Reply, Slow, Nak

\* A doubled frame has the type of the first one.
LEMMA CopyType ==
    /\ \A f \in ServerFrame: /\ Copy(f) \in ServerFrame
                             /\ Copy(f).type = f.type /\ Copy(f).call = f.call
                             /\ f.type = "request" => Copy(f).seen /\ Copy(f).part = f.part
    /\ \A f \in ClientFrame: Copy(f) = f
  BY FrameTypes DEF Copy, ServerFrame, ClientFrame, Request, Ack, Reply, Slow, Nak

-----------------------------------------------------------------------------
\* The invariant holds at the start.
LEMMA InitInv == Init => ProtoInv
<1> SUFFICES ASSUME Init PROVE ProtoInv
  OBVIOUS
<1>0. Len(toServer) = 0 /\ Len(toClient) = 0
  BY DEF Init
<1>1. TypeOK
  <2>1. using \in [Calls -> UsingEntry]
    BY ProtoAssumption DEF Init, UsingEntry, UsingState
  <2>2. serving \in [Slots -> ServingEntry]
    BY ProtoAssumption DEF Init, ServingEntry, ServingState, NoEntry
  <2>3. toServer \in Seq(Request \cup Ack) /\ toClient \in Seq(Reply \cup Slow \cup Nak)
    BY DEF Init
  <2>4. runs \in [Calls -> 0..2] /\ faults \in 0..MaxFaults
    BY ProtoAssumption DEF Init
  <2>5. choked \in BOOLEAN
    BY DEF Init
  <2> QED
    BY <2>1, <2>2, <2>3, <2>4, <2>5 DEF TypeOK
<1>2. Ranges /\ Known /\ Ran /\ OneEntry /\ FirstIsNew /\ AckIsLast
  BY <1>0, ProtoAssumption DEF Init, NoEntry, Ranges, Known, Ran, OneEntry, FirstIsNew,
     AckIsLast, Active
<1>3. Remembered /\ ToldToWait
  BY <1>0 DEF Init, NoEntry, Remembered, ToldToWait, Answered
<1> QED
  BY <1>1, <1>2, <1>3 DEF ProtoInv

-----------------------------------------------------------------------------
(* A frame is taken off the way to the serving site.                       *)

TakenByServer == /\ toServer # <<>>
                 /\ toServer' \in {Tail(toServer),
                                   Append(Tail(toServer), Copy(Head(toServer)))}

(* What is left had been there before, in the same order, but for a copy.  *)
LEMMA ServerLeft ==
    ASSUME TypeOK, TakenByServer
    PROVE  /\ toServer' \in Seq(ServerFrame) /\ Len(toServer') \in Nat
           /\ Len(toServer) \in Nat \ {0} /\ Len(toServer') <= Len(toServer)
           /\ Head(toServer) = toServer[1] /\ toServer[1] \in ServerFrame
           /\ \A k \in 1..Len(toServer'):
                 \/ k + 1 \in 1..Len(toServer) /\ toServer'[k] = toServer[k + 1]
                 \/ /\ k = Len(toServer) /\ toServer'[k].type = toServer[1].type
                    /\ toServer'[k].call = toServer[1].call
                    /\ toServer[1].type = "request" => toServer'[k].part = toServer[1].part
                    /\ \A c \in Calls: ~Unseen(toServer'[k], c)
<1> DEFINE e == Copy(Head(toServer))
<1>1. toServer \in Seq(ServerFrame)
  BY DEF TypeOK, ServerFrame
<1>2. Head(toServer) \in ServerFrame
  BY <1>1, HeadTailProperties DEF TakenByServer
<1>3. e \in ServerFrame
  BY <1>2, CopyType
<1>4. toServer' = Tail(toServer) \/ toServer' = Append(Tail(toServer), e)
  BY DEF TakenByServer
<1> HIDE DEF e
<1>5. /\ toServer' \in Seq(ServerFrame) /\ Later(toServer', toServer, e)
      /\ Head(toServer) = toServer[1] /\ Len(toServer) \in Nat \ {0}
      /\ Len(toServer') \in Nat /\ toServer[1] \in ServerFrame
  BY <1>1, <1>3, <1>4, TailIsLater DEF TakenByServer
<1>6. /\ e.type = toServer[1].type /\ e.call = toServer[1].call
      /\ toServer[1].type = "request" => e.part = toServer[1].part
      /\ \A c \in Calls: ~Unseen(e, c)
  BY <1>5, CopyType DEF e, Unseen
<1> QED
  BY <1>5, <1>6 DEF Later

(* The parts of the invariant that speak of those frames and of what the   *)
(* requester knows.                                                        *)
LEMMA ServerNet ==
    ASSUME ProtoInv, TakenByServer, UNCHANGED using
    PROVE  /\ toServer' \in Seq(ServerFrame)
           /\ \A k \in 1..Len(toServer'): toServer'[k].type = "request" =>
                 toServer'[k].part < Sent(toServer'[k].call)
           /\ \A k \in 1..Len(toServer'): toServer'[k].type = "ack" =>
                 runs[toServer'[k].call] # 0
           /\ AckIsLast'
           /\ \A c \in Calls: Quiet(c) => Quiet(c)'
           /\ \A c \in Calls: \A k \in 1..Len(toServer'): IsAck(toServer'[k], c) =>
                 \E j \in 1..Len(toServer): IsAck(toServer[j], c)
           /\ \A c \in Calls: \A k \in 1..Len(toServer'): First(toServer'[k], c) =>
                 /\ \A i \in Slots: ~Active(i, c)
                 /\ runs[c] = 0
                 /\ ~Unseen(toServer[1], c)
                 /\ \A j \in 1..Len(toServer'): j < k => ~Unseen(toServer'[j], c)
<1> USE ServerLeft DEF ProtoInv
<1>1. \A k \in 1..Len(toServer'): toServer'[k].type = "request" =>
         toServer'[k].part < Sent(toServer'[k].call)
  BY DEF Known
<1>2. \A k \in 1..Len(toServer'): toServer'[k].type = "ack" => runs[toServer'[k].call] # 0
  BY DEF Ran
<1>3. ASSUME NEW c \in Calls, NEW k \in 1..Len(toServer'), IsAck(toServer'[k], c)
      PROVE  /\ using[c].st = "done"
             /\ \A j \in 1..Len(toServer'): j > k => ~Unseen(toServer'[j], c)
  <2>1. CASE k + 1 \in 1..Len(toServer) /\ toServer'[k] = toServer[k + 1]
    <3>1. /\ using[c].st = "done"
          /\ \A j \in 1..Len(toServer): j > k + 1 => ~Unseen(toServer[j], c)
      BY <1>3, <2>1 DEF AckIsLast
    <3> QED
      BY <3>1
  <2>2. CASE k = Len(toServer) /\ IsAck(toServer[1], c)
    BY <2>2 DEF AckIsLast
  <2> QED
    BY <1>3, <2>1, <2>2 DEF IsAck
<1>4. \A c \in Calls: Quiet(c) => Quiet(c)'
  BY DEF Quiet
<1>5. \A c \in Calls: \A k \in 1..Len(toServer'): IsAck(toServer'[k], c) =>
                 \E j \in 1..Len(toServer): IsAck(toServer[j], c)
  BY DEF IsAck
<1>6. ASSUME NEW c \in Calls, NEW k \in 1..Len(toServer'), First(toServer'[k], c)
      PROVE  /\ \A i \in Slots: ~Active(i, c)
             /\ runs[c] = 0
             /\ ~Unseen(toServer[1], c)
             /\ \A j \in 1..Len(toServer'): j < k => ~Unseen(toServer'[j], c)
  <2>1. Unseen(toServer'[k], c)
    BY <1>6 DEF First
  <2>2. k + 1 \in 1..Len(toServer) /\ First(toServer[k + 1], c)
    BY <2>1, <1>6
  <2>3. /\ \A i \in Slots: ~Active(i, c)
        /\ runs[c] = 0
        /\ \A j \in 1..Len(toServer): j < k + 1 => ~Unseen(toServer[j], c)
    BY <2>2 DEF FirstIsNew
  <2>4. ~Unseen(toServer[1], c)
    BY <2>3, <2>2
  <2>5. \A j \in 1..Len(toServer'): j < k => ~Unseen(toServer'[j], c)
    BY <2>3, <2>2
  <2> QED
    BY <2>3, <2>4, <2>5
<1> QED
  BY <1>1, <1>2, <1>3, <1>4, <1>5, <1>6 DEF AckIsLast

(* Every frame but a NAK names a request.                                  *)
LEMMA FrameCalls ==
    ASSUME TypeOK
    PROVE  /\ \A k \in 1..Len(toServer): toServer[k] \in ServerFrame /\ toServer[k].call \in Calls
           /\ \A k \in 1..Len(toClient): /\ toClient[k] \in ClientFrame
                                         /\ toClient[k].type # "nak" => toClient[k].call \in Calls
<1>1. \A k \in 1..Len(toServer): toServer[k] \in ServerFrame
  BY ElementOfSeq DEF TypeOK, ServerFrame
<1>2. \A k \in 1..Len(toClient): toClient[k] \in ClientFrame
  BY ElementOfSeq DEF TypeOK, ClientFrame
<1>3. \A f \in ServerFrame: f.call \in Calls
  BY FrameTypes DEF Request, Ack
<1>4. \A f \in ClientFrame: f.type # "nak" => f.call \in Calls
  BY FrameTypes DEF Reply, Slow, Nak
<1> QED
  BY <1>1, <1>2, <1>3, <1>4

\* Sent() is a number of parts.
LEMMA SentType ==
    ASSUME TypeOK, NEW c \in Calls
    PROVE  Sent(c) \in 0..ReqParts
  BY ProtoAssumption DEF TypeOK, UsingEntry, Sent

(* What Remembered needs of a step that answers nothing new.               *)
LEMMA RememberedStep ==
    ASSUME ProtoInv,
           \A c \in Calls: Answered(c)' => Answered(c),
           \A c \in Calls: Kept(c) => Kept(c)' \/ Quiet(c)',
           \A c \in Calls: Quiet(c) => Quiet(c)',
           \A i \in Slots: serving'[i].state \in {"RECVING_REQUEST", "SERVING"} =>
              \/ /\ serving[i].call = serving'[i].call
                 /\ serving[i].state \in {"RECVING_REQUEST", "SERVING"}
              \/ ~Answered(serving'[i].call),
           \A i \in Slots: serving'[i].state = "ACK_RECEIVED" =>
              \E c \in Calls: c = serving'[i].call /\ Quiet(c)'
    PROVE  Remembered'
<1>1. ASSUME NEW c \in Calls, Answered(c)'
      PROVE  /\ (Kept(c) \/ Quiet(c))'
             /\ \A i \in Slots: serving'[i].call = c =>
                   serving'[i].state \notin {"RECVING_REQUEST", "SERVING"}
  BY <1>1 DEF ProtoInv, Remembered
<1> QED
  BY <1>1 DEF Remembered

(* What a frame that arrives at the serving site may do to the entry i.    *)
SameEntry(i) == serving'[i] = serving[i]
GoesOn(i) == /\ serving[i].state = "RECVING_REQUEST"
             /\ serving'[i].state \in {"RECVING_REQUEST", "SERVING"}
             /\ serving'[i].call = serving[i].call
             /\ serving'[i].slow = serving[i].slow
             /\ serving'[i].got \in 1..Sent(serving[i].call)
             /\ serving'[i].state = "SERVING" => serving'[i].got = ReqParts
MadeSlow(i) == /\ serving[i].state = "SERVING" /\ serving'[i].state = "SERVING"
               /\ serving'[i].call = serving[i].call
               /\ serving'[i].slow
               /\ serving'[i].got = serving[i].got
Freed(i) == /\ serving'[i].state = "NOT_ACTIVE"
            /\ \/ serving[i].state = "RECVING_REQUEST"
               \/ \E c \in Calls: c = serving[i].call /\ Quiet(c)'
Acknowledged(i) == /\ serving[i].state \in {"SENDING_REPLY", "ACK_RECEIVED"}
                   /\ serving'[i].state = "ACK_RECEIVED"
                   /\ serving'[i].call = serving[i].call
                   /\ serving'[i].got = serving[i].got
                   /\ \E c \in Calls: c = serving[i].call /\ Quiet(c)'
NewEntry(i) == /\ serving[i].state \in {"NOT_ACTIVE", "RECVING_REQUEST"}
               /\ serving'[i].state \in {"RECVING_REQUEST", "SERVING"}
               /\ serving'[i].call = toServer[1].call
               /\ serving'[i].got = 1 /\ 1 <= Sent(toServer[1].call)
               /\ serving'[i].state = "SERVING" => ReqParts = 1
               /\ Unseen(toServer[1], toServer[1].call)
               /\ \A j \in Slots: ~Active(j, toServer[1].call)
EntryStep(i) == \/ SameEntry(i) \/ GoesOn(i) \/ MadeSlow(i)
                \/ Freed(i) \/ Acknowledged(i) \/ NewEntry(i)

(* Parts that were received had been sent.                                 *)
InParts(i) == serving[i].state # "NOT_ACTIVE" =>
                /\ serving[i].got \in 1..Sent(serving[i].call)
                /\ serving[i].state = "RECVING_REQUEST" \/ serving[i].got = ReqParts

(* The places stay in range.                                               *)
InRange(i) == /\ serving[i].state # "NOT_ACTIVE" => serving[i].call \in Calls
              /\ serving[i].sent < RepParts
              /\ serving[i].state = "RECVING_REQUEST" => serving[i].got < ReqParts
              /\ serving[i].state = "WAITING_ACK" => ~IdemReply(i)

(* Nothing of what keeps a request from being run twice, or a requester    *)
(* from waiting for ever, is lost by such steps.                           *)
LEMMA ServerStep ==
    ASSUME ProtoInv, TakenByServer, UNCHANGED <<using, runs>>, TypeOK',
           \A i \in Slots: EntryStep(i) /\ InRange(i)',
           OneEntry',
           \A k \in 1..Len(toClient'):
              \/ \E j \in 1..Len(toClient): toClient'[k] = toClient[j]
              \/ toClient'[k].type = "nak"
              \/ toClient'[k].type = "slow" /\ \E c \in Calls: c = toClient'[k].call /\ SlowKept(c)'
    PROVE  ProtoInv'
<1> USE DEF ProtoInv
<1>0. /\ \A k \in 1..Len(toServer'): toServer'[k].type = "request" =>
            toServer'[k].part < Sent(toServer'[k].call)
      /\ \A k \in 1..Len(toServer'): toServer'[k].type = "ack" =>
            runs[toServer'[k].call] # 0
      /\ AckIsLast'
      /\ \A c \in Calls: Quiet(c) => Quiet(c)'
      /\ \A c \in Calls: \A k \in 1..Len(toServer'): IsAck(toServer'[k], c) =>
            \E j \in 1..Len(toServer): IsAck(toServer[j], c)
      /\ \A c \in Calls: \A k \in 1..Len(toServer'): First(toServer'[k], c) =>
            /\ \A i \in Slots: ~Active(i, c)
            /\ runs[c] = 0
            /\ ~Unseen(toServer[1], c)
            /\ \A j \in 1..Len(toServer'): j < k => ~Unseen(toServer'[j], c)
  BY ServerNet
<1>1. 1 \in 1..Len(toServer) /\ toServer[1].call \in Calls
  BY ServerLeft, FrameCalls
<1>2. Ranges'
  BY DEF Ranges, InRange
<1>3. Known'
  <2>2. \A i \in Slots: InParts(i)'
    BY <1>1 DEF Known, InParts, Sent, EntryStep, SameEntry, GoesOn, MadeSlow, Freed,
       Acknowledged, NewEntry
  <2>3. \A c \in Calls: runs'[c] # 0 => Sent(c)' = ReqParts
    BY DEF Known, Sent
  <2> QED
    BY <1>0, <2>2, <2>3 DEF Known, InParts, Sent
<1>4. Ran'
  <2>1. \A i \in Slots:
          serving'[i].state \in {"SENDING_REPLY", "WAITING_ACK", "ACK_RECEIVED"}
             => runs[serving'[i].call] # 0
    BY DEF Ran, EntryStep, SameEntry, GoesOn, MadeSlow, Freed, Acknowledged, NewEntry
  <2>2. \A k \in 1..Len(toClient'): toClient'[k].type = "reply" => runs[toClient'[k].call] # 0
    BY DEF Ran
  <2> QED
    BY <1>0, <2>1, <2>2 DEF Ran
<1>5. FirstIsNew'
  <2>1. ASSUME NEW c \in Calls, NEW i \in Slots, \A j \in Slots: ~Active(j, c),
               ~Unseen(toServer[1], c)
        PROVE  ~Active(i, c)'
    BY <2>1 DEF Active, EntryStep, SameEntry, GoesOn, MadeSlow, Freed, Acknowledged, NewEntry
  <2> QED
    BY <1>0, <2>1 DEF FirstIsNew
<1>6. ASSUME NEW c \in Calls, Answered(c)' PROVE Answered(c)
  <2>1. CASE \E k \in 1..Len(toClient'): IsKeptReply(toClient'[k], c)
    BY <2>1 DEF Answered, IsKeptReply
  <2> QED
    BY <1>0, <1>6, <2>1 DEF Answered
<1>7. ASSUME NEW c \in Calls, Kept(c) PROVE Kept(c)' \/ Quiet(c)'
  BY <1>7 DEF Kept, IdemReply, EntryStep, SameEntry, GoesOn, MadeSlow, Freed, Acknowledged,
     NewEntry
<1>8. ASSUME NEW c \in Calls, SlowKept(c) PROVE SlowKept(c)' \/ using[c].st = "done"
  BY <1>8 DEF SlowKept, Quiet, EntryStep, SameEntry, GoesOn, MadeSlow, Freed, Acknowledged,
     NewEntry
<1>9. Remembered'
  <2>1. ASSUME NEW i \in Slots, NewEntry(i) PROVE ~Answered(toServer[1].call)
    <3>1. ~Kept(toServer[1].call)
      BY <2>1 DEF Kept, NewEntry, Active
    <3>2. ~Quiet(toServer[1].call)
      BY <2>1, <1>1 DEF Quiet, NewEntry
    <3> QED
      BY <3>1, <3>2, <1>1 DEF Remembered
  <2>2. \A i \in Slots: serving'[i].state \in {"RECVING_REQUEST", "SERVING"} =>
              \/ /\ serving[i].call = serving'[i].call
                 /\ serving[i].state \in {"RECVING_REQUEST", "SERVING"}
              \/ ~Answered(serving'[i].call)
    BY <2>1 DEF EntryStep, SameEntry, GoesOn, MadeSlow, Freed, Acknowledged, NewEntry
  <2>3. ASSUME NEW i \in Slots, serving'[i].state = "ACK_RECEIVED"
        PROVE  \E c \in Calls: c = serving'[i].call /\ Quiet(c)'
    <3>1. CASE SameEntry(i)
      <4>1. serving[i].state # "NOT_ACTIVE" /\ serving[i].state = "ACK_RECEIVED"
        BY <2>3, <3>1 DEF SameEntry
      <4>2. serving[i].call \in Calls /\ Quiet(serving[i].call)
        BY <4>1 DEF Ranges, Remembered
      <4> QED
        BY <4>2, <3>1, <1>0 DEF SameEntry
    <3>2. CASE Acknowledged(i)
      BY <3>2 DEF Acknowledged
    <3> QED
      BY <2>3, <3>1, <3>2 DEF EntryStep, GoesOn, MadeSlow, Freed, NewEntry
  <2> QED
    BY <1>0, <1>6, <1>7, <2>2, <2>3, RememberedStep
<1>10. ToldToWait'
  <2>1. ASSUME NEW c \in Calls, using[c].st = "waiting", ~using[c].timer PROVE SlowKept(c)'
    BY <2>1, <1>8 DEF ToldToWait
  <2>2. ASSUME NEW k \in 1..Len(toClient'), toClient'[k].type = "slow"
        PROVE  \E c \in Calls: c = toClient'[k].call /\ (SlowKept(c)' \/ using[c].st = "done")
    BY <2>2, <1>8, FrameCalls DEF ToldToWait
  <2> QED
    BY <2>1, <2>2 DEF ToldToWait
<1> QED
  BY <1>0, <1>2, <1>3, <1>4, <1>5, <1>9, <1>10

(* Appending one frame to those on their way to the requester.             *)
LEMMA SendToClient ==
    ASSUME TypeOK, NEW e \in ClientFrame, toClient' = Append(toClient, e)
    PROVE  /\ toClient' \in Seq(ClientFrame)
           /\ \A k \in 1..Len(toClient'):
                 \/ \E j \in 1..Len(toClient): toClient'[k] = toClient[j]
                 \/ toClient'[k] = e
<1>1. toClient \in Seq(ClientFrame)
  BY DEF TypeOK, ClientFrame
<1>2. /\ toClient' \in Seq(ClientFrame) /\ Len(toClient') = Len(toClient) + 1
      /\ \A i \in 1..Len(toClient): toClient'[i] = toClient[i]
      /\ toClient'[Len(toClient) + 1] = e
  BY <1>1, AppendProperties
<1>3. Len(toClient) \in Nat
  BY <1>1, LenProperties
<1> QED
  BY <1>2, <1>3

\* The serving site drops a frame, with or without a nak.
LEMMA ServerDropInv ==
    ASSUME ProtoInv, TakenByServer, faults' \in 0..MaxFaults,
           UNCHANGED <<using, serving, choked, runs>>,
           toClient' = toClient \/ toClient' = Append(toClient, [type |-> "nak"])
    PROVE  ProtoInv'
<1>1. \A k \in 1..Len(toClient'): \/ \E j \in 1..Len(toClient): toClient'[k] = toClient[j]
                                  \/ toClient'[k].type = "nak"
  <2>1. CASE toClient' = toClient
    BY <2>1
  <2>2. CASE toClient' = Append(toClient, [type |-> "nak"])
    BY <2>2, SendToClient DEF ClientFrame, Nak, ProtoInv
  <2> QED
    BY <2>1, <2>2
<1>2. TypeOK'
  <2>1. toClient' \in Seq(ClientFrame)
    BY SendToClient DEF ClientFrame, Nak, ProtoInv, TypeOK
  <2> QED
    BY <2>1, ServerLeft DEF ProtoInv, TypeOK, ServerFrame, ClientFrame
<1>3. \A i \in Slots: EntryStep(i) /\ InRange(i)'
  BY DEF EntryStep, SameEntry, InRange, ProtoInv, Ranges, IdemReply
<1>4. OneEntry'
  BY DEF ProtoInv, OneEntry, Active
<1> QED
  BY <1>1, <1>2, <1>3, <1>4, ServerStep

(* The entry found is the only one of the request.                         *)
LEMMA ServerPartInv ==
    ASSUME ProtoInv, TakenByServer, faults' \in 0..MaxFaults, recv_request_part(Head(toServer))
    PROVE  ProtoInv'
<1> DEFINE f == toServer[1]
<1>1. recv_request_part(f) /\ f \in Request /\ f.part \in 0..ReqParts-1
  BY ServerLeft, FrameTypes DEF ProtoInv, recv_request_part, Request, Ack
<1> HIDE DEF f
<1>2. PICK i \in Slots:
         /\ serving[i].state = "RECVING_REQUEST" /\ serving[i].call = f.call
         /\ f.part = serving[i].got
         /\ serving' = [serving EXCEPT ![i].got = @ + 1,
                                       ![i].state = Gathered(f.part + 1),
                                       ![i].old = FALSE]
  BY <1>1 DEF recv_request_part, Located, locate_serving_array
<1>3. UNCHANGED <<using, toClient, choked, runs>>
  BY <1>1 DEF recv_request_part
<1>4. serving \in [Slots -> ServingEntry]
  BY DEF ProtoInv, TypeOK
<1>5. \A j \in Slots: j # i => serving'[j] = serving[j]
  BY <1>2, <1>4
<1>6. /\ serving'[i] = [serving[i] EXCEPT !.got = @ + 1, !.state = Gathered(f.part + 1),
                                          !.old = FALSE]
      /\ serving' = [serving EXCEPT ![i] = serving'[i]]
  BY <1>2, <1>4
<1> DEFINE e == serving'[i]
<1>7. /\ e.state = Gathered(f.part + 1) /\ e.got = f.part + 1
      /\ e.call = serving[i].call /\ e.slow = serving[i].slow /\ e.sent = serving[i].sent
  BY <1>2, <1>6, <1>4 DEF ServingEntry
<1>8. /\ e.state \in {"RECVING_REQUEST", "SERVING"}
      /\ e.state = "RECVING_REQUEST" => e.got < ReqParts
  BY <1>1, <1>7, ProtoAssumption DEF Gathered
<1>9. e \in ServingEntry
  <2>1. e.got \in 0..ReqParts
    BY <1>1, <1>7, ProtoAssumption
  <2>2. e.state \in ServingState
    BY <1>8 DEF ServingState
  <2>3. e = [serving[i] EXCEPT !.got = e.got, !.state = e.state, !.old = FALSE]
    BY <1>2, <1>6, <1>7
  <2>4. serving[i] \in ServingEntry
    BY <1>4
  <2> DEFINE x == e.state
             y == e.got
             d == serving[i]
  <2>5. /\ x \in ServingState /\ y \in 0..ReqParts /\ d \in ServingEntry
        /\ e = [d EXCEPT !.got = y, !.state = x, !.old = FALSE]
    BY <2>1, <2>2, <2>3, <2>4
  <2> HIDE DEF x, y, d
  <2> QED
    BY <2>5 DEF ServingEntry
<1>10. TypeOK'
  <2>1. serving' \in [Slots -> ServingEntry]
    BY <1>6, <1>9, <1>4
  <2> QED
    BY <2>1, <1>3, ServerLeft DEF ProtoInv, TypeOK, ServerFrame
<1>11. \A j \in Slots: EntryStep(j)
  <2>1. f.part < Sent(serving[i].call)
    <3>1. 1 \in 1..Len(toServer)
      BY ServerLeft DEF ProtoInv
    <3> QED
      BY <1>1, <1>2, <3>1 DEF ProtoInv, Known, f, recv_request_part
  <2>2. f.part + 1 \in 1..Sent(serving[i].call)
    <3>1. Sent(serving[i].call) \in 0..ReqParts
      BY <1>1, <1>2, SentType DEF ProtoInv, Request
    <3> QED
      BY <2>1, <3>1, <1>1
  <2>3. e.state = "SERVING" => e.got = ReqParts
    BY <1>7 DEF Gathered
  <2> QED
    BY <1>2, <1>5, <1>7, <1>8, <2>2, <2>3 DEF EntryStep, SameEntry, GoesOn
<1>12. \A j \in Slots: InRange(j)'
  BY <1>2, <1>5, <1>7, <1>8 DEF InRange, ProtoInv, Ranges, IdemReply
<1>13. OneEntry'
  <2>1. \A j \in Slots, c \in Calls: Active(j, c)' => Active(j, c)
    BY <1>2, <1>5, <1>7 DEF Active
  <2> QED
    BY <2>1 DEF ProtoInv, OneEntry
<1> QED
  BY <1>3, <1>10, <1>11, <1>12, <1>13, ServerStep

\* A retry of a request that is being served is answered "slow".
LEMMA ServerSlowInv ==
    ASSUME ProtoInv, TakenByServer, faults' \in 0..MaxFaults, recv_request_slow(Head(toServer))
    PROVE  ProtoInv'
<1> DEFINE f == toServer[1]
           e == [type |-> "slow", call |-> f.call]
<1>1. recv_request_slow(f) /\ f.call \in Calls
  BY ServerLeft, FrameCalls DEF ProtoInv
<1>2. PICK i \in Slots:
         /\ serving[i].state = "SERVING" /\ serving[i].call = f.call
         /\ serving' = [serving EXCEPT ![i].slow = TRUE]
  BY <1>1 DEF recv_request_slow, Located, locate_serving_array
<1>3. UNCHANGED <<using, choked, runs>> /\ toClient' = Append(toClient, e)
  BY <1>1 DEF recv_request_slow
<1>4. serving \in [Slots -> ServingEntry]
  BY DEF ProtoInv, TypeOK
<1>5. \A j \in Slots: j # i => serving'[j] = serving[j]
  BY <1>2, <1>4
<1>6. /\ serving'[i] = [serving[i] EXCEPT !.slow = TRUE]
      /\ serving'[i] \in ServingEntry
      /\ serving' \in [Slots -> ServingEntry]
  BY <1>2, <1>4 DEF ServingEntry
<1>7. /\ serving'[i].state = "SERVING" /\ serving'[i].call = f.call /\ serving'[i].slow
      /\ serving'[i].sent = serving[i].sent
  BY <1>2, <1>6, <1>4 DEF ServingEntry
<1>8. e \in ClientFrame /\ e.type = "slow" /\ e.call = f.call
  BY <1>1 DEF ClientFrame, Slow
<1> HIDE DEF f, e
<1>9. TypeOK'
  <2>1. toClient' \in Seq(ClientFrame)
    BY <1>3, <1>8, SendToClient DEF ProtoInv
  <2> QED
    BY <2>1, <1>3, <1>6, ServerLeft DEF ProtoInv, TypeOK, ServerFrame, ClientFrame
<1>10. \A j \in Slots: EntryStep(j)
  BY <1>2, <1>5, <1>7 DEF EntryStep, SameEntry, MadeSlow
<1>11. \A j \in Slots: InRange(j)'
  BY <1>1, <1>2, <1>5, <1>7 DEF InRange, ProtoInv, Ranges, IdemReply
<1>12. OneEntry'
  BY <1>2, <1>5, <1>7 DEF ProtoInv, OneEntry, Active
<1>13. \A k \in 1..Len(toClient'): \/ \E j \in 1..Len(toClient): toClient'[k] = toClient[j]
                                   \/ toClient'[k] = e
  BY <1>3, <1>8, SendToClient DEF ProtoInv
<1>14. \A k \in 1..Len(toClient'):
              \/ \E j \in 1..Len(toClient): toClient'[k] = toClient[j]
              \/ toClient'[k].type = "slow" /\ \E c \in Calls: c = toClient'[k].call /\ SlowKept(c)'
  <2>1. \E c \in Calls: c = f.call /\ SlowKept(c)'
    BY <1>7, <1>1 DEF SlowKept
  <2> QED
    BY <1>13, <1>8, <2>1
<1> QED
  BY <1>3, <1>9, <1>10, <1>11, <1>12, <1>14, ServerStep

(* A set of entries that is not empty has a first one.                     *)
LEMMA LeastSlot ==
    ASSUME NEW T, T \subseteq Slots, T # {}
    PROVE  \E x \in T: \A y \in T: x <= y
<1> DEFINE R == OpToRel(<, Nat)
<1>1. T \subseteq Nat
  BY ProtoAssumption DEF Slots
<1>2. IsWellFoundedOn(R, Nat)
  BY NatLessThanWellFounded
<1>3. \A x, y \in Nat: x < y => <<x, y>> \in R
  BY DEF OpToRel
<1> HIDE DEF R
<1>4. PICK x \in T: \A y \in T: ~(<<y, x>> \in R)
  BY <1>1, <1>2, WFMin
<1>5. ASSUME NEW y \in T PROVE x <= y
  <2>1. x \in Nat /\ y \in Nat /\ ~(<<y, x>> \in R)
    BY <1>1, <1>4
  <2>2. ~(y < x)
    BY <2>1, <1>3
  <2> QED
    BY <2>1, <2>2
<1> QED
  BY <1>5

(* get_serving_array() gives at most one entry, which was free or that of  *)
(* an old request, and else takes old ones away only.                      *)
LEMMA GetServingArray ==
    ASSUME TypeOK
    PROVE  /\ \A i \in get_serving_array.slots:
                 i \in Slots /\ serving[i].state \in {"NOT_ACTIVE", "RECVING_REQUEST"}
           /\ \A i, j \in get_serving_array.slots: i = j
           /\ \A i \in Slots:
                 \/ get_serving_array.array[i] = serving[i]
                 \/ /\ get_serving_array.array[i] = NoEntry
                    /\ serving[i].state = "RECVING_REQUEST"
<1>1. CASE FreeSlots # {}
  <2> DEFINE m == CHOOSE i \in FreeSlots: \A j \in FreeSlots: i <= j
  <2>1. \E i \in FreeSlots: \A j \in FreeSlots: i <= j
    BY <1>1, LeastSlot DEF FreeSlots
  <2>2. m \in FreeSlots
    BY <2>1
  <2>3. get_serving_array = [array |-> serving, slots |-> {m}]
    BY <1>1 DEF get_serving_array
  <2> HIDE DEF m
  <2> QED
    BY <2>2, <2>3 DEF FreeSlots
<1>2. CASE FreeSlots = {}
  <2>1. OldEntries \subseteq Slots /\ \A i \in OldEntries: serving[i].state = "RECVING_REQUEST"
    BY DEF OldEntries
  <2>2. get_serving_array =
          [array |-> [i \in Slots |-> IF i \in OldEntries THEN NoEntry ELSE serving[i]],
           slots |-> {i \in OldEntries: \A j \in OldEntries: j <= i}]
    BY <1>2 DEF get_serving_array
  <2>3. \A i, j \in {i \in OldEntries: \A j \in OldEntries: j <= i}: i = j
    BY <2>1, ProtoAssumption DEF Slots
  <2> QED
    BY <2>1, <2>2, <2>3
<1> QED
  BY <1>1, <1>2

\* The first part of a request takes a serving entry.
LEMMA ServerNewInv ==
    ASSUME ProtoInv, TakenByServer, faults' \in 0..MaxFaults, recv_request_new(Head(toServer))
    PROVE  ProtoInv'
<1> DEFINE f == toServer[1]
           slots == get_serving_array.slots
           array == get_serving_array.array
           new == [NoEntry EXCEPT !.state = Gathered(1), !.call = f.call, !.got = 1]
<1>1. recv_request_new(f) /\ f \in Request
  BY ServerLeft, FrameTypes DEF ProtoInv, recv_request_new, Request, Ack
<1>2. /\ f.call \in Calls /\ ~f.seen /\ f.type = "request"
      /\ Located(f) = {} /\ f.part = 0
      /\ UNCHANGED <<using, toClient, choked, runs>>
      /\ serving' = [i \in Slots |-> IF i \in slots THEN new ELSE array[i]]
  BY <1>1 DEF recv_request_new, badseq, Request
<1>3. /\ new \in ServingEntry /\ new.call = f.call /\ new.sent = 0 /\ new.got = 1
      /\ new.state \in {"RECVING_REQUEST", "SERVING"}
      /\ new.state = "RECVING_REQUEST" => 1 < ReqParts
      /\ new.state = "SERVING" => ReqParts = 1
  <2>1. /\ Gathered(1) \in {"RECVING_REQUEST", "SERVING"}
        /\ Gathered(1) = "RECVING_REQUEST" => 1 < ReqParts
        /\ Gathered(1) = "SERVING" => ReqParts = 1
        /\ 1 \in 0..ReqParts /\ 0 \in 0..RepParts
    BY ProtoAssumption DEF Gathered
  <2> DEFINE g == Gathered(1)
  <2> HIDE DEF g, f
  <2>2. /\ g \in {"RECVING_REQUEST", "SERVING"} /\ (g = "RECVING_REQUEST" => 1 < ReqParts)
        /\ g = "SERVING" => ReqParts = 1
    BY <2>1 DEF g
  <2>3. new = [NoEntry EXCEPT !.state = g, !.call = f.call, !.got = 1]
    BY DEF g
  <2> HIDE DEF new
  <2> QED
    BY <1>2, <2>1, <2>2, <2>3 DEF ServingEntry, ServingState, NoEntry
<1>4. NoEntry \in ServingEntry
  BY ProtoAssumption DEF NoEntry, ServingEntry, ServingState
<1>5. /\ \A i \in slots: i \in Slots /\ serving[i].state \in {"NOT_ACTIVE", "RECVING_REQUEST"}
      /\ \A i, j \in slots: i = j
      /\ \A i \in Slots: \/ array[i] = serving[i]
                         \/ array[i] = NoEntry /\ serving[i].state = "RECVING_REQUEST"
  BY GetServingArray DEF ProtoInv
<1>6. serving \in [Slots -> ServingEntry] /\ 1 \in 1..Len(toServer)
  BY ServerLeft DEF ProtoInv, TypeOK
<1> HIDE DEF f, slots, array, new
<1>7. serving' \in [Slots -> ServingEntry]
  BY <1>2, <1>3, <1>4, <1>5, <1>6
<1>8. Unseen(f, f.call)
  BY <1>2 DEF Unseen
<1>9. \A j \in Slots: ~Active(j, f.call)
  <2>1. CASE f.retry
    BY <2>1, <1>2 DEF Located, locate_serving_array, Active
  <2>2. CASE ~f.retry
    <3>1. First(f, f.call)
      BY <1>2, <1>8, <2>2 DEF First
    <3> QED
      BY <3>1, <1>2, <1>6 DEF FirstIsNew, ProtoInv, f
  <2> QED
    BY <2>1, <2>2
<1>10. \A i \in Slots: \/ i \in slots /\ serving'[i] = new
                       \/ i \notin slots /\ serving'[i] = serving[i]
                       \/ /\ i \notin slots /\ serving'[i] = NoEntry
                          /\ serving[i].state = "RECVING_REQUEST"
  BY <1>2, <1>5
<1>11. \A i \in Slots: EntryStep(i)
  <2>1. 0 < Sent(f.call)
    BY <1>2, <1>6 DEF ProtoInv, Known, f
  <2>2. 1 <= Sent(f.call)
    BY <2>1, <1>2, SentType DEF ProtoInv
  <2> QED
    BY <1>10, <1>3, <1>5, <1>8, <1>9, <2>2 DEF EntryStep, SameEntry, Freed, NewEntry, NoEntry, f
<1>12. \A i \in Slots: InRange(i)'
  <2>1. ASSUME NEW i \in Slots, serving'[i] = new PROVE InRange(i)'
    BY <2>1, <1>2, <1>3, ProtoAssumption DEF InRange
  <2>2. ASSUME NEW i \in Slots, serving'[i] = serving[i] PROVE InRange(i)'
    BY <2>2 DEF ProtoInv, Ranges, InRange, IdemReply
  <2>3. ASSUME NEW i \in Slots, serving'[i] = NoEntry PROVE InRange(i)'
    BY <2>3, ProtoAssumption DEF InRange, NoEntry
  <2> QED
    BY <2>1, <2>2, <2>3, <1>10
<1>13. OneEntry'
  <2>1. \A i \in Slots, c \in Calls:
           Active(i, c)' => Active(i, c) \/ (i \in slots /\ c = f.call)
    BY <1>10, <1>3 DEF Active, NoEntry
  <2> QED
    BY <2>1, <1>5, <1>9 DEF OneEntry, ProtoInv
<1>14. TypeOK'
  BY <1>2, <1>7, ServerLeft DEF ProtoInv, TypeOK, ServerFrame
<1> QED
  BY <1>2, <1>11, <1>12, <1>13, <1>14, ServerStep

\* An acknowledgement frees the entry it is for.
LEMMA ServerAckInv ==
    ASSUME ProtoInv, TakenByServer, faults' \in 0..MaxFaults, recv_ack(Head(toServer))
    PROVE  ProtoInv'
<1> DEFINE f == toServer[1]
<1>1. recv_ack(f) /\ f \in Ack
  BY ServerLeft, FrameTypes DEF ProtoInv, recv_ack, Request, Ack
<1>2. /\ f.call \in Calls /\ f.type = "ack" /\ f.slot \in Slots
      /\ UNCHANGED <<using, toClient, choked, runs>>
  BY <1>1 DEF recv_ack, Ack
<1>n. PICK n \in Slots: n = f.slot
  BY <1>2
<1> DEFINE e == serving'[n]
<1>3. CASE UNCHANGED serving
  BY <1>2, <1>3, ServerDropInv
<1>4. CASE /\ ~AckIsOld(f)
           /\ \/ /\ serving[n].state = "WAITING_ACK"
                 /\ serving' = [serving EXCEPT ![n] = NoEntry]
              \/ /\ serving[n].state \in {"SENDING_REPLY", "ACK_RECEIVED"}
                 /\ serving' = [serving EXCEPT ![n].state = "ACK_RECEIVED"]
  <2>1. serving[n].call = f.call /\ serving[n].state # "NOT_ACTIVE"
    BY <1>4, <1>n DEF AckIsOld
  <2>2. serving \in [Slots -> ServingEntry] /\ 1 \in 1..Len(toServer)
    BY ServerLeft DEF ProtoInv, TypeOK
  <2>3. /\ \A j \in Slots: j # n => serving'[j] = serving[j]
        /\ \/ serving[n].state = "WAITING_ACK" /\ e = NoEntry
           \/ /\ serving[n].state \in {"SENDING_REPLY", "ACK_RECEIVED"}
              /\ e = [serving[n] EXCEPT !.state = "ACK_RECEIVED"]
    BY <1>2, <1>4, <2>2
  <2>4. serving' \in [Slots -> ServingEntry]
    <3>1. NoEntry \in ServingEntry
      BY ProtoAssumption DEF NoEntry, ServingEntry, ServingState
    <3>2. [serving[n] EXCEPT !.state = "ACK_RECEIVED"] \in ServingEntry
      BY <1>2, <2>2 DEF ServingEntry, ServingState
    <3>3. e \in ServingEntry /\ serving' = [serving EXCEPT ![n] = e]
      BY <3>1, <3>2, <2>3, <2>2, <1>2, <1>4
    <3> HIDE DEF e
    <3> QED
      BY <3>3, <1>2, <2>2
  <2>5. \E c \in Calls: c = f.call /\ Quiet(c)'
    <3>1. IsAck(f, f.call)
      BY <1>2 DEF IsAck
    <3>2. /\ using[f.call].st = "done"
          /\ \A j \in 1..Len(toServer): j > 1 => ~Unseen(toServer[j], f.call)
      BY <3>1, <1>2, <2>2 DEF ProtoInv, AckIsLast
    <3>3. \A k \in 1..Len(toServer'): ~Unseen(toServer'[k], f.call)
      BY <3>2, <1>2, ServerLeft DEF ProtoInv
    <3> QED
      BY <3>2, <3>3, <1>2 DEF Quiet
  <2>6. \A j \in Slots: j # n => SameEntry(j)
    BY <2>3 DEF SameEntry
  <2>7. \/ serving[n].state = "WAITING_ACK" /\ e = NoEntry
        \/ /\ serving[n].state \in {"SENDING_REPLY", "ACK_RECEIVED"}
           /\ e.state = "ACK_RECEIVED"
           /\ e.call = f.call /\ e.got = serving[n].got /\ e.sent = serving[n].sent
    BY <2>1, <2>2, <2>3, <1>2 DEF ServingEntry
  <2>8. TypeOK'
    BY <1>2, <2>4, ServerLeft DEF ProtoInv, TypeOK, ServerFrame
  <2>9. EntryStep(n)
    <3>1. \E c \in Calls: c = serving[n].call /\ Quiet(c)'
      BY <2>1, <2>5
    <3> QED
      BY <3>1, <2>1, <2>7 DEF EntryStep, Freed, Acknowledged, NoEntry
  <2>10. InRange(n)'
    <3>1. serving[n].sent < RepParts
      BY <1>2 DEF ProtoInv, Ranges
    <3>2. CASE e = NoEntry
      BY <3>2, ProtoAssumption DEF InRange, NoEntry
    <3>3. CASE e.state = "ACK_RECEIVED" /\ e.call = f.call /\ e.sent = serving[n].sent
      BY <3>1, <3>3, <1>2 DEF InRange
    <3> QED
      BY <2>7, <3>2, <3>3
  <2>11. \A j \in Slots: j # n => InRange(j)'
    BY <2>6 DEF SameEntry, InRange, ProtoInv, Ranges, IdemReply
  <2>12. OneEntry'
    <3>1. \A j \in Slots, c \in Calls: Active(j, c)' => Active(j, c)
      BY <2>1, <2>6, <2>7, <1>2 DEF Active, SameEntry, NoEntry
    <3> QED
      BY <3>1 DEF ProtoInv, OneEntry
  <2> QED
    BY <1>2, <2>6, <2>8, <2>9, <2>10, <2>11, <2>12, ServerStep DEF EntryStep
<1> QED
  BY <1>1, <1>3, <1>4, <1>n DEF recv_ack

(* What recv_request() and recv_ack() do preserves the invariant.          *)
LEMMA AtServerInv ==
    ASSUME ProtoInv, TakenByServer, faults' \in 0..MaxFaults,
           AtServer(Head(toServer)) \/ recv_request_nak(Head(toServer))
    PROVE  ProtoInv'
<1>1. CASE recv_request_drop(Head(toServer)) \/ recv_request_nak(Head(toServer))
  BY <1>1, ServerDropInv DEF recv_request_drop, recv_request_nak
<1> QED
  BY <1>1, ServerPartInv, ServerSlowInv, ServerNewInv, ServerAckInv DEF AtServer

-----------------------------------------------------------------------------
(* The requester: the other site and what was run stay the same.           *)

(* Frames are added to those on their way to the serving site.             *)
Longer(t, s) == Len(s) <= Len(t) /\ \A k \in 1..Len(s): t[k] = s[k]

(* Some of the frames on their way to the requester are gone.              *)
NoneAdded(t, s) == \A k \in 1..Len(t): \E j \in 1..Len(s): t[k] = s[j]

(* What a sending of parts preserves.                                      *)
LEMMA SendStep ==
    ASSUME ProtoInv, TypeOK', Ranges', UNCHANGED <<serving, runs, toClient>>,
           Longer(toServer', toServer),
           \A k \in 1..Len(toServer'): k > Len(toServer) =>
              \E c \in Calls:
                 /\ toServer'[k].type = "request" /\ toServer'[k].call = c
                 /\ using[c].st # "done"
                 /\ toServer'[k].part < Sent(c)'
                 /\ First(toServer'[k], c) => Sent(c) = 0 /\ k = Len(toServer) + 1,
           \A c \in Calls: /\ using'[c].st = "done" <=> using[c].st = "done"
                           /\ Sent(c) <= Sent(c)'
                           /\ using'[c].st = "waiting" /\ ~using'[c].timer =>
                                 using[c].st = "waiting" /\ ~using[c].timer
    PROVE  ProtoInv'
<1> USE DEF ProtoInv
<1>0. Len(toServer) \in Nat /\ Len(toServer') \in Nat /\ Len(toServer) <= Len(toServer')
  BY LenProperties DEF TypeOK, Longer
<1>1. \A k \in 1..Len(toServer'): \/ k \in 1..Len(toServer) /\ toServer'[k] = toServer[k]
                                  \/ k > Len(toServer)
  BY <1>0 DEF Longer
<1>2. \A c \in Calls: Sent(c) \in 0..ReqParts /\ Sent(c)' \in 0..ReqParts
  BY ProtoAssumption DEF TypeOK, UsingEntry, Sent
<1>3. Known'
  <2>1. ASSUME NEW k \in 1..Len(toServer'), toServer'[k].type = "request"
        PROVE  \E c \in Calls: c = toServer'[k].call /\ toServer'[k].part < Sent(c)'
    <3>1. CASE k \in 1..Len(toServer) /\ toServer'[k] = toServer[k]
      <4>1. toServer[k] \in Request /\ toServer[k].call \in Calls
        BY <2>1, <3>1, FrameCalls, FrameTypes
      <4>2. toServer[k].part \in Nat /\ toServer[k].part < Sent(toServer[k].call)
        BY <2>1, <3>1, <4>1, ProtoAssumption DEF Known, Request
      <4>3. Sent(toServer[k].call) <= Sent(toServer'[k].call)
        BY <3>1, <4>1, <1>2
      <4> QED
        BY <3>1, <4>1, <4>2, <1>2
    <3>2. CASE k > Len(toServer)
      BY <3>2
    <3> QED
      BY <3>1, <3>2, <1>1
  <2>2. ASSUME NEW i \in Slots, serving[i].state # "NOT_ACTIVE"
        PROVE  \E c \in Calls: c = serving[i].call /\ serving[i].got \in 1..Sent(c)'
    BY <2>2, <1>2 DEF Known, Ranges
  <2>3. \A c \in Calls: runs[c] # 0 => Sent(c)' = ReqParts
    BY <1>2 DEF Known
  <2>4. \A i \in Slots: serving[i].state # "NOT_ACTIVE" =>
           serving[i].state = "RECVING_REQUEST" \/ serving[i].got = ReqParts
    BY DEF Known
  <2> QED
    BY <2>1, <2>2, <2>3, <2>4 DEF Known
<1>4. Ran'
  <2>1. \A k \in 1..Len(toServer'): toServer'[k].type = "ack" => runs[toServer'[k].call] # 0
    BY <1>1 DEF Ran
  <2> QED
    BY <2>1 DEF Ran
<1>5. OneEntry'
  BY DEF OneEntry, Active
<1>6. ASSUME NEW c \in Calls, NEW k \in 1..Len(toServer'), First(toServer'[k], c)
      PROVE  /\ \A i \in Slots: ~Active(i, c)
             /\ runs[c] = 0
             /\ \A j \in 1..Len(toServer'): j < k => ~Unseen(toServer'[j], c)
  <2>1. CASE k \in 1..Len(toServer) /\ toServer'[k] = toServer[k]
    <3>1. /\ \A i \in Slots: ~Active(i, c)
          /\ runs[c] = 0
          /\ \A j \in 1..Len(toServer): j < k => ~Unseen(toServer[j], c)
      BY <1>6, <2>1 DEF FirstIsNew
    <3> QED
      BY <3>1, <2>1, <1>0, <1>1
  <2>2. CASE k > Len(toServer)
    <3>1. Sent(c) = 0 /\ k = Len(toServer) + 1
      BY <1>6, <2>2 DEF First, Unseen
    <3>2. \A i \in Slots: ~Active(i, c)
      BY <3>1 DEF Known, Active
    <3>3. runs[c] = 0
      BY <3>1, ProtoAssumption DEF Known
    <3>4. \A j \in 1..Len(toServer): ~Unseen(toServer[j], c)
      <4>1. \A j \in 1..Len(toServer): toServer[j].type = "request" => toServer[j].part \in Nat
        BY FrameCalls, FrameTypes, ProtoAssumption DEF Request
      <4> QED
        BY <4>1, <3>1 DEF Known, Unseen
    <3>5. \A j \in 1..Len(toServer'): j < k => ~Unseen(toServer'[j], c)
      BY <3>1, <3>4, <1>0, <1>1
    <3> QED
      BY <3>2, <3>3, <3>5
  <2> QED
    BY <2>1, <2>2, <1>1
<1>7. FirstIsNew'
  BY <1>6 DEF FirstIsNew, Active
<1>8. \A c \in Calls: Quiet(c) => Quiet(c)'
  BY <1>1 DEF Quiet, Unseen
<1>9. \A c \in Calls: \A k \in 1..Len(toServer'): IsAck(toServer'[k], c) =>
         k \in 1..Len(toServer) /\ IsAck(toServer[k], c)
  BY <1>1 DEF IsAck
<1>10. AckIsLast'
  <2>1. ASSUME NEW c \in Calls, NEW k \in 1..Len(toServer'), IsAck(toServer'[k], c)
        PROVE  /\ using'[c].st = "done"
               /\ \A j \in 1..Len(toServer'): j > k => ~Unseen(toServer'[j], c)
    <3>1. k \in 1..Len(toServer) /\ IsAck(toServer[k], c)
      BY <2>1, <1>9
    <3>2. /\ using[c].st = "done"
          /\ \A j \in 1..Len(toServer): j > k => ~Unseen(toServer[j], c)
      BY <3>1 DEF AckIsLast
    <3> QED
      BY <3>2, <1>1 DEF Unseen
  <2> QED
    BY <2>1 DEF AckIsLast
<1>11. Remembered'
  <2>1. \A c \in Calls: Answered(c)' => Answered(c)
    BY <1>9 DEF Answered
  <2>2. \A c \in Calls: Kept(c) => Kept(c)'
    BY DEF Kept, IdemReply
  <2>3. \A i \in Slots: serving'[i].state = "ACK_RECEIVED" =>
              \E c \in Calls: c = serving'[i].call /\ Quiet(c)'
    BY <1>8 DEF Remembered, Ranges
  <2> QED
    BY <2>1, <2>2, <2>3, <1>8, RememberedStep
<1>12. ToldToWait'
  BY FrameCalls DEF ToldToWait, SlowKept
<1> QED
  BY <1>3, <1>4, <1>5, <1>7, <1>10, <1>11, <1>12

(* What a reception by the requester preserves.                            *)
LEMMA ReceiveStep ==
    ASSUME ProtoInv, TypeOK', Ranges', UNCHANGED <<serving, runs>>,
           NoneAdded(toClient', toClient),
           Longer(toServer', toServer),
           \A k \in 1..Len(toServer'): k > Len(toServer) =>
              \E c \in Calls: /\ IsAck(toServer'[k], c)
                              /\ using'[c].st = "done"
                              /\ runs[c] # 0 /\ Answered(c),
           \A c \in Calls: /\ \/ using'[c].st = using[c].st
                              \/ using[c].st = "waiting" /\ using'[c].st = "done"
                           /\ using'[c].sent = using[c].sent
                           /\ using'[c].st = "waiting" /\ ~using'[c].timer => SlowKept(c)
    PROVE  ProtoInv'
<1> USE DEF ProtoInv
<1>0. Len(toServer) \in Nat /\ Len(toServer') \in Nat /\ Len(toServer) <= Len(toServer')
  BY LenProperties DEF TypeOK, Longer
<1>1. \A k \in 1..Len(toServer'): \/ k \in 1..Len(toServer) /\ toServer'[k] = toServer[k]
                                  \/ k > Len(toServer)
  BY <1>0 DEF Longer
<1>2. \A c \in Calls: Sent(c)' = Sent(c)
  BY DEF Sent
<1>3. Known'
  <2>1. ASSUME NEW k \in 1..Len(toServer'), toServer'[k].type = "request"
        PROVE  \E c \in Calls: c = toServer'[k].call /\ toServer'[k].part < Sent(c)'
    <3>1. k \in 1..Len(toServer) /\ toServer'[k] = toServer[k]
      BY <2>1, <1>1 DEF IsAck
    <3> QED
      BY <2>1, <3>1, <1>2, FrameCalls DEF Known
  <2>2. ASSUME NEW i \in Slots, serving[i].state # "NOT_ACTIVE"
        PROVE  \E c \in Calls: c = serving[i].call /\ serving[i].got \in 1..Sent(c)'
    BY <2>2, <1>2 DEF Known, Ranges
  <2>3. \A c \in Calls: runs[c] # 0 => Sent(c)' = ReqParts
    BY <1>2 DEF Known
  <2>4. \A i \in Slots: serving[i].state # "NOT_ACTIVE" =>
           serving[i].state = "RECVING_REQUEST" \/ serving[i].got = ReqParts
    BY DEF Known
  <2> QED
    BY <2>1, <2>2, <2>3, <2>4 DEF Known
<1>4. Ran'
  <2>1. \A k \in 1..Len(toServer'): toServer'[k].type = "ack" => runs[toServer'[k].call] # 0
    BY <1>1 DEF Ran, IsAck
  <2>2. \A k \in 1..Len(toClient'): toClient'[k].type = "reply" => runs[toClient'[k].call] # 0
    BY DEF Ran, NoneAdded
  <2> QED
    BY <2>1, <2>2 DEF Ran
<1>5. OneEntry'
  BY DEF OneEntry, Active
<1>6. \A c \in Calls: \A k \in 1..Len(toServer'): Unseen(toServer'[k], c) =>
         k \in 1..Len(toServer) /\ Unseen(toServer[k], c) /\ toServer'[k] = toServer[k]
  BY <1>1 DEF Unseen, IsAck
<1>7. FirstIsNew'
  <2>1. ASSUME NEW c \in Calls, NEW k \in 1..Len(toServer'), First(toServer'[k], c)
        PROVE  /\ \A i \in Slots: ~Active(i, c)
               /\ runs[c] = 0
               /\ \A j \in 1..Len(toServer'): j < k => ~Unseen(toServer'[j], c)
    <3>1. k \in 1..Len(toServer) /\ First(toServer[k], c)
      BY <2>1, <1>6 DEF First
    <3>2. /\ \A i \in Slots: ~Active(i, c)
          /\ runs[c] = 0
          /\ \A j \in 1..Len(toServer): j < k => ~Unseen(toServer[j], c)
      BY <3>1 DEF FirstIsNew
    <3> QED
      BY <3>2, <1>6
  <2> QED
    BY <2>1 DEF FirstIsNew, Active
<1>8. \A c \in Calls: Quiet(c) => Quiet(c)'
  BY <1>6 DEF Quiet
<1>9. ASSUME NEW c \in Calls, NEW k \in 1..Len(toServer'), IsAck(toServer'[k], c)
      PROVE  \/ k \in 1..Len(toServer) /\ IsAck(toServer[k], c)
             \/ k > Len(toServer) /\ using'[c].st = "done" /\ Answered(c)
  BY <1>1, <1>9 DEF IsAck
<1>10. AckIsLast'
  <2>1. ASSUME NEW c \in Calls, NEW k \in 1..Len(toServer'), IsAck(toServer'[k], c)
        PROVE  /\ using'[c].st = "done"
               /\ \A j \in 1..Len(toServer'): j > k => ~Unseen(toServer'[j], c)
    <3>1. CASE k \in 1..Len(toServer) /\ IsAck(toServer[k], c)
      <4>1. /\ using[c].st = "done"
            /\ \A j \in 1..Len(toServer): j > k => ~Unseen(toServer[j], c)
        BY <3>1 DEF AckIsLast
      <4> QED
        BY <4>1, <1>6
    <3>2. CASE k > Len(toServer) /\ using'[c].st = "done"
      BY <3>2, <1>0, <1>6
    <3> QED
      BY <2>1, <3>1, <3>2, <1>9
  <2> QED
    BY <2>1 DEF AckIsLast
<1>11. Remembered'
  <2>1. ASSUME NEW c \in Calls, Answered(c)' PROVE Answered(c)
    <3>1. CASE \E k \in 1..Len(toClient'): IsKeptReply(toClient'[k], c)
      BY <3>1 DEF Answered, NoneAdded
    <3>2. CASE \E k \in 1..Len(toServer'): IsAck(toServer'[k], c)
      BY <3>2, <1>9 DEF Answered
    <3> QED
      BY <2>1, <3>1, <3>2 DEF Answered
  <2>2. \A c \in Calls: Kept(c) => Kept(c)'
    BY DEF Kept, IdemReply
  <2>3. \A i \in Slots: serving'[i].state = "ACK_RECEIVED" =>
              \E c \in Calls: c = serving'[i].call /\ Quiet(c)'
    BY <1>8 DEF Remembered, Ranges
  <2> QED
    BY <2>1, <2>2, <2>3, <1>8, RememberedStep
<1>12. ToldToWait'
  <2>1. \A c \in Calls: SlowKept(c) => SlowKept(c)'
    BY DEF SlowKept
  <2>2. ASSUME NEW k \in 1..Len(toClient'), toClient'[k].type = "slow"
        PROVE  \E c \in Calls: c = toClient'[k].call /\ (SlowKept(c)' \/ using'[c].st = "done")
    BY <2>1, <2>2, FrameCalls DEF ToldToWait, NoneAdded
  <2> QED
    BY <2>1, <2>2 DEF ToldToWait
<1> QED
  BY <1>3, <1>4, <1>5, <1>7, <1>10, <1>11, <1>12

\* net_request() preserves the invariant.
LEMMA NetRequestInv ==
    ASSUME ProtoInv, NEW c \in Calls, net_request(c)
    PROVE  ProtoInv'
<1> USE DEF ProtoInv
<1>1. /\ using[c].st = "idle" /\ using' = [using EXCEPT ![c].st = "sending"]
      /\ UNCHANGED <<serving, toServer, toClient, choked, runs, faults>>
  BY DEF net_request
<1>2. using \in [Calls -> UsingEntry]
  BY DEF TypeOK
<1>3. /\ \A d \in Calls: d # c => using'[d] = using[d]
      /\ using'[c].st = "sending" /\ using'[c].sent = using[c].sent
      /\ using'[c].timer = using[c].timer /\ using'[c].got = using[c].got
      /\ using' \in [Calls -> UsingEntry]
  BY <1>1, <1>2 DEF UsingEntry, UsingState
<1>4. TypeOK'
  BY <1>1, <1>3 DEF TypeOK
<1>5. ~using[c].timer
  BY <1>1 DEF Ranges
<1>6. Ranges'
  <2>1. \A d \in Calls: /\ using'[d].sent < ReqParts /\ using'[d].got < RepParts
                        /\ using'[d].timer => using'[d].st = "waiting"
    BY <1>3, <1>5 DEF Ranges
  <2> QED
    BY <1>1, <2>1 DEF Ranges, IdemReply
<1>7. ASSUME NEW d \in Calls
      PROVE  /\ using'[d].st = "done" <=> using[d].st = "done"
             /\ Sent(d) <= Sent(d)'
             /\ using'[d].st = "waiting" /\ ~using'[d].timer =>
                   using[d].st = "waiting" /\ ~using[d].timer
  BY <1>1, <1>2, <1>3, ProtoAssumption DEF Sent, UsingEntry
<1>8. Len(toServer) \in Nat
  BY LenProperties DEF TypeOK
<1> QED
  BY <1>1, <1>4, <1>6, <1>7, <1>8, SendStep DEF Longer

\* dux_send() sends the next part of a request.
LEMMA DuxSendInv ==
    ASSUME ProtoInv, NEW c \in Calls, dux_send(c)
    PROVE  ProtoInv'
<1> USE DEF ProtoInv
<1> DEFINE last == using[c].sent = ReqParts - 1
           f == RequestFrame(c, using[c].sent, FALSE)
<1>1. /\ using[c].st = "sending" /\ toServer' = Append(toServer, f)
      /\ using' = [using EXCEPT ![c].sent = IF last THEN 0 ELSE @ + 1,
                                ![c].st = IF last THEN "waiting" ELSE @,
                                ![c].timer = last]
      /\ UNCHANGED <<serving, toClient, choked, runs, faults>>
  BY DEF dux_send
<1>2. using \in [Calls -> UsingEntry] /\ using[c].sent \in 0..ReqParts - 1
  BY ProtoAssumption DEF TypeOK, Ranges, UsingEntry
<1>3. f \in Request /\ f.type = "request" /\ f.call = c /\ f.part = using[c].sent
  BY <1>2 DEF RequestFrame, Request
<1>4. toServer \in Seq(ServerFrame) /\ f \in ServerFrame
  BY <1>3 DEF TypeOK, ServerFrame
<1> HIDE DEF f
<1>5. /\ toServer' \in Seq(ServerFrame) /\ Len(toServer') = Len(toServer) + 1
      /\ \A k \in 1..Len(toServer): toServer'[k] = toServer[k]
      /\ toServer'[Len(toServer) + 1] = f
  BY <1>1, <1>4, AppendProperties
<1>6. Len(toServer) \in Nat
  BY <1>4, LenProperties
<1>7. \A d \in Calls: d # c => using'[d] = using[d]
  BY <1>1, <1>2
<1>8. \/ /\ last /\ using'[c].st = "waiting" /\ using'[c].sent = 0 /\ using'[c].timer
         /\ using'[c].got = using[c].got
      \/ /\ ~last /\ using'[c].st = "sending" /\ using'[c].sent = using[c].sent + 1
         /\ ~using'[c].timer /\ using'[c].got = using[c].got
  <2>1. CASE last
    BY <1>1, <1>2, <2>1 DEF UsingEntry
  <2>2. CASE ~last
    BY <1>1, <1>2, <2>2 DEF UsingEntry
  <2> QED
    BY <2>1, <2>2
<1>9. using' \in [Calls -> UsingEntry]
  <2>1. using'[c] = [using[c] EXCEPT !.sent = using'[c].sent, !.st = using'[c].st,
                                     !.timer = using'[c].timer]
    BY <1>1, <1>2 DEF UsingEntry
  <2> DEFINE e == using'[c]
             x == e.sent
             y == e.st
             z == e.timer
  <2>2. x \in 0..ReqParts /\ y \in UsingState
    BY <1>2, <1>8, ProtoAssumption DEF UsingState
  <2>3. z \in BOOLEAN
    BY <1>1, <1>2 DEF UsingEntry
  <2>4. using[c] \in UsingEntry /\ e = [using[c] EXCEPT !.sent = x, !.st = y, !.timer = z]
    BY <2>1, <1>2
  <2> HIDE DEF x, y, z
  <2>5. e \in UsingEntry
    BY <2>2, <2>3, <2>4 DEF UsingEntry
  <2>6. using' = [using EXCEPT ![c] = e]
    BY <1>1, <1>2
  <2> HIDE DEF e
  <2> QED
    BY <2>5, <2>6, <1>2
<1>10. TypeOK'
  BY <1>1, <1>5, <1>9 DEF TypeOK, ServerFrame
<1>11. Ranges'
  <2>1. \A d \in Calls: /\ using'[d].sent < ReqParts /\ using'[d].got < RepParts
                        /\ using'[d].timer => using'[d].st = "waiting"
    BY <1>2, <1>7, <1>8, ProtoAssumption DEF Ranges
  <2> QED
    BY <1>1, <2>1 DEF Ranges, IdemReply
<1>12. Sent(c) = using[c].sent /\ Sent(c)' = using[c].sent + 1
  BY <1>1, <1>2, <1>8, ProtoAssumption DEF Sent
<1>13. ASSUME NEW d \in Calls
      PROVE  /\ using'[d].st = "done" <=> using[d].st = "done"
             /\ Sent(d) <= Sent(d)'
             /\ using'[d].st = "waiting" /\ ~using'[d].timer =>
                   using[d].st = "waiting" /\ ~using[d].timer
  <2>1. CASE d = c
    BY <2>1, <1>1, <1>2, <1>8, <1>12
  <2>2. CASE d # c
    BY <2>2, <1>2, <1>7, ProtoAssumption DEF Sent, UsingEntry
  <2> QED
    BY <2>1, <2>2
<1>14. ASSUME NEW k \in 1..Len(toServer'), k > Len(toServer)
       PROVE  /\ toServer'[k].type = "request" /\ toServer'[k].call = c
              /\ using[c].st # "done"
              /\ toServer'[k].part < Sent(c)'
              /\ First(toServer'[k], c) => Sent(c) = 0 /\ k = Len(toServer) + 1
  <2>1. k = Len(toServer) + 1 /\ toServer'[k] = f
    BY <1>14, <1>5, <1>6
  <2>2. f.part = 0 => Sent(c) = 0
    BY <1>3, <1>12
  <2> QED
    BY <2>1, <2>2, <1>1, <1>2, <1>3, <1>12 DEF First
<1>15. Longer(toServer', toServer)
  BY <1>5, <1>6 DEF Longer
<1>16. UNCHANGED <<serving, runs, toClient>>
  BY <1>1
<1> HIDE <1>1
<1> QED
  BY <1>10, <1>11, <1>13, <1>14, <1>15, <1>16, SendStep

\* retry_request() starts a request again.
LEMMA RetryRequestInv ==
    ASSUME ProtoInv, NEW c \in Calls, retry_request(c)
    PROVE  ProtoInv'
<1> USE DEF ProtoInv
<1> DEFINE q == [p \in 1..ReqParts |-> RequestFrame(c, p - 1, TRUE)]
<1>1. /\ using[c].timer
      /\ using' = [using EXCEPT ![c].retried = TRUE]
      /\ toServer' = toServer \/ toServer' = toServer \o q
      /\ UNCHANGED <<serving, toClient, choked, runs, faults>>
  BY DEF retry_request
<1>2. using[c].st = "waiting" /\ using \in [Calls -> UsingEntry]
  BY <1>1 DEF TypeOK, Ranges
<1>3. toServer \in Seq(ServerFrame) /\ Len(toServer) \in Nat
  BY LenProperties DEF TypeOK, ServerFrame
<1>4. \A p \in 1..ReqParts: q[p] \in ServerFrame
  BY ProtoAssumption DEF RequestFrame, ServerFrame, Request
<1>5. q \in Seq(ServerFrame) /\ Len(q) = ReqParts
  <2>1. q \in [1..ReqParts -> ServerFrame] /\ DOMAIN q = 1..ReqParts
    BY <1>4
  <2> HIDE DEF q
  <2>2. q \in Seq(ServerFrame)
    BY <2>1, ProtoAssumption
  <2>3. Len(q) \in Nat /\ 1..Len(q) = 1..ReqParts
    BY <2>1, <2>2, LenProperties
  <2> QED
    BY <2>2, <2>3, ProtoAssumption
<1>6. \A p \in 1..ReqParts: /\ q[p].type = "request" /\ q[p].call = c /\ q[p].part = p - 1
                            /\ q[p].retry
  BY DEF RequestFrame
<1> HIDE DEF q
<1>7. /\ toServer' \in Seq(ServerFrame) /\ Len(toServer') \in Nat
      /\ Len(toServer) <= Len(toServer')
      /\ \A k \in 1..Len(toServer): toServer'[k] = toServer[k]
      /\ \A k \in 1..Len(toServer'): k > Len(toServer) =>
            \E p \in 1..ReqParts: toServer'[k] = q[p]
  <2>1. CASE toServer' = toServer
    BY <2>1, <1>3
  <2>2. CASE toServer' = toServer \o q
    <3>1. /\ toServer' \in Seq(ServerFrame) /\ Len(toServer') = Len(toServer) + ReqParts
          /\ \A k \in 1..(Len(toServer) + ReqParts): toServer'[k] =
                IF k <= Len(toServer) THEN toServer[k] ELSE q[k - Len(toServer)]
      BY <2>2, <1>3, <1>5, ConcatProperties
    <3> QED
      BY <3>1, <1>3, ProtoAssumption
  <2> QED
    BY <2>1, <2>2, <1>1
<1>8. /\ \A d \in Calls: /\ using'[d].st = using[d].st /\ using'[d].sent = using[d].sent
                         /\ using'[d].timer = using[d].timer /\ using'[d].got = using[d].got
      /\ using' \in [Calls -> UsingEntry]
  BY <1>1, <1>2 DEF UsingEntry
<1>9. TypeOK'
  BY <1>1, <1>7, <1>8 DEF TypeOK, ServerFrame
<1>10. Ranges'
  BY <1>1, <1>8 DEF Ranges, IdemReply
<1>11. \A d \in Calls: Sent(d)' = Sent(d) /\ Sent(d) \in 0..ReqParts
  BY <1>8, SentType DEF Sent
<1>12. Sent(c) = ReqParts
  BY <1>2 DEF Sent
<1>13. ASSUME NEW k \in 1..Len(toServer'), k > Len(toServer)
       PROVE  /\ toServer'[k].type = "request" /\ toServer'[k].call = c
              /\ using[c].st # "done"
              /\ toServer'[k].part < Sent(c)'
              /\ First(toServer'[k], c) => Sent(c) = 0 /\ k = Len(toServer) + 1
  <2>1. PICK p \in 1..ReqParts: toServer'[k] = q[p]
    BY <1>7, <1>13
  <2>2. toServer'[k].part < ReqParts
    BY <2>1, <1>6, ProtoAssumption
  <2> QED
    BY <2>1, <2>2, <1>2, <1>6, <1>11, <1>12 DEF First
<1>14. \A d \in Calls:
             /\ using'[d].st = "done" <=> using[d].st = "done"
             /\ Sent(d) <= Sent(d)'
             /\ using'[d].st = "waiting" /\ ~using'[d].timer =>
                   using[d].st = "waiting" /\ ~using[d].timer
  BY <1>8, <1>11, ProtoAssumption
<1> QED
  BY <1>1, <1>7, <1>9, <1>10, <1>13, <1>14, SendStep DEF Longer

(* A frame is taken off the way to the requester.                          *)
TakenByClient == /\ toClient # <<>>
                 /\ toClient' \in {Tail(toClient),
                                   Append(Tail(toClient), Copy(Head(toClient)))}

\* What is left of the frames to the requester when it takes one.
LEMMA ClientLeft ==
    ASSUME TypeOK, TakenByClient
    PROVE  /\ toClient' \in Seq(ClientFrame)
           /\ NoneAdded(toClient', toClient)
           /\ Head(toClient) = toClient[1] /\ toClient[1] \in ClientFrame
           /\ 1 \in 1..Len(toClient)
<1>1. toClient \in Seq(ClientFrame)
  BY DEF TypeOK, ClientFrame
<1>2. Head(toClient) \in ClientFrame
  BY <1>1, HeadTailProperties DEF TakenByClient
<1> DEFINE e == Head(toClient)
<1>3. toClient' = Tail(toClient) \/ toClient' = Append(Tail(toClient), e)
  BY <1>2, CopyType DEF TakenByClient
<1> HIDE DEF e
<1>4. /\ toClient' \in Seq(ClientFrame) /\ Later(toClient', toClient, e)
      /\ Head(toClient) = toClient[1] /\ Len(toClient) \in Nat \ {0}
      /\ Len(toClient') \in Nat /\ toClient[1] \in ClientFrame
  BY <1>1, <1>2, <1>3, TailIsLater DEF TakenByClient, e
<1>5. NoneAdded(toClient', toClient)
  BY <1>4 DEF Later, NoneAdded, e
<1> QED
  BY <1>4, <1>5

(* A reply comes after the whole request was sent.                         *)
LEMMA ReplyLate ==
    ASSUME ProtoInv, NEW f \in ClientFrame, f = toClient[1], 1 \in 1..Len(toClient),
           f.type = "reply"
    PROVE  /\ f \in Reply /\ f.call \in Calls /\ runs[f.call] # 0
           /\ using[f.call].st \in {"waiting", "done"}
           /\ ~f.idem => Answered(f.call)
<1>1. f \in Reply /\ f.call \in Calls
  BY FrameTypes DEF Reply
<1>2. runs[f.call] # 0
  BY DEF ProtoInv, Ran
<1>3. Sent(f.call) = ReqParts
  BY <1>1, <1>2 DEF ProtoInv, Known
<1>4. using[f.call] \in UsingEntry /\ using[f.call].sent < ReqParts
  BY <1>1 DEF ProtoInv, TypeOK, Ranges
<1>5. using[f.call].st \in {"waiting", "done"}
  BY <1>3, <1>4, ProtoAssumption DEF Sent, UsingEntry, UsingState
<1> QED
  BY <1>1, <1>2, <1>5 DEF Answered, IsKeptReply

(* Only frames on their way to the requester, or flow control, change.     *)
LEMMA ClientDropInv ==
    ASSUME ProtoInv, UNCHANGED <<using, serving, runs, toServer>>,
           faults' \in 0..MaxFaults, choked' \in BOOLEAN,
           toClient' \in Seq(ClientFrame), NoneAdded(toClient', toClient)
    PROVE  ProtoInv'
<1>1. TypeOK'
  BY DEF ProtoInv, TypeOK, ClientFrame
<1>2. Ranges'
  BY DEF ProtoInv, Ranges, IdemReply
<1>3. Longer(toServer', toServer) /\ Len(toServer) \in Nat
  BY LenProperties DEF Longer, ProtoInv, TypeOK
<1>4. \A c \in Calls: using'[c].st = "waiting" /\ ~using'[c].timer => SlowKept(c)
  BY DEF ProtoInv, ToldToWait
<1> QED
  BY <1>1, <1>2, <1>3, <1>4, ReceiveStep

(* One acknowledgement is sent, if any.                                    *)
LEMMA AckSent ==
    ASSUME TypeOK, NEW f \in Reply,
           toServer' = toServer \/ toServer' = Append(toServer, AckFrame(f))
    PROVE  /\ toServer' \in Seq(ServerFrame)
           /\ Longer(toServer', toServer)
           /\ \A k \in 1..Len(toServer'): k > Len(toServer) =>
                 /\ toServer' = Append(toServer, AckFrame(f))
                 /\ IsAck(toServer'[k], f.call)
<1> DEFINE e == AckFrame(f)
<1>1. e \in ServerFrame /\ IsAck(e, f.call)
  BY DEF AckFrame, ServerFrame, Ack, Reply, IsAck
<1>2. toServer \in Seq(ServerFrame) /\ Len(toServer) \in Nat
  BY LenProperties DEF TypeOK, ServerFrame
<1> HIDE DEF e
<1>3. CASE toServer' = toServer
  BY <1>2, <1>3 DEF Longer
<1>4. CASE toServer' = Append(toServer, e)
  <2>1. /\ toServer' \in Seq(ServerFrame) /\ Len(toServer') = Len(toServer) + 1
        /\ \A k \in 1..Len(toServer): toServer'[k] = toServer[k]
        /\ toServer'[Len(toServer) + 1] = e
    BY <1>1, <1>2, <1>4, AppendProperties
  <2>2. \A k \in 1..Len(toServer'): k > Len(toServer) => toServer'[k] = e
    BY <2>1, <1>2
  <2> QED
    BY <2>1, <2>2, <1>1, <1>2, <1>4 DEF Longer, e
<1> QED
  BY <1>3, <1>4 DEF e

\* recv_old_reply(): a reply nobody waits for is acknowledged again.
LEMMA OldReplyInv ==
    ASSUME ProtoInv, TakenByClient, faults' \in 0..MaxFaults, recv_old_reply(Head(toClient))
    PROVE  ProtoInv'
<1> USE DEF ProtoInv
<1> DEFINE f == toClient[1]
<1>1. recv_old_reply(f) /\ f \in ClientFrame
  BY ClientLeft
<1>2. /\ f \in Reply /\ f.call \in Calls /\ runs[f.call] # 0
      /\ using[f.call].st = "done"
      /\ ~f.idem => Answered(f.call)
  BY <1>1, ClientLeft, ReplyLate DEF recv_old_reply
<1>3. /\ toServer' = IF f.idem THEN toServer ELSE Append(toServer, AckFrame(f))
      /\ UNCHANGED <<using, serving, choked, runs>>
  BY <1>1 DEF recv_old_reply
<1> HIDE DEF f
<1>4. CASE f.idem
  BY <1>3, <1>4, ClientLeft, ClientDropInv DEF TypeOK
<1>5. CASE ~f.idem
  <2>1. /\ toServer' \in Seq(ServerFrame) /\ Longer(toServer', toServer)
        /\ \A k \in 1..Len(toServer'): k > Len(toServer) => IsAck(toServer'[k], f.call)
    BY <1>2, <1>3, <1>5, AckSent
  <2>2. TypeOK'
    BY <1>3, <2>1, ClientLeft DEF TypeOK, ServerFrame, ClientFrame
  <2>3. Ranges'
    BY <1>3 DEF Ranges, IdemReply
  <2>4. \A c \in Calls: using'[c].st = "waiting" /\ ~using'[c].timer => SlowKept(c)
    BY <1>3 DEF ToldToWait
  <2> QED
    BY <1>2, <1>3, <1>5, <2>1, <2>2, <2>3, <2>4, ClientLeft, ReceiveStep
<1> QED
  BY <1>4, <1>5

\* recv_reply(): a part of the reply, the last of which ends the request.
LEMMA RecvReplyInv ==
    ASSUME ProtoInv, TakenByClient, faults' \in 0..MaxFaults, recv_reply(Head(toClient))
    PROVE  ProtoInv'
<1> USE DEF ProtoInv
<1> DEFINE f == toClient[1]
           last == f.part = RepParts - 1
<1>1. recv_reply(f) /\ f \in ClientFrame
  BY ClientLeft
<1>2. /\ f \in Reply /\ f.call \in Calls /\ runs[f.call] # 0
      /\ ~f.idem => Answered(f.call)
  BY <1>1, ClientLeft, ReplyLate DEF recv_reply
<1> DEFINE c == f.call
<1>3. /\ using[c].st = "waiting" /\ f.part = using[c].got
      /\ using' = [using EXCEPT
                   ![c].got = IF last THEN 0 ELSE @ + 1,
                   ![c].st = IF last THEN "done" ELSE @,
                   ![c].timer = @ /\ ~last,
                   ![c].retried = @ /\ ~last]
      /\ toServer' = IF last /\ ~f.idem THEN Append(toServer, AckFrame(f)) ELSE toServer
      /\ UNCHANGED <<serving, choked, runs>>
  BY <1>1 DEF recv_reply
<1>4. f.part \in 0..RepParts - 1
  BY <1>2 DEF Reply
<1>5. using \in [Calls -> UsingEntry]
  BY DEF TypeOK
<1> HIDE DEF f, c
<1>6. c \in Calls
  BY <1>2 DEF c
<1>7. \A d \in Calls: d # c => using'[d] = using[d]
  BY <1>3, <1>5
<1>8. \/ /\ last /\ using'[c] = [using[c] EXCEPT !.got = 0, !.st = "done", !.timer = FALSE,
                                                 !.retried = FALSE]
      \/ /\ ~last /\ using'[c] = [using[c] EXCEPT !.got = @ + 1]
  <2>1. CASE last
    <3>1. using'[c] = [using[c] EXCEPT !.got = 0, !.st = "done",
                          !.timer = @ /\ ~last, !.retried = @ /\ ~last]
      BY <1>3, <1>5, <1>6, <2>1
    <3> QED
      BY <3>1, <2>1
  <2>2. CASE ~last
    <3>1. using'[c] = [using[c] EXCEPT !.got = @ + 1, !.st = @,
                          !.timer = @ /\ ~last, !.retried = @ /\ ~last]
      BY <1>3, <1>5, <1>6, <2>2
    <3>2. using[c].timer \in BOOLEAN /\ using[c].retried \in BOOLEAN
      BY <1>5, <1>6 DEF UsingEntry
    <3> QED
      BY <3>1, <3>2, <2>2, <1>5, <1>6 DEF UsingEntry
  <2> QED
    BY <2>1, <2>2
<1>9. using'[c] \in UsingEntry
  <2>1. using[c] \in UsingEntry /\ 0 \in 0..RepParts
    BY <1>5, <1>6, ProtoAssumption
  <2>2. CASE last
    BY <2>1, <2>2, <1>8 DEF UsingEntry, UsingState
  <2>3. CASE ~last
    <3>1. using[c].got + 1 \in 0..RepParts
      BY <1>3, <1>4, ProtoAssumption
    <3> QED
      BY <2>1, <2>3, <3>1, <1>8 DEF UsingEntry
  <2> QED
    BY <2>2, <2>3
<1>10. using' \in [Calls -> UsingEntry]
  <2>1. using' = [using EXCEPT ![c] = using'[c]]
    BY <1>3, <1>5
  <2> QED
    BY <2>1, <1>5, <1>9
<1>11. /\ \/ using'[c].st = using[c].st /\ ~last
          \/ using'[c].st = "done" /\ last
       /\ using'[c].sent = using[c].sent
       /\ using'[c].timer => using[c].timer /\ ~last
       /\ ~last => using'[c].timer = using[c].timer
       /\ using'[c].got < RepParts
  BY <1>3, <1>4, <1>5, <1>6, <1>8, ProtoAssumption DEF UsingEntry
<1>12. /\ toServer' \in Seq(ServerFrame) /\ Longer(toServer', toServer)
       /\ \A k \in 1..Len(toServer'): k > Len(toServer) =>
             IsAck(toServer'[k], c) /\ last /\ ~f.idem
  <2>1. CASE last /\ ~f.idem
    BY <1>2, <1>3, <2>1, AckSent DEF c
  <2>2. CASE ~(last /\ ~f.idem)
    <3>1. toServer' = toServer /\ Len(toServer) \in Nat
      BY <1>3, <2>2, LenProperties DEF TypeOK
    <3> QED
      BY <3>1 DEF Longer, TypeOK, ServerFrame
  <2> QED
    BY <2>1, <2>2
<1>13. TypeOK'
  BY <1>3, <1>10, <1>12, ClientLeft DEF TypeOK, ServerFrame, ClientFrame
<1>14. Ranges'
  <2>1. \A d \in Calls: /\ using'[d].sent < ReqParts /\ using'[d].got < RepParts
                        /\ using'[d].timer => using'[d].st = "waiting"
    BY <1>6, <1>7, <1>11 DEF Ranges
  <2> QED
    BY <1>3, <2>1 DEF Ranges, IdemReply
<1>15. ASSUME NEW d \in Calls
       PROVE  /\ \/ using'[d].st = using[d].st
                 \/ using[d].st = "waiting" /\ using'[d].st = "done"
              /\ using'[d].sent = using[d].sent
              /\ using'[d].st = "waiting" /\ ~using'[d].timer => SlowKept(d)
  BY <1>3, <1>7, <1>11 DEF ToldToWait
<1>16. \A k \in 1..Len(toServer'): k > Len(toServer) =>
              \E d \in Calls: /\ IsAck(toServer'[k], d)
                              /\ using'[d].st = "done"
                              /\ runs[d] # 0 /\ Answered(d)
  BY <1>2, <1>6, <1>11, <1>12 DEF c
<1>17. UNCHANGED <<serving, runs>>
  BY <1>3
<1> HIDE <1>3
<1> QED
  BY <1>12, <1>13, <1>14, <1>15, <1>16, <1>17, ClientLeft, ReceiveStep

\* recv_slow_request(): the retries stop.
LEMMA RecvSlowInv ==
    ASSUME ProtoInv, TakenByClient, faults' \in 0..MaxFaults, recv_slow_request(Head(toClient))
    PROVE  ProtoInv'
<1> USE DEF ProtoInv
<1> DEFINE f == toClient[1]
           c == f.call
<1>1. recv_slow_request(f) /\ f \in ClientFrame /\ 1 \in 1..Len(toClient)
  BY ClientLeft
<1>2. /\ f.type = "slow" /\ c \in Calls
      /\ using' = [using EXCEPT ![c].timer = FALSE]
      /\ UNCHANGED <<serving, toServer, choked, runs>>
  BY <1>1, FrameTypes DEF recv_slow_request, Slow
<1>3. SlowKept(c) \/ using[c].st = "done"
  BY <1>1, <1>2 DEF ToldToWait
<1>4. using \in [Calls -> UsingEntry]
  BY DEF TypeOK
<1> HIDE DEF f, c
<1>5. /\ \A d \in Calls: /\ using'[d].st = using[d].st /\ using'[d].sent = using[d].sent
                         /\ using'[d].got = using[d].got
      /\ using' \in [Calls -> UsingEntry]
      /\ \A d \in Calls: d # c => using'[d] = using[d]
      /\ ~using'[c].timer
  BY <1>2, <1>4 DEF UsingEntry
<1>6. TypeOK'
  BY <1>2, <1>5, ClientLeft DEF TypeOK, ClientFrame
<1>7. Ranges'
  <2>1. \A d \in Calls: /\ using'[d].sent < ReqParts /\ using'[d].got < RepParts
                        /\ using'[d].timer => using'[d].st = "waiting"
    BY <1>5 DEF Ranges
  <2> QED
    BY <1>2, <2>1 DEF Ranges, IdemReply
<1>8. \A d \in Calls: using'[d].st = "waiting" /\ ~using'[d].timer => SlowKept(d)
  BY <1>3, <1>5 DEF ToldToWait
<1>9. Longer(toServer', toServer) /\ Len(toServer) \in Nat /\ toServer' = toServer
  BY <1>2, LenProperties DEF Longer, TypeOK
<1> QED
  BY <1>2, <1>5, <1>6, <1>7, <1>8, <1>9, ClientLeft, ReceiveStep

(* What the requester does with a frame preserves the invariant.           *)
LEMMA AtClientInv ==
    ASSUME ProtoInv, TakenByClient, faults' \in 0..MaxFaults, AtClient(Head(toClient))
    PROVE  ProtoInv'
<1>1. CASE recv_other_part(Head(toClient)) \/ recv_nak_msg(Head(toClient))
  BY <1>1, ClientLeft, ClientDropInv DEF recv_other_part, recv_nak_msg, ProtoInv, TypeOK
<1> QED
  BY <1>1, OldReplyInv, RecvReplyInv, RecvSlowInv DEF AtClient

-----------------------------------------------------------------------------
(* The serving site, on its own: running requests and sending replies.     *)

(* A step that concerns the entry i, of the request c, and no other.       *)
LEMMA ReplyStep ==
    ASSUME ProtoInv, TypeOK', UNCHANGED <<using, toServer>>,
           NEW i \in Slots, NEW c \in Calls, Active(i, c),
           \A j \in Slots: j # i => serving'[j] = serving[j],
           InRange(i)',
           \/ serving'[i].state = "NOT_ACTIVE"
           \/ serving'[i].call = c /\ serving'[i].got = serving[i].got,
           serving'[i].state = "RECVING_REQUEST" <=> serving[i].state = "RECVING_REQUEST",
           serving'[i].state = "SERVING" => serving[i].state = "SERVING",
           serving'[i].state = "ACK_RECEIVED" => serving[i].state = "ACK_RECEIVED",
           serving'[i].state \in {"SENDING_REPLY", "WAITING_ACK", "ACK_RECEIVED"}
              => runs'[c] # 0,
           \A d \in Calls: d # c => runs'[d] = runs[d],
           runs[c] # 0 => runs'[c] # 0,
           runs'[c] # 0 => runs[c] # 0 \/ serving[i].state = "SERVING",
           \A k \in 1..Len(toClient'):
              \/ \E j \in 1..Len(toClient): toClient'[k] = toClient[j]
              \/ toClient'[k].type = "reply" /\ toClient'[k].call = c /\ runs'[c] # 0,
           Kept(c) => Kept(c)',
           SlowKept(c) => SlowKept(c)',
           Answered(c)' => \/ Answered(c)
                           \/ /\ Kept(c)' \/ Quiet(c)
                              /\ serving'[i].state \notin {"RECVING_REQUEST", "SERVING"}
    PROVE  ProtoInv'
<1> USE DEF ProtoInv
<1>0. serving[i].state # "NOT_ACTIVE" /\ serving[i].call = c
  BY DEF Active
<1>1. Ranges'
  BY DEF Ranges, InRange, IdemReply
<1>2. Known'
  <2>1. \A d \in Calls: Sent(d)' = Sent(d)
    BY DEF Sent
  <2>2. \A j \in Slots: InParts(j)'
    <3>1. ASSUME NEW j \in Slots, j # i PROVE InParts(j)'
      BY <3>1 DEF Known, InParts, Sent
    <3>2. InParts(i)'
      <4>1. /\ serving[i].got \in 1..Sent(c)
            /\ serving[i].state = "RECVING_REQUEST" \/ serving[i].got = ReqParts
        BY <1>0 DEF Known
      <4> QED
        BY <4>1, <2>1 DEF InParts
    <3> QED
      BY <3>1, <3>2
  <2>3. ASSUME NEW d \in Calls, runs'[d] # 0 PROVE Sent(d) = ReqParts
    <3>1. CASE d = c /\ serving[i].state = "SERVING"
      <4>1. ReqParts \in 1..Sent(c)
        BY <3>1, <1>0 DEF Known
      <4> QED
        BY <3>1, <4>1, SentType, ProtoAssumption
    <3>2. CASE runs[d] # 0
      BY <3>2 DEF Known
    <3> QED
      BY <2>3, <3>1, <3>2
  <2>4. \A k \in 1..Len(toServer):
          toServer[k].type = "request" => toServer[k].part < Sent(toServer[k].call)
    BY DEF Known
  <2> QED
    BY <2>1, <2>2, <2>3, <2>4 DEF Known, InParts, Sent
<1>3. \A d \in Calls: runs[d] # 0 => runs'[d] # 0
  OBVIOUS
<1>4. Ran'
  <2>1. \A k \in 1..Len(toServer'): toServer'[k].type = "ack" => runs'[toServer'[k].call] # 0
    BY <1>3, FrameCalls DEF Ran
  <2>2. \A k \in 1..Len(toClient'): toClient'[k].type = "reply" => runs'[toClient'[k].call] # 0
    BY <1>3, FrameCalls DEF Ran
  <2>3. ASSUME NEW j \in Slots,
               serving'[j].state \in {"SENDING_REPLY", "WAITING_ACK", "ACK_RECEIVED"}
        PROVE  runs'[serving'[j].call] # 0
    <3>1. CASE j = i
      BY <2>3, <3>1
    <3>2. CASE j # i
      <4>1. serving[j].call \in Calls /\ runs[serving[j].call] # 0
        BY <2>3, <3>2 DEF Ranges, Ran
      <4> QED
        BY <4>1, <3>2, <1>3
    <3> QED
      BY <3>1, <3>2
  <2> QED
    BY <2>1, <2>2, <2>3 DEF Ran
<1>5. \A j \in Slots, d \in Calls: Active(j, d)' => Active(j, d)
  BY <1>0 DEF Active
<1>6. OneEntry'
  BY <1>5 DEF OneEntry
<1>7. FirstIsNew'
  <2>1. ASSUME NEW d \in Calls, NEW k \in 1..Len(toServer), First(toServer[k], d)
        PROVE  /\ \A j \in Slots: ~Active(j, d)
               /\ runs'[d] = 0
               /\ \A j \in 1..Len(toServer): j < k => ~Unseen(toServer[j], d)
    BY <2>1 DEF FirstIsNew
  <2> QED
    BY <2>1, <1>5 DEF FirstIsNew
<1>8. AckIsLast'
  BY DEF AckIsLast
<1>9. \A d \in Calls: Quiet(d)' <=> Quiet(d)
  BY DEF Quiet
<1>10. \A d \in Calls: d # c => (Kept(d) => Kept(d)') /\ (SlowKept(d) => SlowKept(d)')
  BY <1>0 DEF Kept, SlowKept, IdemReply
<1>11. \A d \in Calls: d # c => (Answered(d)' => Answered(d))
  <2>1. ASSUME NEW d \in Calls, d # c, NEW k \in 1..Len(toClient'), IsKeptReply(toClient'[k], d)
        PROVE  \E j \in 1..Len(toClient): IsKeptReply(toClient[j], d)
    BY <2>1 DEF IsKeptReply
  <2> QED
    BY <2>1 DEF Answered
<1>12. ASSUME NEW d \in Calls, Answered(d)'
       PROVE  /\ Kept(d)' \/ Quiet(d)'
              /\ \A j \in Slots: serving'[j].call = d =>
                    serving'[j].state \notin {"RECVING_REQUEST", "SERVING"}
  <2>1. CASE Answered(d)
    <3>1. /\ Kept(d) \/ Quiet(d)
          /\ \A j \in Slots: serving[j].call = d =>
                serving[j].state \notin {"RECVING_REQUEST", "SERVING"}
      BY <2>1 DEF Remembered
    <3>2. Kept(d)' \/ Quiet(d)'
      BY <3>1, <1>9, <1>10
    <3> QED
      BY <3>1, <3>2, <1>0
  <2>2. CASE /\ d = c
             /\ Kept(c)' \/ Quiet(c)
             /\ serving'[i].state \notin {"RECVING_REQUEST", "SERVING"}
    <3>1. \A j \in Slots: j # i /\ serving[j].call = c => serving[j].state = "NOT_ACTIVE"
      BY DEF OneEntry, Active
    <3> QED
      BY <2>2, <3>1, <1>9
  <2> QED
    BY <1>11, <1>12, <2>1, <2>2
<1>13. ASSUME NEW j \in Slots, serving'[j].state = "ACK_RECEIVED"
       PROVE  \E d \in Calls: d = serving'[j].call /\ Quiet(d)'
  <2>1. serving[j].state = "ACK_RECEIVED" /\ serving'[j].call = serving[j].call
    BY <1>13, <1>0
  <2>2. serving[j].call \in Calls /\ Quiet(serving[j].call)
    BY <2>1 DEF Ranges, Remembered
  <2> QED
    BY <2>1, <2>2, <1>9
<1>14. Remembered'
  BY <1>12, <1>13 DEF Remembered
<1>15. ToldToWait'
  <2>1. \A d \in Calls: SlowKept(d) => SlowKept(d)'
    BY <1>10
  <2>2. ASSUME NEW k \in 1..Len(toClient'), toClient'[k].type = "slow"
        PROVE  \E d \in Calls: d = toClient'[k].call /\ (SlowKept(d)' \/ using'[d].st = "done")
    BY <2>1, <2>2, FrameCalls DEF ToldToWait
  <2>3. \A d \in Calls: using'[d].st = "waiting" /\ ~using'[d].timer => SlowKept(d)'
    BY <2>1 DEF ToldToWait
  <2> QED
    BY <2>2, <2>3 DEF ToldToWait
<1> QED
  BY <1>1, <1>2, <1>4, <1>6, <1>7, <1>8, <1>14, <1>15

(* A request is run.  It is not answered yet, so it is not run again.      *)
LEMMA NetReplyInv ==
    ASSUME ProtoInv, NEW i \in Slots, net_reply(i)
    PROVE  ProtoInv'
<1> USE DEF ProtoInv
<1>1. PICK c \in Calls: c = serving[i].call
  BY DEF net_reply, Ranges
<1>2. /\ serving[i].state = "SERVING"
      /\ serving' = [serving EXCEPT ![i].state = "SENDING_REPLY"]
      /\ runs' = [runs EXCEPT ![c] = IF @ = 0 THEN 1 ELSE 2]
      /\ UNCHANGED <<using, toServer, toClient, choked, faults>>
  BY <1>1 DEF net_reply
<1>3. serving \in [Slots -> ServingEntry] /\ runs \in [Calls -> 0..2]
  BY DEF TypeOK
<1>4. /\ \A j \in Slots: j # i => serving'[j] = serving[j]
      /\ serving'[i].state = "SENDING_REPLY" /\ serving'[i].call = c
      /\ serving'[i].got = serving[i].got /\ serving'[i].sent = serving[i].sent
      /\ serving'[i].slow = serving[i].slow
      /\ serving' \in [Slots -> ServingEntry]
  BY <1>1, <1>2, <1>3 DEF ServingEntry, ServingState
<1>5. /\ runs' \in [Calls -> 0..2] /\ runs'[c] # 0
      /\ \A d \in Calls: d # c => runs'[d] = runs[d]
  BY <1>2, <1>3
<1>6. TypeOK'
  BY <1>2, <1>4, <1>5 DEF TypeOK
<1>7. Active(i, c)
  BY <1>1, <1>2 DEF Active
<1>8. InRange(i)'
  BY <1>4 DEF InRange, Ranges
<1>9. Kept(c) => Kept(c)'
  <2>1. Kept(c) => \E j \in Slots: /\ j # i /\ serving[j].call = c
                                   /\ serving[j].state \in {"SENDING_REPLY", "WAITING_ACK"}
                                   /\ ~IdemReply(j)
    BY <1>2 DEF Kept
  <2> QED
    BY <2>1, <1>4 DEF Kept, IdemReply
<1>10. SlowKept(c) => SlowKept(c)'
  BY <1>4 DEF SlowKept
<1>11. Answered(c)' => Answered(c) \/ Kept(c)'
  <2>1. c \notin Repeatable => Kept(c)'
    BY <1>4 DEF Kept, IdemReply
  <2> QED
    BY <2>1, <1>2 DEF Answered
<1> QED
  BY <1>2, <1>4, <1>5, <1>6, <1>7, <1>8, <1>9, <1>10, <1>11, ReplyStep

\* GrowOld: ten minutes pass over a request that is only partly received.
LEMMA GrowOldInv ==
    ASSUME ProtoInv, NEW i \in Slots, GrowOld(i)
    PROVE  ProtoInv'
<1> USE DEF ProtoInv
<1>1. PICK c \in Calls: c = serving[i].call
  BY DEF GrowOld, Ranges
<1>2. /\ serving[i].state = "RECVING_REQUEST"
      /\ serving' = [serving EXCEPT ![i].old = TRUE]
      /\ UNCHANGED <<using, toServer, toClient, choked, runs, faults>>
  BY DEF GrowOld
<1>3. serving \in [Slots -> ServingEntry]
  BY DEF TypeOK
<1>4. /\ \A j \in Slots: j # i => serving'[j] = serving[j]
      /\ serving'[i].state = "RECVING_REQUEST" /\ serving'[i].call = c
      /\ serving'[i].got = serving[i].got /\ serving'[i].sent = serving[i].sent
      /\ serving'[i].slow = serving[i].slow
      /\ serving' \in [Slots -> ServingEntry]
  BY <1>1, <1>2, <1>3 DEF ServingEntry
<1>5. TypeOK'
  BY <1>2, <1>4 DEF TypeOK
<1>6. Active(i, c)
  BY <1>1, <1>2 DEF Active
<1>7. InRange(i)'
  BY <1>2, <1>4 DEF InRange, Ranges
<1>8. Kept(c) => Kept(c)'
  <2>1. Kept(c) => \E j \in Slots: /\ j # i /\ serving[j].call = c
                                   /\ serving[j].state \in {"SENDING_REPLY", "WAITING_ACK"}
                                   /\ ~IdemReply(j)
    BY <1>2 DEF Kept
  <2> QED
    BY <2>1, <1>4 DEF Kept, IdemReply
<1>9. SlowKept(c) => SlowKept(c)'
  BY <1>2, <1>4 DEF SlowKept
<1>10. Answered(c)' => Answered(c)
  BY <1>2 DEF Answered
<1> QED
  BY <1>2, <1>4, <1>5, <1>6, <1>7, <1>8, <1>9, <1>10, ReplyStep

(* A reply is sent, for the first time or again, of what was run; unless   *)
(* it is idempotent its entry stays, or was acknowledged.                  *)
LEMMA ReplySent ==
    ASSUME ProtoInv, UNCHANGED <<using, toServer, choked, runs, faults>>,
           NEW i \in Slots, NEW c \in Calls, c = serving[i].call,
           serving[i].state \in {"SENDING_REPLY", "WAITING_ACK", "ACK_RECEIVED"},
           NEW e, serving' = [serving EXCEPT ![i] = e],
           \/ e = NoEntry /\ (IdemReply(i) \/ serving[i].state = "ACK_RECEIVED")
           \/ /\ e \in ServingEntry /\ e.call = c /\ e.slow = serving[i].slow
              /\ e.got = serving[i].got /\ e.sent < RepParts
              /\ e.state = serving[i].state
           \/ /\ e \in ServingEntry /\ e.call = c /\ e.slow = serving[i].slow
              /\ e.got = serving[i].got /\ e.sent < RepParts
              /\ e.state = "WAITING_ACK" /\ ~IdemReply(i)
              /\ serving[i].state = "SENDING_REPLY",
           toClient' \in Seq(ClientFrame),
           \A k \in 1..Len(toClient'):
              \/ \E j \in 1..Len(toClient): toClient'[k] = toClient[j]
              \/ /\ toClient'[k].type = "reply" /\ toClient'[k].call = c
                 /\ toClient'[k].idem <=> IdemReply(i)
    PROVE  ProtoInv'
<1> USE DEF ProtoInv
<1>1. serving \in [Slots -> ServingEntry] /\ runs[c] # 0
  BY DEF TypeOK, Ran
<1>2. NoEntry \in ServingEntry /\ NoEntry.state = "NOT_ACTIVE" /\ NoEntry.sent = 0
  BY ProtoAssumption DEF NoEntry, ServingEntry, ServingState
<1>3. /\ \A j \in Slots: j # i => serving'[j] = serving[j]
      /\ serving'[i] = e
      /\ serving' \in [Slots -> ServingEntry]
  BY <1>1, <1>2
<1>4. TypeOK'
  BY <1>3 DEF TypeOK, ClientFrame
<1>5. Active(i, c)
  BY DEF Active
<1>6. InRange(i)'
  <2>1. CASE e = NoEntry
    BY <2>1, <1>2, <1>3, ProtoAssumption DEF InRange
  <2>2. CASE /\ e.call = c /\ e.slow = serving[i].slow /\ e.sent < RepParts
             /\ e.state = serving[i].state
    BY <2>2, <1>3 DEF InRange, Ranges, IdemReply
  <2>3. CASE /\ e.call = c /\ e.slow = serving[i].slow /\ e.sent < RepParts
             /\ e.state = "WAITING_ACK" /\ ~IdemReply(i)
    BY <2>3, <1>3 DEF InRange, IdemReply
  <2> QED
    BY <2>1, <2>2, <2>3
<1>7. ASSUME Kept(c) PROVE Kept(c)'
  <2>1. PICK j \in Slots: /\ serving[j].call = c
                          /\ serving[j].state \in {"SENDING_REPLY", "WAITING_ACK"}
                          /\ ~IdemReply(j)
    BY <1>7 DEF Kept
  <2>2. CASE j # i
    BY <2>1, <2>2, <1>3 DEF Kept, IdemReply
  <2>3. CASE j = i
    BY <2>1, <2>3, <1>3 DEF Kept, IdemReply
  <2> QED
    BY <2>2, <2>3
<1>8. ASSUME SlowKept(c) PROVE SlowKept(c)'
  <2>1. PICK j \in Slots: /\ serving[j].call = c /\ serving[j].slow
                          /\ serving[j].state \in {"SERVING", "SENDING_REPLY", "WAITING_ACK"}
    BY <1>8 DEF SlowKept
  <2>2. CASE j # i
    BY <2>1, <2>2, <1>3 DEF SlowKept
  <2>3. CASE j = i
    BY <2>1, <2>3, <1>3 DEF SlowKept, IdemReply
  <2> QED
    BY <2>2, <2>3
<1>9. ASSUME Answered(c)', ~Answered(c) PROVE Kept(c)' \/ Quiet(c)
  <2>1. PICK k \in 1..Len(toClient'): IsKeptReply(toClient'[k], c)
    BY <1>9 DEF Answered
  <2>2. ~IdemReply(i)
    BY <2>1, <1>9 DEF Answered, IsKeptReply
  <2>3. CASE serving[i].state = "ACK_RECEIVED"
    BY <2>3 DEF Remembered
  <2>4. CASE serving[i].state # "ACK_RECEIVED"
    BY <2>2, <2>4, <1>7 DEF Kept
  <2> QED
    BY <2>3, <2>4
<1> QED
  BY <1>1, <1>2, <1>3, <1>4, <1>5, <1>6, <1>7, <1>8, <1>9, ReplyStep

\* The frames of a reply have their type.
LEMMA ReplyFrames ==
    ASSUME ProtoInv, NEW i \in Slots, serving[i].call \in Calls, NEW p \in 0..RepParts - 1
    PROVE  /\ ReplyFrame(i, p) \in ClientFrame /\ ReplyFrame(i, p).type = "reply"
           /\ ReplyFrame(i, p).call = serving[i].call
           /\ ReplyFrame(i, p).idem <=> IdemReply(i)
  BY DEF ReplyFrame, ClientFrame, Reply, IdemReply

\* dux_send_reply() sends the next part of a reply.
LEMMA DuxSendReplyInv ==
    ASSUME ProtoInv, NEW i \in Slots, dux_send_reply(i)
    PROVE  ProtoInv'
<1> DEFINE last == serving[i].sent = RepParts - 1
           e == IF last THEN AfterReply(i)
                ELSE [serving[i] EXCEPT !.sent = serving[i].sent + 1]
           f == ReplyFrame(i, serving[i].sent)
<1>1. /\ serving[i].state \in {"SENDING_REPLY", "ACK_RECEIVED"}
      /\ serving' = [serving EXCEPT ![i] = e]
      /\ toClient' = Append(toClient, f)
      /\ UNCHANGED <<using, toServer, choked, runs, faults>>
  BY DEF dux_send_reply
<1>2. PICK c \in Calls: c = serving[i].call
  BY <1>1 DEF ProtoInv, Ranges
<1>3. serving[i] \in ServingEntry /\ serving[i].sent \in 0..RepParts - 1
  BY ProtoAssumption DEF ProtoInv, TypeOK, Ranges, ServingEntry
<1>4. \/ e = NoEntry /\ (IdemReply(i) \/ serving[i].state = "ACK_RECEIVED")
      \/ /\ e \in ServingEntry /\ e.call = c /\ e.slow = serving[i].slow
         /\ e.got = serving[i].got /\ e.sent < RepParts
         /\ e.state = serving[i].state
      \/ /\ e \in ServingEntry /\ e.call = c /\ e.slow = serving[i].slow
         /\ e.got = serving[i].got /\ e.sent < RepParts
         /\ e.state = "WAITING_ACK" /\ ~IdemReply(i)
         /\ serving[i].state = "SENDING_REPLY"
  <2>1. CASE ~last
    <3>1. e = [serving[i] EXCEPT !.sent = serving[i].sent + 1] /\ serving[i].sent + 1 \in 0..RepParts - 1
      BY <2>1, <1>3, ProtoAssumption
    <3> HIDE DEF e
    <3> QED
      BY <3>1, <1>2, <1>3, ProtoAssumption DEF ServingEntry
  <2>2. CASE last /\ ~IdemReply(i) /\ serving[i].state # "ACK_RECEIVED"
    <3>1. e = [serving[i] EXCEPT !.state = "WAITING_ACK", !.sent = 0] /\ 0 \in 0..RepParts - 1
      BY <2>2, ProtoAssumption DEF AfterReply
    <3> HIDE DEF e
    <3> QED
      <4>1. e \in ServingEntry
        <5>1. 0 \in 0..RepParts /\ "WAITING_ACK" \in ServingState
          BY ProtoAssumption DEF ServingState
        <5> QED
          BY <3>1, <5>1, <1>3 DEF ServingEntry
      <4>2. /\ e.call = c /\ e.slow = serving[i].slow /\ e.got = serving[i].got
            /\ e.sent = 0 /\ e.state = "WAITING_ACK"
        BY <3>1, <1>2, <1>3 DEF ServingEntry
      <4> QED
        BY <4>1, <4>2, <2>2, <1>1, ProtoAssumption
  <2>3. CASE last /\ (IdemReply(i) \/ serving[i].state = "ACK_RECEIVED")
    BY <2>3 DEF AfterReply
  <2> QED
    BY <2>1, <2>2, <2>3
<1>5. /\ f \in ClientFrame /\ f.type = "reply" /\ f.call = c
      /\ f.idem <=> IdemReply(i)
  BY <1>2, <1>3, ReplyFrames
<1> HIDE DEF e, f
<1>6. /\ toClient' \in Seq(ClientFrame)
      /\ \A k \in 1..Len(toClient'):
            \/ \E j \in 1..Len(toClient): toClient'[k] = toClient[j]
            \/ /\ toClient'[k].type = "reply" /\ toClient'[k].call = c
               /\ toClient'[k].idem <=> IdemReply(i)
  BY <1>1, <1>5, SendToClient DEF ProtoInv
<1> QED
  BY <1>1, <1>2, <1>4, <1>6, ReplySent

\* retry_reply() starts a reply again.
LEMMA RetryReplyInv ==
    ASSUME ProtoInv, NEW i \in Slots, retry_reply(i)
    PROVE  ProtoInv'
<1> DEFINE q == [p \in 1..RepParts |-> ReplyFrame(i, p - 1)]
<1>1. /\ serving[i].state = "WAITING_ACK" /\ toClient' = toClient \o q
      /\ UNCHANGED <<using, serving, toServer, choked, runs, faults>>
  BY DEF retry_reply
<1>2. PICK c \in Calls: c = serving[i].call
  BY <1>1 DEF ProtoInv, Ranges
<1>3. \A p \in 1..RepParts: /\ q[p] \in ClientFrame /\ q[p].type = "reply" /\ q[p].call = c
                            /\ q[p].idem <=> IdemReply(i)
  <2>1. \A p \in 1..RepParts: p - 1 \in 0..RepParts - 1
    BY ProtoAssumption
  <2> QED
    BY <1>2, <2>1, ReplyFrames
<1>4. q \in [1..RepParts -> ClientFrame] /\ DOMAIN q = 1..RepParts
  BY <1>3
<1> HIDE DEF q
<1>5. q \in Seq(ClientFrame)
  BY <1>4, ProtoAssumption
<1>6. Len(q) \in Nat /\ 1..Len(q) = 1..RepParts
  BY <1>4, <1>5, LenProperties
<1>7. Len(q) = RepParts
  BY <1>6, ProtoAssumption
<1>8. toClient \in Seq(ClientFrame) /\ Len(toClient) \in Nat
  BY LenProperties DEF ProtoInv, TypeOK, ClientFrame
<1>9. /\ toClient' \in Seq(ClientFrame) /\ Len(toClient') = Len(toClient) + RepParts
      /\ \A k \in 1..(Len(toClient) + RepParts): toClient'[k] =
            IF k <= Len(toClient) THEN toClient[k] ELSE q[k - Len(toClient)]
  BY <1>1, <1>5, <1>7, <1>8, ConcatProperties
<1>10. \A k \in 1..Len(toClient'): \/ \E j \in 1..Len(toClient): toClient'[k] = toClient[j]
                                   \/ \E p \in 1..RepParts: toClient'[k] = q[p]
  BY <1>8, <1>9, ProtoAssumption
<1>11. \A k \in 1..Len(toClient'):
            \/ \E j \in 1..Len(toClient): toClient'[k] = toClient[j]
            \/ /\ toClient'[k].type = "reply" /\ toClient'[k].call = c
               /\ toClient'[k].idem <=> IdemReply(i)
  BY <1>3, <1>10
<1> DEFINE e == serving[i]
<1>12. /\ serving' = [serving EXCEPT ![i] = e]
       /\ e \in ServingEntry /\ e.call = c /\ e.slow = serving[i].slow
       /\ e.got = serving[i].got /\ e.sent < RepParts
       /\ e.state = serving[i].state
  BY <1>1, <1>2 DEF ProtoInv, TypeOK, Ranges
<1>13. UNCHANGED <<using, toServer, choked, runs, faults>>
  BY <1>1
<1>14. serving[i].state \in {"SENDING_REPLY", "WAITING_ACK", "ACK_RECEIVED"}
  BY <1>1
<1> HIDE <1>1
<1> HIDE DEF e
<1> QED
  BY <1>2, <1>9, <1>11, <1>12, <1>13, <1>14, ReplySent

-----------------------------------------------------------------------------
\* Every step preserves the invariant.
LEMMA StepInv == ProtoInv /\ [Next]_vars => ProtoInv'
<1> SUFFICES ASSUME ProtoInv, [Next]_vars PROVE ProtoInv'
  OBVIOUS
<1>0. faults \in 0..MaxFaults /\ choked \in BOOLEAN
  BY DEF ProtoInv, TypeOK
<1>1. ASSUME NEW c \in Calls, net_request(c) \/ dux_send(c) \/ retry_request(c)
      PROVE  ProtoInv'
  BY <1>1, NetRequestInv, DuxSendInv, RetryRequestInv
<1>2. ASSUME NEW i \in Slots,
             net_reply(i) \/ dux_send_reply(i) \/ retry_reply(i) \/ GrowOld(i)
      PROVE  ProtoInv'
  BY <1>2, NetReplyInv, DuxSendReplyInv, RetryReplyInv, GrowOldInv
<1>3. CASE flow_control
  <2>1. NoneAdded(toClient', toClient) /\ toClient' \in Seq(ClientFrame)
    BY <1>3 DEF flow_control, NoneAdded, ProtoInv, TypeOK, ClientFrame
  <2> QED
    BY <1>0, <1>3, <2>1, ClientDropInv DEF flow_control
<1>4. Fault => faults' \in 0..MaxFaults
  BY <1>0, ProtoAssumption DEF Fault
<1>5. CASE DeliverToServer \/ DeliverToServerTwice \/ NoBuffers
  BY <1>0, <1>4, <1>5, AtServerInv
     DEF DeliverToServer, DeliverToServerTwice, NoBuffers, TakenByServer
<1>6. CASE DeliverToClient \/ DeliverToClientTwice
  BY <1>0, <1>4, <1>6, AtClientInv DEF DeliverToClient, DeliverToClientTwice, TakenByClient
<1>7. CASE Lose
  <2>1. CASE toServer # <<>> /\ toServer' = Tail(toServer) /\ UNCHANGED toClient
    BY <2>1, <1>4, <1>7, ServerDropInv DEF Lose, TakenByServer
  <2>2. CASE toClient # <<>> /\ toClient' = Tail(toClient) /\ UNCHANGED toServer
    <3>1. TakenByClient
      BY <2>2 DEF TakenByClient
    <3> QED
      BY <3>1, <2>2, <1>0, <1>4, <1>7, ClientLeft, ClientDropInv DEF Lose, ProtoInv
  <2> QED
    BY <2>1, <2>2, <1>7 DEF Lose
<1>8. CASE UNCHANGED vars
  <2>1. NoneAdded(toClient', toClient) /\ toClient' \in Seq(ClientFrame)
    BY <1>8 DEF vars, NoneAdded, ProtoInv, TypeOK, ClientFrame
  <2> QED
    BY <1>0, <1>8, <2>1, ClientDropInv DEF vars
<1> QED
  BY <1>1, <1>2, <1>3, <1>5, <1>6, <1>7, <1>8 DEF Next

(* The invariant holds in every state of every behaviour of protocol.c     *)
(* between two sites, whatever is lost, doubled, repeated or refused.      *)
THEOREM ProtoInvariant == Spec => []ProtoInv
<1>1. Spec => Init /\ [][Next]_vars
  BY DEF Spec
<1> QED
  BY <1>1, InitInv, StepInv, PTL

(* recv_ack() never panics: the entry an acknowledgement names is free, has *)
(* another request, or has a reply that is being sent or waited for.       *)
THEOREM AckNeverPanics == Spec => []NoAckPanic
<1>1. ProtoInv => NoAckPanic
  <2> SUFFICES ASSUME ProtoInv, toServer # <<>>, Head(toServer).type = "ack",
                      ~AckIsOld(Head(toServer))
               PROVE  serving[Head(toServer).slot].state
                         \in {"WAITING_ACK", "SENDING_REPLY", "ACK_RECEIVED"}
    BY DEF NoAckPanic, ProtoInv
  <2> DEFINE f == Head(toServer)
             n == f.slot
  <2>1. toServer \in Seq(ServerFrame)
    BY DEF ProtoInv, TypeOK, ServerFrame
  <2>2. f \in ServerFrame /\ f = toServer[1] /\ 1 \in 1..Len(toServer)
    <3>1. Len(toServer) \in Nat \ {0}
      BY <2>1, EmptySeq
    <3> QED
      BY <2>1, <3>1, HeadTailProperties, ElementOfSeq
  <2>3. f \in Ack /\ f.call \in Calls /\ n \in Slots
    BY <2>2, FrameTypes DEF Ack
  <2>4. Answered(f.call)
    BY <2>2 DEF Answered, IsAck
  <2>5. serving[n].call = f.call /\ serving[n].state # "NOT_ACTIVE"
    BY DEF AckIsOld
  <2>6. serving[n].state \notin {"RECVING_REQUEST", "SERVING"}
    BY <2>3, <2>4, <2>5 DEF ProtoInv, Remembered
  <2>7. serving[n].state \in ServingState
    BY <2>3 DEF ProtoInv, TypeOK, ServingEntry
  <2> QED
    BY <2>5, <2>6, <2>7 DEF ServingState
<1> QED
  BY <1>1, ProtoInvariant, PTL

(* A requester that stopped its retries on recv_slow_request() is not      *)
(* forgotten: its request is in the serving array, and will be replied to. *)
THEOREM SlowNotForgotten == Spec => []SlowIsServed
<1>1. ProtoInv => SlowIsServed
  BY DEF ProtoInv, ToldToWait, SlowKept, SlowIsServed
<1> QED
  BY <1>1, ProtoInvariant, PTL

(* No request that is not repeatable is run again: net_reply() is never    *)
(* reached for one that was run.                                           *)
LEMMA NotRunAgain ==
    ASSUME ProtoInv, NEW i \in Slots, serving[i].state = "SERVING"
    PROVE  serving[i].call \in Calls /\ (runs[serving[i].call] = 0 \/ serving[i].call \in Repeatable)
<1>1. serving[i].call \in Calls
  BY DEF ProtoInv, Ranges
<1> QED
  BY <1>1 DEF ProtoInv, Remembered, Answered

(* The steps that the abstract specification sees: all others leave the    *)
(* requesters' states, but for the parts sent, and the runs as they are.   *)
LEMMA Visible ==
    ASSUME ProtoInv, [Next]_vars
    PROVE  \/ Phase' = Phase /\ runs' = runs
           \/ \E c \in Calls: net_request(c)
           \/ \E i \in Slots: net_reply(i)
           \/ /\ TakenByClient /\ recv_reply(Head(toClient))
              /\ Head(toClient).part = RepParts - 1
<1>0. using \in [Calls -> UsingEntry]
  BY DEF ProtoInv, TypeOK
<1>1. (\A c \in Calls: using'[c].st = using[c].st) => Phase' = Phase
  BY DEF Phase
<1>2. ASSUME NEW c \in Calls, dux_send(c) PROVE Phase' = Phase /\ runs' = runs
  <2> DEFINE y == IF using[c].sent = ReqParts - 1 THEN "waiting" ELSE using[c].st
  <2>1. /\ using[c].st = "sending" /\ runs' = runs
        /\ using'[c].st = y
        /\ \A d \in Calls: d # c => using'[d].st = using[d].st
    BY <1>0, <1>2 DEF dux_send, UsingEntry
  <2>2. using'[c].st \in {"sending", "waiting"}
    BY <2>1
  <2> QED
    BY <2>1, <2>2 DEF Phase
<1>3. ASSUME NEW c \in Calls, retry_request(c) PROVE Phase' = Phase /\ runs' = runs
  BY <1>0, <1>1, <1>3 DEF retry_request, UsingEntry
<1>4. ASSUME NEW i \in Slots, dux_send_reply(i) \/ retry_reply(i) \/ GrowOld(i)
      PROVE  Phase' = Phase /\ runs' = runs
  BY <1>4 DEF dux_send_reply, retry_reply, GrowOld, Phase
<1>5. CASE flow_control \/ Lose \/ UNCHANGED vars
  BY <1>5 DEF flow_control, Lose, vars, Phase
<1>6. CASE DeliverToServer \/ DeliverToServerTwice \/ NoBuffers
  BY <1>6 DEF DeliverToServer, DeliverToServerTwice, NoBuffers, AtServer, recv_request_drop,
     recv_request_part, recv_request_slow, recv_request_new, recv_request_nak, recv_ack, Phase
<1>7. CASE DeliverToClient \/ DeliverToClientTwice
  <2> DEFINE f == Head(toClient)
  <2>1. AtClient(f) /\ TakenByClient
    BY <1>7 DEF DeliverToClient, DeliverToClientTwice, TakenByClient
  <2> HIDE DEF f
  <2>2. CASE recv_old_reply(f) \/ recv_other_part(f) \/ recv_nak_msg(f)
    BY <2>2 DEF recv_old_reply, recv_other_part, recv_nak_msg, Phase
  <2>3. CASE recv_slow_request(f)
    BY <2>3, <1>0, <1>1 DEF recv_slow_request, UsingEntry
  <2>4. CASE recv_reply(f) /\ f.part # RepParts - 1
    <3>1. /\ \A d \in Calls: d # f.call => using'[d].st = using[d].st
          /\ f.call \in Calls => using'[f.call].st = using[f.call].st
          /\ runs' = runs
      BY <2>4, <1>0 DEF recv_reply, UsingEntry
    <3> QED
      BY <3>1, <1>1
  <2> QED
    BY <2>1, <2>2, <2>3, <2>4 DEF AtClient, f
<1> QED
  BY <1>2, <1>3, <1>4, <1>5, <1>6, <1>7 DEF Next

(* recv_request() starts a request without DM_REPEATABLE at most once,     *)
(* whatever is lost, doubled or sent again.                                *)
THEOREM RunAtMostOnce == Spec => []AtMostOnce
<1>1. Init => AtMostOnce
  <2> SUFFICES ASSUME Init, NEW c \in Calls \ Repeatable PROVE runs[c] <= 1
    BY DEF AtMostOnce
  <2>1. runs[c] = 0
    BY DEF Init
  <2> QED
    BY <2>1
<1>2. ProtoInv /\ AtMostOnce /\ [Next]_vars => AtMostOnce'
  <2> SUFFICES ASSUME ProtoInv, AtMostOnce, [Next]_vars PROVE AtMostOnce'
    OBVIOUS
  <2>1. CASE runs' = runs
    BY <2>1 DEF AtMostOnce
  <2>2. ASSUME NEW i \in Slots, net_reply(i) PROVE AtMostOnce'
    <3>1. runs \in [Calls -> 0..2]
      BY DEF ProtoInv, TypeOK
    <3> QED
      BY <2>2, <3>1, NotRunAgain DEF net_reply, AtMostOnce
  <2>3. (\E c \in Calls: net_request(c)) \/ recv_reply(Head(toClient)) => runs' = runs
    BY DEF net_request, recv_reply
  <2> QED
    BY <2>1, <2>2, <2>3, Visible
<1>3. Spec => Init /\ [][Next]_vars
  BY DEF Spec
<1> QED
  BY <1>1, <1>2, <1>3, ProtoInvariant, PTL

(* The protocol implements RemoteCall: net_request() sends the request,    *)
(* net_reply() is the run, the last part of the reply is the return, and   *)
(* nothing else is to be seen.                                             *)
THEOREM ProtoRefinesRemoteCall == Spec => Implements
<1>1. Init => Abstract!Init
  BY DEF Init, Abstract!Init, Phase
<1>2. ProtoInv /\ [Next]_vars => [Abstract!Next]_(Abstract!vars)
  <2> SUFFICES ASSUME ProtoInv, [Next]_vars PROVE [Abstract!Next]_(Abstract!vars)
    OBVIOUS
  <2>0. using \in [Calls -> UsingEntry] /\ runs \in [Calls -> 0..2]
    BY DEF ProtoInv, TypeOK
  <2>1. CASE Phase' = Phase /\ runs' = runs
    BY <2>1 DEF Abstract!vars
  <2>2. ASSUME NEW c \in Calls, net_request(c) PROVE Abstract!Send(c)
    <3>1. /\ using[c].st = "idle" /\ using'[c].st = "sending" /\ runs' = runs
          /\ \A d \in Calls: d # c => using'[d].st = using[d].st
      BY <2>0, <2>2 DEF net_request, UsingEntry
    <3> QED
      BY <3>1 DEF Abstract!Send, Phase
  <2>3. ASSUME NEW i \in Slots, net_reply(i) PROVE \E c \in Calls: Abstract!Run(c)
    <3>1. PICK c \in Calls: c = serving[i].call /\ (runs[c] = 0 \/ c \in Repeatable)
      BY <2>3, NotRunAgain DEF net_reply
    <3>2. /\ serving[i].state = "SERVING" /\ using' = using
          /\ runs' = [runs EXCEPT ![c] = IF @ = 0 THEN 1 ELSE 2]
      BY <2>3, <3>1 DEF net_reply
    <3>3. ReqParts \in 1..Sent(c)
      BY <3>1, <3>2 DEF ProtoInv, Known
    <3>4. using[c].st # "idle"
      BY <3>3, ProtoAssumption DEF Sent
    <3>5. Abstract!Run(c)
      BY <3>1, <3>2, <3>4 DEF Abstract!Run, Phase
    <3> QED
      BY <3>5
  <2>4. ASSUME TakenByClient, recv_reply(Head(toClient)), Head(toClient).part = RepParts - 1
        PROVE  \E c \in Calls: Abstract!Return(c)
    <3> DEFINE f == toClient[1]
    <3>1. f = Head(toClient) /\ f \in ClientFrame /\ 1 \in 1..Len(toClient)
      BY <2>4, ClientLeft DEF ProtoInv
    <3>2. recv_reply(f) /\ f.part = RepParts - 1
      BY <2>4, <3>1
    <3> HIDE DEF f
    <3>3. PICK c \in Calls: c = f.call /\ runs[c] # 0
      BY <3>1, <3>2, ReplyLate DEF recv_reply, f
    <3>4. /\ using[c].st = "waiting" /\ using'[c].st = "done" /\ runs' = runs
          /\ \A d \in Calls: d # c => using'[d].st = using[d].st
      BY <2>0, <3>2, <3>3 DEF recv_reply, UsingEntry
    <3>5. Abstract!Return(c)
      BY <3>3, <3>4 DEF Abstract!Return, Phase
    <3> QED
      BY <3>5
  <2> QED
    BY <2>1, <2>2, <2>3, <2>4, Visible DEF Abstract!Next
<1>3. Spec => Init /\ [][Next]_vars
  BY DEF Spec
<1> QED
  BY <1>1, <1>2, <1>3, ProtoInvariant, PTL DEF Implements, Abstract!Spec
=============================================================================
