-------------------------- MODULE RdmaConnInvProofs --------------------------
(***************************************************************************)
(* The inductive invariant IInv of a connection whose replies fit one      *)
(* write (MaxChunks = 1), and the safety properties it carries, for every  *)
(* capacity of the queues, every set of operations and every result.       *)
(***************************************************************************)
EXTENDS RdmaConnProofs

---------------------------------------------------------------------------
(* Completion queues: what appending and taking a completion does. *)

(* An empty queue is sound and holds no reply. *)
LEMMA EmptyCq == SoundCq(<<>>) /\ NoReplyIn(<<>>)
BY DEF SoundCq, NoReplyIn

(* Completing a send leaves requests and replies alone. *)
LEMMA AppendSend ==
  ASSUME NEW q \in Seq(WC), SoundCq(q)
  PROVE  /\ SoundCq(Append(q, "SEND"))
         /\ NoReplyIn(Append(q, "SEND")) <=> NoReplyIn(q)
<1> DEFINE r == Append(q, "SEND")
<1>1. /\ Len(r) = Len(q) + 1 /\ Len(q) \in Nat
      /\ r[Len(r)] = "SEND"
      /\ \A i \in 1 .. Len(q) : r[i] = q[i]
  OBVIOUS
<1> HIDE DEF r
<1>2. \A i \in 1 .. Len(r) : i \in 1 .. Len(q) \/ i = Len(r)
  BY <1>1
<1>3. SoundCq(r)
  BY <1>1, <1>2 DEF SoundCq
<1>4. NoReplyIn(r) <=> NoReplyIn(q)
  BY <1>1, <1>2 DEF NoReplyIn
<1> QED
  BY <1>3, <1>4 DEF r

(* An immediate adds the only request or reply of the queue. *)
LEMMA AppendRecv ==
  ASSUME NEW q \in Seq(WC), SoundCq(q), NoReplyIn(q)
  PROVE  SoundCq(Append(q, "RECV")) /\ ~NoReplyIn(Append(q, "RECV"))
<1> DEFINE r == Append(q, "RECV")
<1>1. /\ Len(r) = Len(q) + 1 /\ Len(q) \in Nat
      /\ r[Len(r)] = "RECV"
      /\ \A i \in 1 .. Len(q) : r[i] = q[i]
  OBVIOUS
<1> HIDE DEF r
<1>2. \A i \in 1 .. Len(r) : i \in 1 .. Len(q) \/ i = Len(r)
  BY <1>1
<1>3. SoundCq(r)
  BY <1>1, <1>2 DEF SoundCq, NoReplyIn
<1>4. ~NoReplyIn(r)
  BY <1>1 DEF NoReplyIn
<1> QED
  BY <1>3, <1>4 DEF r

(* Taking a completion leaves a sound queue; what is taken is a send or *)
(* the only request or reply.                                           *)
LEMMA TakeHead ==
  ASSUME NEW q \in Seq(WC), SoundCq(q), q # <<>>
  PROVE  /\ SoundCq(Tail(q))
         /\ Head(q) = "SEND" \/ Head(q) = "RECV"
         /\ Head(q) = "SEND" => (NoReplyIn(Tail(q)) <=> NoReplyIn(q))
         /\ Head(q) = "RECV" => NoReplyIn(Tail(q)) /\ ~NoReplyIn(q)
<1> DEFINE r == Tail(q)
<1>1. /\ Len(q) = Len(r) + 1 /\ Len(r) \in Nat
      /\ Head(q) = q[1]
      /\ \A i \in 1 .. Len(r) : r[i] = q[i + 1]
  OBVIOUS
<1> HIDE DEF r
<1>2. 1 \in 1 .. Len(q) /\ \A i \in 1 .. Len(r) : i + 1 \in 1 .. Len(q) /\ i + 1 # 1
  BY <1>1
<1>3. \A i \in 1 .. Len(q) : i = 1 \/ (i - 1 \in 1 .. Len(r) /\ q[i] = r[i - 1])
  BY <1>1
<1>4. q[1] = "SEND" \/ q[1] = "RECV"
  BY <1>2 DEF SoundCq
<1>5. \A i \in 1 .. Len(r) : r[i] \in {"SEND", "RECV"}
  BY <1>1, <1>2 DEF SoundCq
<1>6. \A i, j \in 1 .. Len(r) : r[i] = "RECV" /\ r[j] = "RECV" => i = j
  <2> SUFFICES ASSUME NEW i \in 1 .. Len(r), NEW j \in 1 .. Len(r),
                      r[i] = "RECV", r[j] = "RECV"
               PROVE  i = j
    OBVIOUS
  <2>1. q[i + 1] = "RECV" /\ q[j + 1] = "RECV"
    BY <1>1
  <2>2. i + 1 = j + 1
    BY <1>2, <2>1 DEF SoundCq
  <2> QED
    BY <2>2
<1>7. q[1] = "SEND" => (NoReplyIn(r) <=> NoReplyIn(q))
  BY <1>1, <1>2, <1>3 DEF NoReplyIn
<1>8. q[1] = "RECV" => NoReplyIn(r)
  <2> SUFFICES ASSUME q[1] = "RECV", NEW i \in 1 .. Len(r), r[i] = "RECV"
               PROVE  FALSE
    BY DEF NoReplyIn
  <2>1. q[i + 1] = "RECV"
    BY <1>1
  <2>2. i + 1 = 1
    BY <1>2, <2>1 DEF SoundCq
  <2> QED
    BY <1>2, <2>2
<1>9. q[1] = "RECV" => ~NoReplyIn(q)
  BY <1>2 DEF NoReplyIn
<1> QED
  BY <1>1, <1>4, <1>5, <1>6, <1>7, <1>8, <1>9 DEF SoundCq, r

---------------------------------------------------------------------------
(* What each verb does to a healthy connection, end by end. *)

(* ibv_post_send on a working queue pair only adds a message to send. *)
LEMMA PostSendEffect ==
  ASSUME VerbsTypeOK, NEW s \in Side, qp[s] = "RTS", PostSend(s)
  PROVE  /\ unsent'[s] = unsent[s] + 1
         /\ \A t \in Side : t # s => unsent'[t] = unsent[t]
         /\ UNCHANGED <<qp, hdr, unacked, rq, rqUsed, cq, armed, events>>
<1>1. /\ unsent' = [unsent EXCEPT ![s] = @ + 1]
      /\ UNCHANGED <<qp, hdr, unacked, rq, rqUsed, cq, armed, events>>
  BY DEF PostSend, NoCompletion
<1> QED
  BY <1>1 DEF VerbsTypeOK

(* ibv_post_recv on a working queue pair adds a receive unless the queue is full. *)
LEMMA PostRecvEffect ==
  ASSUME VerbsTypeOK, NEW s \in Side, qp[s] = "RTS", PostRecv(s)
  PROVE  /\ \/ rqUsed[s] >= MaxWR /\ rq'[s] = rq[s] /\ rqUsed'[s] = rqUsed[s]
            \/ rqUsed[s] < MaxWR /\ rq'[s] = rq[s] + 1 /\ rqUsed'[s] = rqUsed[s] + 1
         /\ \A t \in Side : t # s => rq'[t] = rq[t] /\ rqUsed'[t] = rqUsed[t]
         /\ UNCHANGED <<qp, unsent, hdr, unacked, sqUsed, cq, armed, events>>
<1>0. rqUsed[s] \in Int /\ MaxWR \in Int
  BY VerbsAssumption DEF VerbsTypeOK
<1>1. CASE rqUsed[s] >= MaxWR
  <2>1. UNCHANGED <<qp, unsent, hdr, unacked, rq, sqUsed, rqUsed, cq, armed, events>>
    BY <1>0, <1>1 DEF PostRecv
  <2> QED
    BY <1>1, <2>1
<1>2. CASE rqUsed[s] < MaxWR
  <2>1. /\ rqUsed' = [rqUsed EXCEPT ![s] = @ + 1]
        /\ rq' = [rq EXCEPT ![s] = @ + 1]
        /\ UNCHANGED <<qp, unsent, hdr, unacked, sqUsed, cq, armed, events>>
    BY <1>0, <1>2 DEF PostRecv, NoCompletion
  <2> QED
    BY <1>2, <2>1 DEF VerbsTypeOK
<1> QED
  BY <1>0, <1>1, <1>2

(* A poll takes a send, or the only request or reply, from the queue. *)
LEMMA PollCqEffect ==
  ASSUME VerbsTypeOK, NEW s \in Side, SoundCq(cq[s]), NEW wc, PollCq(s, wc)
  PROVE  /\ SoundCq(cq'[s])
         /\ \/ /\ wc = "SEND"
               /\ NoReplyIn(cq'[s]) <=> NoReplyIn(cq[s])
               /\ rqUsed'[s] = rqUsed[s]
            \/ /\ wc = "RECV"
               /\ NoReplyIn(cq'[s]) /\ ~NoReplyIn(cq[s])
               /\ rqUsed'[s] = rqUsed[s] - 1
         /\ cq[s] # <<>>
         /\ \A t \in Side : t # s => cq'[t] = cq[t] /\ rqUsed'[t] = rqUsed[t]
         /\ UNCHANGED <<qp, unsent, hdr, unacked, rq, armed, events>>
<1>1. /\ cq[s] # <<>> /\ wc = Head(cq[s])
      /\ cq' = [cq EXCEPT ![s] = Tail(@)]
      /\ rqUsed' = [rqUsed EXCEPT ![s] = IF wc \in {"RECV", "RECV_ERR"} THEN @ - 1 ELSE @]
      /\ UNCHANGED <<qp, unsent, hdr, unacked, rq, armed, events>>
  BY DEF PollCq, CqEmpty
<1>2. cq[s] \in Seq(WC) /\ cq'[s] = Tail(cq[s])
  BY <1>1 DEF VerbsTypeOK
<1>3. /\ SoundCq(cq'[s])
      /\ wc = "SEND" \/ wc = "RECV"
      /\ wc = "SEND" => (NoReplyIn(cq'[s]) <=> NoReplyIn(cq[s]))
      /\ wc = "RECV" => NoReplyIn(cq'[s]) /\ ~NoReplyIn(cq[s])
  BY <1>1, <1>2, TakeHead
<1>4. rqUsed'[s] = IF wc = "RECV" THEN rqUsed[s] - 1 ELSE rqUsed[s]
  BY <1>1, <1>3 DEF VerbsTypeOK
<1>5. \A t \in Side : t # s => cq'[t] = cq[t] /\ rqUsed'[t] = rqUsed[t]
  BY <1>1 DEF VerbsTypeOK
<1> QED
  BY <1>1, <1>3, <1>4, <1>5

(* A completion turns an armed queue into one event. *)
LEMMA CompleteEffect ==
  ASSUME VerbsTypeOK, NEW s \in Side, NEW wc, Complete(s, wc)
  PROVE  /\ cq'[s] = Append(cq[s], wc)
         /\ armed'[s] = FALSE
         /\ Bit(armed'[s]) + events'[s] = Bit(armed[s]) + events[s]
         /\ \A t \in Side : t # s =>
              cq'[t] = cq[t] /\ armed'[t] = armed[t] /\ events'[t] = events[t]
<1>1. /\ cq' = [cq EXCEPT ![s] = Append(@, wc)]
      /\ armed' = [armed EXCEPT ![s] = FALSE]
      /\ events' = [events EXCEPT ![s] = IF armed[s] THEN @ + 1 ELSE @]
  BY DEF Complete
<1>2. cq'[s] = Append(cq[s], wc) /\ armed'[s] = FALSE
  BY <1>1 DEF VerbsTypeOK
<1>3. events'[s] = IF armed[s] THEN events[s] + 1 ELSE events[s]
  BY <1>1 DEF VerbsTypeOK
<1>4. Bit(armed'[s]) + events'[s] = Bit(armed[s]) + events[s]
  BY <1>2, <1>3 DEF VerbsTypeOK, Bit
<1>5. \A t \in Side : t # s =>
        cq'[t] = cq[t] /\ armed'[t] = armed[t] /\ events'[t] = events[t]
  BY <1>1 DEF VerbsTypeOK
<1> QED
  BY <1>2, <1>4, <1>5

(* A flag counts 0 or 1. *)
LEMMA BitType == \A b : Bit(b) \in {0, 1}
BY DEF Bit

---------------------------------------------------------------------------
(* The steps of set_req_sock preserve the invariant. *)
LEMMA HostIInv ==
  ASSUME MaxChunks = 1, TypeInv, IInv, SetReqSock \/ HostWait
  PROVE  IInv'
<1> USE DEF IInv, Side, TypeInv, TypeOK
<1>1. CASE SetReqSock
  <2>1. /\ UNCHANGED <<qp, unsent, hdr, rq, rqUsed, cq, armed, events>>
        /\ UNCHANGED <<hRtn, wpc, wop, chunks, wRtn, wReq>>
        /\ hpc = "idle" /\ hpc' = "post_recv_rtn"
    BY <1>1 DEF SetReqSock, verbs
  <2>2. Healthy'
    BY <2>1 DEF Healthy
  <2>3. OneCallUnderWay'
    BY <2>1
      DEF OneCallUnderWay, RequestSent, RequestQueued, RequestTaken, ReplySent,
          ReplyQueued, HostWaits
  <2>4. ReceivesPosted'
    BY <2>1
      DEF ReceivesPosted, OneCallUnderWay, RequestQueued, ReplyQueued, HostWaits, Bit
  <2>5. WakeupToken'
    BY <2>1 DEF WakeupToken, OneCallUnderWay, ReplyQueued, HostWaits, Bit
  <2>6. CallCarried'
    BY <1>1, <2>1
      DEF SetReqSock, CallCarried, OneCallUnderWay, NotExecuted, Executed, RequestSent,
          RequestQueued, RequestTaken, ReplySent, ReplyQueued, HostWaits, OwnValue,
          ReplyBelongsToCall
  <2> QED
    BY <2>2, <2>3, <2>4, <2>5, <2>6 DEF IInv
<1>2. CASE PostRecvRtn
  <2>1. /\ hpc = "post_recv_rtn" /\ hpc' = "post_write_req"
        /\ rq'["snic"] = rq["snic"] /\ rqUsed'["snic"] = rqUsed["snic"]
        /\ \/ rqUsed["host"] >= MaxWR /\ rq'["host"] = rq["host"] /\ rqUsed'["host"] = rqUsed["host"]
           \/ rq'["host"] = rq["host"] + 1 /\ rqUsed'["host"] = rqUsed["host"] + 1
        /\ UNCHANGED <<qp, unsent, hdr, cq, armed, events>>
        /\ UNCHANGED <<call, ret, hReq, hRtn, wpc, wop, chunks, wRtn, served, wReq>>
    BY <1>2, PostRecvEffect DEF PostRecvRtn, Healthy, snic
  <2>2. Healthy'
    BY <2>1 DEF Healthy
  <2>3. OneCallUnderWay'
    BY <2>1
      DEF OneCallUnderWay, RequestSent, RequestQueued, RequestTaken, ReplySent,
          ReplyQueued, HostWaits
  <2>4. ReceivesPosted'
    BY SMTT(40), <2>1, VerbsAssumption
      DEF VerbsTypeOK, ReceivesPosted, OneCallUnderWay, RequestQueued, ReplyQueued,
          HostWaits, Bit
  <2>5. WakeupToken'
    BY <2>1 DEF WakeupToken, OneCallUnderWay, ReplyQueued, HostWaits, Bit
  <2>6. CallCarried'
    BY <2>1
      DEF CallCarried, OneCallUnderWay, NotExecuted, Executed, RequestSent,
          RequestQueued, RequestTaken, ReplySent, ReplyQueued, HostWaits, OwnValue,
          ReplyBelongsToCall
  <2> QED
    BY <2>2, <2>3, <2>4, <2>5, <2>6 DEF IInv
<1>3. CASE PostWriteReq
  <2>1. /\ hpc = "post_write_req" /\ hpc' = "get_cq_event"
        /\ unsent'["host"] = unsent["host"] + 1 /\ unsent'["snic"] = unsent["snic"]
        /\ UNCHANGED <<qp, hdr, rq, rqUsed, cq, armed, events>>
        /\ UNCHANGED <<call, ret, hReq, hRtn, wpc, wop, chunks, wRtn, served, wReq>>
    BY <1>3, PostSendEffect DEF PostWriteReq, Healthy, snic
  <2>2. Healthy'
    BY <2>1 DEF Healthy, OneCallUnderWay, RequestSent, HostWaits
  <2>3. OneCallUnderWay'
    BY <2>1
      DEF OneCallUnderWay, RequestSent, RequestQueued, RequestTaken, ReplySent,
          ReplyQueued, HostWaits
  <2>4. ReceivesPosted'
    BY <2>1
      DEF ReceivesPosted, OneCallUnderWay, RequestQueued, ReplyQueued, HostWaits, Bit
  <2>5. WakeupToken'
    BY <2>1 DEF WakeupToken, OneCallUnderWay, ReplyQueued, HostWaits, Bit
  <2>6. CallCarried'
    BY <2>1
      DEF CallCarried, OneCallUnderWay, NotExecuted, Executed, RequestSent,
          RequestQueued, RequestTaken, ReplySent, ReplyQueued, HostWaits, OwnValue,
          ReplyBelongsToCall, Healthy
  <2> QED
    BY <2>2, <2>3, <2>4, <2>5, <2>6 DEF IInv
<1>4. CASE PostWriteReqFull
  <2>1. /\ hpc = "post_write_req" /\ hpc' = "drain"
        /\ UNCHANGED <<qp, unsent, hdr, rq, rqUsed, cq, armed, events>>
        /\ UNCHANGED <<call, ret, hReq, hRtn, wpc, wop, chunks, wRtn, served, wReq>>
    BY <1>4 DEF PostWriteReqFull, verbs, snic
  <2>2. Healthy'
    BY <2>1 DEF Healthy
  <2>3. OneCallUnderWay'
    BY <2>1
      DEF OneCallUnderWay, RequestSent, RequestQueued, RequestTaken, ReplySent,
          ReplyQueued, HostWaits
  <2>4. ReceivesPosted'
    BY <2>1
      DEF ReceivesPosted, OneCallUnderWay, RequestQueued, ReplyQueued, HostWaits, Bit
  <2>5. WakeupToken'
    BY <2>1 DEF WakeupToken, OneCallUnderWay, ReplyQueued, HostWaits, Bit
  <2>6. CallCarried'
    BY <2>1
      DEF CallCarried, OneCallUnderWay, NotExecuted, Executed, RequestSent,
          RequestQueued, RequestTaken, ReplySent, ReplyQueued, HostWaits, OwnValue,
          ReplyBelongsToCall
  <2> QED
    BY <2>2, <2>3, <2>4, <2>5, <2>6 DEF IInv
<1>5. CASE DrainOne
  <2>1. /\ hpc = "drain" /\ hpc' = hpc
        /\ SoundCq(cq'["host"]) /\ (NoReplyIn(cq'["host"]) <=> NoReplyIn(cq["host"]))
        /\ cq'["snic"] = cq["snic"] /\ rqUsed'["snic"] = rqUsed["snic"] /\ rqUsed'["host"] = rqUsed["host"]
        /\ UNCHANGED <<qp, unsent, hdr, rq, armed, events>>
        /\ UNCHANGED <<call, ret, hReq, hRtn, wpc, wop, chunks, wRtn, served, wReq>>
    BY <1>5, PollCqEffect
      DEF DrainOne, Healthy, OneCallUnderWay, ReplyQueued, HostWaits, snic
  <2>2. Healthy'
    BY <2>1 DEF Healthy
  <2>3. OneCallUnderWay'
    BY <2>1
      DEF OneCallUnderWay, RequestSent, RequestQueued, RequestTaken, ReplySent,
          ReplyQueued, HostWaits
  <2>4. ReceivesPosted'
    BY <2>1
      DEF ReceivesPosted, OneCallUnderWay, RequestQueued, ReplyQueued, HostWaits, Bit
  <2>5. WakeupToken'
    BY <2>1 DEF WakeupToken, OneCallUnderWay, ReplyQueued, HostWaits, Bit
  <2>6. CallCarried'
    BY <2>1
      DEF CallCarried, OneCallUnderWay, NotExecuted, Executed, RequestSent,
          RequestQueued, RequestTaken, ReplySent, ReplyQueued, HostWaits, OwnValue,
          ReplyBelongsToCall
  <2> QED
    BY <2>2, <2>3, <2>4, <2>5, <2>6 DEF IInv
<1>6. CASE RetryPostSend
  <2>1. /\ hpc = "drain" /\ hpc' = "post_write_req"
        /\ UNCHANGED <<qp, unsent, hdr, rq, rqUsed, cq, armed, events>>
        /\ UNCHANGED <<call, ret, hReq, hRtn, wpc, wop, chunks, wRtn, served, wReq>>
    BY <1>6 DEF RetryPostSend, verbs, snic
  <2>2. Healthy'
    BY <2>1 DEF Healthy
  <2>3. OneCallUnderWay'
    BY <2>1
      DEF OneCallUnderWay, RequestSent, RequestQueued, RequestTaken, ReplySent,
          ReplyQueued, HostWaits
  <2>4. ReceivesPosted'
    BY <2>1
      DEF ReceivesPosted, OneCallUnderWay, RequestQueued, ReplyQueued, HostWaits, Bit
  <2>5. WakeupToken'
    BY <2>1 DEF WakeupToken, OneCallUnderWay, ReplyQueued, HostWaits, Bit
  <2>6. CallCarried'
    BY <2>1
      DEF CallCarried, OneCallUnderWay, NotExecuted, Executed, RequestSent,
          RequestQueued, RequestTaken, ReplySent, ReplyQueued, HostWaits, OwnValue,
          ReplyBelongsToCall
  <2> QED
    BY <2>2, <2>3, <2>4, <2>5, <2>6 DEF IInv
<1>7. CASE GiveUpPostSend
  <2>1. /\ hpc = "drain" /\ hpc' = "idle"
        /\ UNCHANGED <<qp, unsent, hdr, rq, rqUsed, cq, armed, events>>
        /\ ret'.value = -1
        /\ UNCHANGED <<call, hRtn, wpc, wop, chunks, wRtn, served, wReq>>
    BY <1>7 DEF GiveUpPostSend, ReturnError, BlankReply, verbs, snic
  <2>2. Healthy'
    BY <2>1 DEF Healthy
  <2>3. OneCallUnderWay'
    BY <2>1
      DEF OneCallUnderWay, RequestSent, RequestQueued, RequestTaken, ReplySent,
          ReplyQueued, HostWaits
  <2>4. ReceivesPosted'
    BY <2>1
      DEF ReceivesPosted, OneCallUnderWay, RequestQueued, ReplyQueued, HostWaits, Bit
  <2>5. WakeupToken'
    BY <2>1 DEF WakeupToken, OneCallUnderWay, ReplyQueued, HostWaits, Bit
  <2>6. CallCarried'
    BY <2>1
      DEF CallCarried, OneCallUnderWay, NotExecuted, Executed, RequestSent,
          RequestQueued, RequestTaken, ReplySent, ReplyQueued, HostWaits, OwnValue,
          ReplyBelongsToCall
  <2> QED
    BY <2>2, <2>3, <2>4, <2>5, <2>6 DEF IInv
<1>8. CASE HostGetCqEvent
  <2>1. /\ hpc = "get_cq_event" /\ hpc' = "req_notify_cq"
        /\ events["host"] > 0
        /\ events'["host"] = events["host"] - 1 /\ events'["snic"] = events["snic"]
        /\ UNCHANGED <<qp, unsent, hdr, rq, rqUsed, cq, armed>>
        /\ UNCHANGED <<call, ret, hReq, hRtn, wpc, wop, chunks, wRtn, served, wReq>>
    BY <1>8 DEF HostGetCqEvent, GetCqEvent, VerbsTypeOK, snic
  <2>2. Healthy'
    BY <2>1 DEF Healthy
  <2>3. OneCallUnderWay'
    BY <2>1
      DEF OneCallUnderWay, RequestSent, RequestQueued, RequestTaken, ReplySent,
          ReplyQueued, HostWaits
  <2>4. ReceivesPosted'
    BY <2>1
      DEF ReceivesPosted, OneCallUnderWay, RequestQueued, ReplyQueued, HostWaits, Bit
  <2>5. WakeupToken'
    <3>1. Bit(hpc = "req_notify_cq") = 0 /\ Bit(hpc' = "req_notify_cq") = 1
      BY <2>1 DEF Bit
    <3>2. Bit(armed'["host"]) + events'["host"] + Bit(hpc' = "req_notify_cq") = 1
      <4>1. Bit(armed["host"]) + events["host"] + Bit(hpc = "req_notify_cq") = 1
        BY DEF WakeupToken
      <4>2. Bit(armed["host"]) \in Int /\ events["host"] \in Int /\ armed' = armed
        BY <2>1, BitType DEF VerbsTypeOK
      <4> QED
        BY <2>1, <3>1, <4>1, <4>2
    <3>3. Bit(armed'["snic"]) + events'["snic"] + Bit(wpc' = "req_notify_cq") = 1
      BY <2>1 DEF WakeupToken
    <3> QED
      BY <2>1, <3>2, <3>3 DEF WakeupToken, ReplyQueued
  <2>6. CallCarried'
    BY <2>1
      DEF CallCarried, OneCallUnderWay, NotExecuted, Executed, RequestSent,
          RequestQueued, RequestTaken, ReplySent, ReplyQueued, HostWaits, OwnValue,
          ReplyBelongsToCall
  <2> QED
    BY <2>2, <2>3, <2>4, <2>5, <2>6 DEF IInv
<1>9. CASE HostReqNotifyCq
  <2>1. /\ hpc = "req_notify_cq" /\ hpc' = "poll_cq"
        /\ armed'["host"] = TRUE /\ armed'["snic"] = armed["snic"]
        /\ UNCHANGED <<qp, unsent, hdr, rq, rqUsed, cq, events>>
        /\ UNCHANGED <<call, ret, hReq, hRtn, wpc, wop, chunks, wRtn, served, wReq>>
    BY <1>9 DEF HostReqNotifyCq, ReqNotifyCq, VerbsTypeOK, snic
  <2>2. Healthy'
    BY <2>1 DEF Healthy
  <2>3. OneCallUnderWay'
    BY <2>1
      DEF OneCallUnderWay, RequestSent, RequestQueued, RequestTaken, ReplySent,
          ReplyQueued, HostWaits
  <2>4. ReceivesPosted'
    BY <2>1
      DEF ReceivesPosted, OneCallUnderWay, RequestQueued, ReplyQueued, HostWaits, Bit
  <2>5. WakeupToken'
    <3>1. /\ Bit(hpc = "req_notify_cq") = 1 /\ Bit(hpc' = "req_notify_cq") = 0
          /\ Bit(armed'["host"]) = 1
      BY <2>1 DEF Bit
    <3>2. Bit(armed'["host"]) + events'["host"] + Bit(hpc' = "req_notify_cq") = 1
      <4>1. Bit(armed["host"]) + events["host"] + Bit(hpc = "req_notify_cq") = 1
        BY DEF WakeupToken
      <4>2. Bit(armed["host"]) \in {0, 1}
        BY BitType
      <4>3. events["host"] \in Nat /\ events' = events
        BY <2>1 DEF VerbsTypeOK
      <4> QED
        BY <3>1, <4>1, <4>2, <4>3
    <3>3. Bit(armed'["snic"]) + events'["snic"] + Bit(wpc' = "req_notify_cq") = 1
      BY <2>1 DEF WakeupToken
    <3> QED
      BY <2>1, <3>2, <3>3 DEF WakeupToken
  <2>6. CallCarried'
    BY <2>1
      DEF CallCarried, OneCallUnderWay, NotExecuted, Executed, RequestSent,
          RequestQueued, RequestTaken, ReplySent, ReplyQueued, HostWaits, OwnValue,
          ReplyBelongsToCall
  <2> QED
    BY <2>2, <2>3, <2>4, <2>5, <2>6 DEF IInv
<1>10. CASE HostPollEmpty
  <2>1. /\ hpc = "poll_cq" /\ hpc' = "get_cq_event"
        /\ NoReplyIn(cq["host"])
        /\ UNCHANGED <<qp, unsent, hdr, rq, rqUsed, cq, armed, events>>
        /\ UNCHANGED <<call, ret, hReq, hRtn, wpc, wop, chunks, wRtn, served, wReq>>
    BY <1>10, EmptyCq DEF HostPollEmpty, CqEmpty, verbs, snic
  <2>2. Healthy'
    BY <2>1 DEF Healthy
  <2>3. OneCallUnderWay'
    BY <2>1
      DEF OneCallUnderWay, RequestSent, RequestQueued, RequestTaken, ReplySent,
          ReplyQueued, HostWaits
  <2>4. ReceivesPosted'
    BY <2>1
      DEF ReceivesPosted, OneCallUnderWay, RequestQueued, ReplyQueued, HostWaits, Bit
  <2>5. WakeupToken'
    BY <2>1 DEF WakeupToken, OneCallUnderWay, ReplyQueued, HostWaits, Bit
  <2>6. CallCarried'
    BY <2>1
      DEF CallCarried, OneCallUnderWay, NotExecuted, Executed, RequestSent,
          RequestQueued, RequestTaken, ReplySent, ReplyQueued, HostWaits, OwnValue,
          ReplyBelongsToCall
  <2> QED
    BY <2>2, <2>3, <2>4, <2>5, <2>6 DEF IInv
<1>11. CASE HostPollSend
  <2>1. /\ hpc = "poll_cq" /\ hpc' = hpc
        /\ SoundCq(cq'["host"]) /\ (NoReplyIn(cq'["host"]) <=> NoReplyIn(cq["host"]))
        /\ cq'["snic"] = cq["snic"] /\ rqUsed'["snic"] = rqUsed["snic"] /\ rqUsed'["host"] = rqUsed["host"]
        /\ UNCHANGED <<qp, unsent, hdr, rq, armed, events>>
        /\ UNCHANGED <<call, ret, hReq, hRtn, wpc, wop, chunks, wRtn, served, wReq>>
    BY <1>11, PollCqEffect DEF HostPollSend, Healthy, host, snic
  <2>2. Healthy'
    BY <2>1 DEF Healthy
  <2>3. OneCallUnderWay'
    BY <2>1
      DEF OneCallUnderWay, RequestSent, RequestQueued, RequestTaken, ReplySent,
          ReplyQueued, HostWaits
  <2>4. ReceivesPosted'
    BY <2>1
      DEF ReceivesPosted, OneCallUnderWay, RequestQueued, ReplyQueued, HostWaits, Bit
  <2>5. WakeupToken'
    BY <2>1 DEF WakeupToken, OneCallUnderWay, ReplyQueued, HostWaits, Bit
  <2>6. CallCarried'
    BY <2>1
      DEF CallCarried, OneCallUnderWay, NotExecuted, Executed, RequestSent,
          RequestQueued, RequestTaken, ReplySent, ReplyQueued, HostWaits, OwnValue,
          ReplyBelongsToCall
  <2> QED
    BY <2>2, <2>3, <2>4, <2>5, <2>6 DEF IInv
<1>12. CASE HostPollReply
  <2>1. /\ hpc = "poll_cq" /\ hpc' = "reply"
        /\ SoundCq(cq'["host"]) /\ NoReplyIn(cq'["host"]) /\ ~NoReplyIn(cq["host"])
        /\ cq'["snic"] = cq["snic"] /\ rqUsed'["snic"] = rqUsed["snic"]
        /\ rqUsed'["host"] = rqUsed["host"] - 1
        /\ UNCHANGED <<qp, unsent, hdr, rq, armed, events>>
        /\ UNCHANGED <<call, ret, hReq, hRtn, wpc, wop, chunks, wRtn, served, wReq>>
    BY <1>12, PollCqEffect DEF HostPollReply, Healthy, snic
  <2>2. Healthy'
    BY <2>1 DEF Healthy
  <2>3. OneCallUnderWay'
    BY <2>1
      DEF OneCallUnderWay, RequestSent, RequestQueued, RequestTaken, ReplySent,
          ReplyQueued, HostWaits
  <2>4. ReceivesPosted'
    BY <2>1
      DEF ReceivesPosted, OneCallUnderWay, RequestQueued, ReplyQueued, HostWaits, Bit,
          VerbsTypeOK
  <2>5. WakeupToken'
    BY <2>1 DEF WakeupToken, OneCallUnderWay, ReplyQueued, HostWaits, Bit
  <2>6. CallCarried'
    BY <2>1
      DEF CallCarried, OneCallUnderWay, NotExecuted, Executed, RequestSent,
          RequestQueued, RequestTaken, ReplySent, ReplyQueued, HostWaits, OwnValue,
          ReplyBelongsToCall
  <2> QED
    BY <2>2, <2>3, <2>4, <2>5, <2>6 DEF IInv
<1>13. CASE HostPollError
  BY <1>13, PollCqEffect DEF HostPollError, Healthy
<1>14. CASE ReturnReply
  <2>1. /\ hpc = "reply" /\ hpc' = "idle"
        /\ UNCHANGED <<qp, unsent, hdr, rq, rqUsed, cq, armed, events>>
        /\ ret'.value = hRtn.value
        /\ UNCHANGED <<call, hRtn, wpc, wop, chunks, wRtn, served, wReq>>
    BY <1>14 DEF ReturnReply, Reply, verbs, snic
  <2>2. Healthy'
    BY <2>1 DEF Healthy
  <2>3. OneCallUnderWay'
    BY <2>1
      DEF OneCallUnderWay, RequestSent, RequestQueued, RequestTaken, ReplySent,
          ReplyQueued, HostWaits
  <2>4. ReceivesPosted'
    BY <2>1
      DEF ReceivesPosted, OneCallUnderWay, RequestQueued, ReplyQueued, HostWaits, Bit
  <2>5. WakeupToken'
    BY <2>1 DEF WakeupToken, OneCallUnderWay, ReplyQueued, HostWaits, Bit
  <2>6. CallCarried'
    BY <2>1
      DEF CallCarried, OneCallUnderWay, NotExecuted, Executed, RequestSent,
          RequestQueued, RequestTaken, ReplySent, ReplyQueued, HostWaits, OwnValue,
          ReplyBelongsToCall
  <2> QED
    BY <2>2, <2>3, <2>4, <2>5, <2>6 DEF IInv
<1> QED
  BY <1>1, <1>2, <1>3, <1>4, <1>5, <1>6, <1>7, <1>8, <1>9, <1>10, <1>11, <1>12, <1>13,
     <1>14
    DEF HostWait

---------------------------------------------------------------------------
(* The steps of the worker thread preserve the invariant. *)
LEMMA WorkerIInv ==
  ASSUME MaxChunks = 1, TypeInv, IInv, Worker
  PROVE  IInv'
<1> USE DEF IInv, Side, TypeInv, TypeOK
<1>1. CASE WorkerGetCqEvent
  <2>1. /\ wpc = "get_cq_event" /\ wpc' = "req_notify_cq"
        /\ events["snic"] > 0
        /\ events'["snic"] = events["snic"] - 1 /\ events'["host"] = events["host"]
        /\ UNCHANGED <<qp, unsent, hdr, rq, rqUsed, cq, armed>>
        /\ UNCHANGED <<hpc, call, ret, hReq, hRtn, wop, chunks, wRtn, served, wReq>>
    BY <1>1 DEF WorkerGetCqEvent, GetCqEvent, VerbsTypeOK, host
  <2>2. Healthy'
    BY <2>1 DEF Healthy
  <2>3. OneCallUnderWay'
    BY <2>1
      DEF OneCallUnderWay, RequestSent, RequestQueued, RequestTaken, ReplySent,
          ReplyQueued, HostWaits
  <2>4. ReceivesPosted'
    BY <2>1
      DEF ReceivesPosted, OneCallUnderWay, RequestQueued, ReplyQueued, HostWaits, Bit
  <2>5. WakeupToken'
    <3>1. Bit(wpc = "req_notify_cq") = 0 /\ Bit(wpc' = "req_notify_cq") = 1
      BY <2>1 DEF Bit
    <3>2. Bit(armed'["snic"]) + events'["snic"] + Bit(wpc' = "req_notify_cq") = 1
      <4>1. Bit(armed["snic"]) + events["snic"] + Bit(wpc = "req_notify_cq") = 1
        BY DEF WakeupToken
      <4>2. Bit(armed["snic"]) \in Int /\ events["snic"] \in Int /\ armed' = armed
        BY <2>1, BitType DEF VerbsTypeOK
      <4> QED
        BY <2>1, <3>1, <4>1, <4>2
    <3>3. Bit(armed'["host"]) + events'["host"] + Bit(hpc' = "req_notify_cq") = 1
      BY <2>1 DEF WakeupToken
    <3> QED
      BY <2>1, <3>2, <3>3 DEF WakeupToken, ReplyQueued
  <2>6. CallCarried'
    BY <2>1
      DEF CallCarried, OneCallUnderWay, NotExecuted, Executed, RequestSent,
          RequestQueued, RequestTaken, ReplySent, ReplyQueued, HostWaits, OwnValue,
          ReplyBelongsToCall
  <2> QED
    BY <2>2, <2>3, <2>4, <2>5, <2>6 DEF IInv
<1>2. CASE WorkerReqNotifyCq
  <2>1. /\ wpc = "req_notify_cq" /\ wpc' = "poll_cq"
        /\ armed'["snic"] = TRUE /\ armed'["host"] = armed["host"]
        /\ UNCHANGED <<qp, unsent, hdr, rq, rqUsed, cq, events>>
        /\ UNCHANGED <<hpc, call, ret, hReq, hRtn, wop, chunks, wRtn, served, wReq>>
    BY <1>2 DEF WorkerReqNotifyCq, ReqNotifyCq, VerbsTypeOK, host
  <2>2. Healthy'
    BY <2>1 DEF Healthy
  <2>3. OneCallUnderWay'
    BY <2>1
      DEF OneCallUnderWay, RequestSent, RequestQueued, RequestTaken, ReplySent,
          ReplyQueued, HostWaits
  <2>4. ReceivesPosted'
    BY <2>1
      DEF ReceivesPosted, OneCallUnderWay, RequestQueued, ReplyQueued, HostWaits, Bit
  <2>5. WakeupToken'
    <3>1. /\ Bit(wpc = "req_notify_cq") = 1 /\ Bit(wpc' = "req_notify_cq") = 0
          /\ Bit(armed'["snic"]) = 1
      BY <2>1 DEF Bit
    <3>2. Bit(armed'["snic"]) + events'["snic"] + Bit(wpc' = "req_notify_cq") = 1
      <4>1. Bit(armed["snic"]) + events["snic"] + Bit(wpc = "req_notify_cq") = 1
        BY DEF WakeupToken
      <4>2. Bit(armed["snic"]) \in {0, 1}
        BY BitType
      <4>3. events["snic"] \in Nat /\ events' = events
        BY <2>1 DEF VerbsTypeOK
      <4> QED
        BY <3>1, <4>1, <4>2, <4>3
    <3>3. Bit(armed'["host"]) + events'["host"] + Bit(hpc' = "req_notify_cq") = 1
      BY <2>1 DEF WakeupToken
    <3> QED
      BY <2>1, <3>2, <3>3 DEF WakeupToken, ReplyQueued
  <2>6. CallCarried'
    BY <2>1
      DEF CallCarried, OneCallUnderWay, NotExecuted, Executed, RequestSent,
          RequestQueued, RequestTaken, ReplySent, ReplyQueued, HostWaits, OwnValue,
          ReplyBelongsToCall
  <2> QED
    BY <2>2, <2>3, <2>4, <2>5, <2>6 DEF IInv
<1>3. CASE WorkerPollEmpty
  <2>1. /\ wpc = "poll_cq" /\ wpc' = "get_cq_event"
        /\ cq["snic"] = <<>>
        /\ UNCHANGED <<qp, unsent, hdr, rq, rqUsed, cq, armed, events>>
        /\ UNCHANGED <<hpc, call, ret, hReq, hRtn, wop, chunks, wRtn, served, wReq>>
    BY <1>3 DEF WorkerPollEmpty, CqEmpty, verbs, host
  <2>2. Healthy'
    BY <2>1 DEF Healthy
  <2>3. OneCallUnderWay'
    BY <2>1
      DEF OneCallUnderWay, RequestSent, RequestQueued, RequestTaken, ReplySent,
          ReplyQueued, HostWaits
  <2>4. ReceivesPosted'
    BY <2>1
      DEF ReceivesPosted, OneCallUnderWay, RequestQueued, ReplyQueued, HostWaits, Bit
  <2>5. WakeupToken'
    BY <2>1 DEF WakeupToken, OneCallUnderWay, ReplyQueued, HostWaits, Bit
  <2>6. CallCarried'
    BY <2>1
      DEF CallCarried, OneCallUnderWay, NotExecuted, Executed, RequestSent,
          RequestQueued, RequestTaken, ReplySent, ReplyQueued, HostWaits, OwnValue,
          ReplyBelongsToCall
  <2> QED
    BY <2>2, <2>3, <2>4, <2>5, <2>6 DEF IInv
<1>4. CASE WorkerPollSend
  <2>1. /\ wpc = "poll_cq" /\ wpc' = wpc
        /\ SoundCq(cq'["snic"]) /\ (NoReplyIn(cq'["snic"]) <=> NoReplyIn(cq["snic"]))
        /\ cq'["host"] = cq["host"] /\ rqUsed'["snic"] = rqUsed["snic"] /\ rqUsed'["host"] = rqUsed["host"]
        /\ UNCHANGED <<qp, unsent, hdr, rq, armed, events>>
        /\ UNCHANGED <<hpc, call, ret, hReq, hRtn, wop, chunks, wRtn, served, wReq>>
    BY <1>4, PollCqEffect DEF WorkerPollSend, Healthy, host, snic
  <2>2. Healthy'
    BY <2>1 DEF Healthy
  <2>3. OneCallUnderWay'
    BY <2>1
      DEF OneCallUnderWay, RequestSent, RequestQueued, RequestTaken, ReplySent,
          ReplyQueued, HostWaits
  <2>4. ReceivesPosted'
    BY <2>1
      DEF ReceivesPosted, OneCallUnderWay, RequestQueued, ReplyQueued, HostWaits, Bit
  <2>5. WakeupToken'
    BY <2>1 DEF WakeupToken, OneCallUnderWay, ReplyQueued, HostWaits, Bit
  <2>6. CallCarried'
    BY <2>1
      DEF CallCarried, OneCallUnderWay, NotExecuted, Executed, RequestSent,
          RequestQueued, RequestTaken, ReplySent, ReplyQueued, HostWaits, OwnValue,
          ReplyBelongsToCall
  <2> QED
    BY <2>2, <2>3, <2>4, <2>5, <2>6 DEF IInv
<1>5. CASE WorkerPollRequest
  <2>1. /\ wpc = "poll_cq" /\ wpc' = "post_recv_req"
        /\ SoundCq(cq'["snic"]) /\ NoReplyIn(cq'["snic"]) /\ ~NoReplyIn(cq["snic"])
        /\ cq'["host"] = cq["host"] /\ rqUsed'["host"] = rqUsed["host"]
        /\ rqUsed'["snic"] = rqUsed["snic"] - 1
        /\ UNCHANGED <<qp, unsent, hdr, rq, armed, events>>
        /\ UNCHANGED <<hpc, call, ret, hReq, hRtn, wop, chunks, wRtn, served, wReq>>
    BY <1>5, PollCqEffect DEF WorkerPollRequest, Healthy, host
  <2>2. Healthy'
    BY <2>1 DEF Healthy
  <2>3. OneCallUnderWay'
    BY <2>1
      DEF OneCallUnderWay, RequestSent, RequestQueued, RequestTaken, ReplySent,
          ReplyQueued, HostWaits
  <2>4. ReceivesPosted'
    BY SMTT(40), <2>1
      DEF ReceivesPosted, OneCallUnderWay, RequestQueued, ReplyQueued, HostWaits, Bit,
          VerbsTypeOK
  <2>5. WakeupToken'
    BY <2>1 DEF WakeupToken, OneCallUnderWay, ReplyQueued, HostWaits, Bit
  <2>6. CallCarried'
    BY <2>1
      DEF CallCarried, OneCallUnderWay, NotExecuted, Executed, RequestSent,
          RequestQueued, RequestTaken, ReplySent, ReplyQueued, HostWaits, OwnValue,
          ReplyBelongsToCall
  <2> QED
    BY <2>2, <2>3, <2>4, <2>5, <2>6 DEF IInv
<1>6. CASE WorkerPollError
  BY <1>6, PollCqEffect DEF WorkerPollError, Healthy
<1>7. CASE PostRecvReq
  <2>1. /\ wpc = "post_recv_req" /\ wpc' = "rdma_req_event"
        /\ rq'["host"] = rq["host"] /\ rqUsed'["host"] = rqUsed["host"]
        /\ \/ rqUsed["snic"] >= MaxWR /\ rq'["snic"] = rq["snic"] /\ rqUsed'["snic"] = rqUsed["snic"]
           \/ rq'["snic"] = rq["snic"] + 1 /\ rqUsed'["snic"] = rqUsed["snic"] + 1
        /\ UNCHANGED <<qp, unsent, hdr, cq, armed, events>>
        /\ UNCHANGED <<hpc, call, ret, hReq, hRtn, wop, chunks, wRtn, served, wReq>>
    BY <1>7, PostRecvEffect DEF PostRecvReq, Healthy, host
  <2>2. Healthy'
    BY <2>1 DEF Healthy
  <2>3. OneCallUnderWay'
    BY <2>1
      DEF OneCallUnderWay, RequestSent, RequestQueued, RequestTaken, ReplySent,
          ReplyQueued, HostWaits
  <2>4. ReceivesPosted'
    BY SMTT(40), <2>1, VerbsAssumption
      DEF VerbsTypeOK, RequestTaken, ReceivesPosted, OneCallUnderWay, RequestQueued,
          ReplyQueued, HostWaits, Bit
  <2>5. WakeupToken'
    BY <2>1 DEF WakeupToken, OneCallUnderWay, ReplyQueued, HostWaits, Bit
  <2>6. CallCarried'
    BY <2>1
      DEF CallCarried, OneCallUnderWay, NotExecuted, Executed, RequestSent,
          RequestQueued, RequestTaken, ReplySent, ReplyQueued, HostWaits, OwnValue,
          ReplyBelongsToCall
  <2> QED
    BY <2>2, <2>3, <2>4, <2>5, <2>6 DEF IInv
<1>8. CASE RdmaReqEvent
  <2>1. /\ wpc = "rdma_req_event" /\ wpc' = "post_write_rtn"
        /\ UNCHANGED <<qp, unsent, hdr, rq, rqUsed, cq, armed, events>>
        /\ UNCHANGED <<hpc, call, ret, hReq, hRtn, wReq>>
        /\ served' \in Outcome /\ served'.op = wReq.op /\ wop' = wReq.op /\ chunks' = 1
        /\ wReq.op \notin KeepsOldValue => wRtn'.value = served'.value
    <3>1. /\ wpc = "rdma_req_event" /\ wpc' = "post_write_rtn"
          /\ UNCHANGED <<qp, unsent, hdr, rq, rqUsed, cq, armed, events>>
          /\ UNCHANGED <<hpc, call, ret, hReq, hRtn, wReq>>
      BY <1>8 DEF RdmaReqEvent, verbs, host
    <3>2. PICK v \in Result, d \in Payload, k \in 1 .. MaxChunks :
            /\ served' = [op |-> wReq.op, arg |-> wReq.arg, value |-> v,
                          errno |-> IF v < 0 THEN 1 ELSE 0, data |-> d]
            /\ wRtn'.value = IF wReq.op \in KeepsOldValue THEN wRtn.value ELSE v
            /\ wop' = wReq.op /\ chunks' = k
      BY <1>8 DEF RdmaReqEvent
    <3>3. served' \in Outcome
      BY <3>2 DEF Outcome, Request, Data, Errno
    <3>4. k = 1
      BY <3>2
    <3> QED
      BY <3>1, <3>2, <3>3, <3>4
  <2>2. Healthy'
    BY <2>1 DEF Healthy
  <2>3. OneCallUnderWay'
    BY <2>1
      DEF OneCallUnderWay, RequestSent, RequestQueued, RequestTaken, ReplySent,
          ReplyQueued, HostWaits
  <2>4. ReceivesPosted'
    BY <2>1
      DEF ReceivesPosted, OneCallUnderWay, RequestQueued, ReplyQueued, HostWaits, Bit
  <2>5. WakeupToken'
    BY <2>1 DEF WakeupToken, OneCallUnderWay, ReplyQueued, HostWaits, Bit
  <2>6. CallCarried'
    <3>1. /\ ~RequestSent /\ ~RequestQueued /\ ~ReplySent /\ ~ReplyQueued /\ HostWaits
          /\ wReq.op = call.op /\ hReq.op = call.op /\ ret = NoOutcome
      BY <2>1 DEF OneCallUnderWay, RequestTaken, HostWaits, CallCarried
    <3>2. OwnValue(wRtn.value)'
      BY <2>1, <3>1 DEF OwnValue, KeepsOldValue
    <3>3. served' # NoOutcome
      BY <2>1, NoOutcomeAssumption
    <3>4. ~RequestSent' /\ ~RequestQueued' /\ ~ReplySent' /\ ~ReplyQueued' /\ HostWaits'
      BY <2>1, <3>1 DEF RequestSent, RequestQueued, ReplySent, ReplyQueued, HostWaits
    <3>5. ReplyBelongsToCall'
      BY <2>1, <3>1 DEF ReplyBelongsToCall
    <3> QED
      BY <2>1, <3>1, <3>2, <3>3, <3>4, <3>5
        DEF CallCarried, NotExecuted, Executed, HostWaits
  <2> QED
    BY <2>2, <2>3, <2>4, <2>5, <2>6 DEF IInv
<1>9. CASE PostWriteRtn
  <2>1. /\ wpc = "post_write_rtn" /\ wpc' = "clear_rtn"
        /\ unsent'["snic"] = unsent["snic"] + 1 /\ unsent'["host"] = unsent["host"]
        /\ UNCHANGED <<qp, hdr, rq, rqUsed, cq, armed, events>>
        /\ UNCHANGED <<hpc, call, ret, hReq, hRtn, wop, wRtn, served, wReq>>
    BY <1>9, PostSendEffect DEF PostWriteRtn, Healthy, CallCarried, host
  <2>2. Healthy'
    BY <2>1 DEF Healthy, OneCallUnderWay, RequestTaken, ReplySent
  <2>3. OneCallUnderWay'
    BY <2>1
      DEF OneCallUnderWay, RequestSent, RequestQueued, RequestTaken, ReplySent,
          ReplyQueued, HostWaits
  <2>4. ReceivesPosted'
    BY <2>1
      DEF ReceivesPosted, OneCallUnderWay, RequestQueued, ReplyQueued, HostWaits, Bit
  <2>5. WakeupToken'
    BY <2>1 DEF WakeupToken, OneCallUnderWay, ReplyQueued, HostWaits, Bit
  <2>6. CallCarried'
    BY <2>1
      DEF CallCarried, OneCallUnderWay, NotExecuted, Executed, RequestSent,
          RequestQueued, RequestTaken, ReplySent, ReplyQueued, HostWaits, OwnValue,
          ReplyBelongsToCall, Healthy
  <2> QED
    BY <2>2, <2>3, <2>4, <2>5, <2>6 DEF IInv
<1>10. CASE PostWriteRtnFull
  <2>1. /\ wpc = "post_write_rtn" /\ wpc' \in {"memset", "poll_cq"}
        /\ UNCHANGED <<qp, unsent, hdr, rq, rqUsed, cq, armed, events>>
        /\ UNCHANGED <<hpc, call, ret, hReq, hRtn, wop, wRtn, served, wReq>>
    BY <1>10 DEF PostWriteRtnFull, AfterReply, verbs, host
  <2>2. Healthy'
    BY <2>1 DEF Healthy
  <2>3. OneCallUnderWay'
    BY <2>1
      DEF OneCallUnderWay, RequestSent, RequestQueued, RequestTaken, ReplySent,
          ReplyQueued, HostWaits
  <2>4. ReceivesPosted'
    BY <2>1
      DEF ReceivesPosted, OneCallUnderWay, RequestQueued, ReplyQueued, HostWaits, Bit
  <2>5. WakeupToken'
    BY <2>1 DEF WakeupToken, OneCallUnderWay, ReplyQueued, HostWaits, Bit
  <2>6. CallCarried'
    BY <2>1
      DEF CallCarried, OneCallUnderWay, NotExecuted, Executed, RequestSent,
          RequestQueued, RequestTaken, ReplySent, ReplyQueued, HostWaits, OwnValue,
          ReplyBelongsToCall
  <2> QED
    BY <2>2, <2>3, <2>4, <2>5, <2>6 DEF IInv
<1>11. CASE ClearRtn
  <2>1. /\ wpc = "clear_rtn" /\ wpc' \in {"memset", "poll_cq"}
        /\ UNCHANGED <<qp, unsent, hdr, rq, rqUsed, cq, armed, events>>
        /\ wRtn'.value = wRtn.value
        /\ UNCHANGED <<hpc, call, ret, hReq, hRtn, wop, chunks, served, wReq>>
    BY <1>11 DEF ClearRtn, AfterReply, Reply, verbs, host
  <2>2. Healthy'
    BY <2>1 DEF Healthy
  <2>3. OneCallUnderWay'
    BY <2>1
      DEF OneCallUnderWay, RequestSent, RequestQueued, RequestTaken, ReplySent,
          ReplyQueued, HostWaits
  <2>4. ReceivesPosted'
    BY <2>1
      DEF ReceivesPosted, OneCallUnderWay, RequestQueued, ReplyQueued, HostWaits, Bit
  <2>5. WakeupToken'
    BY <2>1 DEF WakeupToken, OneCallUnderWay, ReplyQueued, HostWaits, Bit
  <2>6. CallCarried'
    BY <2>1
      DEF CallCarried, OneCallUnderWay, NotExecuted, Executed, RequestSent,
          RequestQueued, RequestTaken, ReplySent, ReplyQueued, HostWaits, OwnValue,
          ReplyBelongsToCall
  <2> QED
    BY <2>2, <2>3, <2>4, <2>5, <2>6 DEF IInv
<1>12. CASE MemsetAfterReply
  <2>1. /\ wpc = "memset" /\ wpc' = "poll_cq"
        /\ UNCHANGED <<qp, unsent, hdr, rq, rqUsed, cq, armed, events>>
        /\ wRtn'.value = wRtn.value \/ (wop = "WRITE" /\ wRtn'.value = 0)
        /\ wReq'.op = wReq.op
        /\ UNCHANGED <<hpc, call, ret, hReq, hRtn, wop, chunks, served>>
    BY <1>12 DEF MemsetAfterReply, BlankReply, Reply, Request, verbs, host
  <2>2. Healthy'
    BY <2>1 DEF Healthy
  <2>3. OneCallUnderWay'
    BY <2>1
      DEF OneCallUnderWay, RequestSent, RequestQueued, RequestTaken, ReplySent,
          ReplyQueued, HostWaits
  <2>4. ReceivesPosted'
    BY <2>1
      DEF ReceivesPosted, OneCallUnderWay, RequestQueued, ReplyQueued, HostWaits, Bit
  <2>5. WakeupToken'
    BY <2>1 DEF WakeupToken, OneCallUnderWay, ReplyQueued, HostWaits, Bit
  <2>6. CallCarried'
    BY <2>1
      DEF CallCarried, OneCallUnderWay, NotExecuted, Executed, RequestSent,
          RequestQueued, RequestTaken, ReplySent, ReplyQueued, HostWaits, OwnValue,
          ReplyBelongsToCall
  <2> QED
    BY <2>2, <2>3, <2>4, <2>5, <2>6 DEF IInv
<1> QED
  BY <1>1, <1>2, <1>3, <1>4, <1>5, <1>6, <1>7, <1>8, <1>9, <1>10, <1>11, <1>12
    DEF Worker

(* The last part of a message takes a receive of the peer and becomes the *)
(* only request or reply in the peer's completion queue.                  *)
LEMMA DeliverImmEffect ==
  ASSUME VerbsTypeOK, NEW s \in Side, DeliverImm(s),
         SoundCq(cq[Peer(s)]), NoReplyIn(cq[Peer(s)])
  PROVE  /\ hdr[s] /\ ~hdr'[s] /\ unsent'[s] = unsent[s] - 1
         /\ rq'[Peer(s)] = rq[Peer(s)] - 1
         /\ SoundCq(cq'[Peer(s)]) /\ ~NoReplyIn(cq'[Peer(s)])
         /\ ~armed'[Peer(s)]
         /\ Bit(armed'[Peer(s)]) + events'[Peer(s)] = Bit(armed[Peer(s)]) + events[Peer(s)]
         /\ \A t \in Side : t # s => unsent'[t] = unsent[t] /\ hdr'[t] = hdr[t]
         /\ \A t \in Side : t # Peer(s) =>
              /\ rq'[t] = rq[t] /\ cq'[t] = cq[t]
              /\ armed'[t] = armed[t] /\ events'[t] = events[t]
         /\ UNCHANGED <<qp, rqUsed>>
<1>1. PICK p \in Side : p = Peer(s)
  BY DEF Peer, Side
<1>2. /\ hdr[s]
      /\ unsent' = [unsent EXCEPT ![s] = @ - 1]
      /\ hdr' = [hdr EXCEPT ![s] = FALSE]
      /\ rq' = [rq EXCEPT ![p] = @ - 1]
      /\ Complete(p, "RECV")
      /\ UNCHANGED <<qp, rqUsed>>
  BY <1>1 DEF DeliverImm
<1>3. SoundCq(cq'[p]) /\ ~NoReplyIn(cq'[p])
  <2>1. cq[p] \in Seq(WC) /\ SoundCq(cq[p]) /\ NoReplyIn(cq[p])
    BY <1>1 DEF VerbsTypeOK
  <2>2. cq'[p] = Append(cq[p], "RECV")
    BY <1>2, CompleteEffect
  <2> QED
    BY <2>1, <2>2, AppendRecv
<1>4. /\ unsent'[s] = unsent[s] - 1 /\ ~hdr'[s]
      /\ \A t \in Side : t # s => unsent'[t] = unsent[t] /\ hdr'[t] = hdr[t]
  BY <1>2 DEF VerbsTypeOK
<1>5. rq'[p] = rq[p] - 1 /\ \A t \in Side : t # p => rq'[t] = rq[t]
  BY <1>2 DEF VerbsTypeOK
<1>6. /\ ~armed'[p] /\ Bit(armed'[p]) + events'[p] = Bit(armed[p]) + events[p]
      /\ \A t \in Side : t # p =>
           cq'[t] = cq[t] /\ armed'[t] = armed[t] /\ events'[t] = events[t]
  BY <1>2, CompleteEffect
<1> QED
  BY <1>1, <1>2, <1>3, <1>4, <1>5, <1>6

(* An acknowledgement adds a send to the completion queue. *)
LEMMA AcknowledgeEffect ==
  ASSUME VerbsTypeOK, NEW s \in Side, Acknowledge(s), SoundCq(cq[s])
  PROVE  /\ SoundCq(cq'[s]) /\ (NoReplyIn(cq'[s]) <=> NoReplyIn(cq[s]))
         /\ ~armed'[s]
         /\ Bit(armed'[s]) + events'[s] = Bit(armed[s]) + events[s]
         /\ \A t \in Side : t # s =>
              cq'[t] = cq[t] /\ armed'[t] = armed[t] /\ events'[t] = events[t]
         /\ UNCHANGED <<qp, unsent, hdr, rq, rqUsed>>
<1>1. Complete(s, "SEND") /\ UNCHANGED <<qp, unsent, hdr, rq, rqUsed>>
  BY DEF Acknowledge
<1>2. SoundCq(cq'[s]) /\ (NoReplyIn(cq'[s]) <=> NoReplyIn(cq[s]))
  <2>1. cq[s] \in Seq(WC)
    BY DEF VerbsTypeOK
  <2>2. cq'[s] = Append(cq[s], "SEND")
    BY <1>1, CompleteEffect
  <2> QED
    BY <2>1, <2>2, AppendSend
<1> QED
  BY <1>1, <1>2, CompleteEffect

(* The steps of the adapters preserve the invariant. *)
LEMMA AdapterIInv ==
  ASSUME MaxChunks = 1, TypeInv, IInv,
         Request2Snic \/ Reply2Host \/ Ack("host") \/ Ack("snic")
  PROVE  IInv'
<1> USE DEF IInv, Side, TypeInv, TypeOK
<1>1. CASE DeliverReqHeader
  <2>1. /\ unsent["host"] = 1 /\ hdr'["host"] = TRUE /\ hdr'["snic"] = hdr["snic"]
        /\ UNCHANGED <<qp, unsent, rq, rqUsed, cq, armed, events>>
        /\ wReq'.op = hReq.op
        /\ UNCHANGED <<hpc, call, ret, hReq, hRtn, wpc, wop, chunks, wRtn, served>>
    BY <1>1
      DEF DeliverReqHeader, DeliverHeader, Healthy, VerbsTypeOK, Request, host, snic
  <2>2. Healthy'
    BY <2>1 DEF Healthy, VerbsTypeOK
  <2>3. OneCallUnderWay'
    BY <2>1
      DEF OneCallUnderWay, RequestSent, RequestQueued, RequestTaken, ReplySent,
          ReplyQueued, HostWaits
  <2>4. ReceivesPosted'
    BY <2>1
      DEF ReceivesPosted, OneCallUnderWay, RequestQueued, ReplyQueued, HostWaits, Bit
  <2>5. WakeupToken'
    BY <2>1 DEF WakeupToken, OneCallUnderWay, ReplyQueued, HostWaits, Bit
  <2>6. CallCarried'
    BY <2>1
      DEF CallCarried, OneCallUnderWay, NotExecuted, Executed, RequestSent,
          RequestQueued, RequestTaken, ReplySent, ReplyQueued, HostWaits, OwnValue,
          ReplyBelongsToCall
  <2> QED
    BY <2>2, <2>3, <2>4, <2>5, <2>6 DEF IInv
<1>2. CASE DeliverRtnHeader
  <2>1. /\ unsent["snic"] = 1 /\ hdr'["snic"] = TRUE /\ hdr'["host"] = hdr["host"]
        /\ UNCHANGED <<qp, unsent, rq, rqUsed, cq, armed, events>>
        /\ hRtn'.value = wRtn.value
        /\ UNCHANGED <<hpc, call, ret, hReq, wpc, wop, chunks, wRtn, served, wReq>>
    BY <1>2 DEF DeliverRtnHeader, DeliverHeader, Healthy, VerbsTypeOK, Reply, host, snic
  <2>2. Healthy'
    BY <2>1 DEF Healthy, VerbsTypeOK
  <2>3. OneCallUnderWay'
    BY <2>1
      DEF OneCallUnderWay, RequestSent, RequestQueued, RequestTaken, ReplySent,
          ReplyQueued, HostWaits
  <2>4. ReceivesPosted'
    BY <2>1
      DEF ReceivesPosted, OneCallUnderWay, RequestQueued, ReplyQueued, HostWaits, Bit
  <2>5. WakeupToken'
    BY <2>1 DEF WakeupToken, OneCallUnderWay, ReplyQueued, HostWaits, Bit
  <2>6. CallCarried'
    BY <2>1
      DEF CallCarried, OneCallUnderWay, NotExecuted, Executed, RequestSent,
          RequestQueued, RequestTaken, ReplySent, ReplyQueued, HostWaits, OwnValue,
          ReplyBelongsToCall
  <2> QED
    BY <2>2, <2>3, <2>4, <2>5, <2>6 DEF IInv
<1>3. CASE DeliverReq
  <2>1. /\ hdr["host"] /\ ~hdr'["host"] /\ hdr'["snic"] = hdr["snic"]
        /\ unsent["host"] = 1 /\ unsent'["host"] = 0 /\ unsent'["snic"] = unsent["snic"]
        /\ rq'["snic"] = rq["snic"] - 1 /\ rq'["host"] = rq["host"]
        /\ NoReplyIn(cq["snic"])
        /\ SoundCq(cq'["snic"]) /\ ~NoReplyIn(cq'["snic"]) /\ cq'["host"] = cq["host"]
        /\ ~armed'["snic"] /\ armed'["host"] = armed["host"] /\ events'["host"] = events["host"]
        /\ Bit(armed'["snic"]) + events'["snic"] = Bit(armed["snic"]) + events["snic"]
        /\ UNCHANGED <<qp, rqUsed>>
        /\ wReq'.op = wReq.op
        /\ UNCHANGED <<hpc, call, ret, hReq, hRtn, wpc, wop, chunks, wRtn, served>>
    <3>1. DeliverImm("host") /\ Peer("host") = "snic"
      BY <1>3 DEF DeliverReq, Peer
    <3>2. unsent["host"] = 1
      BY <3>1 DEF DeliverImm, Healthy
    <3>3. NoReplyIn(cq["snic"]) /\ SoundCq(cq["snic"])
      BY <3>2 DEF Healthy, OneCallUnderWay, RequestSent, RequestQueued
    <3>4. /\ wReq'.op = wReq.op
          /\ UNCHANGED <<hpc, call, ret, hReq, hRtn, wpc, wop, chunks, wRtn, served>>
      BY <1>3 DEF DeliverReq, Request, host, snic
    <3> QED
      BY <3>1, <3>2, <3>3, <3>4, DeliverImmEffect
  <2>2. Healthy'
    BY <2>1 DEF Healthy
  <2>3. OneCallUnderWay'
    BY <2>1
      DEF OneCallUnderWay, RequestSent, RequestQueued, RequestTaken, ReplySent,
          ReplyQueued, HostWaits
  <2>4. ReceivesPosted'
    <3>1. Bit(RequestQueued) = 0 /\ Bit(RequestQueued') = 1 /\ ReplyQueued' = ReplyQueued
      BY <2>1 DEF Bit, RequestQueued, ReplyQueued
    <3>2. rqUsed["snic"] = rq["snic"] + Bit(RequestQueued)
      BY DEF ReceivesPosted
    <3>3. rqUsed'["snic"] = rq'["snic"] + Bit(RequestQueued')
      BY <2>1, <3>1, <3>2 DEF VerbsTypeOK
    <3>4. ~(HostWaits /\ ~ReplyQueued)' \/ rq'["host"] > 0
      BY <2>1, <3>1 DEF ReceivesPosted, HostWaits, OneCallUnderWay, RequestSent
    <3>5. hpc' \notin {"post_write_req", "drain"}
      BY <2>1 DEF OneCallUnderWay, RequestSent, ReplySent, HostWaits
    <3> QED
      BY <2>1, <3>1, <3>3, <3>4, <3>5 DEF ReceivesPosted
  <2>5. WakeupToken'
    BY <2>1 DEF WakeupToken, OneCallUnderWay, ReplyQueued, HostWaits
  <2>6. CallCarried'
    BY <2>1
      DEF CallCarried, OneCallUnderWay, NotExecuted, Executed, RequestSent,
          RequestQueued, RequestTaken, ReplySent, ReplyQueued, HostWaits, OwnValue,
          ReplyBelongsToCall
  <2> QED
    BY <2>2, <2>3, <2>4, <2>5, <2>6 DEF IInv
<1>4. CASE DeliverRtn
  <2>1. /\ hdr["snic"] /\ ~hdr'["snic"] /\ hdr'["host"] = hdr["host"]
        /\ unsent["snic"] = 1 /\ unsent'["snic"] = 0 /\ unsent'["host"] = unsent["host"]
        /\ rq'["host"] = rq["host"] - 1 /\ rq'["snic"] = rq["snic"]
        /\ NoReplyIn(cq["host"])
        /\ SoundCq(cq'["host"]) /\ ~NoReplyIn(cq'["host"]) /\ cq'["snic"] = cq["snic"]
        /\ ~armed'["host"] /\ armed'["snic"] = armed["snic"] /\ events'["snic"] = events["snic"]
        /\ Bit(armed'["host"]) + events'["host"] = Bit(armed["host"]) + events["host"]
        /\ UNCHANGED <<qp, rqUsed>>
        /\ hRtn'.value = hRtn.value
        /\ UNCHANGED <<hpc, call, ret, hReq, wpc, wop, chunks, wRtn, served, wReq>>
    <3>1. DeliverImm("snic") /\ Peer("snic") = "host"
      BY <1>4 DEF DeliverRtn, Peer
    <3>2. unsent["snic"] = 1
      BY <3>1 DEF DeliverImm, Healthy
    <3>3. NoReplyIn(cq["host"]) /\ SoundCq(cq["host"])
      BY <3>2 DEF Healthy, OneCallUnderWay, ReplySent, ReplyQueued
    <3>4. /\ hRtn'.value = hRtn.value
          /\ UNCHANGED <<hpc, call, ret, hReq, wpc, wop, chunks, wRtn, served, wReq>>
      BY <1>4 DEF DeliverRtn, Reply, host, snic
    <3> QED
      BY <3>1, <3>2, <3>3, <3>4, DeliverImmEffect
  <2>2. Healthy'
    BY <2>1 DEF Healthy
  <2>3. OneCallUnderWay'
    BY <2>1
      DEF OneCallUnderWay, RequestSent, RequestQueued, RequestTaken, ReplySent,
          ReplyQueued, HostWaits
  <2>4. ReceivesPosted'
    <3>1. Bit(ReplyQueued) = 0 /\ Bit(ReplyQueued') = 1 /\ RequestQueued' = RequestQueued
      BY <2>1 DEF Bit, RequestQueued, ReplyQueued
    <3>2. rqUsed["host"] = rq["host"] + Bit(ReplyQueued)
      BY DEF ReceivesPosted
    <3>3. rqUsed'["host"] = rq'["host"] + Bit(ReplyQueued')
      BY <2>1, <3>1, <3>2 DEF VerbsTypeOK
    <3>4. ~(HostWaits /\ ~ReplyQueued)' \/ rq'["host"] > 0
      BY <2>1 DEF ReplyQueued
    <3>5. hpc' \notin {"post_write_req", "drain"}
      BY <2>1 DEF OneCallUnderWay, RequestSent, ReplySent, HostWaits
    <3> QED
      BY <2>1, <3>1, <3>3, <3>4, <3>5 DEF ReceivesPosted
  <2>5. WakeupToken'
    BY <2>1 DEF WakeupToken, OneCallUnderWay, ReplyQueued, HostWaits
  <2>6. CallCarried'
    BY <2>1
      DEF CallCarried, OneCallUnderWay, NotExecuted, Executed, RequestSent,
          RequestQueued, RequestTaken, ReplySent, ReplyQueued, HostWaits, OwnValue,
          ReplyBelongsToCall
  <2> QED
    BY <2>2, <2>3, <2>4, <2>5, <2>6 DEF IInv
<1>5. CASE RnrReq
  <2>1. unsent["host"] = 1 /\ rq["snic"] = 0
    BY <1>5 DEF RnrReq, ReceiverNotReady, Healthy, Peer
  <2> QED
    BY <2>1
      DEF OneCallUnderWay, RequestSent, RequestTaken, ReceivesPosted, RequestQueued, Bit
<1>6. CASE RnrRtn
  <2>1. unsent["snic"] = 1 /\ rq["host"] = 0
    BY <1>6 DEF RnrRtn, ReceiverNotReady, Healthy, Peer
  <2> QED
    BY <2>1 DEF OneCallUnderWay, ReplySent, ReplyQueued, ReceivesPosted
<1>7. CASE PeerFailed("host") \/ PeerFailed("snic")
  BY <1>7 DEF PeerFailed, RetryExceeded, Healthy, Peer
<1>8. CASE Ack("host")
  <2>1. /\ SoundCq(cq'["host"]) /\ (NoReplyIn(cq'["host"]) <=> NoReplyIn(cq["host"]))
        /\ ~armed'["host"] /\ Bit(armed'["host"]) + events'["host"] = Bit(armed["host"]) + events["host"]
        /\ cq'["snic"] = cq["snic"] /\ armed'["snic"] = armed["snic"] /\ events'["snic"] = events["snic"]
        /\ UNCHANGED <<qp, unsent, hdr, rq, rqUsed>>
        /\ UNCHANGED <<hpc, call, ret, hReq, hRtn, wpc, wop, chunks, wRtn, served, wReq>>
    BY <1>8, AcknowledgeEffect DEF Ack, Healthy, host, snic
  <2>2. Healthy'
    BY <2>1 DEF Healthy
  <2>3. OneCallUnderWay'
    BY <2>1
      DEF OneCallUnderWay, RequestSent, RequestQueued, RequestTaken, ReplySent,
          ReplyQueued, HostWaits
  <2>4. ReceivesPosted'
    BY <2>1
      DEF ReceivesPosted, OneCallUnderWay, RequestQueued, ReplyQueued, HostWaits, Bit
  <2>5. WakeupToken'
    BY <2>1 DEF WakeupToken, ReplyQueued
  <2>6. CallCarried'
    BY <2>1
      DEF CallCarried, OneCallUnderWay, NotExecuted, Executed, RequestSent,
          RequestQueued, RequestTaken, ReplySent, ReplyQueued, HostWaits, OwnValue,
          ReplyBelongsToCall
  <2> QED
    BY <2>2, <2>3, <2>4, <2>5, <2>6 DEF IInv
<1>9. CASE Ack("snic")
  <2>1. /\ SoundCq(cq'["snic"]) /\ (NoReplyIn(cq'["snic"]) <=> NoReplyIn(cq["snic"]))
        /\ ~armed'["snic"] /\ Bit(armed'["snic"]) + events'["snic"] = Bit(armed["snic"]) + events["snic"]
        /\ cq'["host"] = cq["host"] /\ armed'["host"] = armed["host"] /\ events'["host"] = events["host"]
        /\ UNCHANGED <<qp, unsent, hdr, rq, rqUsed>>
        /\ UNCHANGED <<hpc, call, ret, hReq, hRtn, wpc, wop, chunks, wRtn, served, wReq>>
    BY <1>9, AcknowledgeEffect DEF Ack, Healthy, host, snic
  <2>2. Healthy'
    BY <2>1 DEF Healthy
  <2>3. OneCallUnderWay'
    BY <2>1
      DEF OneCallUnderWay, RequestSent, RequestQueued, RequestTaken, ReplySent,
          ReplyQueued, HostWaits
  <2>4. ReceivesPosted'
    BY <2>1
      DEF ReceivesPosted, OneCallUnderWay, RequestQueued, ReplyQueued, HostWaits, Bit
  <2>5. WakeupToken'
    BY <2>1 DEF WakeupToken, ReplyQueued
  <2>6. CallCarried'
    BY <2>1
      DEF CallCarried, OneCallUnderWay, NotExecuted, Executed, RequestSent,
          RequestQueued, RequestTaken, ReplySent, ReplyQueued, HostWaits, OwnValue,
          ReplyBelongsToCall
  <2> QED
    BY <2>2, <2>3, <2>4, <2>5, <2>6 DEF IInv
<1> QED
  BY <1>1, <1>2, <1>3, <1>4, <1>5, <1>6, <1>7, <1>8, <1>9 DEF Request2Snic, Reply2Host

---------------------------------------------------------------------------
(* The invariant holds in the first state and every step preserves it. *)
LEMMA Invariance ==
  ASSUME MaxChunks = 1
  PROVE  Spec => [](TypeInv /\ IInv)
<1>1. Init => TypeInv /\ IInv
  <2> SUFFICES ASSUME Init PROVE TypeInv /\ IInv
    OBVIOUS
  <2>1. TypeInv
    BY TypeInit
  <2>2. Healthy
    BY EmptyCq DEF Init, Healthy, Side
  <2>3. OneCallUnderWay
    BY EmptyCq
      DEF Init, OneCallUnderWay, Side, RequestSent, RequestQueued, RequestTaken,
       ReplySent, ReplyQueued
  <2>4. ReceivesPosted
    BY EmptyCq
      DEF Init, ReceivesPosted, Side, RequestQueued, ReplyQueued, HostWaits, Bit
  <2>5. WakeupToken
    BY EmptyCq DEF Init, WakeupToken, Side, ReplyQueued, Bit
  <2>6. CallCarried
    BY EmptyCq DEF Init, CallCarried, Side, NotExecuted, Executed, RequestSent,
       RequestQueued, ReplySent, ReplyQueued, ReplyBelongsToCall
  <2> QED
    BY <2>1, <2>2, <2>3, <2>4, <2>5, <2>6 DEF IInv
<1>2. (TypeInv /\ IInv) /\ [Next]_vars => (TypeInv /\ IInv)'
  <2> SUFFICES ASSUME TypeInv, IInv, [Next]_vars PROVE IInv'
    BY TypeStep
  <2>1. CASE SetReqSock \/ HostWait
    BY <2>1, HostIInv
  <2>2. CASE Worker
    BY <2>2, WorkerIInv
  <2>3. CASE Request2Snic \/ Reply2Host \/ Ack("host") \/ Ack("snic")
    BY <2>3, AdapterIInv
  <2>4. CASE UNCHANGED vars
    BY <2>4
      DEF IInv, Healthy, OneCallUnderWay, ReceivesPosted, WakeupToken, CallCarried,
       RequestSent, RequestQueued, RequestTaken, ReplySent, ReplyQueued, HostWaits,
       NotExecuted, Executed, OwnValue, ReplyBelongsToCall, vars, verbs, host, snic
  <2> QED
    BY <2>1, <2>2, <2>3, <2>4 DEF Next
<1> QED
  BY <1>1, <1>2, PTL DEF Spec

(* The inductive invariant: at most one message of the call is under way   *)
(* between host and SmartNIC, its receive is posted, the right to be woken *)
(* is in exactly one place at each end, and the reply is that of the call. *)
THEOREM InvariantHolds == ASSUME MaxChunks = 1 PROVE Spec => []IInv
<1>1. TypeInv /\ IInv => IInv
  OBVIOUS
<1> QED
  BY <1>1, Invariance, PTL

(* Neither thread sleeps in ibv_get_cq_event over a completion it waits    *)
(* for: arming before polling (rdma_client.c:912, rdma_server.c:748) loses *)
(* no wake-up, for every interleaving with the adapters.                   *)
THEOREM WakeupNotLost == ASSUME MaxChunks = 1 PROVE Spec => []NoLostWakeup
<1>1. TypeInv /\ IInv => NoLostWakeup
  <2> SUFFICES ASSUME TypeInv, IInv PROVE NoLostWakeup
    OBVIOUS
  <2>1. hpc = "get_cq_event" /\ events["host"] = 0 => armed["host"]
    BY DEF IInv, WakeupToken, Bit
  <2>2. wpc = "get_cq_event" /\ events["snic"] = 0 => armed["snic"]
    BY DEF IInv, WakeupToken, Bit
  <2> QED
    BY <2>1, <2>2 DEF IInv, WakeupToken, ReplyQueued, NoLostWakeup
<1> QED
  BY <1>1, Invariance, PTL

(* A message that is under way finds a receive of the other end. *)
LEMMA ReceiveReady ==
  ASSUME TypeInv, IInv
  PROVE  ReceiveAlwaysPosted
<1>1. unsent["host"] > 0 => rq["snic"] > 0
  <2> SUFFICES ASSUME unsent["host"] = 1 PROVE rq["snic"] > 0
    BY DEF IInv, Healthy, Side
  <2>1. ~RequestQueued /\ wpc # "post_recv_req"
    BY DEF IInv, OneCallUnderWay, RequestSent, RequestTaken
  <2>2. Bit(RequestQueued) = 0 /\ Bit(wpc = "post_recv_req") = 0
    BY <2>1 DEF Bit
  <2>3. rq["snic"] \in Int /\ rqUsed["snic"] \in Int
    BY DEF TypeInv, TypeOK, VerbsTypeOK, Side
  <2> QED
    BY <2>2, <2>3 DEF IInv, ReceivesPosted
<1>2. unsent["snic"] > 0 => rq["host"] > 0
  BY DEF IInv, Healthy, Side, OneCallUnderWay, ReplySent, ReplyQueued, ReceivesPosted
<1> QED
  BY <1>1, <1>2 DEF ReceiveAlwaysPosted, IInv, Healthy, Side, Peer

(* No message ever finds the peer without a posted receive, so neither     *)
(* queue pair fails although rnr_retry_count is 0.                         *)
THEOREM ReceivesNeverMissed == ASSUME MaxChunks = 1 PROVE Spec => []ReceiveAlwaysPosted
<1>1. TypeInv /\ IInv => ReceiveAlwaysPosted
  BY ReceiveReady
<1> QED
  BY <1>1, Invariance, PTL

(* What set_req_sock returns is the value of this very call, executed on   *)
(* the SmartNIC, or -1 for a call that was never executed.                 *)
THEOREM RepliesBelong == ASSUME MaxChunks = 1 PROVE Spec => []ReplyBelongsToCall
<1>1. TypeInv /\ IInv => ReplyBelongsToCall
  BY DEF IInv, CallCarried
<1> QED
  BY <1>1, Invariance, PTL

(* The completions the ENOMEM loop throws away are never replies. *)
THEOREM DrainIsSafe == ASSUME MaxChunks = 1 PROVE Spec => []DrainDropsNoReply
<1>1. TypeInv /\ IInv => DrainDropsNoReply
  BY DEF IInv, OneCallUnderWay, ReplyQueued, HostWaits, DrainDropsNoReply
<1> QED
  BY <1>1, Invariance, PTL

---------------------------------------------------------------------------
(* Only two steps touch the history of the call: set_req_sock forgets the *)
(* last one, rdma_req_event records its own while none is recorded.       *)
LEMMA ServedStep ==
  ASSUME TypeInv, IInv, [Next]_vars
  PROVE  \/ UNCHANGED served
         \/ SetReqSock
         \/ RdmaReqEvent /\ served = NoOutcome
<1>1. CASE SetReqSock
  BY <1>1
<1>2. CASE RdmaReqEvent
  <2>1. wpc = "rdma_req_event"
    BY <1>2 DEF RdmaReqEvent
  <2>2. served = NoOutcome
    BY <2>1 DEF IInv, CallCarried, NotExecuted
  <2> QED
    BY <1>2, <2>2
<1>3. CASE HostWait
  BY <1>3 DEF HostWait, PostRecvRtn, PostWriteReq, PostWriteReqFull, DrainOne,
     RetryPostSend, GiveUpPostSend, HostGetCqEvent, HostReqNotifyCq, HostPollEmpty,
     HostPollSend, HostPollReply, HostPollError, ReturnReply, snic
<1>4. CASE Worker /\ ~RdmaReqEvent
  BY <1>4 DEF Worker, WorkerGetCqEvent, WorkerReqNotifyCq, WorkerPollEmpty,
     WorkerPollSend, WorkerPollRequest, WorkerPollError, PostRecvReq, PostWriteRtn,
     PostWriteRtnFull, ClearRtn, MemsetAfterReply, snic
<1>5. CASE Request2Snic \/ Reply2Host \/ Ack("host") \/ Ack("snic")
  BY <1>5 DEF Request2Snic, Reply2Host, DeliverReqHeader, DeliverReq, RnrReq,
     DeliverRtnHeader, DeliverRtn, RnrRtn, PeerFailed, Ack, snic
<1>6. CASE UNCHANGED vars
  BY <1>6 DEF vars, snic
<1> QED
  BY <1>1, <1>2, <1>3, <1>4, <1>5, <1>6 DEF Next, Worker

(* The SmartNIC executes a call at most once. *)
THEOREM OnceOnly == ASSUME MaxChunks = 1 PROVE Spec => ExecutedAtMostOnce
<1>1. TypeInv /\ IInv /\ [Next]_vars =>
        [served # NoOutcome => served' \in {served, NoOutcome}]_served
  <2> SUFFICES ASSUME TypeInv, IInv, [Next]_vars, served # NoOutcome, served' # served
               PROVE  served' = NoOutcome
    OBVIOUS
  <2>1. SetReqSock
    BY ServedStep
  <2> QED
    BY <2>1 DEF SetReqSock
<1> QED
  BY <1>1, Invariance, PTL DEF Spec, ExecutedAtMostOnce

---------------------------------------------------------------------------
(* The steps that the abstract call does not see. *)
LEMMA HiddenStep ==
  ASSUME TypeInv, IInv, [Next]_vars,
         ~SetReqSock, ~RdmaReqEvent, ~ReturnReply, ~GiveUpPostSend
  PROVE  /\ UNCHANGED <<call, ret, served>>
         /\ hpc = "idle" <=> hpc' = "idle"
<1>1. ~HostPollError
  BY PollCqEffect DEF HostPollError, IInv, Healthy, TypeInv, TypeOK, Side
<1>2. CASE HostWait
  BY <1>1, <1>2 DEF HostWait, PostRecvRtn, PostWriteReq, PostWriteReqFull, DrainOne,
     RetryPostSend, HostGetCqEvent, HostReqNotifyCq, HostPollEmpty,
     HostPollSend, HostPollReply, host, snic
<1>3. CASE Worker
  BY <1>3 DEF Worker, WorkerGetCqEvent, WorkerReqNotifyCq, WorkerPollEmpty,
     WorkerPollSend, WorkerPollRequest, WorkerPollError, PostRecvReq, PostWriteRtn,
     PostWriteRtnFull, ClearRtn, MemsetAfterReply, host, snic
<1>4. CASE Request2Snic \/ Reply2Host \/ Ack("host") \/ Ack("snic")
  BY <1>4 DEF Request2Snic, Reply2Host, DeliverReqHeader, DeliverReq, RnrReq,
     DeliverRtnHeader, DeliverRtn, RnrRtn, PeerFailed, Ack, host, snic
<1>5. CASE UNCHANGED vars
  BY <1>5 DEF vars, host, snic
<1> QED
  BY <1>2, <1>3, <1>4, <1>5 DEF Next

(* Every step of the connection is a step of the abstract call or none. *)
LEMMA StepSimulation ==
  ASSUME TypeInv, IInv, [Next]_vars
  PROVE  [Abstract!Next]_(Abstract!vars)
<1> USE DEF TypeInv, TypeOK, Abstract!Next, Abstract!vars
<1>1. CASE SetReqSock
  <2>1. /\ hpc = "idle" /\ hpc' = "post_recv_rtn"
        /\ ret' = NoOutcome /\ served' = NoOutcome
    BY <1>1 DEF SetReqSock
  <2>2. call'.op \in SocketOp
    BY <1>1, ConnAssumption DEF SetReqSock
  <2>3. Abstract!Call
    BY <2>1, <2>2 DEF Abstract!Call
  <2> QED
    BY <2>3
<1>2. CASE RdmaReqEvent
  <2>1. /\ wpc = "rdma_req_event" /\ served' \in Outcome
        /\ UNCHANGED <<hpc, call, ret>>
    <3>1. wReq \in Request
      OBVIOUS
    <3> QED
      BY <1>2, <3>1 DEF RdmaReqEvent, Outcome, Request, Data, Errno, host
  <2>2. served = NoOutcome /\ hpc # "idle" /\ ret = NoOutcome
    BY <2>1 DEF IInv, CallCarried, NotExecuted, OneCallUnderWay, RequestTaken, HostWaits
  <2>3. served' # NoOutcome /\ served'.value \in Result
    BY <2>1, NoOutcomeAssumption DEF Outcome
  <2>4. Abstract!Execute
    BY <2>1, <2>2, <2>3 DEF Abstract!Execute
  <2> QED
    BY <2>4
<1>3. CASE ReturnReply
  <2>1. /\ hpc = "reply" /\ hpc' = "idle"
        /\ ret' \in Reply /\ ret'.value = hRtn.value
        /\ UNCHANGED <<call, served>>
    BY <1>3 DEF ReturnReply, Reply, Errno, snic
  <2>2. ret = NoOutcome /\ served # NoOutcome /\ OwnValue(hRtn.value)
    BY <2>1 DEF IInv, CallCarried, Executed
  <2>3. ret' # NoOutcome /\ ret'.value \in Result \cup {-1, 0}
    BY <2>1, NoOutcomeAssumption DEF Reply
  <2>4. call.op \in SocketOp \ (KeepsOldValue \cup {"WRITE"}) => ret'.value = served.value
    BY <2>1, <2>2 DEF OwnValue
  <2>5. Abstract!Return
    BY <2>1, <2>2, <2>3, <2>4 DEF Abstract!Return
  <2> QED
    BY <2>5
<1>4. CASE GiveUpPostSend
  <2>1. /\ hpc = "drain" /\ hpc' = "idle"
        /\ ret' = [BlankReply EXCEPT !.value = -1]
        /\ UNCHANGED <<call, served>>
    BY <1>4 DEF GiveUpPostSend, ReturnError, snic
  <2>2. served = NoOutcome
    BY <2>1 DEF IInv, CallCarried, NotExecuted
  <2>3. ret' \in Reply /\ ret'.value = -1
    BY <2>1 DEF BlankReply, Reply, Errno, Data
  <2>4. ret' # NoOutcome
    BY <2>3, NoOutcomeAssumption
  <2>5. Abstract!Fail
    BY <2>1, <2>2, <2>3, <2>4 DEF Abstract!Fail
  <2> QED
    BY <2>5
<1>5. CASE ~SetReqSock /\ ~RdmaReqEvent /\ ~ReturnReply /\ ~GiveUpPostSend
  BY <1>5, HiddenStep
<1> QED
  BY <1>1, <1>2, <1>3, <1>4, <1>5

(* The connection implements the abstract socket call: whatever the queues *)
(* and the threads do, a call is executed at most once, between its call   *)
(* and its return, with the value the SmartNIC's socket call gave.         *)
THEOREM Refinement == ASSUME MaxChunks = 1 PROVE Spec => ImplementsSafely
<1>1. Init => Abstract!Init
  BY DEF Init, BlankRequest, SocketOp, Abstract!Init
<1>2. TypeInv /\ IInv /\ [Next]_vars => [Abstract!Next]_(Abstract!vars)
  BY StepSimulation
<1> QED
  BY <1>1, <1>2, Invariance, PTL DEF Spec, ImplementsSafely, Abstract!SafeSpec

---------------------------------------------------------------------------
(* The send queues *)

(* SettledInv of one end, by its completion queue q and its n messages that *)
(* are not acknowledged.                                                    *)
Settled(q, n) ==
  /\ n <= AckWindow
  /\ \A i \in 1 .. Len(q) : q[i] = "RECV" => Len(q) - i + n <= AckWindow

(* An acknowledgement moves a message into the completion queue. *)
LEMMA SettledSend ==
  ASSUME NEW q \in Seq(WC), NEW n \in Nat, n > 0, Settled(q, n)
  PROVE  Settled(Append(q, "SEND"), n - 1) /\ Len(Append(q, "SEND")) = Len(q) + 1
<1> DEFINE r == Append(q, "SEND")
<1>1. /\ Len(r) = Len(q) + 1 /\ Len(q) \in Nat /\ AckWindow \in Nat
      /\ r[Len(q) + 1] = "SEND"
      /\ \A i \in 1 .. Len(q) : r[i] = q[i]
  BY VerbsAssumption
<1> HIDE DEF r
<1>2. ASSUME NEW i \in 1 .. Len(r), r[i] = "RECV"
      PROVE  Len(r) - i + (n - 1) <= AckWindow
  <2>1. i \in 1 .. Len(q) /\ q[i] = "RECV" BY <1>1, <1>2
  <2>. QED BY <1>1, <2>1 DEF Settled
<1>. QED BY <1>1, <1>2 DEF Settled, r

(* The message of the other end comes after all completions in the queue. *)
LEMMA SettledRecv ==
  ASSUME NEW q \in Seq(WC), NEW n \in Nat, Settled(q, n), NoReplyIn(q)
  PROVE  Settled(Append(q, "RECV"), n)
<1> DEFINE r == Append(q, "RECV")
<1>1. /\ Len(r) = Len(q) + 1 /\ Len(q) \in Nat /\ AckWindow \in Nat
      /\ \A i \in 1 .. Len(q) : r[i] = q[i]
  BY VerbsAssumption
<1> HIDE DEF r
<1>2. ASSUME NEW i \in 1 .. Len(r), r[i] = "RECV"
      PROVE  Len(r) - i + n <= AckWindow
  <2>1. i = Len(r) BY <1>1, <1>2 DEF NoReplyIn
  <2>. QED BY <1>1, <2>1 DEF Settled
<1>. QED BY <1>2 DEF Settled, r

(* A poll takes the first completion; behind a message of the other end are *)
(* only completions that came after it.                                     *)
LEMMA SettledTail ==
  ASSUME NEW q \in Seq(WC), NEW n \in Nat, Settled(q, n), q # <<>>
  PROVE  /\ Settled(Tail(q), n)
         /\ Len(Tail(q)) = Len(q) - 1 /\ Len(q) \in Nat
         /\ Head(q) = "RECV" => Len(Tail(q)) + n <= AckWindow
<1> DEFINE r == Tail(q)
<1>1. /\ Len(q) = Len(r) + 1 /\ Len(r) \in Nat /\ AckWindow \in Nat
      /\ Head(q) = q[1] /\ 1 \in 1 .. Len(q)
      /\ \A i \in 1 .. Len(r) : r[i] = q[i + 1] /\ i + 1 \in 1 .. Len(q)
  BY VerbsAssumption
<1> HIDE DEF r
<1>2. ASSUME NEW i \in 1 .. Len(r), r[i] = "RECV"
      PROVE  Len(r) - i + n <= AckWindow
  <2>1. q[i + 1] = "RECV" /\ i + 1 \in 1 .. Len(q) BY <1>1, <1>2
  <2>2. Len(q) - (i + 1) + n <= AckWindow BY <2>1 DEF Settled
  <2>. QED BY <1>1, <2>2
<1>3. q[1] = "RECV" => Len(r) + n <= AckWindow BY <1>1 DEF Settled
<1>. QED BY <1>1, <1>2, <1>3 DEF Settled, r

SettledEnd(s) ==
  /\ Settled(cq[s], unacked[s])
  /\ Turn(s) => Len(cq[s]) + unacked[s] <= AckWindow

(* An end whose queue a step leaves alone, and whose turn does not come with it. *)
LEMMA EndStays ==
  ASSUME NEW s, SettledEnd(s), cq'[s] = cq[s], unacked'[s] = unacked[s],
         Turn(s)' => Turn(s)
  PROVE  SettledEnd(s)'
BY DEF SettledEnd, Settled

(* When it is an end's turn nothing of the other end is in its queue and all  *)
(* its messages have been delivered.                                          *)
LEMMA TurnIsQuiet ==
  ASSUME TypeInv, IInv, NEW s \in Side
  PROVE  /\ Turn(s) => NoReplyIn(cq[s]) /\ unsent[s] = 0
         /\ unsent[s] > 0 => NoReplyIn(cq[s]) /\ NoReplyIn(cq[Peer(s)])
         /\ unsent[s] > 0 => ~Turn(s) /\ ~Turn(Peer(s))
<1>1. unsent[s] \in {0, 1} BY DEF IInv, Healthy
<1>2. s = "host" \/ s = "snic" BY DEF Side
<1>3. CASE s = "host"
  BY <1>1, <1>3 DEF IInv, OneCallUnderWay, Turn, HostWaits, RequestSent, RequestQueued,
     RequestTaken, ReplySent, ReplyQueued, Peer
<1>4. CASE s = "snic"
  BY <1>1, <1>4 DEF IInv, OneCallUnderWay, Turn, HostWaits, RequestSent, RequestQueued,
     RequestTaken, ReplySent, ReplyQueued, Peer
<1>. QED BY <1>2, <1>3, <1>4

(* A poll: what lets the end go on is the message of the other end. *)
LEMMA PollSettled ==
  ASSUME TypeInv, IInv, NEW s \in Side, NEW wc, PollCq(s, wc), SettledEnd(s),
         wc # "RECV" => (Turn(s)' => Turn(s))
  PROVE  SettledEnd(s)'
<1>1. /\ cq[s] \in Seq(WC) /\ unacked[s] \in Nat /\ AckWindow \in Nat
      /\ cq[s] # <<>> /\ wc = Head(cq[s])
      /\ cq'[s] = Tail(cq[s]) /\ unacked'[s] = unacked[s]
  BY VerbsAssumption DEF PollCq, CqEmpty, TypeInv, TypeOK, VerbsTypeOK
<1>2. PICK q, n : q = cq[s] /\ n = unacked[s] OBVIOUS
<1>3. /\ Settled(Tail(q), n) /\ Len(Tail(q)) = Len(q) - 1 /\ Len(q) \in Nat
      /\ wc = "RECV" => Len(Tail(q)) + n <= AckWindow
  BY <1>1, <1>2, SettledTail DEF SettledEnd
<1>4. Turn(s)' => Len(Tail(q)) + n <= AckWindow BY <1>1, <1>2, <1>3 DEF SettledEnd
<1>5. Settled(cq'[s], unacked'[s]) BY <1>1, <1>2, <1>3
<1>6. Turn(s)' => Len(cq'[s]) + unacked'[s] <= AckWindow BY <1>1, <1>2, <1>4
<1>. QED BY <1>5, <1>6 DEF SettledEnd, Settled

(* The last part of a message: nothing is in the sender's queue that it could *)
(* still have to poll before its next turn but completions.                   *)
LEMMA DeliverSettled ==
  ASSUME TypeInv, IInv, NEW s \in Side, DeliverImm(s), UNCHANGED <<hpc, wpc>>,
         \A t \in Side : SettledEnd(t)
  PROVE  \A t \in Side : SettledEnd(t)'
<1>1. PICK p \in Side : p = Peer(s) /\ p # s BY DEF Peer, Side
<1>2. /\ unsent[s] > 0 /\ unacked[s] < AckWindow
      /\ unacked' = [unacked EXCEPT ![s] = @ + 1]
      /\ cq' = [cq EXCEPT ![p] = Append(@, "RECV")]
  BY <1>1 DEF DeliverImm, Complete
<1>3. NoReplyIn(cq[s]) /\ NoReplyIn(cq[p]) /\ ~Turn(s) /\ ~Turn(p)
  BY <1>1, <1>2, TurnIsQuiet
<1>4. ~Turn(s)' /\ ~Turn(p)' BY <1>3 DEF Turn, HostWaits, RequestTaken
<1>5. /\ cq[p] \in Seq(WC) /\ unacked[p] \in Nat /\ unacked[s] \in Nat /\ AckWindow \in Nat
      /\ cq'[p] = Append(cq[p], "RECV") /\ unacked'[p] = unacked[p]
      /\ cq'[s] = cq[s] /\ unacked'[s] = unacked[s] + 1
  BY <1>1, <1>2, VerbsAssumption DEF TypeInv, TypeOK, VerbsTypeOK
<1>6. Settled(cq'[p], unacked'[p])
  <2>1. Settled(cq[p], unacked[p]) BY DEF SettledEnd
  <2>2. Settled(Append(cq[p], "RECV"), unacked[p]) BY <1>3, <1>5, <2>1, SettledRecv
  <2>. QED BY <1>5, <2>2
<1>7. Settled(cq'[s], unacked'[s]) BY <1>2, <1>3, <1>5 DEF Settled, NoReplyIn
<1>8. SettledEnd(p)' BY <1>4, <1>6 DEF SettledEnd, Settled
<1>9. SettledEnd(s)' BY <1>4, <1>7 DEF SettledEnd, Settled
<1>. QED BY <1>1, <1>8, <1>9 DEF Side

(* An acknowledgement *)
LEMMA AckSettled ==
  ASSUME TypeInv, NEW s \in Side, Acknowledge(s), UNCHANGED <<hpc, wpc>>,
         \A t \in Side : SettledEnd(t)
  PROVE  \A t \in Side : SettledEnd(t)'
<1>1. /\ unacked[s] > 0 /\ unacked' = [unacked EXCEPT ![s] = @ - 1]
      /\ cq' = [cq EXCEPT ![s] = Append(@, "SEND")]
  BY DEF Acknowledge, Complete
<1>2. /\ cq[s] \in Seq(WC) /\ unacked[s] \in Nat /\ AckWindow \in Nat
      /\ cq'[s] = Append(cq[s], "SEND") /\ unacked'[s] = unacked[s] - 1
      /\ \A t \in Side : t # s => cq'[t] = cq[t] /\ unacked'[t] = unacked[t]
  BY <1>1, VerbsAssumption DEF TypeInv, TypeOK, VerbsTypeOK
<1>3. \A t : Turn(t)' <=> Turn(t) BY DEF Turn, HostWaits, RequestTaken
<1>4. SettledEnd(s)'
  <2>1. Settled(cq[s], unacked[s]) BY DEF SettledEnd
  <2>2. /\ Settled(Append(cq[s], "SEND"), unacked[s] - 1)
        /\ Len(Append(cq[s], "SEND")) = Len(cq[s]) + 1
    BY <1>1, <1>2, <2>1, SettledSend
  <2>3. Settled(cq'[s], unacked'[s]) /\ Len(cq'[s]) = Len(cq[s]) + 1 BY <1>2, <2>2
  <2>4. Len(cq[s]) \in Nat BY <1>2
  <2>5. Turn(s)' => Len(cq'[s]) + unacked'[s] <= AckWindow
    BY <1>2, <1>3, <2>3, <2>4 DEF SettledEnd
  <2>. QED BY <2>3, <2>5 DEF SettledEnd, Settled
<1>5. ASSUME NEW t \in Side, t # s PROVE SettledEnd(t)'
  <2>1. Turn(t)' => Turn(t) BY <1>3
  <2>. QED BY <1>2, <1>5, <2>1, EndStays
<1>. QED BY <1>4, <1>5

(* A step of one thread that polls nothing of the other end does not bring an *)
(* end's turn.                                                                *)
LEMMA SettledStep ==
  ASSUME TypeInv, IInv, \A t \in Side : SettledEnd(t), [Next]_vars
  PROVE  \A t \in Side : SettledEnd(t)'
<1>1. "host" \in Side /\ "snic" \in Side /\ Side = {"host", "snic"} BY DEF Side
<1>2. ASSUME UNCHANGED <<cq, unacked>>, Turn("host")' => Turn("host"), Turn("snic")' => Turn("snic")
      PROVE  \A t \in Side : SettledEnd(t)'
  BY <1>1, <1>2, EndStays
<1>3. ASSUME NEW wc, PollCq("host", wc), wpc' = wpc, wc # "RECV" => (Turn("host")' => Turn("host"))
      PROVE  \A t \in Side : SettledEnd(t)'
  <2>1. SettledEnd("host")' BY <1>1, <1>3, PollSettled
  <2>2. cq'["snic"] = cq["snic"] /\ unacked'["snic"] = unacked["snic"]
    BY <1>3 DEF PollCq
  <2>3. Turn("snic")' => Turn("snic") BY <1>3 DEF Turn, RequestTaken
  <2>4. SettledEnd("snic")' BY <1>1, <2>2, <2>3, EndStays
  <2>. QED BY <1>1, <2>1, <2>4
<1>4. ASSUME NEW wc, PollCq("snic", wc), hpc' = hpc, wc # "RECV" => (Turn("snic")' => Turn("snic"))
      PROVE  \A t \in Side : SettledEnd(t)'
  <2>1. SettledEnd("snic")' BY <1>1, <1>4, PollSettled
  <2>2. cq'["host"] = cq["host"] /\ unacked'["host"] = unacked["host"]
    BY <1>4 DEF PollCq
  <2>3. Turn("host")' => Turn("host") BY <1>4 DEF Turn, HostWaits
  <2>4. SettledEnd("host")' BY <1>1, <2>2, <2>3, EndStays
  <2>. QED BY <1>1, <2>1, <2>4
<1>5. \A s \in Side : qp[s] = "RTS" BY DEF IInv, Healthy
<1>6. CASE SetReqSock \/ PostRecvRtn \/ PostWriteReq \/ PostWriteReqFull \/ RetryPostSend
           \/ GiveUpPostSend \/ HostGetCqEvent \/ HostReqNotifyCq \/ HostPollEmpty \/ ReturnReply
  <2>1. UNCHANGED <<cq, unacked>>
    BY <1>1, <1>5, <1>6 DEF SetReqSock, PostRecvRtn, PostWriteReq, PostWriteReqFull, RetryPostSend,
       GiveUpPostSend, HostGetCqEvent, HostReqNotifyCq, HostPollEmpty, ReturnReply,
       PostRecv, PostSend, GetCqEvent, ReqNotifyCq, NoCompletion, verbs
  <2>2. wpc' = wpc
    BY <1>6 DEF SetReqSock, PostRecvRtn, PostWriteReq, PostWriteReqFull, RetryPostSend,
       GiveUpPostSend, HostGetCqEvent, HostReqNotifyCq, HostPollEmpty, ReturnReply, snic
  <2>3. Turn("host")' => Turn("host")
    BY <1>6 DEF SetReqSock, PostRecvRtn, PostWriteReq, PostWriteReqFull, RetryPostSend,
       GiveUpPostSend, HostGetCqEvent, HostReqNotifyCq, HostPollEmpty, ReturnReply,
       Turn, HostWaits
  <2>4. Turn("snic")' => Turn("snic") BY <2>2 DEF Turn, RequestTaken
  <2>. QED BY <1>2, <2>1, <2>3, <2>4
<1>7. CASE \/ WorkerGetCqEvent \/ WorkerReqNotifyCq \/ WorkerPollEmpty \/ PostRecvReq
           \/ RdmaReqEvent \/ PostWriteRtn \/ PostWriteRtnFull \/ ClearRtn \/ MemsetAfterReply
  <2>1. UNCHANGED <<cq, unacked>>
    BY <1>1, <1>5, <1>7 DEF WorkerGetCqEvent, WorkerReqNotifyCq, WorkerPollEmpty, PostRecvReq,
       RdmaReqEvent, PostWriteRtn, PostWriteRtnFull, ClearRtn, MemsetAfterReply,
       PostRecv, PostSend, GetCqEvent, ReqNotifyCq, NoCompletion, verbs
  <2>2. hpc' = hpc
    BY <1>7 DEF WorkerGetCqEvent, WorkerReqNotifyCq, WorkerPollEmpty, PostRecvReq,
       RdmaReqEvent, PostWriteRtn, PostWriteRtnFull, ClearRtn, MemsetAfterReply, host
  <2>3. Turn("snic")' => Turn("snic")
    BY <1>7 DEF WorkerGetCqEvent, WorkerReqNotifyCq, WorkerPollEmpty, PostRecvReq,
       RdmaReqEvent, PostWriteRtn, PostWriteRtnFull, ClearRtn, MemsetAfterReply, AfterReply,
       Turn, RequestTaken
  <2>4. Turn("host")' => Turn("host") BY <2>2 DEF Turn, HostWaits
  <2>. QED BY <1>2, <2>1, <2>3, <2>4
<1>8. CASE DrainOne
  <2>1. PICK wc : PollCq("host", wc) BY <1>8 DEF DrainOne
  <2>2. wpc' = wpc /\ (Turn("host")' => Turn("host")) BY <1>8 DEF DrainOne, snic, Turn, HostWaits
  <2>. QED BY <1>3, <2>1, <2>2
<1>9. CASE HostPollSend
  <2>1. PollCq("host", "SEND") /\ wpc' = wpc /\ (Turn("host")' => Turn("host"))
    BY <1>9 DEF HostPollSend, host, snic, Turn, HostWaits
  <2>. QED BY <1>3, <2>1
<1>10. CASE HostPollReply
  <2>1. PollCq("host", "RECV") /\ wpc' = wpc BY <1>10 DEF HostPollReply, snic
  <2>. QED BY <1>3, <2>1
<1>11. CASE WorkerPollSend
  <2>1. PollCq("snic", "SEND") /\ hpc' = hpc /\ (Turn("snic")' => Turn("snic"))
    BY <1>11 DEF WorkerPollSend, host, snic, Turn, RequestTaken
  <2>. QED BY <1>4, <2>1
<1>12. CASE WorkerPollRequest
  <2>1. PollCq("snic", "RECV") /\ hpc' = hpc BY <1>12 DEF WorkerPollRequest, host
  <2>. QED BY <1>4, <2>1
<1>13. ~HostPollError /\ ~WorkerPollError
  BY PollCqEffect DEF HostPollError, WorkerPollError, IInv, Healthy, TypeInv, TypeOK, Side
<1>14. CASE DeliverReqHeader \/ DeliverRtnHeader \/ UNCHANGED vars
  <2>1. UNCHANGED <<cq, unacked, hpc, wpc>>
    BY <1>14 DEF DeliverReqHeader, DeliverRtnHeader, DeliverHeader, vars, verbs, host, snic
  <2>2. \A t : Turn(t)' => Turn(t) BY <2>1 DEF Turn, HostWaits, RequestTaken
  <2>. QED BY <1>2, <2>1, <2>2
<1>15. CASE DeliverReq \/ DeliverRtn
  <2>1. PICK s \in Side : DeliverImm(s) BY <1>1, <1>15 DEF DeliverReq, DeliverRtn
  <2>2. UNCHANGED <<hpc, wpc>> BY <1>15 DEF DeliverReq, DeliverRtn, host, snic
  <2>. QED BY <2>1, <2>2, DeliverSettled
<1>16. CASE Ack("host") \/ Ack("snic")
  <2>1. PICK s \in Side : Acknowledge(s) BY <1>1, <1>16 DEF Ack
  <2>2. UNCHANGED <<hpc, wpc>> BY <1>16 DEF Ack, host, snic
  <2>. QED BY <2>1, <2>2, AckSettled
<1>17. ~RnrReq /\ ~RnrRtn /\ ~PeerFailed("host") /\ ~PeerFailed("snic")
  <2>1. ReceiveAlwaysPosted BY ReceiveReady
  <2>2. ASSUME NEW s \in Side PROVE ~ReceiverNotReady(s) /\ ~RetryExceeded(s)
    <3>1. Peer(s) \in Side /\ rq[Peer(s)] \in Nat
      BY DEF Peer, Side, TypeInv, TypeOK, VerbsTypeOK
    <3>. QED BY <1>5, <2>1, <3>1 DEF ReceiveAlwaysPosted, ReceiverNotReady, RetryExceeded
  <2>. QED BY <1>1, <2>2 DEF RnrReq, RnrRtn, PeerFailed
<1>. QED BY <1>6, <1>7, <1>8, <1>9, <1>10, <1>11, <1>12, <1>13, <1>14, <1>15, <1>16, <1>17
     DEF Next, HostWait, Worker, Request2Snic, Reply2Host

(* SettledInv, end by end *)
LEMMA SettledEnds == SettledInv <=> \A s \in Side : SettledEnd(s)
BY DEF SettledInv, SettledEnd, Settled

(* All that is known of a connection whose replies fit one write. *)
LEMMA SettledInvariance ==
  ASSUME MaxChunks = 1
  PROVE  Spec => [](TypeInv /\ IInv /\ (\A s \in Side : SettledEnd(s) /\ Counted(s)))
<1>1. Init => \A s \in Side : SettledEnd(s) /\ Counted(s)
  <2> SUFFICES ASSUME Init, NEW s \in Side PROVE SettledEnd(s) /\ Counted(s)
    OBVIOUS
  <2>1. cq[s] = <<>> /\ unacked[s] \in {0, 1} /\ Len(cq[s]) = 0 BY DEF Init
  <2>2. SettledEnd(s) BY <2>1, VerbsAssumption DEF SettledEnd, Settled
  <2>3. Counted(s) BY VerbsAssumption DEF Init, Counted, CqLen, Side
  <2>. QED BY <2>2, <2>3
<1>2. /\ TypeInv /\ IInv /\ (\A s \in Side : SettledEnd(s) /\ Counted(s)) /\ [Next]_vars
      => (\A s \in Side : SettledEnd(s) /\ Counted(s))'
  BY SettledStep, CountedStep
<1>. QED BY <1>1, <1>2, Invariance, PTL DEF Spec

(* When an end may post, its earlier messages that are unacknowledged or whose *)
(* completions it has yet to poll are at most AckWindow, however many calls    *)
(* the connection has carried.                                                 *)
THEOREM SendsSettle == ASSUME MaxChunks = 1 PROVE Spec => []SettledInv
<1>1. (\A s \in Side : SettledEnd(s) /\ Counted(s)) => SettledInv BY SettledEnds
<1>. QED BY <1>1, SettledInvariance, PTL

(* The ENOMEM loop of post_write_req is never entered and no reply is dropped  *)
(* for a full send queue, if fewer messages than the queue has slots can be    *)
(* delivered and not yet acknowledged: the send completions that both ends     *)
(* leave behind never add up.                                                  *)
THEOREM SendQueuesSuffice ==
  ASSUME MaxChunks = 1, AckWindow < MaxWR
  PROVE  Spec => []SendQueueNeverFull
<1>1. TypeInv /\ IInv /\ (\A s \in Side : SettledEnd(s) /\ Counted(s)) => SendQueueNeverFull
  <2> SUFFICES ASSUME TypeInv, IInv, \A s \in Side : SettledEnd(s) /\ Counted(s)
               PROVE  SendQueueNeverFull
    OBVIOUS
  <2>1. ASSUME NEW s \in Side, Turn(s), rqUsed[s] = rq[s] PROVE ~SendQueueFull(s)
    <3>1. unsent[s] = 0 BY <2>1, TurnIsQuiet
    <3>2. CqLen(s) + unacked[s] <= AckWindow BY <2>1 DEF SettledEnd, CqLen
    <3>3. CqLen(s) + unsent[s] + unacked[s] + rq[s] = sqUsed[s] + rqUsed[s]
      BY DEF Counted
    <3>4. /\ CqLen(s) \in Nat /\ unacked[s] \in Nat /\ rq[s] \in Nat
          /\ sqUsed[s] \in Int /\ MaxWR \in Int /\ AckWindow \in Int
      BY CountsAreNumbers, VerbsAssumption DEF TypeInv, TypeOK
    <3>. QED BY <2>1, <3>1, <3>2, <3>3, <3>4 DEF SendQueueFull
  <2>2. ASSUME hpc = "post_write_req" PROVE ~SendQueueFull("host")
    <3>1. "host" \in Side /\ Turn("host") BY <2>2 DEF Side, Turn, HostWaits
    <3>2. NoReplyIn(cq["host"]) BY <3>1, TurnIsQuiet
    <3>3. rqUsed["host"] = rq["host"] + Bit(ReplyQueued) BY DEF IInv, ReceivesPosted
    <3>4. rq["host"] \in Nat BY <3>1 DEF TypeInv, TypeOK, VerbsTypeOK
    <3>5. rqUsed["host"] = rq["host"] BY <3>2, <3>3, <3>4 DEF ReplyQueued, Bit
    <3>. QED BY <2>1, <3>1, <3>5
  <2>3. ASSUME wpc = "post_write_rtn" PROVE ~SendQueueFull("snic")
    <3>1. "snic" \in Side /\ Turn("snic") BY <2>3 DEF Side, Turn, RequestTaken
    <3>2. NoReplyIn(cq["snic"]) BY <3>1, TurnIsQuiet
    <3>3. rqUsed["snic"] = rq["snic"] + Bit(RequestQueued) BY DEF IInv, ReceivesPosted
    <3>4. rq["snic"] \in Nat BY <3>1 DEF TypeInv, TypeOK, VerbsTypeOK
    <3>5. rqUsed["snic"] = rq["snic"] BY <3>2, <3>3, <3>4 DEF RequestQueued, Bit
    <3>. QED BY <2>1, <3>1, <3>5
  <2>. QED BY <2>2, <2>3 DEF SendQueueNeverFull
<1>. QED BY <1>1, SettledInvariance, PTL

=============================================================================
