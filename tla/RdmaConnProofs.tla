--------------------------- MODULE RdmaConnProofs ---------------------------
(***************************************************************************)
(* Proofs about RdmaConn: type correctness for every value of the          *)
(* constants, and, for connections whose replies fit one write             *)
(* (MaxChunks = 1), the inductive invariant IInv with the safety           *)
(* properties it carries.                                                  *)
(***************************************************************************)
EXTENDS RdmaConn, TLAPS

---------------------------------------------------------------------------
(* Type correctness: one lemma per verb, then one step per action. *)

(* A run of equal completions is a sequence of completions. *)
LEMMA CopiesType ==
  ASSUME NEW n \in Nat, NEW wc \in WC
  PROVE  Copies(n, wc) \in Seq(WC)
BY DEF Copies

(* ibv_post_send keeps the types. *)
LEMMA PostSendType ==
  ASSUME VerbsTypeOK, NEW s \in Side, PostSend(s)
  PROVE  VerbsTypeOK'
<1>1. CASE qp[s] = "RTS"
  <2>1. /\ sqUsed' = [sqUsed EXCEPT ![s] = @ + 1]
        /\ unsent' = [unsent EXCEPT ![s] = @ + 1]
        /\ UNCHANGED <<qp, hdr, unacked, rq, rqUsed, cq, armed, events>>
    BY <1>1 DEF PostSend, NoCompletion
  <2> QED
    BY SMTT(40), <2>1 DEF VerbsTypeOK
<1>2. CASE qp[s] = "ERR"
  <2>1. /\ sqUsed' = [sqUsed EXCEPT ![s] = @ + 1]
        /\ Complete(s, "SEND_ERR")
        /\ UNCHANGED <<qp, unsent, hdr, unacked, rq, rqUsed>>
    BY <1>2 DEF PostSend
  <2> QED
    BY SMTT(40), <2>1 DEF VerbsTypeOK, Complete, WC
<1> QED
  BY <1>1, <1>2 DEF PostSend

(* ibv_post_recv keeps the types. *)
LEMMA PostRecvType ==
  ASSUME VerbsTypeOK, NEW s \in Side, PostRecv(s)
  PROVE  VerbsTypeOK'
<1>1. CASE rqUsed[s] >= MaxWR
  <2>1. UNCHANGED verbs
    BY <1>1, VerbsAssumption DEF PostRecv, VerbsTypeOK, verbs
  <2> QED
    BY <2>1 DEF VerbsTypeOK, verbs
<1>2. CASE rqUsed[s] < MaxWR /\ qp[s] = "RTS"
  <2>1. /\ rqUsed' = [rqUsed EXCEPT ![s] = @ + 1]
        /\ rq' = [rq EXCEPT ![s] = @ + 1]
        /\ UNCHANGED <<qp, unsent, hdr, unacked, sqUsed, cq, armed, events>>
    BY <1>2, VerbsAssumption DEF PostRecv, VerbsTypeOK, NoCompletion
  <2> QED
    BY <2>1 DEF VerbsTypeOK
<1>3. CASE rqUsed[s] < MaxWR /\ qp[s] = "ERR"
  <2>1. /\ rqUsed' = [rqUsed EXCEPT ![s] = @ + 1]
        /\ Complete(s, "RECV_ERR")
        /\ UNCHANGED <<qp, unsent, hdr, unacked, sqUsed, rq>>
    BY <1>3, VerbsAssumption DEF PostRecv, VerbsTypeOK
  <2> QED
    BY SMTT(40), <2>1 DEF VerbsTypeOK, Complete, WC
<1>4. qp[s] \in {"RTS", "ERR"} /\ rqUsed[s] \in Int /\ MaxWR \in Int
  BY VerbsAssumption DEF VerbsTypeOK
<1> QED
  BY <1>1, <1>2, <1>3, <1>4

(* Waiting for, arming and polling the completion queue keep the types. *)
LEMMA CqType ==
  ASSUME VerbsTypeOK, NEW s \in Side, NEW wc \in WC,
         GetCqEvent(s) \/ ReqNotifyCq(s) \/ PollCq(s, wc)
  PROVE  VerbsTypeOK'
<1>1. CASE GetCqEvent(s)
  BY <1>1 DEF VerbsTypeOK, GetCqEvent
<1>2. CASE ReqNotifyCq(s)
  BY <1>2 DEF VerbsTypeOK, ReqNotifyCq
<1>3. CASE PollCq(s, wc)
  BY SMTT(40), <1>3 DEF VerbsTypeOK, PollCq, CqEmpty
<1> QED
  BY <1>1, <1>2, <1>3

(* The failure of a queue pair keeps the types. *)
LEMMA FailQpType ==
  ASSUME VerbsTypeOK, NEW s \in Side, FailQp(s)
  PROVE  VerbsTypeOK'
<1>1. /\ Copies(unacked[s], "SEND") \in Seq(WC)
      /\ Copies(unsent[s], "SEND_ERR") \in Seq(WC)
      /\ Copies(rq[s], "RECV_ERR") \in Seq(WC)
  BY CopiesType DEF VerbsTypeOK, WC
<1>2. cq' \in [Side -> Seq(WC)]
  BY <1>1 DEF VerbsTypeOK, FailQp
<1> QED
  BY SMTT(40), <1>2 DEF VerbsTypeOK, FailQp

(* The steps of the adapters keep the types. *)
LEMMA AdapterType ==
  ASSUME VerbsTypeOK, NEW s \in Side,
         \/ DeliverHeader(s) \/ DeliverImm(s) \/ Acknowledge(s)
         \/ ReceiverNotReady(s) \/ RetryExceeded(s)
  PROVE  VerbsTypeOK'
<1> USE DEF VerbsTypeOK
<1>0. Peer(s) \in Side
  BY DEF Peer, Side
<1>1. CASE DeliverHeader(s)
  BY <1>1 DEF DeliverHeader
<1>2. CASE DeliverImm(s)
  <2>1. /\ unsent[s] > 0 /\ rq[Peer(s)] > 0
        /\ unsent' = [unsent EXCEPT ![s] = @ - 1]
        /\ hdr' = [hdr EXCEPT ![s] = FALSE]
        /\ unacked' = [unacked EXCEPT ![s] = @ + 1]
        /\ rq' = [rq EXCEPT ![Peer(s)] = @ - 1]
        /\ Complete(Peer(s), "RECV")
        /\ UNCHANGED <<qp, sqUsed, rqUsed>>
    BY <1>2 DEF DeliverImm
  <2>2. unsent' \in [Side -> Nat] /\ unacked' \in [Side -> Nat]
    BY <2>1
  <2>3. hdr' \in [Side -> BOOLEAN]
    BY <2>1
  <2>4. rq' \in [Side -> Nat]
    BY SMTT(40), <1>0, <2>1
  <2>5. /\ cq' \in [Side -> Seq(WC)] /\ armed' \in [Side -> BOOLEAN]
        /\ events' \in [Side -> Nat]
    <3>1. /\ cq' = [cq EXCEPT ![Peer(s)] = Append(@, "RECV")]
          /\ armed' = [armed EXCEPT ![Peer(s)] = FALSE]
          /\ events' = [events EXCEPT ![Peer(s)] = IF armed[Peer(s)] THEN @ + 1 ELSE @]
      BY <2>1 DEF Complete
    <3>2. cq' \in [Side -> Seq(WC)]
      BY <1>0, <3>1 DEF WC
    <3>3. armed' \in [Side -> BOOLEAN]
      BY <1>0, <3>1
    <3>4. events' \in [Side -> Nat]
      BY SMTT(40), <1>0, <3>1
    <3> QED
      BY <3>2, <3>3, <3>4
  <2> QED
    BY <2>1, <2>2, <2>3, <2>4, <2>5
<1>3. CASE Acknowledge(s)
  BY SMTT(40), <1>3 DEF Acknowledge, Complete, WC
<1>4. CASE ReceiverNotReady(s) \/ RetryExceeded(s)
  BY <1>4, FailQpType DEF ReceiverNotReady, RetryExceeded
<1> QED
  BY <1>1, <1>2, <1>3, <1>4

---------------------------------------------------------------------------
(* The induction hypothesis: post_write_rtn is reached with replies to post. *)
TypeInv == TypeOK /\ (wpc = "post_write_rtn" => chunks > 0)

(* The steps of set_req_sock keep the types. *)
LEMMA HostTypeInv ==
  ASSUME TypeInv, SetReqSock \/ HostWait
  PROVE  TypeInv'
<1> USE ConnAssumption DEF TypeInv, TypeOK, Side, host, snic
<1>1. CASE SetReqSock
  <2>1. VerbsTypeOK'
    BY <1>1 DEF SetReqSock, VerbsTypeOK, verbs
  <2> QED
    BY <1>1, <2>1 DEF SetReqSock, HostPc, WorkerPc, Data, Request
<1>2. CASE PostRecvRtn
  <2>1. VerbsTypeOK'
    BY <1>2, PostRecvType DEF PostRecvRtn
  <2> QED
    BY <1>2, <2>1 DEF PostRecvRtn, HostPc, WorkerPc
<1>3. CASE PostWriteReq
  <2>1. VerbsTypeOK'
    BY <1>3, PostSendType DEF PostWriteReq
  <2> QED
    BY <1>3, <2>1 DEF PostWriteReq, HostPc, WorkerPc
<1>4. CASE PostWriteReqFull
  <2>1. VerbsTypeOK'
    BY <1>4 DEF PostWriteReqFull, VerbsTypeOK, verbs
  <2> QED
    BY <1>4, <2>1 DEF PostWriteReqFull, HostPc, WorkerPc
<1>5. CASE DrainOne
  <2>1. VerbsTypeOK'
    BY <1>5, CqType DEF DrainOne, WC
  <2> QED
    BY <1>5, <2>1 DEF DrainOne, HostPc, WorkerPc
<1>6. CASE RetryPostSend
  <2>1. VerbsTypeOK'
    BY <1>6 DEF RetryPostSend, VerbsTypeOK, verbs
  <2> QED
    BY <1>6, <2>1 DEF RetryPostSend, HostPc, WorkerPc
<1>7. CASE GiveUpPostSend
  <2>1. VerbsTypeOK'
    BY <1>7 DEF GiveUpPostSend, VerbsTypeOK, verbs
  <2> QED
    BY <1>7, <2>1
      DEF GiveUpPostSend, HostPc, WorkerPc, ReturnError, ReqAfterReturn, BlankReply,
          Data, Errno, Request, Reply
<1>8. CASE HostGetCqEvent
  <2>1. VerbsTypeOK'
    BY <1>8, CqType DEF HostGetCqEvent, WC
  <2> QED
    BY <1>8, <2>1 DEF HostGetCqEvent, HostPc, WorkerPc
<1>9. CASE HostReqNotifyCq
  <2>1. VerbsTypeOK'
    BY <1>9, CqType DEF HostReqNotifyCq, WC
  <2> QED
    BY <1>9, <2>1 DEF HostReqNotifyCq, HostPc, WorkerPc
<1>10. CASE HostPollEmpty
  <2>1. VerbsTypeOK'
    BY <1>10 DEF HostPollEmpty, VerbsTypeOK, verbs
  <2> QED
    BY <1>10, <2>1 DEF HostPollEmpty, HostPc, WorkerPc
<1>11. CASE HostPollSend
  <2>1. VerbsTypeOK'
    BY <1>11, CqType DEF HostPollSend, WC
  <2> QED
    BY <1>11, <2>1 DEF HostPollSend, HostPc, WorkerPc
<1>12. CASE HostPollReply
  <2>1. VerbsTypeOK'
    BY <1>12, CqType DEF HostPollReply, WC
  <2> QED
    BY <1>12, <2>1 DEF HostPollReply, HostPc, WorkerPc
<1>13. CASE HostPollError
  <2>1. VerbsTypeOK'
    BY <1>13, CqType DEF HostPollError, WC
  <2> QED
    BY <1>13, <2>1
      DEF HostPollError, HostPc, WorkerPc, ReturnError, ReqAfterReturn, BlankReply,
          Data, Errno, Request, Reply
<1>14. CASE ReturnReply
  <2>1. VerbsTypeOK'
    BY <1>14 DEF ReturnReply, VerbsTypeOK, verbs
  <2> QED
    BY <1>14, <2>1
      DEF ReturnReply, HostPc, WorkerPc, ReqAfterReturn, Data, Errno, Request, Reply
<1> QED
  BY <1>1, <1>2, <1>3, <1>4, <1>5, <1>6, <1>7, <1>8, <1>9, <1>10, <1>11, <1>12, <1>13,
     <1>14
    DEF HostWait

(* The steps of the worker thread keep the types. *)
LEMMA WorkerTypeInv ==
  ASSUME TypeInv, Worker
  PROVE  TypeInv'
<1> USE ConnAssumption DEF TypeInv, TypeOK, Side, host, snic
<1>1. CASE WorkerGetCqEvent
  <2>1. VerbsTypeOK'
    BY <1>1, CqType DEF WorkerGetCqEvent, WC
  <2> QED
    BY <1>1, <2>1 DEF WorkerGetCqEvent, HostPc, WorkerPc
<1>2. CASE WorkerReqNotifyCq
  <2>1. VerbsTypeOK'
    BY <1>2, CqType DEF WorkerReqNotifyCq, WC
  <2> QED
    BY <1>2, <2>1 DEF WorkerReqNotifyCq, HostPc, WorkerPc
<1>3. CASE WorkerPollEmpty
  <2>1. VerbsTypeOK'
    BY <1>3 DEF WorkerPollEmpty, VerbsTypeOK, verbs
  <2> QED
    BY <1>3, <2>1 DEF WorkerPollEmpty, HostPc, WorkerPc
<1>4. CASE WorkerPollSend
  <2>1. VerbsTypeOK'
    BY <1>4, CqType DEF WorkerPollSend, WC
  <2> QED
    BY <1>4, <2>1 DEF WorkerPollSend, HostPc, WorkerPc
<1>5. CASE WorkerPollRequest
  <2>1. VerbsTypeOK'
    BY <1>5, CqType DEF WorkerPollRequest, WC
  <2> QED
    BY <1>5, <2>1 DEF WorkerPollRequest, HostPc, WorkerPc
<1>6. CASE WorkerPollError
  <2>1. VerbsTypeOK'
    BY <1>6, CqType DEF WorkerPollError, WC
  <2> QED
    BY <1>6, <2>1 DEF WorkerPollError, HostPc, WorkerPc
<1>7. CASE PostRecvReq
  <2>1. VerbsTypeOK'
    BY <1>7, PostRecvType DEF PostRecvReq
  <2> QED
    BY <1>7, <2>1 DEF PostRecvReq, HostPc, WorkerPc
<1>8. CASE RdmaReqEvent
  <2>1. VerbsTypeOK'
    BY <1>8 DEF RdmaReqEvent, VerbsTypeOK, verbs
  <2> QED
    BY <1>8, <2>1
      DEF RdmaReqEvent, HostPc, WorkerPc, Outcome, Data, Errno, ReplyChunks,
          StoredErrno, Request, Reply
<1>9. CASE PostWriteRtn
  <2>1. VerbsTypeOK'
    BY <1>9, PostSendType DEF PostWriteRtn
  <2> QED
    BY <1>9, <2>1 DEF PostWriteRtn, HostPc, WorkerPc
<1>10. CASE PostWriteRtnFull
  <2>1. VerbsTypeOK'
    BY <1>10 DEF PostWriteRtnFull, VerbsTypeOK, verbs
  <2> QED
    BY <1>10, <2>1 DEF PostWriteRtnFull, HostPc, WorkerPc, AfterReply
<1>11. CASE ClearRtn
  <2>1. VerbsTypeOK'
    BY <1>11 DEF ClearRtn, VerbsTypeOK, verbs
  <2>2. wRtn' \in Reply
    BY <1>11 DEF ClearRtn, Reply, Data, Errno
  <2>3. wpc' \in WorkerPc /\ wpc' # "post_write_rtn"
    BY <1>11 DEF ClearRtn, AfterReply, WorkerPc
  <2> QED
    BY <1>11, <2>1, <2>2, <2>3 DEF ClearRtn
<1>12. CASE MemsetAfterReply
  <2>1. VerbsTypeOK'
    BY <1>12 DEF MemsetAfterReply, VerbsTypeOK, verbs
  <2> QED
    BY <1>12, <2>1
      DEF MemsetAfterReply, HostPc, WorkerPc, BlankReply, Data, Errno, Request, Reply
<1> QED
  BY <1>1, <1>2, <1>3, <1>4, <1>5, <1>6, <1>7, <1>8, <1>9, <1>10, <1>11, <1>12
    DEF Worker

(* The steps of the adapters keep the types. *)
LEMMA AdapterTypeInv ==
  ASSUME TypeInv, Request2Snic \/ Reply2Host \/ Ack("host") \/ Ack("snic")
  PROVE  TypeInv'
<1> USE ConnAssumption DEF TypeInv, TypeOK, Side, host, snic
<1>1. CASE DeliverReqHeader
  <2>1. VerbsTypeOK'
    BY <1>1, AdapterType DEF DeliverReqHeader
  <2> QED
    BY <1>1, <2>1 DEF DeliverReqHeader, HostPc, WorkerPc, Request
<1>2. CASE DeliverReq
  <2>1. VerbsTypeOK'
    BY <1>2, AdapterType DEF DeliverReq
  <2> QED
    BY <1>2, <2>1 DEF DeliverReq, HostPc, WorkerPc, Request
<1>3. CASE DeliverRtnHeader
  <2>1. VerbsTypeOK'
    BY <1>3, AdapterType DEF DeliverRtnHeader
  <2>2. hRtn' \in Reply
    BY <1>3 DEF DeliverRtnHeader, Reply
  <2> QED
    BY SMTT(40), <1>3, <2>1, <2>2 DEF DeliverRtnHeader, HostPc, WorkerPc
<1>4. CASE DeliverRtn
  <2>1. VerbsTypeOK'
    BY <1>4, AdapterType DEF DeliverRtn
  <2> QED
    BY <1>4, <2>1 DEF DeliverRtn, HostPc, WorkerPc, Reply
<1>5. CASE RnrReq
  <2>1. VerbsTypeOK'
    BY <1>5, AdapterType DEF RnrReq
  <2> QED
    BY <1>5, <2>1 DEF RnrReq, HostPc, WorkerPc, Request
<1>6. CASE RnrRtn
  <2>1. VerbsTypeOK'
    BY <1>6, AdapterType DEF RnrRtn
  <2> QED
    BY <1>6, <2>1 DEF RnrRtn, HostPc, WorkerPc, Reply
<1>7. CASE Ack("host")
  <2>1. VerbsTypeOK'
    BY <1>7, AdapterType DEF Ack
  <2> QED
    BY <1>7, <2>1 DEF Ack, HostPc, WorkerPc
<1>8. CASE Ack("snic")
  <2>1. VerbsTypeOK'
    BY <1>8, AdapterType DEF Ack
  <2> QED
    BY <1>8, <2>1 DEF Ack, HostPc, WorkerPc
<1>9. CASE PeerFailed("host")
  <2>1. VerbsTypeOK'
    BY <1>9, AdapterType DEF PeerFailed
  <2> QED
    BY <1>9, <2>1 DEF PeerFailed, HostPc, WorkerPc
<1>10. CASE PeerFailed("snic")
  <2>1. VerbsTypeOK'
    BY <1>10, AdapterType DEF PeerFailed
  <2> QED
    BY <1>10, <2>1 DEF PeerFailed, HostPc, WorkerPc
<1> QED
  BY <1>1, <1>2, <1>3, <1>4, <1>5, <1>6, <1>7, <1>8, <1>9, <1>10
    DEF Request2Snic, Reply2Host

(* The initial states have their types. *)
LEMMA TypeInit == Init => TypeInv
<1> SUFFICES ASSUME Init PROVE TypeInv
  OBVIOUS
<1>1. armed \in [Side -> BOOLEAN]
  BY DEF Init
<1>2. events \in [Side -> Nat]
  BY <1>1 DEF Init
<1>3. VerbsTypeOK
  BY <1>1, <1>2 DEF Init, VerbsTypeOK, Side
<1> QED
  BY <1>3, ConnAssumption DEF Init, TypeInv, TypeOK, HostPc, WorkerPc, BlankRequest,
     BlankReply, Request, Reply, Data, Errno, SocketOp

(* Every step keeps the types. *)
LEMMA TypeStep == TypeInv /\ [Next]_vars => TypeInv'
<1> SUFFICES ASSUME TypeInv, [Next]_vars PROVE TypeInv'
  OBVIOUS
<1>1. CASE SetReqSock \/ HostWait
  BY <1>1, HostTypeInv
<1>2. CASE Worker
  BY <1>2, WorkerTypeInv
<1>3. CASE Request2Snic \/ Reply2Host \/ Ack("host") \/ Ack("snic")
  BY <1>3, AdapterTypeInv
<1>4. CASE UNCHANGED vars
  BY <1>4 DEF TypeInv, TypeOK, VerbsTypeOK, vars, verbs, host, snic
<1> QED
  BY <1>1, <1>2, <1>3, <1>4 DEF Next

(* Type correctness of the connection, for every number of slots, chunks,  *)
(* retries and operations: in particular the number of replies still to    *)
(* post never goes below 0, and an event is only taken from a channel that *)
(* has one.                                                                *)
THEOREM TypeCorrect == Spec => []TypeOK
<1>1. TypeInv => TypeOK
  BY DEF TypeInv
<1> QED
  BY <1>1, TypeInit, TypeStep, PTL DEF Spec

---------------------------------------------------------------------------
(* The bound of the completion queues, in every state of the connection: *)
(* each slot of a work queue is in exactly one place.                    *)

(* The slots of end s, as CompletionQueueBounded counts them. *)
CqLen(s) == Len(cq[s])

Counted(s) ==
  /\ CqLen(s) + unsent[s] + unacked[s] + rq[s] = sqUsed[s] + rqUsed[s]
  /\ sqUsed[s] <= MaxWR /\ rqUsed[s] <= MaxWR

(* The counts of one end are numbers. *)
LEMMA CountsAreNumbers ==
  ASSUME VerbsTypeOK, NEW s \in Side
  PROVE  /\ CqLen(s) \in Nat /\ unsent[s] \in Nat /\ unacked[s] \in Nat /\ rq[s] \in Nat
         /\ sqUsed[s] \in Int /\ rqUsed[s] \in Int /\ MaxWR \in Int
BY VerbsAssumption DEF VerbsTypeOK, CqLen

(* An end whose queues a step leaves alone. *)
LEMMA SameEnd ==
  ASSUME NEW t \in Side, Counted(t),
         cq'[t] = cq[t], unsent'[t] = unsent[t], unacked'[t] = unacked[t],
         rq'[t] = rq[t], sqUsed'[t] = sqUsed[t], rqUsed'[t] = rqUsed[t]
  PROVE  Counted(t)'
BY DEF Counted, CqLen

(* ibv_post_send takes a free slot. *)
LEMMA PostSendCounted ==
  ASSUME VerbsTypeOK, NEW s \in Side, \A t \in Side : Counted(t), PostSend(s)
  PROVE  \A t \in Side : Counted(t)'
<1>1. /\ sqUsed' = [sqUsed EXCEPT ![s] = @ + 1] /\ sqUsed[s] < MaxWR
      /\ UNCHANGED <<unacked, rq, rqUsed>>
  BY CountsAreNumbers DEF PostSend, SendQueueFull
<1>2. CASE qp[s] = "RTS"
  <2>1. unsent' = [unsent EXCEPT ![s] = @ + 1] /\ UNCHANGED cq
    BY <1>2 DEF PostSend, NoCompletion
  <2>2. /\ CqLen(s)' = CqLen(s) /\ unsent'[s] = unsent[s] + 1 /\ unacked'[s] = unacked[s]
        /\ rq'[s] = rq[s] /\ sqUsed'[s] = sqUsed[s] + 1 /\ rqUsed'[s] = rqUsed[s]
    BY <1>1, <2>1 DEF VerbsTypeOK, CqLen
  <2>3. Counted(s)'
    BY <1>1, <2>2, CountsAreNumbers DEF Counted
  <2>4. \A t \in Side : t # s => Counted(t)'
    BY <1>1, <2>1, SameEnd DEF VerbsTypeOK
  <2> QED
    BY <2>3, <2>4
<1>3. CASE qp[s] = "ERR"
  <2>1. cq' = [cq EXCEPT ![s] = Append(@, "SEND_ERR")] /\ UNCHANGED unsent
    BY <1>3 DEF PostSend, Complete
  <2>2. /\ CqLen(s)' = CqLen(s) + 1 /\ unsent'[s] = unsent[s] /\ unacked'[s] = unacked[s]
        /\ rq'[s] = rq[s] /\ sqUsed'[s] = sqUsed[s] + 1 /\ rqUsed'[s] = rqUsed[s]
    BY <1>1, <2>1 DEF VerbsTypeOK, CqLen
  <2>3. Counted(s)'
    BY <1>1, <2>2, CountsAreNumbers DEF Counted
  <2>4. \A t \in Side : t # s => Counted(t)'
    BY <1>1, <2>1, SameEnd DEF VerbsTypeOK
  <2> QED
    BY <2>3, <2>4
<1> QED
  BY <1>2, <1>3 DEF PostSend

(* ibv_post_recv takes a free slot or does nothing. *)
LEMMA PostRecvCounted ==
  ASSUME VerbsTypeOK, NEW s \in Side, \A t \in Side : Counted(t), PostRecv(s)
  PROVE  \A t \in Side : Counted(t)'
<1>0. rqUsed[s] \in Int /\ MaxWR \in Int /\ qp[s] \in {"RTS", "ERR"}
  BY VerbsAssumption DEF VerbsTypeOK
<1>1. CASE rqUsed[s] >= MaxWR
  <2>1. UNCHANGED <<cq, unsent, unacked, rq, sqUsed, rqUsed>>
    BY <1>0, <1>1 DEF PostRecv
  <2> QED
    BY <2>1, SameEnd
<1>2. CASE rqUsed[s] < MaxWR
  <2>1. /\ rqUsed' = [rqUsed EXCEPT ![s] = @ + 1]
        /\ UNCHANGED <<unsent, unacked, sqUsed>>
    BY <1>0, <1>2 DEF PostRecv
  <2>2. CASE qp[s] = "RTS"
    <3>1. rq' = [rq EXCEPT ![s] = @ + 1] /\ UNCHANGED cq
      BY <1>0, <1>2, <2>2 DEF PostRecv, NoCompletion
    <3>2. /\ CqLen(s)' = CqLen(s) /\ unsent'[s] = unsent[s] /\ unacked'[s] = unacked[s]
          /\ rq'[s] = rq[s] + 1 /\ sqUsed'[s] = sqUsed[s] /\ rqUsed'[s] = rqUsed[s] + 1
      BY <2>1, <3>1 DEF VerbsTypeOK, CqLen
    <3>3. Counted(s)'
      BY <1>2, <3>2, CountsAreNumbers DEF Counted
    <3>4. \A t \in Side : t # s => Counted(t)'
      BY <2>1, <3>1, SameEnd DEF VerbsTypeOK
    <3> QED
      BY <3>3, <3>4
  <2>3. CASE qp[s] = "ERR"
    <3>1. cq' = [cq EXCEPT ![s] = Append(@, "RECV_ERR")] /\ UNCHANGED rq
      BY <1>0, <1>2, <2>3 DEF PostRecv, Complete
    <3>2. /\ CqLen(s)' = CqLen(s) + 1 /\ unsent'[s] = unsent[s] /\ unacked'[s] = unacked[s]
          /\ rq'[s] = rq[s] /\ sqUsed'[s] = sqUsed[s] /\ rqUsed'[s] = rqUsed[s] + 1
      BY <2>1, <3>1 DEF VerbsTypeOK, CqLen
    <3>3. Counted(s)'
      BY <1>2, <3>2, CountsAreNumbers DEF Counted
    <3>4. \A t \in Side : t # s => Counted(t)'
      BY <2>1, <3>1, SameEnd DEF VerbsTypeOK
    <3> QED
      BY <3>3, <3>4
  <2> QED
    BY <1>0, <2>2, <2>3
<1> QED
  BY <1>0, <1>1, <1>2

(* A poll frees the slot of the completion it takes. *)
LEMMA PollCqCounted ==
  ASSUME VerbsTypeOK, NEW s \in Side, \A t \in Side : Counted(t),
         NEW wc \in WC, PollCq(s, wc)
  PROVE  \A t \in Side : Counted(t)'
<1>1. /\ cq' = [cq EXCEPT ![s] = Tail(@)] /\ cq[s] # <<>>
      /\ sqUsed' = [sqUsed EXCEPT ![s] = IF wc \in {"SEND", "SEND_ERR"} THEN @ - 1 ELSE @]
      /\ rqUsed' = [rqUsed EXCEPT ![s] = IF wc \in {"RECV", "RECV_ERR"} THEN @ - 1 ELSE @]
      /\ UNCHANGED <<unsent, unacked, rq>>
  BY DEF PollCq, CqEmpty
<1>2. CqLen(s)' = CqLen(s) - 1
  BY <1>1 DEF VerbsTypeOK, CqLen
<1>3. \/ sqUsed'[s] = sqUsed[s] - 1 /\ rqUsed'[s] = rqUsed[s]
      \/ sqUsed'[s] = sqUsed[s] /\ rqUsed'[s] = rqUsed[s] - 1
  BY <1>1 DEF VerbsTypeOK, WC
<1>4. unsent'[s] = unsent[s] /\ unacked'[s] = unacked[s] /\ rq'[s] = rq[s]
  BY <1>1
<1>5. (CqLen(s) - 1) + unsent[s] + unacked[s] + rq[s] = (sqUsed[s] + rqUsed[s]) - 1
  BY CountsAreNumbers DEF Counted
<1>6. Counted(s)'
  <2>0. /\ CqLen(s) \in Nat /\ unsent[s] \in Nat /\ unacked[s] \in Nat /\ rq[s] \in Nat
        /\ sqUsed[s] \in Int /\ rqUsed[s] \in Int /\ MaxWR \in Int /\ Counted(s)
    BY CountsAreNumbers
  <2>1. CASE sqUsed'[s] = sqUsed[s] - 1 /\ rqUsed'[s] = rqUsed[s]
    <3>1. (CqLen(s) - 1) + unsent[s] + unacked[s] + rq[s] = sqUsed'[s] + rqUsed'[s]
      BY <1>5, <2>0, <2>1
    <3>2. sqUsed'[s] <= MaxWR /\ rqUsed'[s] <= MaxWR
      BY <2>0, <2>1 DEF Counted
    <3> QED
      BY <1>2, <1>4, <3>1, <3>2 DEF Counted
  <2>2. CASE sqUsed'[s] = sqUsed[s] /\ rqUsed'[s] = rqUsed[s] - 1
    <3>1. (CqLen(s) - 1) + unsent[s] + unacked[s] + rq[s] = sqUsed'[s] + rqUsed'[s]
      BY <1>5, <2>0, <2>2
    <3>2. sqUsed'[s] <= MaxWR /\ rqUsed'[s] <= MaxWR
      BY <2>0, <2>2 DEF Counted
    <3> QED
      BY <1>2, <1>4, <3>1, <3>2 DEF Counted
  <2> QED
    BY <1>3, <2>1, <2>2
<1>7. \A t \in Side : t # s => Counted(t)'
  BY <1>1, SameEnd DEF VerbsTypeOK
<1> QED
  BY <1>6, <1>7

(* An immediate moves a message to the acknowledgements and a receive to *)
(* the completions; an acknowledgement becomes a completion.             *)
LEMMA DeliverCounted ==
  ASSUME VerbsTypeOK, NEW s \in Side, \A t \in Side : Counted(t),
         DeliverHeader(s) \/ DeliverImm(s) \/ Acknowledge(s)
  PROVE  \A t \in Side : Counted(t)'
<1>1. CASE DeliverHeader(s)
  BY <1>1, SameEnd DEF DeliverHeader
<1>2. CASE DeliverImm(s)
  <2>1. PICK p \in Side : p = Peer(s) /\ p # s
    BY DEF Peer, Side
  <2>2. /\ unsent' = [unsent EXCEPT ![s] = @ - 1]
        /\ unacked' = [unacked EXCEPT ![s] = @ + 1]
        /\ rq' = [rq EXCEPT ![p] = @ - 1]
        /\ cq' = [cq EXCEPT ![p] = Append(@, "RECV")]
        /\ UNCHANGED <<sqUsed, rqUsed>>
    BY <1>2, <2>1 DEF DeliverImm, Complete
  <2>3. /\ CqLen(p)' = CqLen(p) + 1 /\ unsent'[p] = unsent[p] /\ unacked'[p] = unacked[p]
        /\ rq'[p] = rq[p] - 1 /\ sqUsed'[p] = sqUsed[p] /\ rqUsed'[p] = rqUsed[p]
    BY <2>1, <2>2 DEF VerbsTypeOK, CqLen
  <2>4. /\ CqLen(s)' = CqLen(s) /\ unsent'[s] = unsent[s] - 1 /\ unacked'[s] = unacked[s] + 1
        /\ rq'[s] = rq[s] /\ sqUsed'[s] = sqUsed[s] /\ rqUsed'[s] = rqUsed[s]
    BY <2>1, <2>2 DEF VerbsTypeOK, CqLen
  <2>5. Counted(p)'
    <3>1. /\ CqLen(p) \in Nat /\ unsent[p] \in Nat /\ unacked[p] \in Nat /\ rq[p] \in Nat
          /\ sqUsed[p] \in Int /\ rqUsed[p] \in Int /\ MaxWR \in Int
      BY CountsAreNumbers
    <3>2. Counted(p)
      OBVIOUS
    <3> QED
      BY <2>3, <3>1, <3>2 DEF Counted
  <2>6. Counted(s)'
    BY <2>4, CountsAreNumbers DEF Counted
  <2>7. \A t \in Side : t = s \/ t = p
    BY <2>1 DEF Side
  <2> QED
    BY <2>5, <2>6, <2>7
<1>3. CASE Acknowledge(s)
  <2>1. /\ unacked' = [unacked EXCEPT ![s] = @ - 1]
        /\ cq' = [cq EXCEPT ![s] = Append(@, "SEND")]
        /\ UNCHANGED <<unsent, rq, sqUsed, rqUsed>>
    BY <1>3 DEF Acknowledge, Complete
  <2>2. /\ CqLen(s)' = CqLen(s) + 1 /\ unsent'[s] = unsent[s] /\ unacked'[s] = unacked[s] - 1
        /\ rq'[s] = rq[s] /\ sqUsed'[s] = sqUsed[s] /\ rqUsed'[s] = rqUsed[s]
    BY <2>1 DEF VerbsTypeOK, CqLen
  <2>3. Counted(s)'
    BY <2>2, CountsAreNumbers DEF Counted
  <2>4. \A t \in Side : t # s => Counted(t)'
    BY <2>1, SameEnd DEF VerbsTypeOK
  <2> QED
    BY <2>3, <2>4
<1> QED
  BY <1>1, <1>2, <1>3

(* The length of a concatenation. *)
LEMMA ConcatLen ==
  ASSUME NEW p \in Seq(WC), NEW q \in Seq(WC)
  PROVE  p \o q \in Seq(WC) /\ Len(p \o q) = Len(p) + Len(q)
OBVIOUS

(* A failure turns everything outstanding into completions. *)
LEMMA FailQpCounted ==
  ASSUME VerbsTypeOK, NEW s \in Side, \A t \in Side : Counted(t), FailQp(s)
  PROVE  \A t \in Side : Counted(t)'
<1> DEFINE a == Copies(unacked[s], "SEND")
           u == Copies(unsent[s], "SEND_ERR")
           r == Copies(rq[s], "RECV_ERR")
<1>1. /\ cq' = [cq EXCEPT ![s] = @ \o a \o u \o r]
      /\ unsent' = [unsent EXCEPT ![s] = 0]
      /\ unacked' = [unacked EXCEPT ![s] = 0]
      /\ rq' = [rq EXCEPT ![s] = 0]
      /\ UNCHANGED <<sqUsed, rqUsed>>
  BY DEF FailQp
<1>2. /\ a \in Seq(WC) /\ Len(a) = unacked[s]
      /\ u \in Seq(WC) /\ Len(u) = unsent[s]
      /\ r \in Seq(WC) /\ Len(r) = rq[s]
  BY CountsAreNumbers DEF Copies, WC
<1> HIDE DEF a, u, r
<1>3. Len(cq[s] \o a \o u \o r) = Len(cq[s]) + Len(a) + Len(u) + Len(r)
  <2>1. cq[s] \in Seq(WC)
    BY DEF VerbsTypeOK
  <2>2. cq[s] \o a \in Seq(WC) /\ Len(cq[s] \o a) = Len(cq[s]) + Len(a)
    BY <1>2, <2>1, ConcatLen
  <2>3. cq[s] \o a \o u \in Seq(WC) /\ Len(cq[s] \o a \o u) = Len(cq[s] \o a) + Len(u)
    BY <1>2, <2>2, ConcatLen
  <2>4. Len(cq[s] \o a \o u \o r) = Len(cq[s] \o a \o u) + Len(r)
    BY <1>2, <2>3, ConcatLen
  <2> QED
    BY <2>2, <2>3, <2>4
<1>4. /\ CqLen(s)' = CqLen(s) + unacked[s] + unsent[s] + rq[s]
      /\ unsent'[s] = 0 /\ unacked'[s] = 0 /\ rq'[s] = 0
      /\ sqUsed'[s] = sqUsed[s] /\ rqUsed'[s] = rqUsed[s]
  BY <1>1, <1>2, <1>3 DEF VerbsTypeOK, CqLen
<1>5. Counted(s)'
  BY <1>4, CountsAreNumbers DEF Counted
<1>6. \A t \in Side : t # s => Counted(t)'
  BY <1>1, SameEnd DEF VerbsTypeOK
<1> QED
  BY <1>5, <1>6

(* Every step keeps the slots counted: it is one verb, or leaves the *)
(* queues alone.                                                     *)
LEMMA CountedStep ==
  ASSUME TypeInv, \A t \in Side : Counted(t), [Next]_vars
  PROVE  \A t \in Side : Counted(t)'
<1>1. VerbsTypeOK /\ "host" \in Side /\ "snic" \in Side
  BY DEF TypeInv, TypeOK, Side
<1>2. CASE UNCHANGED verbs
  BY <1>2, SameEnd DEF verbs
<1>3. CASE PostRecvRtn \/ PostRecvReq
  BY <1>1, <1>3, PostRecvCounted DEF PostRecvRtn, PostRecvReq
<1>4. CASE PostWriteReq \/ PostWriteRtn
  BY <1>1, <1>4, PostSendCounted DEF PostWriteReq, PostWriteRtn
<1>5. CASE \/ HostGetCqEvent \/ HostReqNotifyCq
           \/ WorkerGetCqEvent \/ WorkerReqNotifyCq
  BY <1>5, SameEnd DEF HostGetCqEvent, HostReqNotifyCq, WorkerGetCqEvent,
     WorkerReqNotifyCq, GetCqEvent, ReqNotifyCq
<1>6. CASE \/ DrainOne \/ HostPollSend \/ HostPollReply \/ HostPollError
           \/ WorkerPollSend \/ WorkerPollRequest \/ WorkerPollError
  <2>1. \E e \in Side, wc \in WC : PollCq(e, wc)
    BY <1>1, <1>6 DEF DrainOne, HostPollSend, HostPollReply, HostPollError,
       WorkerPollSend, WorkerPollRequest, WorkerPollError, WC
  <2> QED
    BY <1>1, <2>1, PollCqCounted
<1>7. CASE Request2Snic \/ Reply2Host \/ Ack("host") \/ Ack("snic")
  <2>1. \E e \in Side : \/ DeliverHeader(e) \/ DeliverImm(e) \/ Acknowledge(e)
                        \/ FailQp(e)
    BY <1>1, <1>7 DEF Request2Snic, Reply2Host, DeliverReqHeader, DeliverReq, RnrReq,
       DeliverRtnHeader, DeliverRtn, RnrRtn, PeerFailed, Ack, ReceiverNotReady, RetryExceeded
  <2> QED
    BY <1>1, <2>1, DeliverCounted, FailQpCounted
<1>8. CASE SetReqSock \/ HostWait
  BY <1>2, <1>3, <1>4, <1>5, <1>6, <1>8 DEF SetReqSock, HostWait, PostWriteReqFull,
     RetryPostSend, GiveUpPostSend, HostPollEmpty, ReturnReply
<1>9. CASE Worker
  BY <1>2, <1>3, <1>4, <1>5, <1>6, <1>9 DEF Worker, WorkerPollEmpty, RdmaReqEvent,
     PostWriteRtnFull, ClearRtn, MemsetAfterReply
<1>10. CASE UNCHANGED vars
  BY <1>2, <1>10 DEF vars
<1> QED
  BY <1>7, <1>8, <1>9, <1>10 DEF Next

(* No completion queue ever holds more completions than the two work       *)
(* queues have slots, in every state the connection can reach, its         *)
(* failures and replies of several chunks included: a capacity of          *)
(* 2 * MAX_WR never overflows.                                             *)
THEOREM NoCqOverflow == Spec => []CompletionQueueBounded
<1>1. Init => TypeInv /\ \A t \in Side : Counted(t)
  BY TypeInit, VerbsAssumption DEF Init, Counted, CqLen, Side
<1>2. TypeInv /\ (\A t \in Side : Counted(t)) /\ [Next]_vars =>
        TypeInv' /\ (\A t \in Side : Counted(t))'
  BY TypeStep, CountedStep
<1>3. (\A t \in Side : Counted(t)) => CompletionQueueBounded
  BY DEF Counted, CqLen, CompletionQueueBounded
<1> QED
  BY <1>1, <1>2, <1>3, PTL DEF Spec

=============================================================================
