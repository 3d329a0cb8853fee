------------------------------- MODULE Verbs -------------------------------
(***************************************************************************)
(* The part of libibverbs that one reliable connection of the project      *)
(* uses, modelled from how host/rdma_client.c and snic/rdma_server.c call  *)
(* it: post_send, post_recv, get_cq_event, req_notify_cq and poll_cq on    *)
(* the two ends of the connection.  Each end has one queue pair whose send *)
(* and receive queues share one completion queue.                          *)
(***************************************************************************)
EXTENDS Integers, Sequences

CONSTANTS
  MaxWR,      \* MAX_WR: capacity of a send queue and of a receive queue
  AckWindow   \* messages of one end that may be delivered and not yet acknowledged

ASSUME VerbsAssumption ==
  /\ MaxWR \in Nat \ {0}
  /\ AckWindow \in Nat \ {0}

Side == {"host", "snic"}
Peer(s) == IF s = "host" THEN "snic" ELSE "host"

(* Work completions: SEND and RECV succeeded (RECV is the              *)
(* IBV_WC_RECV_RDMA_WITH_IMM of the peer's write), the others carry an *)
(* error status.                                                       *)
WC == {"SEND", "RECV", "SEND_ERR", "RECV_ERR"}

VARIABLES
  qp,        \* state of the queue pair: "RTS" or "ERR"
  unsent,    \* posted sends whose last packet has not been delivered
  hdr,       \* the first packets of the oldest unsent message have been delivered
  unacked,   \* delivered sends whose acknowledgement has not come back
  rq,        \* receive work requests the peer's immediate can consume
  sqUsed,    \* send-queue slots in use; a slot is freed when its WC is polled
  rqUsed,    \* receive-queue slots in use
  cq,        \* completion queue
  armed,     \* ibv_req_notify_cq is in force
  events     \* events waiting in the completion channel

verbs == <<qp, unsent, hdr, unacked, rq, sqUsed, rqUsed, cq, armed, events>>

VerbsTypeOK ==
  /\ qp \in [Side -> {"RTS", "ERR"}]
  /\ unsent \in [Side -> Nat]
  /\ hdr \in [Side -> BOOLEAN]
  /\ unacked \in [Side -> Nat]
  /\ rq \in [Side -> Nat]
  /\ sqUsed \in [Side -> Int]
  /\ rqUsed \in [Side -> Int]
  /\ cq \in [Side -> Seq(WC)]
  /\ armed \in [Side -> BOOLEAN]
  /\ events \in [Side -> Nat]

---------------------------------------------------------------------------
(* A completion enters the queue; an armed queue fires one event.  *)
Complete(s, wc) ==
  /\ cq' = [cq EXCEPT ![s] = Append(@, wc)]
  /\ armed' = [armed EXCEPT ![s] = FALSE]
  /\ events' = [events EXCEPT ![s] = IF armed[s] THEN @ + 1 ELSE @]

NoCompletion == UNCHANGED <<cq, armed, events>>

(* mutant: the capacity is exceeded by one *)
SendQueueFullOffByOne(s) == sqUsed[s] > MaxWR

SendQueueFull(s) == sqUsed[s] >= MaxWR

(* ibv_post_send: on a failed queue pair the request is flushed with an error. *)
PostSend(s) ==
  /\ ~SendQueueFull(s)
  /\ sqUsed' = [sqUsed EXCEPT ![s] = @ + 1]
  /\ \/ /\ qp[s] = "RTS"
        /\ unsent' = [unsent EXCEPT ![s] = @ + 1]
        /\ NoCompletion
     \/ /\ qp[s] = "ERR"
        /\ Complete(s, "SEND_ERR")
        /\ UNCHANGED unsent
  /\ UNCHANGED <<qp, hdr, unacked, rq, rqUsed>>

(* ibv_post_recv; neither caller acts on a full receive queue. *)
PostRecv(s) ==
  /\ \/ /\ rqUsed[s] >= MaxWR
        /\ UNCHANGED <<rq, rqUsed, cq, armed, events>>
     \/ /\ rqUsed[s] < MaxWR
        /\ rqUsed' = [rqUsed EXCEPT ![s] = @ + 1]
        /\ \/ /\ qp[s] = "RTS"
              /\ rq' = [rq EXCEPT ![s] = @ + 1]
              /\ NoCompletion
           \/ /\ qp[s] = "ERR"
              /\ Complete(s, "RECV_ERR")
              /\ UNCHANGED rq
  /\ UNCHANGED <<qp, unsent, hdr, unacked, sqUsed>>

(* ibv_get_cq_event blocks until the channel has an event. *)
GetCqEvent(s) ==
  /\ events[s] > 0
  /\ events' = [events EXCEPT ![s] = @ - 1]
  /\ UNCHANGED <<qp, unsent, hdr, unacked, rq, sqUsed, rqUsed, cq, armed>>

(* ibv_req_notify_cq: only completions that come later fire an event. *)
ReqNotifyCq(s) ==
  /\ armed' = [armed EXCEPT ![s] = TRUE]
  /\ UNCHANGED <<qp, unsent, hdr, unacked, rq, sqUsed, rqUsed, cq, events>>

CqEmpty(s) == cq[s] = <<>>

(* ibv_poll_cq(cq, 1, wc) returning 1 with the completion wc. *)
PollCq(s, wc) ==
  /\ ~CqEmpty(s)
  /\ wc = Head(cq[s])
  /\ cq' = [cq EXCEPT ![s] = Tail(@)]
  /\ sqUsed' = [sqUsed EXCEPT ![s] = IF wc \in {"SEND", "SEND_ERR"} THEN @ - 1 ELSE @]
  /\ rqUsed' = [rqUsed EXCEPT ![s] = IF wc \in {"RECV", "RECV_ERR"} THEN @ - 1 ELSE @]
  /\ UNCHANGED <<qp, unsent, hdr, unacked, rq, armed, events>>

---------------------------------------------------------------------------
(* The adapters.  A write with immediate is moved in two parts: its first  *)
(* packets, then the rest with the immediate, which consumes a receive of  *)
(* the peer and completes it there.  The owner of the memory adds to these *)
(* steps what is copied.                                                   *)
Connected(s) == qp[s] = "RTS" /\ qp[Peer(s)] = "RTS"

DeliverHeader(s) ==
  /\ unsent[s] > 0 /\ ~hdr[s] /\ Connected(s)
  /\ hdr' = [hdr EXCEPT ![s] = TRUE]
  /\ UNCHANGED <<qp, unsent, unacked, rq, sqUsed, rqUsed, cq, armed, events>>

DeliverImm(s) ==
  /\ unsent[s] > 0 /\ hdr[s] /\ Connected(s)
  /\ rq[Peer(s)] > 0
  /\ unacked[s] < AckWindow
  /\ unsent' = [unsent EXCEPT ![s] = @ - 1]
  /\ hdr' = [hdr EXCEPT ![s] = FALSE]
  /\ unacked' = [unacked EXCEPT ![s] = @ + 1]
  /\ rq' = [rq EXCEPT ![Peer(s)] = @ - 1]
  /\ Complete(Peer(s), "RECV")
  /\ UNCHANGED <<qp, sqUsed, rqUsed>>

(* The acknowledgement comes back and completes the send. *)
Acknowledge(s) ==
  /\ unacked[s] > 0
  /\ unacked' = [unacked EXCEPT ![s] = @ - 1]
  /\ Complete(s, "SEND")
  /\ UNCHANGED <<qp, unsent, hdr, rq, sqUsed, rqUsed>>

Copies(n, wc) == [i \in 1 .. n |-> wc]

(* The queue pair of s fails: what was delivered completes, the rest and *)
(* the posted receives are flushed with an error.                        *)
FailQp(s) ==
  /\ qp' = [qp EXCEPT ![s] = "ERR"]
  /\ cq' = [cq EXCEPT ![s] = @ \o Copies(unacked[s], "SEND")
                               \o Copies(unsent[s], "SEND_ERR")
                               \o Copies(rq[s], "RECV_ERR")]
  /\ armed' = [armed EXCEPT ![s] = FALSE]
  /\ events' = [events EXCEPT ![s] = IF armed[s] THEN @ + 1 ELSE @]
  /\ unsent' = [unsent EXCEPT ![s] = 0]
  /\ unacked' = [unacked EXCEPT ![s] = 0]
  /\ rq' = [rq EXCEPT ![s] = 0]
  /\ hdr' = [hdr EXCEPT ![s] = FALSE]
  /\ UNCHANGED <<sqUsed, rqUsed>>

(* The immediate finds no receive posted.  rnr_retry_count is 0 at both  *)
(* ends (conn_param is zeroed at rdma_client.c:270 and                   *)
(* rdma_server.c:399), so the first RNR NAK fails the sender.            *)
ReceiverNotReady(s) ==
  /\ unsent[s] > 0 /\ hdr[s] /\ Connected(s)
  /\ rq[Peer(s)] = 0
  /\ FailQp(s)

(* The peer's queue pair has failed and answers nothing: retry_count runs out. *)
RetryExceeded(s) ==
  /\ unsent[s] > 0 /\ qp[s] = "RTS" /\ qp[Peer(s)] = "ERR"
  /\ FailQp(s)

=============================================================================
