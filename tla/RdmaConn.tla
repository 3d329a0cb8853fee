------------------------------ MODULE RdmaConn ------------------------------
(***************************************************************************)
(* One established RDMA connection between an application thread of the    *)
(* host (host/rdma_client.c, set_req_sock) and its worker thread on the    *)
(* SmartNIC (snic/rdma_server.c, process_poll_cq_imm).  A socket call is   *)
(* written into req, carried to the SmartNIC by a write with immediate,    *)
(* executed there, and its result is carried back in rtn the same way.     *)
(*                                                                         *)
(* The adapters read and write req and rtn on their own schedule: what the *)
(* worker stores into its rtn after it posted the reply, or into its req   *)
(* while the next request lands, races with them.                          *)
(***************************************************************************)
EXTENDS Verbs

CONSTANTS
  Op,          \* the requests the application issues
  Payload,     \* contents of a data buffer
  Zeroed,      \* a data buffer whose first bytes have been cleared
  Result,      \* return values of the socket calls
  NoOutcome,   \* no result yet
  MaxChunks,   \* replies written for one READ, 1 below BUFFER_SIZE - 12 bytes
  MaxRetries,  \* max_retries of post_write_req
  DrainMax     \* cq_poll_attempts of post_write_req

(* enum RDMA_REQ_MSG without the two requests that make and delete connections *)
SocketOp ==
  {"SOCKET", "CLOSE", "READ", "WRITE", "BIND", "LISTEN", "ACCEPT", "CONNECT",
   "SELECT", "EPOLL_CREATE1", "EPOLL_CTL", "EPOLL_WAIT", "POLL", "FCNTL",
   "SETSOCKOPT", "GETSOCKOPT", "GETPEERNAME", "GETSOCKNAME"}

ASSUME ConnAssumption ==
  /\ Op \subseteq SocketOp
  /\ Result \subseteq Int
  /\ Payload # {} /\ Zeroed \notin Payload
  /\ MaxChunks \in Nat \ {0}
  /\ MaxRetries \in Nat
  /\ DrainMax \in Nat \ {0}

Data == Payload \cup {Zeroed}
Errno == {0, 1}                \* errno_: 0, or the error of a failed call
Request == [op : SocketOp, arg : Data]
Reply == [value : Result \cup {-1, 0}, errno : Errno, data : Data]
Outcome == [op : SocketOp, arg : Data, value : Result, errno : Errno, data : Data]

ASSUME NoOutcomeAssumption == NoOutcome \notin Outcome /\ NoOutcome \notin Reply

VARIABLES
  hpc,       \* where the host thread is in set_req_sock
  attempt,   \* attempt of post_write_req
  drained,   \* i of the drain loop in post_write_req
  call,      \* the call's arguments
  ret,       \* what set_req_sock returned: value, errno and the caller's buffer
  hReq, hRtn,    \* r_info->req and r_info->rtn of the host
  wpc,       \* where the worker thread is
  wop,       \* the case of rdma_req_event the worker is in
  chunks,    \* replies still to post in write_msg_to_client
  wReq, wRtn,    \* c_info->req and c_info->rtn of the SmartNIC
  served     \* history: what the SmartNIC's socket call did for this call

host == <<hpc, attempt, drained, call, ret, hReq>>
snic == <<wpc, wop, chunks, wRtn, served>>
vars == <<verbs, host, hRtn, snic, wReq>>

HostPc == {"idle", "post_recv_rtn", "post_write_req", "drain",
           "get_cq_event", "req_notify_cq", "poll_cq", "reply"}
WorkerPc == {"get_cq_event", "req_notify_cq", "poll_cq", "post_recv_req",
             "rdma_req_event", "post_write_rtn", "clear_rtn", "memset", "exited"}

(* Every variable has its type. *)
TypeOK ==
  /\ VerbsTypeOK
  /\ hpc \in HostPc /\ wpc \in WorkerPc
  /\ attempt \in 0 .. MaxRetries
  /\ drained \in 0 .. DrainMax
  /\ call \in Request
  /\ ret \in Reply \cup {NoOutcome}
  /\ hReq \in Request /\ wReq \in Request
  /\ hRtn \in Reply /\ wRtn \in Reply
  /\ wop \in SocketOp
  /\ chunks \in 0 .. MaxChunks
  /\ served \in Outcome \cup {NoOutcome}

BlankRequest == [op |-> "SOCKET", arg |-> Zeroed]
BlankReply == [value |-> 0, errno |-> 0, data |-> Zeroed]

(* connect_server and connect_client_r_info have returned.  The host has    *)
(* polled its two completions, the second before or after it re-armed the   *)
(* queue; the SmartNIC has not polled the completion of its metadata SEND.  *)
Init ==
  /\ qp = [s \in Side |-> "RTS"]
  /\ unsent = [s \in Side |-> 0]
  /\ hdr = [s \in Side |-> FALSE]
  /\ unacked = [s \in Side |-> IF s = "snic" THEN 1 ELSE 0]
  /\ rq = [s \in Side |-> IF s = "snic" THEN 1 ELSE 0]
  /\ sqUsed = unacked
  /\ rqUsed = rq
  /\ cq = [s \in Side |-> <<>>]
  /\ armed \in {[s \in Side |-> TRUE], [s \in Side |-> s = "snic"]}
  /\ events = [s \in Side |-> IF armed[s] THEN 0 ELSE 1]
  /\ hpc = "idle" /\ wpc = "get_cq_event"
  /\ attempt = 0 /\ drained = 0
  /\ call = BlankRequest /\ hReq = BlankRequest /\ wReq = BlankRequest
  /\ hRtn = BlankReply /\ wRtn = BlankReply
  /\ ret = NoOutcome /\ served = NoOutcome
  /\ wop = "SOCKET" /\ chunks = 0

---------------------------------------------------------------------------
(* The host thread: set_req_sock *)

(* The hook has serialised its arguments into req.data; the header is filled. *)
SetReqSock ==
  /\ hpc = "idle"
  /\ \E op \in Op, arg \in Payload :
        /\ call' = [op |-> op, arg |-> arg]
        /\ hReq' = [op |-> op, arg |-> arg]
  /\ hpc' = "post_recv_rtn"
  /\ attempt' = 0 /\ drained' = 0
  /\ ret' = NoOutcome
  /\ served' = NoOutcome
  /\ UNCHANGED <<verbs, hRtn, wpc, wop, chunks, wRtn, wReq>>

(* mutant: the receive for the reply is not posted *)
PostRecvRtnSkipped ==
  /\ hpc = "post_recv_rtn"
  /\ hpc' = "post_write_req"
  /\ UNCHANGED <<verbs, attempt, drained, call, ret, hReq, hRtn, snic, wReq>>

PostRecvRtn ==
  /\ hpc = "post_recv_rtn"
  /\ PostRecv("host")
  /\ hpc' = "post_write_req"
  /\ UNCHANGED <<attempt, drained, call, ret, hReq, hRtn, snic, wReq>>

(* mutant: the retry loop goes on after a successful ibv_post_send *)
PostWriteReqNoBreak ==
  /\ hpc = "post_write_req"
  /\ PostSend("host")
  /\ UNCHANGED <<host, hRtn, snic, wReq>>

(* ibv_post_send succeeded. *)
PostWriteReq ==
  /\ hpc = "post_write_req"
  /\ PostSend("host")
  /\ hpc' = "get_cq_event"
  /\ UNCHANGED <<attempt, drained, call, ret, hReq, hRtn, snic, wReq>>

(* ENOMEM: the send queue is full, completions are polled and dropped. *)
PostWriteReqFull ==
  /\ hpc = "post_write_req"
  /\ SendQueueFull("host")
  /\ hpc' = "drain"
  /\ drained' = 0
  /\ UNCHANGED <<verbs, attempt, call, ret, hReq, hRtn, snic, wReq>>

DrainOne ==
  /\ hpc = "drain"
  /\ drained < DrainMax
  /\ \E wc \in WC : PollCq("host", wc)
  /\ drained' = drained + 1
  /\ UNCHANGED <<hpc, attempt, call, ret, hReq, hRtn, snic, wReq>>

(* The hooks send and write clear req.data when a WRITE returns. *)
ReqAfterReturn == IF call.op = "WRITE" THEN [hReq EXCEPT !.arg = Zeroed] ELSE hReq

(* mutant: a call that gives up reports success *)
ReturnErrorAsSuccess ==
  /\ ret' = BlankReply
  /\ hReq' = ReqAfterReturn
  /\ hpc' = "idle"

(* set_req_sock gives up and returns -1 without a reply; errno is left alone. *)
ReturnError ==
  /\ ret' = [BlankReply EXCEPT !.value = -1]
  /\ hReq' = ReqAfterReturn
  /\ hpc' = "idle"

Drained == drained = DrainMax \/ CqEmpty("host")

RetryPostSend ==
  /\ hpc = "drain"
  /\ Drained
  /\ attempt < MaxRetries
  /\ attempt' = attempt + 1
  /\ hpc' = "post_write_req"
  /\ UNCHANGED <<verbs, drained, call, ret, hReq, hRtn, snic, wReq>>

GiveUpPostSend ==
  /\ hpc = "drain"
  /\ Drained
  /\ attempt = MaxRetries
  /\ ReturnError
  /\ UNCHANGED <<verbs, attempt, drained, call, hRtn, snic, wReq>>

HostGetCqEvent ==
  /\ hpc = "get_cq_event"
  /\ GetCqEvent("host")
  /\ hpc' = "req_notify_cq"
  /\ UNCHANGED <<attempt, drained, call, ret, hReq, hRtn, snic, wReq>>

(* mutant: the queue is not re-armed *)
HostReqNotifyCqSkipped ==
  /\ hpc = "req_notify_cq"
  /\ hpc' = "poll_cq"
  /\ UNCHANGED <<verbs, attempt, drained, call, ret, hReq, hRtn, snic, wReq>>

HostReqNotifyCq ==
  /\ hpc = "req_notify_cq"
  /\ ReqNotifyCq("host")
  /\ hpc' = "poll_cq"
  /\ UNCHANGED <<attempt, drained, call, ret, hReq, hRtn, snic, wReq>>

(* mutant: an empty queue after a wake-up ends the call *)
HostPollEmptyGivesUp ==
  /\ hpc = "poll_cq"
  /\ CqEmpty("host")
  /\ ReturnError
  /\ UNCHANGED <<verbs, attempt, drained, call, hRtn, snic, wReq>>

(* process_poll_cq_imm of the host: the first reply ends the wait and the *)
(* completions behind it stay in the queue.                               *)
HostPollEmpty ==
  /\ hpc = "poll_cq"
  /\ CqEmpty("host")
  /\ hpc' = "get_cq_event"
  /\ UNCHANGED <<verbs, attempt, drained, call, ret, hReq, hRtn, snic, wReq>>

(* mutant: every completion is taken for the reply *)
HostPollSendIsReply ==
  /\ hpc = "poll_cq"
  /\ PollCq("host", "SEND")
  /\ hpc' = "reply"
  /\ UNCHANGED <<attempt, drained, call, ret, hReq, hRtn, snic, wReq>>

HostPollSend ==
  /\ hpc = "poll_cq"
  /\ PollCq("host", "SEND")
  /\ UNCHANGED <<host, hRtn, snic, wReq>>

HostPollReply ==
  /\ hpc = "poll_cq"
  /\ PollCq("host", "RECV")
  /\ hpc' = "reply"
  /\ UNCHANGED <<attempt, drained, call, ret, hReq, hRtn, snic, wReq>>

HostPollError ==
  /\ hpc = "poll_cq"
  /\ \E wc \in {"SEND_ERR", "RECV_ERR"} : PollCq("host", wc)
  /\ ReturnError
  /\ UNCHANGED <<attempt, drained, call, hRtn, snic, wReq>>

(* The tail of set_req_sock: errno is taken over only with a negative value. *)
ReturnReply ==
  /\ hpc = "reply"
  /\ ret' = [hRtn EXCEPT !.errno = IF hRtn.value < 0 THEN @ ELSE 0]
  /\ hReq' = ReqAfterReturn
  /\ hpc' = "idle"
  /\ UNCHANGED <<verbs, attempt, drained, call, hRtn, snic, wReq>>

---------------------------------------------------------------------------
(* The worker thread of the SmartNIC: process_poll_cq_imm *)

WorkerGetCqEvent ==
  /\ wpc = "get_cq_event"
  /\ GetCqEvent("snic")
  /\ wpc' = "req_notify_cq"
  /\ UNCHANGED <<host, hRtn, wop, chunks, wRtn, served, wReq>>

(* mutant: the queue is not re-armed *)
WorkerReqNotifyCqSkipped ==
  /\ wpc = "req_notify_cq"
  /\ wpc' = "poll_cq"
  /\ UNCHANGED <<verbs, host, hRtn, wop, chunks, wRtn, served, wReq>>

WorkerReqNotifyCq ==
  /\ wpc = "req_notify_cq"
  /\ ReqNotifyCq("snic")
  /\ wpc' = "poll_cq"
  /\ UNCHANGED <<host, hRtn, wop, chunks, wRtn, served, wReq>>

WorkerPollEmpty ==
  /\ wpc = "poll_cq"
  /\ CqEmpty("snic")
  /\ wpc' = "get_cq_event"
  /\ UNCHANGED <<verbs, host, hRtn, wop, chunks, wRtn, served, wReq>>

(* mutant: every completion is taken for a request *)
WorkerPollSendIsRequest ==
  /\ wpc = "poll_cq"
  /\ PollCq("snic", "SEND")
  /\ wpc' = "post_recv_req"
  /\ UNCHANGED <<host, hRtn, wop, chunks, wRtn, served, wReq>>

WorkerPollSend ==
  /\ wpc = "poll_cq"
  /\ PollCq("snic", "SEND")
  /\ UNCHANGED <<host, hRtn, snic, wReq>>

WorkerPollRequest ==
  /\ wpc = "poll_cq"
  /\ PollCq("snic", "RECV")
  /\ wpc' = "post_recv_req"
  /\ UNCHANGED <<host, hRtn, wop, chunks, wRtn, served, wReq>>

(* The thread function returns on the first completion with an error. *)
WorkerPollError ==
  /\ wpc = "poll_cq"
  /\ \E wc \in {"SEND_ERR", "RECV_ERR"} : PollCq("snic", wc)
  /\ wpc' = "exited"
  /\ UNCHANGED <<host, hRtn, wop, chunks, wRtn, served, wReq>>

(* mutant: the receive for the next request is not posted *)
PostRecvReqSkipped ==
  /\ wpc = "post_recv_req"
  /\ wpc' = "rdma_req_event"
  /\ UNCHANGED <<verbs, host, hRtn, wop, chunks, wRtn, served, wReq>>

PostRecvReq ==
  /\ wpc = "post_recv_req"
  /\ PostRecv("snic")
  /\ wpc' = "rdma_req_event"
  /\ UNCHANGED <<host, hRtn, wop, chunks, wRtn, served, wReq>>

(* Requests whose handler never stores the call's result into rtn_value. *)
KeepsOldValue == {"SETSOCKOPT", "GETSOCKOPT"}

(* Requests whose handler stores result data, and for which values. *)
StoresData(op, v) ==
  \/ op \in {"READ", "SELECT"} /\ v > 0
  \/ op \in {"EPOLL_WAIT", "POLL", "GETSOCKOPT", "GETPEERNAME", "GETSOCKNAME"} /\ v >= 0

(* errno_ as the handlers leave it: SOCKET and READ also store errno, which *)
(* then is whatever it was, when the result is 0; READ clears it on success. *)
StoredErrno(op, v) ==
  IF v < 0 THEN {1}
  ELSE IF v = 0 /\ op \in {"SOCKET", "READ"} THEN Errno
  ELSE IF op = "READ" THEN {0}
  ELSE {wRtn.errno}

(* The length of a reply: one write per chunk of a READ that got data. *)
ReplyChunks(op, v) == IF op = "READ" /\ v > 0 THEN 1 .. MaxChunks ELSE {1}

(* rdma_req_event up to write_msg_to_client: the socket call is executed *)
(* and its result stored into rtn.                                       *)
RdmaReqEvent ==
  /\ wpc = "rdma_req_event"
  /\ LET op == wReq.op IN
       \E v \in Result, d \in Payload, n \in 1 .. MaxChunks, e \in Errno :
         /\ n \in ReplyChunks(op, v)
         /\ e \in StoredErrno(op, v)
         /\ served' = [op |-> op, arg |-> wReq.arg, value |-> v,
                       errno |-> IF v < 0 THEN 1 ELSE 0, data |-> d]
         /\ wRtn' = [value |-> IF op \in KeepsOldValue THEN wRtn.value ELSE v,
                     errno |-> e,
                     data |-> IF StoresData(op, v) THEN d ELSE wRtn.data]
         /\ wop' = op
         /\ chunks' = n
  /\ wpc' = "post_write_rtn"
  /\ UNCHANGED <<verbs, host, hRtn, wReq>>

(* mutant: the worker leaves its loop after a reply *)
AfterReplyStops == "exited"

(* Only WRITE and SELECT clear a buffer after write_msg_to_client. *)
AfterReply == IF wop \in {"WRITE", "SELECT"} THEN "memset" ELSE "poll_cq"

(* mutant: the chunk loop runs once too often *)
PostWriteRtnOneMore ==
  /\ wpc = "post_write_rtn"
  /\ PostSend("snic")
  /\ chunks' = chunks - 1
  /\ wpc' = IF chunks = 0 THEN "clear_rtn" ELSE wpc
  /\ UNCHANGED <<host, hRtn, wop, wRtn, served, wReq>>

(* One post_write_rtn of write_msg_to_client. *)
PostWriteRtn ==
  /\ wpc = "post_write_rtn"
  /\ PostSend("snic")
  /\ chunks' = chunks - 1
  /\ wpc' = IF chunks = 1 THEN "clear_rtn" ELSE wpc
  /\ UNCHANGED <<host, hRtn, wop, wRtn, served, wReq>>

(* ibv_post_send failed: write_msg_to_client returns and nobody looks. *)
PostWriteRtnFull ==
  /\ wpc = "post_write_rtn"
  /\ SendQueueFull("snic")
  /\ chunks' = 0
  /\ wpc' = AfterReply
  /\ UNCHANGED <<verbs, host, hRtn, wop, wRtn, served, wReq>>

(* The end of write_msg_to_client: the first bytes of what a READ returned *)
(* are cleared, then errno_.  The reply may not have left yet.             *)
ClearRtn ==
  /\ wpc = "clear_rtn"
  /\ wRtn' = [wRtn EXCEPT !.errno = 0,
                          !.data = IF wop = "READ" /\ wRtn.value > 0 THEN Zeroed ELSE @]
  /\ wpc' = AfterReply
  /\ UNCHANGED <<verbs, host, hRtn, wop, chunks, served, wReq>>

(* WRITE clears sizeof(struct req_msg) bytes from req.data on: all of it  *)
(* and the 14 bytes of rtn behind it (errno_, rtn_value and two bytes of  *)
(* data).  SELECT clears rtn.data.                                        *)
MemsetAfterReply ==
  /\ wpc = "memset"
  /\ \/ /\ wop = "WRITE"
        /\ wReq' = [wReq EXCEPT !.arg = Zeroed]
        /\ wRtn' = BlankReply
     \/ /\ wop = "SELECT"
        /\ wRtn' = [wRtn EXCEPT !.data = Zeroed]
        /\ UNCHANGED wReq
  /\ wpc' = "poll_cq"
  /\ UNCHANGED <<verbs, host, hRtn, wop, chunks, served>>

---------------------------------------------------------------------------
(* The adapters move req to the SmartNIC and rtn to the host. *)

DeliverReqHeader ==
  /\ DeliverHeader("host")
  /\ wReq' = [wReq EXCEPT !.op = hReq.op]
  /\ UNCHANGED <<host, hRtn, snic>>

DeliverReq ==
  /\ DeliverImm("host")
  /\ wReq' = [wReq EXCEPT !.arg = hReq.arg]
  /\ UNCHANGED <<host, hRtn, snic>>

DeliverRtnHeader ==
  /\ DeliverHeader("snic")
  /\ hRtn' = [hRtn EXCEPT !.value = wRtn.value, !.errno = wRtn.errno]
  /\ UNCHANGED <<host, snic, wReq>>

DeliverRtn ==
  /\ DeliverImm("snic")
  /\ hRtn' = [hRtn EXCEPT !.data = wRtn.data]
  /\ UNCHANGED <<host, snic, wReq>>

Ack(s) ==
  /\ Acknowledge(s)
  /\ UNCHANGED <<host, hRtn, snic, wReq>>

(* The data of a message that finds no receive has been written already. *)
RnrReq ==
  /\ ReceiverNotReady("host")
  /\ wReq' = [wReq EXCEPT !.arg = hReq.arg]
  /\ UNCHANGED <<host, hRtn, snic>>

RnrRtn ==
  /\ ReceiverNotReady("snic")
  /\ hRtn' = [hRtn EXCEPT !.data = wRtn.data]
  /\ UNCHANGED <<host, snic, wReq>>

PeerFailed(s) ==
  /\ RetryExceeded(s)
  /\ UNCHANGED <<host, hRtn, snic, wReq>>

---------------------------------------------------------------------------
HostWait ==
  \/ PostRecvRtn \/ PostWriteReq \/ PostWriteReqFull
  \/ DrainOne \/ RetryPostSend \/ GiveUpPostSend
  \/ HostGetCqEvent \/ HostReqNotifyCq
  \/ HostPollEmpty \/ HostPollSend \/ HostPollReply \/ HostPollError
  \/ ReturnReply

Worker ==
  \/ WorkerGetCqEvent \/ WorkerReqNotifyCq
  \/ WorkerPollEmpty \/ WorkerPollSend \/ WorkerPollRequest \/ WorkerPollError
  \/ PostRecvReq \/ RdmaReqEvent \/ PostWriteRtn \/ PostWriteRtnFull
  \/ ClearRtn \/ MemsetAfterReply

Request2Snic == DeliverReqHeader \/ DeliverReq \/ RnrReq \/ PeerFailed("host")
Reply2Host == DeliverRtnHeader \/ DeliverRtn \/ RnrRtn \/ PeerFailed("snic")

Next ==
  \/ SetReqSock
  \/ HostWait
  \/ Worker
  \/ Request2Snic
  \/ Reply2Host
  \/ Ack("host")
  \/ Ack("snic")

Spec == Init /\ [][Next]_vars

(* A thread that is not blocked runs, a posted message is carried or fails, *)
(* an acknowledgement arrives, and the socket calls on the SmartNIC return. *)
Fairness ==
  /\ WF_vars(HostWait)
  /\ WF_vars(Worker)
  /\ WF_vars(Request2Snic)
  /\ WF_vars(Reply2Host)
  /\ WF_vars(Ack("host"))
  /\ WF_vars(Ack("snic"))

FairSpec == Spec /\ Fairness

---------------------------------------------------------------------------
(* Properties *)

NoReplyIn(q) == \A i \in 1 .. Len(q) : q[i] # "RECV"

(* No wake-up is lost between req_notify_cq, poll_cq and get_cq_event: a     *)
(* thread that blocks in get_cq_event with no event queued is armed, and     *)
(* nothing it waits for is already in its completion queue.  The host leaves *)
(* completions behind when it returns with a reply (rdma_client.c:951), so   *)
(* only the absence of a reply can be asked of it.                           *)
NoLostWakeup ==
  /\ hpc = "get_cq_event" /\ events["host"] = 0 =>
       armed["host"] /\ NoReplyIn(cq["host"])
  /\ wpc = "get_cq_event" /\ events["snic"] = 0 =>
       armed["snic"] /\ cq["snic"] = <<>>

(* A message in flight always finds a receive posted by the other end: the   *)
(* host posts before it sends (rdma_client.c:746), the worker re-posts       *)
(* before it answers (rdma_server.c:766).  Otherwise the connection is lost. *)
ReceiveAlwaysPosted ==
  \A s \in Side : qp[s] = "RTS" /\ (unsent[s] > 0 => rq[Peer(s)] > 0)

(* What set_req_sock returns was produced by one execution of this very      *)
(* call on the SmartNIC, and its value is that call's result; a call that    *)
(* was never executed returns -1.  Excepted are SETSOCKOPT and GETSOCKOPT,   *)
(* whose handlers store no value, and WRITE, whose value the worker may      *)
(* clear before the reply leaves.                                            *)
OwnValue(v) ==
  /\ call.op \notin KeepsOldValue \cup {"WRITE"} => v = served.value
  /\ call.op = "WRITE" => v \in {served.value, 0}

ReplyBelongsToCall ==
  ret # NoOutcome =>
    \/ served = NoOutcome /\ ret.value = -1
    \/ served # NoOutcome /\ served.op = call.op /\ OwnValue(ret.value)

(* The SmartNIC never executes a call twice: between two calls of the host   *)
(* there is at most one pass through rdma_req_event.                         *)
ExecutedAtMostOnce ==
  [][served # NoOutcome => served' \in {served, NoOutcome}]_served

(* The ENOMEM loop of post_write_req is never entered, and the worker's      *)
(* reply is never dropped for a full send queue, although both ends leave    *)
(* the completions of their sends in the queue for later.                    *)
SendQueueNeverFull ==
  /\ hpc = "post_write_req" => ~SendQueueFull("host")
  /\ wpc = "post_write_rtn" => ~SendQueueFull("snic")

(* The completions that the ENOMEM loop of post_write_req polls and drops    *)
(* without looking at them (rdma_client.c:594) are never a reply.            *)
DrainDropsNoReply == hpc = "drain" => NoReplyIn(cq["host"])

(* The completion queue holds at most one completion per slot of the two     *)
(* work queues, so a capacity of 2 * MAX_WR (config.h gives 8 * 1024) is     *)
(* enough, in every state the connection can fail into.                      *)
CompletionQueueBounded ==
  \A s \in Side :
    /\ Len(cq[s]) + unsent[s] + unacked[s] + rq[s] = sqUsed[s] + rqUsed[s]
    /\ sqUsed[s] <= MaxWR /\ rqUsed[s] <= MaxWR

(* Every socket call returns to the application. *)
CallReturns == hpc # "idle" ~> hpc = "idle"

(* The abstract call as the connection carries it; its value is handed back  *)
(* unchanged for all but WRITE and the sockopt calls.                        *)
Abstract == INSTANCE SocketCall WITH
  Op <- SocketOp,
  Promised <- SocketOp \ (KeepsOldValue \cup {"WRITE"}),
  Value <- Result \cup {-1, 0},
  phase <- IF hpc = "idle" THEN "idle"
           ELSE IF served = NoOutcome THEN "called" ELSE "executed",
  op <- call.op,
  value <- IF ret # NoOutcome THEN ret.value
           ELSE IF served # NoOutcome THEN served.value ELSE 0

(* The connection implements the abstract call: calls are executed in the    *)
(* order they are made, at most once each, between the call and its return,  *)
(* and only an unexecuted call may fail.  This also holds when the send      *)
(* queues fill up and replies are dropped.                                   *)
ImplementsSafely == Abstract!SafeSpec

(* It implements its liveness too: every call is executed or fails, and returns. *)
ImplementsSocketCall == Abstract!Spec

---------------------------------------------------------------------------
(* What an application is promised by README.md ("the program's output is  *)
(* the same"), and what the code above does not keep.                      *)

(* The value, the errno and the data the worker's socket call produced are   *)
(* the ones the application gets, for requests whose handler stores them.    *)
ReplyIntact ==
  ret # NoOutcome /\ served # NoOutcome /\ call.op \notin KeepsOldValue =>
    /\ ret.value = served.value
    /\ ret.errno = served.errno
    /\ StoresData(call.op, served.value) => ret.data = served.data

(* The worker executes the call with the payload the host put into req. *)
PayloadIntact == served # NoOutcome => served.arg = call.arg

---------------------------------------------------------------------------
(* The inductive invariant behind ReceiveAlwaysPosted, NoLostWakeup and      *)
(* ReplyBelongsToCall, for connections whose replies fit one write.          *)

(* a queue without errors and with at most one request or reply in it *)
SoundCq(q) ==
  /\ \A i \in 1 .. Len(q) : q[i] \in {"SEND", "RECV"}
  /\ \A i, j \in 1 .. Len(q) : q[i] = "RECV" /\ q[j] = "RECV" => i = j

Healthy ==
  \A s \in Side :
    /\ qp[s] = "RTS"
    /\ SoundCq(cq[s])
    /\ unsent[s] \in {0, 1}
    /\ hdr[s] => unsent[s] = 1

(* Where the one call of the connection is on its way: these exclude each *)
(* other, and hold only while the host waits for the reply.               *)
RequestSent == unsent["host"] = 1
RequestQueued == ~NoReplyIn(cq["snic"])
RequestTaken == wpc \in {"post_recv_req", "rdma_req_event", "post_write_rtn"}
ReplySent == unsent["snic"] = 1
ReplyQueued == ~NoReplyIn(cq["host"])

HostWaits == hpc \in {"get_cq_event", "req_notify_cq", "poll_cq"}

OneCallUnderWay ==
  /\ RequestSent => HostWaits /\ ~RequestQueued /\ ~RequestTaken /\ ~ReplySent /\ ~ReplyQueued
  /\ RequestQueued => HostWaits /\ ~RequestTaken /\ ~ReplySent /\ ~ReplyQueued
  /\ RequestTaken => HostWaits /\ ~ReplySent /\ ~ReplyQueued
  /\ ReplySent => HostWaits /\ ~ReplyQueued
  /\ ReplyQueued => HostWaits

Bit(b) == IF b THEN 1 ELSE 0

ReceivesPosted ==
  /\ rqUsed["snic"] = rq["snic"] + Bit(RequestQueued)
  /\ rqUsed["snic"] + Bit(wpc = "post_recv_req") = 1
  /\ rqUsed["host"] = rq["host"] + Bit(ReplyQueued)
  /\ hpc \in {"post_write_req", "drain"} \/ (HostWaits /\ ~ReplyQueued) => rq["host"] > 0

(* The right to be woken is in one place: the armed queue, the event it *)
(* became, or the thread that took the event and has not re-armed.      *)
WakeupToken ==
  /\ Bit(armed["host"]) + events["host"] + Bit(hpc = "req_notify_cq") = 1
  /\ Bit(armed["snic"]) + events["snic"] + Bit(wpc = "req_notify_cq") = 1
  /\ hpc = "get_cq_event" /\ armed["host"] => ~ReplyQueued
  /\ wpc = "get_cq_event" /\ armed["snic"] => cq["snic"] = <<>>

NotExecuted ==
  \/ hpc \in {"post_recv_rtn", "post_write_req", "drain"}
  \/ RequestSent
  \/ RequestQueued
  \/ wpc \in {"post_recv_req", "rdma_req_event"}

Executed == wpc = "post_write_rtn" \/ ReplySent \/ ReplyQueued \/ hpc = "reply"

CallCarried ==
  /\ hpc # "idle" => hReq.op = call.op /\ ret = NoOutcome
  /\ NotExecuted => served = NoOutcome
  /\ RequestSent /\ hdr["host"] => wReq.op = call.op
  /\ RequestQueued \/ wpc \in {"post_recv_req", "rdma_req_event"} => wReq.op = call.op
  /\ Executed => served # NoOutcome /\ served.op = call.op
  /\ wpc = "post_write_rtn" => chunks = 1 /\ wop = call.op /\ OwnValue(wRtn.value)
  /\ ReplySent => OwnValue(wRtn.value)
  /\ ReplySent /\ wpc \in {"clear_rtn", "memset"} => wop = call.op
  /\ ReplySent /\ hdr["snic"] => OwnValue(hRtn.value)
  /\ ReplyQueued \/ hpc = "reply" => OwnValue(hRtn.value)
  /\ ReplyBelongsToCall

(* The invariant, checked on every state of a run and proved inductive. *)
IInv ==
  /\ Healthy
  /\ OneCallUnderWay
  /\ ReceivesPosted
  /\ WakeupToken
  /\ CallCarried

(* The end whose message comes next: the host between two calls and up to    *)
(* its request, the worker from a request to its reply.                      *)
Turn(s) == IF s = "host" THEN ~HostWaits ELSE RequestTaken

(* What bounds the send queues.  Each end polls completions one by one up to *)
(* the message it waits for (rdma_client.c:937, rdma_server.c:753) and leaves *)
(* those behind it for later: when it may post again, its earlier messages    *)
(* that are unacknowledged or whose completions it has yet to poll are no    *)
(* more than AckWindow together.                                             *)
SettledInv ==
  \A s \in Side :
    /\ unacked[s] <= AckWindow
    /\ \A i \in 1 .. Len(cq[s]) : cq[s][i] = "RECV" => Len(cq[s]) - i + unacked[s] <= AckWindow
    /\ Turn(s) => Len(cq[s]) + unacked[s] <= AckWindow

=============================================================================
