------------------------------ MODULE ConnSetup -----------------------------
(***************************************************************************)
(* How application threads get their own connection and give it back.      *)
(*                                                                         *)
(* my_main of the host opens a global connection.  A thread without a      *)
(* connection takes the global write lock, asks for a new connection over  *)
(* the global one (get_r_info in host/hook.c), connects, exchanges buffer  *)
(* addresses and keeps the connection in thread-local storage.  On the     *)
(* SmartNIC the thread that serves the global connection accepts the new   *)
(* one and starts a worker for it (snic/rdma_server.c).                    *)
(*                                                                         *)
(* All connections of the SmartNIC report their connection-manager events  *)
(* to one channel, which is read only while a connection is being set up.  *)
(***************************************************************************)
EXTENDS Integers, Sequences, FiniteSets

CONSTANTS
  Thread,     \* threads of the application
  Starter,    \* the thread that runs my_main
  NoThread,   \* the lock is free
  MaxConn,    \* bound on the connections made, the global one included
  MaxFaults   \* bound on the faults

ASSUME SetupAssumption ==
  /\ IsFiniteSet(Thread) /\ Starter \in Thread
  /\ NoThread \notin Thread
  /\ MaxConn \in Nat \ {0} /\ MaxFaults \in Nat

Conn == 1 .. MaxConn
Global == 1          \* global_info->r_info, and global_c_info of the SmartNIC
NoConn == 0

EventType == {"CONNECT_REQUEST", "ESTABLISHED", "REJECTED", "DISCONNECTED"}
Event == [type : EventType, conn : Conn]

VARIABLES
  pc,        \* where each thread is
  leaving,   \* the thread is in pthread_exit or at the end of my_main
  conn,      \* the connection a thread is making or keeps, NoConn if none
  lock,      \* holder of global_info->rwlock
  conns,     \* connections made so far
  cm,        \* state of a connection as the client's connection manager sees it
  toSnic,    \* message on its way to the SmartNIC, "none" if there is none
  toHost,    \* message on its way to the host
  atSnic,    \* message whose receive completion waits in the SmartNIC's queue
  atHost,    \* message whose receive completion waits in the host's queue
  acked,     \* the host's metadata SEND has completed
  rqSnic,    \* receives posted at the SmartNIC
  rqHost,    \* receives posted at the host
  broken,    \* the host's queue pair has failed
  spc,       \* where the SmartNIC's main thread is
  cur,       \* the connection it is setting up
  chan,      \* cm_event_channel of the SmartNIC
  worker,    \* the worker thread of a connection
  up,        \* the processes that have not crashed
  twice,     \* history: an event of the channel was acknowledged twice
  left,      \* history: threads that disconnected
  faults     \* history: calls of the libraries that failed, and messages whose
             \* acknowledgements were lost until the retries ran out

hostVars == <<pc, leaving, conn, lock, conns, cm>>
wires == <<toSnic, toHost, atSnic, atHost, acked, rqSnic, rqHost, broken>>
snicVars == <<spc, cur, worker>>
vars == <<hostVars, wires, snicVars, chan, up, twice, left, faults>>

ThreadPc == {"unborn", "idle", "lock", "wait_new", "prepare", "connect",
             "wait_established", "xchange", "no_r_info", "ready", "wait_reply",
             "wait_del", "disconnect", "exited"}
ServerPc == {"wait_request", "setup", "accept", "wait_established", "wait_metadata",
             "send_metadata", "post_recv_req", "pthread_create", "poll"}
SetUpPc == {"wait_new", "prepare", "connect", "wait_established", "xchange"}
OwnerPc == {"connect", "wait_established", "xchange", "ready", "wait_reply", "wait_del",
            "disconnect"}
CmState == {"none", "connecting", "accepted", "established", "failed", "disconnecting"}

(* Messages.  "new" is RDMA_REQ_NEW_RDMA_CONN and "answer" the reply to it,  *)
(* both on the global connection; "del" is RDMA_REQ_DEL_RDMA_CONN, and       *)
(* "call" any other request.                                                 *)
Request == {"call", "del"}
ToSnic == {"none", "metadata", "new"} \cup Request
ToHost == {"none", "metadata", "answer", "reply"}

(* Every variable has its type; no end ever has two receives posted for its  *)
(* one buffer.                                                               *)
TypeOK ==
  /\ pc \in [Thread -> ThreadPc]
  /\ leaving \in [Thread -> BOOLEAN]
  /\ conn \in [Thread -> Conn \cup {NoConn}]
  /\ lock \in Thread \cup {NoThread}
  /\ conns \in 0 .. MaxConn
  /\ cm \in [Conn -> CmState]
  /\ toSnic \in [Conn -> ToSnic] /\ atSnic \in [Conn -> ToSnic]
  /\ toHost \in [Conn -> ToHost] /\ atHost \in [Conn -> ToHost]
  /\ acked \in [Conn -> BOOLEAN]
  /\ rqSnic \in [Conn -> {0, 1}] /\ rqHost \in [Conn -> {0, 1}]
  /\ broken \in [Conn -> BOOLEAN]
  /\ spc \in ServerPc
  /\ cur \in Conn \cup {NoConn}
  /\ chan \in Seq(Event)
  /\ worker \in [Conn -> {"none", "polling", "spinning", "refused", "ended"}]
  /\ up \in [{"host", "snic"} -> BOOLEAN]
  /\ twice \in BOOLEAN
  /\ left \subseteq Thread
  /\ faults \in 0 .. MaxFaults

(* start_thread waits for the global connection; my_main is about to make it. *)
Init ==
  /\ pc = [t \in Thread |-> IF t = Starter THEN "prepare" ELSE "unborn"]
  /\ leaving = [t \in Thread |-> FALSE]
  /\ conn = [t \in Thread |-> NoConn]
  /\ lock = NoThread
  /\ conns = 0
  /\ cm = [c \in Conn |-> "none"]
  /\ toSnic = [c \in Conn |-> "none"] /\ atSnic = toSnic
  /\ toHost = toSnic /\ atHost = toSnic
  /\ acked = [c \in Conn |-> FALSE] /\ broken = acked
  /\ rqSnic = [c \in Conn |-> 0] /\ rqHost = rqSnic
  /\ spc = "wait_request"
  /\ cur = NoConn
  /\ chan = <<>>
  /\ worker = [c \in Conn |-> "none"]
  /\ up = [s \in {"host", "snic"} |-> TRUE]
  /\ twice = FALSE
  /\ left = {}
  /\ faults = 0

Goto(t, l) == pc' = [pc EXCEPT ![t] = l]
At(t, l) == up["host"] /\ pc[t] = l
Serving(l) == up["snic"] /\ spc = l
Fault == faults < MaxFaults /\ faults' = faults + 1
Raise(type, c) == chan' = Append(chan, [type |-> type, conn |-> c])

---------------------------------------------------------------------------
(* The threads of the host: get_r_info *)

(* the bound on connections, those that threads are about to make included *)
Room == conns + Cardinality({t \in Thread : pc[t] \in {"lock", "wait_new", "prepare"}}) < MaxConn

(* A hooked call of a thread that has no connection; a thread that leaves  *)
(* needs one as well, to delete it.                                        *)
GetRInfo(t, exiting) ==
  /\ At(t, "idle")
  /\ Room
  /\ leaving' = [leaving EXCEPT ![t] = exiting]
  /\ Goto(t, "lock")
  /\ UNCHANGED <<conn, lock, conns, cm, wires, snicVars, chan, up, twice, left, faults>>

(* set_req_sock on connection c: a receive for the reply is posted, then the  *)
(* request m is sent; both fail on a broken queue pair.                       *)
PostRequest(c, m) ==
  \/ /\ broken[c]
     /\ UNCHANGED <<rqHost, toSnic>>
  \/ /\ ~broken[c]
     /\ rqHost' = [rqHost EXCEPT ![c] = @ + 1]
     /\ toSnic' = [toSnic EXCEPT ![c] = m]

(* The lock is taken and RDMA_REQ_NEW_RDMA_CONN sent over the global connection. *)
AskNewConn(t) ==
  /\ At(t, "lock")
  /\ lock = NoThread
  /\ lock' = t
  /\ PostRequest(Global, "new")
  /\ Goto(t, "wait_new")
  /\ UNCHANGED <<leaving, conn, conns, cm, toHost, atSnic, atHost, acked, rqSnic, broken,
                 snicVars, chan, up, twice, left, faults>>

NewConnAnswered(t) ==
  /\ At(t, "wait_new")
  /\ atHost[Global] = "answer"
  /\ atHost' = [atHost EXCEPT ![Global] = "none"]
  /\ Goto(t, "prepare")
  /\ UNCHANGED <<leaving, conn, lock, conns, cm, toSnic, toHost, atSnic, acked, rqSnic,
                 rqHost, broken, snicVars, chan, up, twice, left, faults>>

(* set_req_sock returned less than 1: the global connection has failed. *)
NewConnFailed(t) ==
  /\ At(t, "wait_new")
  /\ broken[Global]
  /\ lock' = NoThread
  /\ Goto(t, "no_r_info")
  /\ UNCHANGED <<leaving, conn, conns, cm, wires, snicVars, chan, up, twice, left, faults>>

(* client_prepare_connection and client_pre_post_req_buffer: the receive   *)
(* for the server's metadata is posted before the connection exists.       *)
PrepareConnection(t) ==
  /\ At(t, "prepare")
  /\ conns' = conns + 1
  /\ conn' = [conn EXCEPT ![t] = conns + 1]
  /\ rqHost' = [rqHost EXCEPT ![conns + 1] = 1]
  /\ Goto(t, "connect")
  /\ UNCHANGED <<leaving, lock, cm, toSnic, toHost, atSnic, atHost, acked,
                 rqSnic, broken, snicVars, chan, up, twice, left, faults>>

ConnectToServer(t) ==
  /\ At(t, "connect")
  /\ cm' = [cm EXCEPT ![conn[t]] = "connecting"]
  /\ IF up["snic"] THEN Raise("CONNECT_REQUEST", conn[t]) ELSE UNCHANGED chan
  /\ Goto(t, "wait_established")
  /\ UNCHANGED <<leaving, conn, lock, conns, wires, snicVars, up, twice, left, faults>>

(* The client's ESTABLISHED event: the client's metadata is sent. *)
XchangeMetadata(t) ==
  /\ At(t, "wait_established")
  /\ cm[conn[t]] = "established"
  /\ toSnic' = [toSnic EXCEPT ![conn[t]] = "metadata"]
  /\ Goto(t, "xchange")
  /\ UNCHANGED <<leaving, conn, lock, conns, cm, toHost, atSnic, atHost, acked,
                 rqSnic, rqHost, broken, snicVars, chan, up, twice, left, faults>>

(* my_main has not finished with the global connection. *)
Starting == conns = 0 \/ conn[Starter] = Global

(* mutant: the error path does not unlock *)
GiveUpKeepsLock(t) ==
  IF Starting
  THEN /\ up' = [up EXCEPT !["host"] = FALSE]
       /\ UNCHANGED <<pc, conn, lock>>
  ELSE /\ conn' = [conn EXCEPT ![t] = NoConn]
       /\ Goto(t, "no_r_info")
       /\ UNCHANGED <<lock, up>>

(* connect_server failed: r_info is freed and the lock released; without a   *)
(* global connection my_main returns and the process ends.                   *)
GiveUp(t) ==
  IF Starting
  THEN /\ up' = [up EXCEPT !["host"] = FALSE]
       /\ UNCHANGED <<pc, conn, lock>>
  ELSE /\ conn' = [conn EXCEPT ![t] = NoConn]
       /\ lock' = NoThread
       /\ Goto(t, "no_r_info")
       /\ UNCHANGED up

(* The connection was rejected or timed out, or its queue pair failed. *)
ConnectFailed(t) ==
  /\ \/ At(t, "wait_established") /\ cm[conn[t]] = "failed"
     \/ At(t, "xchange") /\ broken[conn[t]]
  /\ GiveUp(t)
  /\ UNCHANGED <<leaving, conns, cm, wires, snicVars, chan, twice, left, faults>>

(* A call that allocates, registers, resolves, posts or connects fails.  The *)
(* SmartNIC is not told.                                                     *)
SetUpFails(t) ==
  /\ \/ At(t, "prepare") \/ At(t, "connect")
     \/ At(t, "wait_established") /\ cm[conn[t]] = "established"
  /\ GiveUp(t)
  /\ Fault
  /\ UNCHANGED <<leaving, conns, cm, wires, snicVars, chan, twice, left>>

(* mutant: one completion is enough, the client's own SEND *)
XchangedOneCompletion(t) ==
  /\ At(t, "xchange")
  /\ acked[conn[t]]
  /\ atHost' = [atHost EXCEPT ![conn[t]] = "none"]
  /\ IF conn[t] = Global
     THEN /\ conn' = [conn EXCEPT ![t] = NoConn]
          /\ pc' = [u \in Thread |-> "idle"]
          /\ UNCHANGED lock
     ELSE /\ lock' = NoThread
          /\ Goto(t, "ready")
          /\ UNCHANGED conn
  /\ UNCHANGED <<leaving, conns, cm, toSnic, toHost, atSnic, acked,
                 rqSnic, rqHost, broken, snicVars, chan, up, twice, left, faults>>

(* Both completions are there: the client's own SEND and the server's       *)
(* metadata.  The thread stores its connection and unlocks; the starter     *)
(* goes on to the application's main, and other threads come to life.       *)
Xchanged(t) ==
  /\ At(t, "xchange")
  /\ acked[conn[t]] /\ atHost[conn[t]] = "metadata"
  /\ atHost' = [atHost EXCEPT ![conn[t]] = "none"]
  /\ IF conn[t] = Global
     THEN /\ conn' = [conn EXCEPT ![t] = NoConn]
          /\ pc' = [u \in Thread |-> "idle"]
          /\ UNCHANGED lock
     ELSE /\ lock' = NoThread
          /\ Goto(t, "ready")
          /\ UNCHANGED conn
  /\ UNCHANGED <<leaving, conns, cm, toSnic, toHost, atSnic, acked,
                 rqSnic, rqHost, broken, snicVars, chan, up, twice, left, faults>>

(* get_r_info returned NULL: bind, listen and epoll_create1 fall back to     *)
(* the local call, every other hook and pthread_exit dereference it.         *)
NoRInfo(t) ==
  /\ At(t, "no_r_info")
  /\ \/ /\ ~leaving[t]
        /\ Goto(t, "idle")
        /\ UNCHANGED up
     \/ /\ up' = [up EXCEPT !["host"] = FALSE]
        /\ UNCHANGED pc
  /\ UNCHANGED <<leaving, conn, lock, conns, cm, wires, snicVars, chan,
                 twice, left, faults>>

---------------------------------------------------------------------------
(* The threads of the host: using and giving back a connection *)

(* Any hooked call of a thread that has its connection, or its last one. *)
SetReqSock(t) ==
  /\ At(t, "ready")
  /\ PostRequest(conn[t], IF leaving[t] THEN "del" ELSE "call")
  /\ Goto(t, IF leaving[t] THEN "wait_del" ELSE "wait_reply")
  /\ UNCHANGED <<leaving, conn, lock, conns, cm, toHost, atSnic, atHost, acked,
                 rqSnic, broken, snicVars, chan, up, twice, left, faults>>

(* pthread_exit, or the end of my_main, of a thread that has its connection. *)
Leave(t) ==
  /\ At(t, "ready") /\ ~leaving[t]
  /\ leaving' = [leaving EXCEPT ![t] = TRUE]
  /\ UNCHANGED <<pc, conn, lock, conns, cm, wires, snicVars, chan, up, twice, left, faults>>

(* mutant: the completion of the request is taken for the reply *)
CallReturnedOnAck(t) ==
  /\ At(t, "wait_reply")
  /\ toSnic[conn[t]] = "none" \/ broken[conn[t]]
  /\ atHost' = [atHost EXCEPT ![conn[t]] = "none"]
  /\ Goto(t, "ready")
  /\ UNCHANGED <<leaving, conn, lock, conns, cm, toSnic, toHost, atSnic, acked,
                 rqSnic, rqHost, broken, snicVars, chan, up, twice, left, faults>>

(* The reply has come, or the queue pair failed and set_req_sock returned -1. *)
CallReturned(t) ==
  /\ At(t, "wait_reply")
  /\ atHost[conn[t]] = "reply" \/ broken[conn[t]]
  /\ atHost' = [atHost EXCEPT ![conn[t]] = "none"]
  /\ Goto(t, "ready")
  /\ UNCHANGED <<leaving, conn, lock, conns, cm, toSnic, toHost, atSnic, acked,
                 rqSnic, rqHost, broken, snicVars, chan, up, twice, left, faults>>

(* client_disconnect_and_clean follows whatever DEL returned. *)
Disconnect(t) ==
  /\ At(t, "wait_del")
  /\ atHost[conn[t]] = "reply" \/ broken[conn[t]]
  /\ atHost' = [atHost EXCEPT ![conn[t]] = "none"]
  /\ cm' = [cm EXCEPT ![conn[t]] = "disconnecting"]
  /\ IF up["snic"] THEN Raise("DISCONNECTED", conn[t]) ELSE UNCHANGED chan
  /\ left' = left \cup {t}
  /\ Goto(t, "disconnect")
  /\ UNCHANGED <<leaving, conn, lock, conns, toSnic, toHost, atSnic, acked,
                 rqSnic, rqHost, broken, snicVars, up, twice, faults>>

(* The host's own DISCONNECTED event.  my_main returns and ends the process; *)
(* pthread_exit calls original_pthread_exit, which was never looked up.      *)
Disconnected(t) ==
  /\ At(t, "disconnect")
  /\ up' = [up EXCEPT !["host"] = FALSE]
  /\ UNCHANGED <<hostVars, wires, snicVars, chan, twice, left, faults>>

(* A thread function that returns: the destructor of make_key frees r_info *)
(* and the connection stays.                                               *)
ThreadReturns(t) ==
  /\ t # Starter
  /\ At(t, "ready") \/ At(t, "idle")
  /\ ~leaving[t]
  /\ Goto(t, "exited")
  /\ conn' = [conn EXCEPT ![t] = NoConn]
  /\ UNCHANGED <<leaving, lock, conns, cm, wires, snicVars, chan, up, twice, left, faults>>

---------------------------------------------------------------------------
(* The main thread of the SmartNIC: connect_client_r_info *)

(* The first event of the channel is taken.  One of another type is         *)
(* acknowledged by process_rdma_cm_event and again by its caller: a double  *)
(* free, which aborts the process or goes unnoticed.                        *)
TakeEvent(type) ==
  /\ chan # <<>>
  /\ chan' = Tail(chan)
  /\ twice' = (twice \/ Head(chan).type # type)

(* waiting_client_conn.  With an event of another type the id is that of a  *)
(* connection that already has a queue pair, which rdma_create_qp refuses.  *)
WaitingClientConn ==
  /\ Serving("wait_request")
  /\ TakeEvent("CONNECT_REQUEST")
  /\ \/ /\ Head(chan).type = "CONNECT_REQUEST"
        /\ cur' = Head(chan).conn
        /\ spc' = "setup"
        /\ UNCHANGED up
     \/ /\ Head(chan).type # "CONNECT_REQUEST"
        /\ spc' = "poll"
        /\ up' \in {up, [up EXCEPT !["snic"] = FALSE]}
        /\ UNCHANGED cur
  /\ UNCHANGED <<hostVars, wires, worker, left, faults>>

SetupClientResources ==
  /\ Serving("setup")
  /\ spc' = "accept"
  /\ UNCHANGED <<hostVars, wires, cur, worker, chan, up, twice, left, faults>>

(* mutant: the receive for the client's metadata is posted too late *)
AcceptWithoutReceive ==
  /\ Serving("accept")
  /\ \/ /\ cm[cur] = "connecting"
        /\ cm' = [cm EXCEPT ![cur] = "accepted"]
        /\ spc' = "wait_established"
        /\ UNCHANGED cur
     \/ /\ cm[cur] # "connecting"
        /\ spc' = "poll"
        /\ cur' = NoConn
        /\ UNCHANGED cm
  /\ UNCHANGED <<pc, leaving, conn, lock, conns, wires, worker, chan, up, twice, left, faults>>

(* accept_client_connection: the receive for the client's metadata, then   *)
(* rdma_accept, which fails if the client has given up.                    *)
AcceptClientConnection ==
  /\ Serving("accept")
  /\ rqSnic' = [rqSnic EXCEPT ![cur] = 1]
  /\ \/ /\ cm[cur] = "connecting"
        /\ cm' = [cm EXCEPT ![cur] = "accepted"]
        /\ spc' = "wait_established"
        /\ UNCHANGED cur
     \/ /\ cm[cur] # "connecting"
        /\ spc' = "poll"
        /\ cur' = NoConn
        /\ UNCHANGED cm
  /\ UNCHANGED <<pc, leaving, conn, lock, conns, toSnic, toHost, atSnic, atHost,
                 acked, rqHost, broken, worker, chan, up, twice, left, faults>>

(* mutant: the server does not wait for the event *)
WaitEstablishedSkipped ==
  /\ Serving("wait_established")
  /\ spc' = "wait_metadata"
  /\ UNCHANGED <<hostVars, wires, cur, worker, chan, up, twice, left, faults>>

(* The result of process_rdma_cm_event is not looked at. *)
WaitEstablished ==
  /\ Serving("wait_established")
  /\ TakeEvent("ESTABLISHED")
  /\ spc' = "wait_metadata"
  /\ up' \in IF Head(chan).type = "ESTABLISHED" THEN {up}
             ELSE {up, [up EXCEPT !["snic"] = FALSE]}
  /\ UNCHANGED <<hostVars, wires, cur, worker, left, faults>>

WaitMetadata ==
  /\ Serving("wait_metadata")
  /\ atSnic[cur] = "metadata"
  /\ atSnic' = [atSnic EXCEPT ![cur] = "none"]
  /\ spc' = "send_metadata"
  /\ UNCHANGED <<hostVars, toSnic, toHost, atHost, acked, rqSnic, rqHost, broken,
                 cur, worker, chan, up, twice, left, faults>>

SendServerMetadata ==
  /\ Serving("send_metadata")
  /\ toHost' = [toHost EXCEPT ![cur] = "metadata"]
  /\ spc' = "post_recv_req"
  /\ UNCHANGED <<hostVars, toSnic, atSnic, atHost, acked, rqSnic, rqHost, broken,
                 cur, worker, chan, up, twice, left, faults>>

(* A call that allocates, registers, posts or accepts fails: the SmartNIC    *)
(* gives the connection up, without the global one the process ends, and a   *)
(* failed registration that is not checked ends it as well.                  *)
ServerSetUpFails ==
  /\ \E l \in {"setup", "accept", "send_metadata"} : Serving(l)
  /\ Fault
  /\ spc' = "poll"
  /\ cur' = NoConn
  /\ up' \in IF cur = Global THEN {[up EXCEPT !["snic"] = FALSE]}
             ELSE {up, [up EXCEPT !["snic"] = FALSE]}
  /\ UNCHANGED <<hostVars, wires, worker, chan, twice, left>>

(* post_recv_req on connection c; that ibv_post_recv failed is only logged. *)
RepostRecv(c) ==
  \/ rqSnic' = [rqSnic EXCEPT ![c] = @ + 1] /\ UNCHANGED faults
  \/ Fault /\ UNCHANGED rqSnic

(* The receive for the first request is posted after the metadata has left. *)
PostRecvReq ==
  /\ Serving("post_recv_req")
  /\ RepostRecv(cur)
  /\ spc' = IF cur = Global THEN "poll" ELSE "pthread_create"
  /\ cur' = IF cur = Global THEN NoConn ELSE cur
  /\ UNCHANGED <<hostVars, toSnic, toHost, atSnic, atHost, acked, rqHost, broken,
                 worker, chan, up, twice, left>>

(* mutant: the new worker posts a receive of its own *)
PthreadCreatePostsAgain ==
  /\ Serving("pthread_create")
  /\ worker' = [worker EXCEPT ![cur] = "polling"]
  /\ rqSnic' = [rqSnic EXCEPT ![cur] = @ + 1]
  /\ spc' = "poll"
  /\ cur' = NoConn
  /\ UNCHANGED <<hostVars, toSnic, toHost, atSnic, atHost, acked, rqHost, broken,
                 chan, up, twice, left, faults>>

(* That pthread_create failed is only logged; pthread_detach then gets an    *)
(* uninitialised thread id.                                                  *)
PthreadCreate ==
  /\ Serving("pthread_create")
  /\ \/ /\ worker' = [worker EXCEPT ![cur] = "polling"]
        /\ UNCHANGED <<up, faults>>
     \/ /\ worker' = [worker EXCEPT ![cur] = "refused"]
        /\ up' \in {up, [up EXCEPT !["snic"] = FALSE]}
        /\ Fault
  /\ spc' = "poll"
  /\ cur' = NoConn
  /\ UNCHANGED <<hostVars, wires, chan, twice, left>>

(* mutant: the request is answered after the connection has been made *)
NewRdmaConnLateAnswer ==
  /\ Serving("poll")
  /\ atSnic[Global] = "new"
  /\ RepostRecv(Global)
  /\ spc' = "wait_request"
  /\ UNCHANGED <<hostVars, toSnic, toHost, atSnic, atHost, acked, rqHost, broken, cur, worker,
                 chan, up, twice, left>>

(* RDMA_REQ_NEW_RDMA_CONN: the next receive is posted and the request        *)
(* answered, then the connection is awaited.                                 *)
NewRdmaConn ==
  /\ Serving("poll")
  /\ atSnic[Global] = "new"
  /\ atSnic' = [atSnic EXCEPT ![Global] = "none"]
  /\ RepostRecv(Global)
  /\ toHost' = [toHost EXCEPT ![Global] = "answer"]
  /\ spc' = "wait_request"
  /\ UNCHANGED <<hostVars, toSnic, atHost, acked, rqHost, broken, cur, worker, chan, up,
                 twice, left>>

(* What was sent on connection c is not acknowledged any more. *)
SendLost(c) == toHost[c] # "none" /\ (broken[c] \/ ~up["host"])

(* The poll of the global connection meets the completion of a send or a     *)
(* receive that failed: process_poll_cq_imm returns to main.                 *)
MainEnds ==
  /\ Serving("poll")
  /\ SendLost(Global)
  /\ up' = [up EXCEPT !["snic"] = FALSE]
  /\ UNCHANGED <<hostVars, wires, snicVars, chan, twice, left, faults>>

---------------------------------------------------------------------------
(* The worker threads of the SmartNIC *)

(* mutant: the completion of the request stays in the queue *)
WorkerServesAgain(c) ==
  /\ up["snic"]
  /\ worker[c] = "polling"
  /\ atSnic[c] \in Request /\ toHost[c] = "none" /\ atHost[c] = "none"
  /\ rqSnic' = [rqSnic EXCEPT ![c] = 1]
  /\ toHost' = [toHost EXCEPT ![c] = "reply"]
  /\ worker' = [worker EXCEPT ![c] = IF atSnic[c] = "del" THEN "spinning" ELSE @]
  /\ UNCHANGED <<hostVars, toSnic, atSnic, atHost, acked, rqHost, broken, spc, cur,
                 chan, up, twice, left, faults>>

(* A request is taken, the next receive posted, the reply sent.  After DEL *)
(* the worker spins in global_disconnect_and_cleanup on a status that      *)
(* nothing changes.                                                        *)
WorkerServes(c) ==
  /\ up["snic"]
  /\ worker[c] = "polling"
  /\ atSnic[c] \in Request
  /\ atSnic' = [atSnic EXCEPT ![c] = "none"]
  /\ RepostRecv(c)
  /\ toHost' = [toHost EXCEPT ![c] = "reply"]
  /\ worker' = [worker EXCEPT ![c] = IF atSnic[c] = "del" THEN "spinning" ELSE @]
  /\ UNCHANGED <<hostVars, toSnic, atHost, acked, rqHost, broken, spc, cur, chan,
                 up, twice, left>>

(* The thread function returns when a completion has an error. *)
WorkerEnds(c) ==
  /\ up["snic"]
  /\ worker[c] = "polling"
  /\ SendLost(c)
  /\ worker' = [worker EXCEPT ![c] = "ended"]
  /\ UNCHANGED <<hostVars, wires, spc, cur, chan, up, twice, left, faults>>

---------------------------------------------------------------------------
(* The connection manager and the adapters *)

(* rdma_accept has been answered: both ends get their ESTABLISHED event. *)
CmEstablished(c) ==
  /\ cm[c] = "accepted"
  /\ cm' = [cm EXCEPT ![c] = "established"]
  /\ Raise("ESTABLISHED", c)
  /\ UNCHANGED <<pc, leaving, conn, lock, conns, wires, snicVars, up, twice, left, faults>>

(* A connection request that nobody answers times out at the client.  The  *)
(* timeout is longer than the steps of a server that is about to accept.   *)
CmTimeout(c) ==
  /\ \/ cm[c] = "connecting" /\ (spc = "poll" \/ ~up["snic"])
     \/ cm[c] = "accepted" /\ ~up["snic"]
  /\ cm' = [cm EXCEPT ![c] = "failed"]
  /\ IF up["snic"] THEN Raise("REJECTED", c) ELSE UNCHANGED chan
  /\ UNCHANGED <<pc, leaving, conn, lock, conns, wires, snicVars, up, twice, left, faults>>

DeliverToSnic(c) ==
  /\ toSnic[c] # "none" /\ up["snic"] /\ rqSnic[c] > 0
  /\ toSnic' = [toSnic EXCEPT ![c] = "none"]
  /\ atSnic' = [atSnic EXCEPT ![c] = toSnic[c]]
  /\ acked' = [acked EXCEPT ![c] = TRUE]
  /\ rqSnic' = [rqSnic EXCEPT ![c] = @ - 1]
  /\ UNCHANGED <<hostVars, toHost, atHost, rqHost, broken, snicVars, chan, up,
                 twice, left, faults>>

(* The acknowledgements of a message are lost, retry_count times, whether or  *)
(* not the message arrived; once the reply is there nobody waits for them.    *)
RetriesExhausted(c) ==
  /\ toSnic[c] # "none" \/ atSnic[c] # "none" \/ toHost[c] # "none"
  /\ up["snic"] /\ ~broken[c]
  /\ toSnic' = [toSnic EXCEPT ![c] = "none"]
  /\ broken' = [broken EXCEPT ![c] = TRUE]
  /\ rqHost' = [rqHost EXCEPT ![c] = 0]
  /\ Fault
  /\ UNCHANGED <<hostVars, toHost, atSnic, atHost, acked, rqSnic, snicVars, chan, up,
                 twice, left>>

(* No receive is posted and rnr_retry_count is 0, or nobody answers any more: *)
(* the queue pair fails and its receives are flushed.                         *)
SendFails(c) ==
  /\ toSnic[c] # "none"
  /\ ~up["snic"] \/ rqSnic[c] = 0
  /\ toSnic' = [toSnic EXCEPT ![c] = "none"]
  /\ broken' = [broken EXCEPT ![c] = TRUE]
  /\ rqHost' = [rqHost EXCEPT ![c] = 0]
  /\ UNCHANGED <<hostVars, toHost, atSnic, atHost, acked, rqSnic,
                 snicVars, chan, up, twice, left, faults>>

DeliverToHost(c) ==
  /\ toHost[c] # "none" /\ up["host"] /\ rqHost[c] > 0
  /\ toHost' = [toHost EXCEPT ![c] = "none"]
  /\ atHost' = [atHost EXCEPT ![c] = toHost[c]]
  /\ rqHost' = [rqHost EXCEPT ![c] = @ - 1]
  /\ UNCHANGED <<hostVars, toSnic, atSnic, acked, rqSnic, broken, snicVars, chan,
                 up, twice, left, faults>>

---------------------------------------------------------------------------
(* What a thread does once it is in get_r_info, a call or pthread_exit. *)
ThreadStep(t) ==
  \/ AskNewConn(t) \/ NewConnAnswered(t) \/ NewConnFailed(t)
  \/ PrepareConnection(t) \/ ConnectToServer(t)
  \/ XchangeMetadata(t) \/ Xchanged(t) \/ ConnectFailed(t) \/ NoRInfo(t)
  \/ CallReturned(t) \/ Disconnect(t) \/ Disconnected(t)
  \/ leaving[t] /\ SetReqSock(t)

(* What the application decides. *)
Application(t) ==
  \/ \E exiting \in BOOLEAN : GetRInfo(t, exiting)
  \/ ~leaving[t] /\ SetReqSock(t)
  \/ Leave(t)
  \/ ThreadReturns(t)

ServerMain ==
  \/ WaitingClientConn \/ SetupClientResources \/ AcceptClientConnection
  \/ WaitEstablished \/ WaitMetadata \/ SendServerMetadata \/ PostRecvReq
  \/ PthreadCreate \/ NewRdmaConn \/ MainEnds

Worker(c) == WorkerServes(c) \/ WorkerEnds(c)

Network(c) ==
  \/ CmEstablished(c) \/ CmTimeout(c)
  \/ DeliverToSnic(c) \/ SendFails(c) \/ DeliverToHost(c)

(* What may go wrong and need not, besides the calls whose failure is only   *)
(* logged.                                                                   *)
SomethingFails ==
  \/ \E t \in Thread : SetUpFails(t)
  \/ ServerSetUpFails
  \/ \E c \in Conn : RetriesExhausted(c)

Next ==
  \/ \E t \in Thread : ThreadStep(t) \/ Application(t)
  \/ ServerMain
  \/ \E c \in Conn : Worker(c) \/ Network(c)
  \/ SomethingFails

Spec == Init /\ [][Next]_vars

(* Threads of both processes run when they can, and the network delivers. *)
Fairness ==
  /\ \A t \in Thread : WF_vars(ThreadStep(t))
  /\ WF_vars(ServerMain)
  /\ \A c \in Conn : WF_vars(Worker(c)) /\ WF_vars(Network(c))

FairSpec == Spec /\ Fairness

---------------------------------------------------------------------------
(* Properties *)

(* Nothing has happened yet that spoils the one event channel: no thread has *)
(* disconnected and nothing was at fault.  A message that came before its    *)
(* receive is part of the calm: it breaks its connection and no other.       *)
Calm == left = {} /\ faults = 0

(* A call is under way on the global connection. *)
NewAsked == toSnic[Global] = "new" \/ atSnic[Global] = "new"
NewAnswered == toHost[Global] = "answer" \/ atHost[Global] = "answer"
NewUnderWay == NewAsked \/ NewAnswered

(* The addresses of the two buffers always find a receive: each side posts *)
(* it before its step that lets the connection come up (rdma_client.c:252, *)
(* rdma_server.c:388).  Otherwise the handshake would kill the connection. *)
MetadataFindsReceive ==
  \A c \in Conn :
    /\ toSnic[c] = "metadata" => rqSnic[c] > 0
    /\ toHost[c] = "metadata" /\ ~broken[c] => rqHost[c] > 0

(* A thread that holds a connection that works has somebody to serve it: its *)
(* worker runs, or the SmartNIC is on the way to start it.  get_r_info       *)
(* returns only when the server's metadata has come (rdma_client.c:367);     *)
(* what may still go wrong after they were sent is pthread_create, whose     *)
(* refusal is only logged (rdma_server.c:1129).                              *)
KeptConnectionIsServed ==
  \A t \in Thread :
    pc[t] \in {"ready", "wait_reply", "wait_del"} /\ up["snic"] =>
      \/ worker[conn[t]] \in {"polling", "spinning", "refused"}
      \/ worker[conn[t]] = "ended" /\ (broken[conn[t]] \/ ~up["host"])
      \/ cur = conn[t] /\ spc \in {"post_recv_req", "pthread_create"}

(* As long as no thread has disconnected and nothing was at fault, every     *)
(* event of the one channel is the one its reader expects: the SmartNIC      *)
(* acknowledges none twice and stays up, and get_r_info returns NULL only    *)
(* because the global connection broke (a NEW that met no receive,           *)
(* rdma_server.c:852).                                                       *)
OrderlyUntilFirstLeaves ==
  Calm => /\ ~twice /\ up["snic"]
          /\ \A t \in Thread : pc[t] = "no_r_info" => broken[Global]

(* The threads share the global connection, the address and the SmartNIC's   *)
(* main thread, so two set-ups must never overlap (hook.c:100-135): at most  *)
(* one thread is in one, nobody leaves it with the lock, whatever failed,    *)
(* and a NEW is under way on the global connection only for that thread.     *)
OneSetUpAtATime ==
  LET InSetUp == {t \in Thread : pc[t] \in SetUpPc}
  IN  /\ \A t, u \in InSetUp : t = u
      /\ lock # NoThread => lock \in InSetUp
      /\ NewUnderWay /\ ~broken[Global] => lock # NoThread

(* While no thread disconnects and nothing is at fault, every thread that needs *)
(* a connection gets it, unless a NEW met no receive and broke the global    *)
(* connection; even then nobody keeps the lock for ever, so that get_r_info  *)
(* returns NULL to every thread that gets it.                                *)
EveryThreadConnects ==
  []Calm => /\ \A t \in Thread : pc[t] = "lock" ~> pc[t] = "ready" \/ broken[Global]
            /\ lock # NoThread ~> lock = NoThread \/ ~up["host"]

(* What process_rdma_cm_event says of its events (snic/rdma_common.c): one of *)
(* another type is acknowledged there, only a good one is left to the caller. *)
AckedOnce == ~twice

(* What the wait before the first request is there for (rdma_client.c:760):  *)
(* the server's receive is posted.                                           *)
FirstRequestFindsReceive ==
  \A c \in Conn : toSnic[c] \in {"new", "call", "del"} /\ up["snic"] => rqSnic[c] > 0

---------------------------------------------------------------------------
(* The inductive invariant behind the safety properties *)

(* Nothing is on the way or waiting to be polled on a connection. *)
Quiet(c) ==
  toSnic[c] = "none" /\ atSnic[c] = "none" /\ toHost[c] = "none" /\ atHost[c] = "none"

(* The connection has got its worker, or is past every step that can fail   *)
(* but pthread_create.                                                      *)
Served(c) ==
  \/ worker[c] # "none"
  \/ cur = c /\ spc \in {"post_recv_req", "pthread_create"}

(* The write lock is what makes a set-up exclusive, but for the first one,   *)
(* which runs before any other thread exists.                                *)
LockInv ==
  /\ conns = 0 => pc[Starter] = "prepare"
  /\ Starting => /\ lock = NoThread
                 /\ pc[Starter] \in SetUpPc \ {"wait_new"}
                 /\ \A t \in Thread \ {Starter} : pc[t] = "unborn"
  /\ ~Starting => \A t \in Thread : pc[t] \in SetUpPc => lock = t
  /\ lock # NoThread => pc[lock] \in SetUpPc

(* The global connection carries NEW and its answer and no other call, for   *)
(* the thread that has the lock; other connections carry none of them.       *)
GlobalInv ==
  /\ \A c \in Conn \ {Global} :
       toSnic[c] # "new" /\ atSnic[c] # "new" /\ toHost[c] # "answer" /\ atHost[c] # "answer"
  /\ NewUnderWay /\ ~broken[Global] => lock # NoThread /\ pc[lock] = "wait_new"
  /\ Starting => ~NewUnderWay
  /\ ~Starting => /\ cm[Global] = "established"
                  /\ NewUnderWay \/ broken[Global] \/ (Quiet(Global) /\ rqHost[Global] = 0)
  /\ toSnic[Global] \notin Request /\ atSnic[Global] \notin Request

(* Room leaves a number for every thread that is about to make a connection. *)
RoomInv ==
  conns + Cardinality({t \in Thread : pc[t] \in {"lock", "wait_new", "prepare"}}) <= MaxConn

(* Who owns a connection, and how far its connection manager is. *)
OwnerInv ==
  /\ \A t \in Thread :
       /\ conn[t] # NoConn <=> pc[t] \in OwnerPc
       /\ conn[t] <= conns
       /\ conn[t] = Global => t = Starter
       /\ pc[t] = "connect" => cm[conn[t]] = "none"
       /\ pc[t] = "wait_established" =>
            cm[conn[t]] \in {"connecting", "accepted", "established", "failed"}
       /\ pc[t] \in {"xchange", "ready", "wait_reply", "wait_del"} =>
            cm[conn[t]] = "established"
  /\ \A t, u \in Thread : conn[t] = conn[u] /\ conn[t] # NoConn => t = u
  /\ \A c \in Conn : c > conns => cm[c] = "none" /\ rqHost[c] = 0

(* A connection carries one message at a time: whoever sends has taken the   *)
(* message before.  A host whose queue pair failed sends and gets nothing.   *)
MessageInv ==
  /\ \A c \in Conn :
       /\ atSnic[c] # "none" => toSnic[c] = "none"
       /\ toHost[c] # "none" => toSnic[c] = "none" /\ atSnic[c] = "none"
       /\ atHost[c] # "none" => toSnic[c] = "none" /\ atSnic[c] = "none" /\ toHost[c] = "none"
       /\ broken[c] => toSnic[c] = "none" /\ atHost[c] = "none" /\ rqHost[c] = 0
       /\ cm[c] \in {"none", "connecting", "accepted", "failed"} =>
            Quiet(c) /\ ~broken[c] /\ worker[c] = "none"
  /\ \A t \in Thread :
       /\ pc[t] \in {"connect", "wait_established", "ready", "disconnect"} =>
            broken[conn[t]] \/ Quiet(conn[t])
       /\ pc[t] = "xchange" => toSnic[conn[t]] \in {"none", "metadata"}

(* The receives: the host has one posted from before a message goes out     *)
(* until the answer has come, the SmartNIC none while it holds a message.   *)
ReceiveInv ==
  /\ \A c \in Conn :
       /\ ~broken[c] /\ (toSnic[c] # "none" \/ atSnic[c] # "none" \/ toHost[c] # "none") =>
            rqHost[c] = 1
       /\ atHost[c] # "none" => rqHost[c] = 0
       /\ atSnic[c] # "none" => rqSnic[c] = 0
       /\ toSnic[c] = "metadata" \/ cm[c] = "accepted" => rqSnic[c] = 1
  /\ \A t \in Thread :
       /\ pc[t] \in {"connect", "wait_established"} =>
            rqHost[conn[t]] = 1 /\ ~broken[conn[t]]
       /\ pc[t] = "wait_established" /\ cm[conn[t]] = "established" => rqSnic[conn[t]] = 1
       /\ pc[t] = "ready" => rqHost[conn[t]] = 0

(* What the SmartNIC's main thread knows of the connection it sets up. *)
ServerInv ==
  /\ cur = NoConn <=> spc \in {"wait_request", "poll"}
  /\ spc \in {"setup", "accept"} => cm[cur] \in {"connecting", "failed"}
  /\ spc \in {"setup", "accept", "wait_established", "wait_metadata", "send_metadata"} =>
       worker[cur] = "none" /\ toHost[cur] = "none" /\ atHost[cur] = "none"
  /\ spc \in {"send_metadata", "post_recv_req"} => rqSnic[cur] = 0 /\ atSnic[cur] = "none"
  /\ spc \in {"send_metadata", "post_recv_req", "pthread_create"} =>
       cm[cur] \in {"established", "disconnecting"}
  /\ spc = "send_metadata" /\ ~broken[cur] =>
       /\ Quiet(cur) /\ rqHost[cur] = 1
       /\ \A t \in Thread : conn[t] = cur => pc[t] = "xchange"
  /\ \A c \in Conn \ {Global} :
       toHost[c] = "metadata" \/ atHost[c] = "metadata" => Served(c)
  /\ \A t \in Thread : pc[t] \in {"ready", "wait_reply", "wait_del", "disconnect"} =>
       conn[t] # Global /\ Served(conn[t])
  /\ \A c \in Conn : worker[c] = "ended" => broken[c] \/ ~up["host"]

(* A connection is requested once, and accepted only after its request. *)
ChannelInv ==
  /\ \A i \in 1 .. Len(chan) : chan[i].type = "CONNECT_REQUEST" =>
       /\ cm[chan[i].conn] \in {"connecting", "failed"}
       /\ spc \in {"setup", "accept"} => chan[i].conn # cur
  /\ \A i, j \in 1 .. Len(chan) :
       chan[i].type = "CONNECT_REQUEST" /\ chan[j] = chan[i] => i = j

(* In the calm, the thread in set-up, the SmartNIC's main thread and the     *)
(* channel move in step.                                                     *)
InStep(t) ==
  LET c == conn[t]
      After == spc \in {"post_recv_req", "pthread_create", "poll"} /\ chan = <<>>
  IN  \/ pc[t] = "wait_new" /\ (NewAsked \/ broken[Global]) /\ After
      \/ /\ (pc[t] = "wait_new" /\ NewAnswered) \/ pc[t] \in {"prepare", "connect"}
         /\ spc = "wait_request" /\ chan = <<>>
      \/ /\ pc[t] = "wait_established" /\ cm[c] = "connecting"
         /\ \/ spc = "wait_request" /\ chan = <<[type |-> "CONNECT_REQUEST", conn |-> c]>>
            \/ spc \in {"setup", "accept"} /\ cur = c /\ chan = <<>>
      \/ /\ pc[t] = "wait_established" /\ cm[c] = "accepted"
         /\ spc = "wait_established" /\ cur = c /\ chan = <<>>
      \/ /\ pc[t] \in {"wait_established", "xchange"} /\ cm[c] = "established"
         /\ \/ /\ spc = "wait_established" /\ cur = c
               /\ chan = <<[type |-> "ESTABLISHED", conn |-> c]>>
            \/ spc \in {"wait_metadata", "send_metadata"} /\ cur = c /\ chan = <<>>
      \/ pc[t] = "xchange" /\ After

StepInv ==
  Calm =>
    /\ \A t \in Thread : pc[t] \in SetUpPc => InStep(t)
    /\ (\A t \in Thread : pc[t] \notin SetUpPc) =>
         spc \in {"post_recv_req", "pthread_create", "poll"} /\ chan = <<>>

(* In the calm a connection breaks only on a message that met no receive,    *)
(* which leaves nothing behind; and a metadata SEND fails only when the      *)
(* SmartNIC is gone or the acknowledgements are lost.                        *)
OrderInv ==
  /\ Calm =>
       /\ ~twice /\ up["snic"]
       /\ up["host"] \/ broken[Global]
       /\ \A t \in Thread : pc[t] # "disconnect" /\ (pc[t] = "no_r_info" => broken[Global])
       /\ \A c \in Conn : broken[c] => Quiet(c)
       /\ \A c \in Conn : cm[c] \notin {"failed", "disconnecting"}
       /\ \A c \in Conn : cm[c] \in {"connecting", "accepted"} =>
            \E t \in Thread : conn[t] = c /\ pc[t] = "wait_established"
  /\ \A t \in Thread : pc[t] = "xchange" /\ broken[conn[t]] => ~up["snic"] \/ faults > 0

(* What every step keeps (hook.c:95-135, rdma_client.c, rdma_server.c): a     *)
(* set-up is exclusive, a connection has one owner and carries one message,  *)
(* for which a receive is posted, and what the SmartNIC has done so far      *)
(* matches what its client waits for.                                        *)
SetupInv ==
  /\ TypeOK
  /\ LockInv
  /\ GlobalInv
  /\ RoomInv
  /\ OwnerInv
  /\ MessageInv
  /\ ReceiveInv
  /\ ServerInv
  /\ ChannelInv
  /\ StepInv
  /\ OrderInv

---------------------------------------------------------------------------
(* The set-up as the threads are meant to see it *)

Calling == {"wait_reply", "wait_del"}

Stage(l) ==
  CASE l \in SetUpPc -> "entering"
    [] l = "ready" -> "held"
    [] l = "wait_reply" -> "called"
    [] l = "wait_del" -> "deleting"
    [] l \in {"disconnect", "exited"} -> "gone"
    [] OTHER -> "away"

(* On a connection that failed, a request the SmartNIC has got is in doubt. *)
Work(c) ==
  IF broken[c] THEN (IF atSnic[c] \in Request THEN "doubt" ELSE "dead")
  ELSE IF toSnic[c] \in Request \/ atSnic[c] \in Request THEN "request"
  ELSE IF toHost[c] = "reply" \/ atHost[c] = "reply" THEN "reply" ELSE "none"

Stages == [t \in Thread |-> Stage(pc[t])]
Mine == [t \in Thread |-> IF pc[t] \in Calling \cup {"ready"} THEN conn[t] ELSE NoConn]
Works == [c \in Conn |-> Work(c)]

Service == INSTANCE ConnService WITH stage <- Stages, mine <- Mine, work <- Works

(* A request that is on its way or waits for the worker of a connection that *)
(* works has a caller that waits for the reply: no thread comes back from    *)
(* set_req_sock without it unless its queue pair failed (rdma_client.c:773). *)
RequestHasCaller ==
  \A c \in Conn : Work(c) = "request" => \E t \in Thread : conn[t] = c /\ pc[t] \in Calling

(* The handshake over the global connection, the one event channel and the   *)
(* workers implement a service of connections: set-ups one at a time, a      *)
(* fresh connection for each thread, every request executed at most once,    *)
(* and only while its caller waits unless acknowledgements were lost: then   *)
(* it may be executed late, once, and no other request after it              *)
(* (hook.c:95-135, rdma_client.c:743-777, rdma_server.c:1106).               *)
ImplementsConnService == Service!Spec

=============================================================================
