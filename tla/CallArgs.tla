------------------------------ MODULE CallArgs ------------------------------
(***************************************************************************)
(* What the hooked calls of one application thread hand to the SmartNIC's  *)
(* kernel and get back: the req_ functions of host/hook.c, set_req_sock,   *)
(* the sock_ functions of snic/socket.c and the codecs between them.       *)
(*                                                                         *)
(* A call is three steps: its hook fills req and sends it, the worker      *)
(* decodes req, makes the call and replies from rtn, the hook decodes the  *)
(* reply.  req and rtn are never cleared as a whole, so a call meets what  *)
(* the calls before it left there.  Both structures travel whole and, in   *)
(* this module, intact: RdmaConn has the races of their delivery.          *)
(***************************************************************************)
EXTENDS Codecs, FiniteSets

CONSTANTS
  Call,          \* the calls the application may make
  HostFd,        \* its descriptors of the host's kernel
  SnicFd,        \* its descriptors of the SmartNIC's kernel, at first
  NewFd,         \* numbers that the SmartNIC's kernel may hand out
  KernelEvents,  \* events epoll_wait has ready
  MaxEvents,     \* size of the array for them in sock_epoll_wait
  Ready,         \* sets of descriptors that select may find ready
  Uninit,        \* contents of an fd_set that nothing has set
  UninitValue,   \* contents of rtn_value that nothing has set
  KernelOpt,     \* value of a socket option
  KernelAddr,    \* address of a socket
  ClientIp,      \* DEFAULT_RDMA_CLIENT_IP
  BadArg,        \* what va_arg finds where no argument was passed
  Pointer,       \* the address of an argument, passed for its value
  MaxCalls       \* bound on the calls of a behaviour

(* The arguments of a call have their C types.  An array for poll is one     *)
(* that fits and an option value too: nothing in the codecs checks that.     *)
WellTyped(c) ==
  LET a == c.args
  IN  /\ DOMAIN c = {"op", "args"}
      /\ c.op \in {"accept", "close"} => a \in [fd : Int32]
      /\ c.op = "read" => a \in [fd : Int32, size : 1 .. DataBytes]
      /\ c.op = "write" => a \in [fd : Int32, buf : Seq(Byte)] /\ Len(a.buf) \in Int32
      /\ c.op = "select" => a \in SelectArg
      /\ c.op = "epoll_create1" => a \in [flags : Int32]
      /\ c.op = "epoll_ctl" =>
           a \in [epfd : Int32, op : Int32, fd : Int32, event : {NULL} \cup EpollEvent]
      /\ c.op = "epoll_wait" => a \in [epfd : Int32, maxevents : Int32, timeout : Int32]
      /\ c.op = "poll" =>
           /\ a \in [timeout : Int32, fds : Seq(PollEntry)]
           /\ a.fds # <<>> /\ 12 + 8 * Len(a.fds) <= DataBytes
      /\ c.op \in {"connect", "bind", "listen", "getsockopt"} => a.fd \in Int32
      /\ c.op = "connect" => a.port \in Nat
      /\ c.op \in {"getpeername", "getsockname"} =>
           a \in [fd : Int32, addrlen : Int32, addr : Seq(Byte)]
      /\ c.op = "fcntl" =>
           /\ a.cmd \in Int32
           /\ a.arg \in Seq(Byte) /\ Len(a.arg) >= ArgBytes(FcntlFlag(a.cmd))
      /\ c.op = "setsockopt" =>
           /\ a \in [fd : Int32, level : Int32, optname : Int32, optval : Seq(Byte)]
           /\ Len(a.optval) <= DataBytes - 12

(* The two kernels number their descriptors independently of each other, so  *)
(* HostFd and SnicFd may have numbers in common.                             *)
ASSUME CallAssumption ==
  /\ HostFd \cup SnicFd \cup NewFd \subseteq 3 .. 8 * FdSetBytes - 1
  /\ UninitValue \subseteq Int32 /\ Uninit \subseteq Fds
  /\ MaxEvents \in Nat /\ Len(KernelEvents) <= MaxEvents /\ KernelEvents \in Seq(EpollEvent)
  /\ NULL \notin Uninit /\ NULL # Zeros(TimevalBytes)
  /\ \A ready \in Ready : \A fds \in SUBSET ready : fds # NULL
  /\ \A c \in Call : WellTyped(c)

(* What the kernel and va_arg return are bytes too, and the descriptors of   *)
(* three sets are counted by an int.                                         *)
ASSUME ByteAssumption ==
  /\ KernelOpt \in Seq(Byte) /\ KernelAddr \in Seq(Byte)
  /\ BadArg \in Seq(Byte) /\ Len(BadArg) >= 4 /\ Len(BadArg) >= FlockBytes
  /\ 24 * FdSetBytes \in Int32 /\ MaxCalls \in Nat

VARIABLES
  phase,   \* "idle", "sent", "served", or "crashed" for the SmartNIC
  calls,   \* number of calls made
  routed,  \* how many nodes of fd_ht hold a descriptor
  open,    \* descriptors the application has open, by kernel
  misclosed,  \* numbers that a close of a host's descriptor took out of fd_ht
              \* since the SmartNIC last handed them out
  connected,  \* numbers that a connect has entered a second time
  call,    \* its call
  meant,   \* the kernel whose descriptors the call has, or "mixed"
  req,     \* r_info->req and r_info->sockfd, the same at the SmartNIC
  ran,     \* the kernel call that was made, and by whom
  out,     \* its outcome
  rtn,     \* c_info->rtn of the SmartNIC
  reply,   \* r_info->rtn of the host
  got      \* the outcome the application sees

fdVars == <<routed, open, misclosed, connected>>
vars == <<phase, calls, fdVars, call, meant, req, ran, out, rtn, reply, got>>

Fd == HostFd \cup SnicFd \cup NewFd
ReqOp ==  \* the requests of enum RDMA_REQ_MSG that a hook sends
  {"SOCKET", "CONNECT", "CLOSE", "BIND", "LISTEN", "ACCEPT", "READ", "WRITE", "SELECT",
   "EPOLL_CREATE1", "EPOLL_CTL", "EPOLL_WAIT", "POLL", "FCNTL", "SETSOCKOPT", "GETSOCKOPT",
   "GETSOCKNAME"}
Request == [op : ReqOp, fd : Int32, size : Nat, port : Nat, data : Data]
Message == [errno : {0, 1}, value : Int32, data : Data]

(* null_client_r_info has cleared req and rtn of the host; nothing clears    *)
(* rtn of the SmartNIC.                                                      *)
Blank == [i \in 0 .. DataBytes - 1 |-> 0]
Init ==
  /\ phase = "idle" /\ calls = 0
  /\ routed = [f \in Fd |-> IF f \in SnicFd THEN 1 ELSE 0]
  /\ open = [host |-> HostFd, snic |-> SnicFd]
  /\ misclosed = {} /\ connected = {} /\ meant = "mixed"
  /\ req = [op |-> "SOCKET", fd |-> 0, size |-> 0, port |-> 0, data |-> Blank]
  /\ rtn \in {[errno |-> 0, value |-> v, data |-> [i \in 0 .. DataBytes - 1 |-> 170]] :
                v \in UninitValue}
  /\ reply = [errno |-> 0, value |-> 0, data |-> Blank]
  /\ call = NULL /\ ran = NULL /\ out = NULL /\ got = NULL

---------------------------------------------------------------------------
(* Which kernel serves a call *)

Descriptors(c) ==
  CASE c.op \in {"socket", "epoll_create1"} -> {}
    [] c.op = "select" -> UNION ({c.args.r, c.args.w, c.args.e} \ {NULL})
    [] c.op = "poll" -> {c.args.fds[i].fd : i \in DOMAIN c.args.fds} \ {-1}
    [] c.op = "epoll_ctl" -> {c.args.epfd, c.args.fd}
    [] c.op = "epoll_wait" -> {c.args.epfd}
    [] OTHER -> {c.args.fd}

(* The one descriptor that the hook looks up in fd_ht *)
LookedUp(c) ==
  CASE c.op = "select" -> c.args.nfds - 1
    [] c.op = "poll" -> c.args.fds[1].fd
    [] c.op \in {"epoll_ctl", "epoll_wait"} -> c.args.epfd
    [] OTHER -> c.args.fd

Remote(c) ==
  c.op \notin {"socket", "epoll_create1"} => LookedUp(c) \in {f \in Fd : routed[f] > 0}

fd_insertByValue(fd) == routed' = [routed EXCEPT ![fd] = @ + 1]
fd_deleteByKey(fd) == routed' = [routed EXCEPT ![fd] = IF @ = 0 THEN 0 ELSE @ - 1]

(* A new descriptor of the SmartNIC's kernel, which its hook enters *)
HandedOut(fd) ==
  /\ fd_insertByValue(fd)
  /\ open' = [open EXCEPT !.snic = @ \cup {fd}]
  /\ misclosed' = misclosed \ {fd}
  /\ UNCHANGED connected

(* The kernels that may be meant by the descriptors of a call: a number that *)
(* both have open is a descriptor of either, as the application likes.       *)
Owners(c) ==
  LET owners == {k \in {"host", "snic"} : Descriptors(c) \subseteq open[k]}
  IN  CASE c.op \in {"socket", "epoll_create1"} -> {"snic"}
        [] owners = {} -> {"mixed"}
        [] OTHER -> owners

MakesCall(c) ==
  /\ phase = "idle" /\ calls < MaxCalls
  /\ Descriptors(c) \subseteq open.host \cup open.snic
  /\ call' = c /\ meant' \in Owners(c)
  /\ calls' = calls + 1

(* The original function, with the arguments of the call.  The hook of       *)
(* fcntl does not have the third one.                                        *)
Original(c) ==
  /\ MakesCall(c) /\ ~Remote(c)
  /\ ran' = [at |-> "host", op |-> c.op,
             args |-> IF c.op = "fcntl" THEN [c.args EXCEPT !.arg = BadArg] ELSE c.args]
  /\ open' = IF c.op = "close" THEN [open EXCEPT ![meant'] = @ \ {c.args.fd}] ELSE open
  /\ out' = NULL /\ got' = NULL
  /\ UNCHANGED <<phase, routed, misclosed, connected, req, rtn, reply>>

---------------------------------------------------------------------------
(* The hooks up to the reply: serialize, and the part of set_req_sock that  *)
(* fills the header and sends the request                                   *)

Send(c, op, fd, size, port, data) ==
  /\ MakesCall(c) /\ Remote(c)
  /\ req' = [op |-> op, fd |-> fd, size |-> size, port |-> port, data |-> data]
  /\ phase' = "sent"
  /\ ran' = NULL /\ out' = NULL /\ got' = NULL
  /\ UNCHANGED <<fdVars, rtn, reply>>

SendFd(c, op, port) == Send(c, op, c.args.fd, 0, port, req.data)

ReqSock(c) == c.op = "socket" /\ Send(c, "SOCKET", 0, 0, 0, req.data)
ReqConnect(c) ==
  /\ c.op = "connect"
  /\ SendFd(c, "CONNECT", IF c.args.family \in {"inet", "inet6"} THEN c.args.port ELSE 0)
ReqClose(c) == c.op = "close" /\ SendFd(c, "CLOSE", 0)
ReqBind(c) == c.op = "bind" /\ SendFd(c, "BIND", 8080)
ReqListen(c) == c.op = "listen" /\ SendFd(c, "LISTEN", 0)
ReqAccept(c) == c.op = "accept" /\ SendFd(c, "ACCEPT", 0)
ReqRead(c) == c.op = "read" /\ Send(c, "READ", c.args.fd, c.args.size, 0, req.data)

(* A message that leaves no room for a header is cut by two headers, and     *)
(* its whole length is sent.                                                 *)
Copied(size) == IF Header + size < DataBytes THEN size ELSE DataBytes - 2 * Header
ReqWrite(c) ==
  /\ c.op = "write"
  /\ LET size == Len(c.args.buf)
     IN  Send(c, "WRITE", c.args.fd, size, 0,
              Put(req.data, 0, SubSeq(c.args.buf, 1, Copied(size))))

ReqSelect(c) ==
  /\ c.op = "select"
  /\ Send(c, "SELECT", 0, 0, 0, serialize_select_fd_set(req.data, c.args))
ReqEpollCreate1(c) ==
  /\ c.op = "epoll_create1"
  /\ Send(c, "EPOLL_CREATE1", 0, 0, 0, serialize_epoll_create_dt(req.data, c.args.flags))
ReqEpollCtl(c) ==
  /\ c.op = "epoll_ctl"
  /\ LET a == c.args
     IN  Send(c, "EPOLL_CTL", a.epfd, 0, 0,
              serialize_epoll_ctl_dt(req.data, a.epfd, a.op, a.fd, a.event))
ReqEpollWait(c) ==
  /\ c.op = "epoll_wait"
  /\ LET a == c.args
     IN  Send(c, "EPOLL_WAIT", a.epfd, 0, 0,
              serialize_epoll_wait_dt(req.data, 0, a.epfd, a.maxevents, a.timeout, <<>>))
ReqPoll(c) ==
  /\ c.op = "poll"
  /\ Send(c, "POLL", LookedUp(c), 0, 0,
          serialize_poll_pollfd(req.data, c.args.fds, c.args.timeout))

(* The wrapper fcntl does not pass the argument on, so va_arg finds it only  *)
(* if its register still has it; and fd, passed for the flag, becomes it.    *)
ReqFcntl(c) ==
  /\ c.op = "fcntl"
  /\ \E arg \in {c.args.arg, BadArg} :
        Send(c, "FCNTL", FcntlFlag(c.args.cmd), 0, 0,
             serialize_fcntl_dt(req.data, c.args.cmd, arg))

ReqSetsockopt(c) ==
  /\ c.op = "setsockopt"
  /\ LET a == c.args
     IN  Send(c, "SETSOCKOPT", a.fd, 0, 0,
              serialize_sockopt_dt(req.data, a.level, a.optname, a.optval))
ReqGetsockopt(c) == c.op = "getsockopt" /\ SendFd(c, "GETSOCKOPT", 0)
ReqGetpeername(c) ==
  /\ c.op = "getpeername"
  /\ Send(c, "GETSOCKOPT", c.args.fd, 0, 0,
          serialize_addr_dt(req.data, c.args.addrlen, c.args.addr))
ReqGetsockname(c) ==
  /\ c.op = "getsockname"
  /\ Send(c, "GETSOCKNAME", c.args.fd, 0, 0,
          serialize_addr_dt(req.data, c.args.addrlen, c.args.addr))

---------------------------------------------------------------------------
(* The worker: a case of rdma_req_event and its sock_ function, with every   *)
(* outcome of the kernel                                                     *)

(* What write_msg_to_client and the end of the case clear once the reply is  *)
(* posted.  The memset of WRITE clears 14 bytes too many, which are the      *)
(* header and the first two data bytes of rtn.                               *)
AfterReply(op, m) ==
  CASE op = "READ" /\ m.value > 0 -> [m EXCEPT !.errno = 0, !.data = Put(@, 0, Zeros(8))]
    [] op = "WRITE" -> [errno |-> 0, value |-> 0, data |-> Put(m.data, 0, Zeros(2))]
    [] op = "SELECT" -> [m EXCEPT !.errno = 0, !.data = Blank]
    [] OTHER -> [m EXCEPT !.errno = 0]

ServeAs(op, args, value, stored, output, data) ==
  /\ phase = "sent"
  /\ ran' = [at |-> "snic", op |-> op, args |-> args]
  /\ out' = [value |-> value, errno |-> IF value < 0 THEN 1 ELSE 0, output |-> output]
  /\ reply' = [errno |-> IF value < 0 THEN 1 ELSE rtn.errno, value |-> stored, data |-> data]
  /\ rtn' = AfterReply(req.op, reply')
  /\ phase' = "served"
  /\ UNCHANGED <<calls, fdVars, call, meant, req, got>>

Serve(op, args, value, output, data) == ServeAs(op, args, value, value, output, data)
ServeFd(op, args, values) ==
  \E v \in values : Serve(op, args, v, NULL, rtn.data)

Failed == {-1}
FreeFd == NewFd \ (open.snic \ misclosed)

SockSocket ==
  req.op = "SOCKET" /\ ServeFd("socket", [type |-> "stream"], Failed \cup {2} \cup FreeFd)
SockAccept == req.op = "ACCEPT" /\ ServeFd("accept", [fd |-> req.fd], Failed \cup FreeFd)
SockConnect ==
  req.op = "CONNECT" /\ ServeFd("connect", [fd |-> req.fd, port |-> req.port], Failed \cup {0})
SockClose == req.op = "CLOSE" /\ ServeFd("close", [fd |-> req.fd], Failed \cup {0})
SockBind ==
  req.op = "BIND" /\ ServeFd("bind", [fd |-> req.fd, port |-> req.port], Failed \cup {0})
SockListen ==
  req.op = "LISTEN" /\ ServeFd("listen", [fd |-> req.fd, backlog |-> 1024], Failed \cup {0})

SockReadMessage ==
  /\ req.op = "READ"
  /\ LET args == [fd |-> req.fd, size |-> req.size]
     IN  \/ ServeFd("read", args, Failed \cup {0})
         \/ \E n \in {1, req.size} :
              LET text == [i \in 1 .. n |-> (100 + i) % 256]
              IN  Serve("read", args, n, text, Put(rtn.data, 0, text))
SockSendMessage ==
  /\ req.op = "WRITE"
  /\ ServeFd("write", [fd |-> req.fd, buf |-> Get(req.data, 0, req.size)],
             Failed \cup {req.size})

(* Of each set the kernel keeps the descriptors below nfds that are ready,   *)
(* and returns their number.                                                 *)
KernelSelect(s, ready) ==
  LET Keep(fds) == fds \cap ready \cap (0 .. s.nfds - 1)
  IN  [s EXCEPT !.r = Keep(@), !.w = Keep(@), !.e = Keep(@)]
FoundReady(s) == Cardinality(s.r) + Cardinality(s.w) + Cardinality(s.e)

(* The fd_sets are not initialised, the timeout is {0, 0}. *)
SelectArgs(u) ==
  deserialize_select_fd_set(req.data,
    [nfds |-> 0, r |-> u["r"], w |-> u["w"], e |-> u["e"], t |-> Zeros(TimevalBytes)])
(* mutant: the reply has the sets of the request *)
SockSelectSameSets ==
  /\ req.op = "SELECT"
  /\ \E u \in [{"r", "w", "e"} -> Uninit], ready \in Ready :
       Serve("select", SelectArgs(u), 1, KernelSelect(SelectArgs(u), ready),
             serialize_select_fd_set(rtn.data, SelectArgs(u)))
SockSelect ==
  /\ req.op = "SELECT"
  /\ \E u \in [{"r", "w", "e"} -> Uninit] :
       \/ ServeFd("select", SelectArgs(u), Failed \cup {0})
       \/ \E ready \in Ready :
            LET k == KernelSelect(SelectArgs(u), ready)
            IN  /\ FoundReady(k) > 0
                /\ Serve("select", SelectArgs(u), FoundReady(k), k,
                         serialize_select_fd_set(rtn.data, k))

(* The worker also enters the descriptor into sock_ht, which nothing reads. *)
SockEpollCreate1 ==
  /\ req.op = "EPOLL_CREATE1"
  /\ ServeFd("epoll_create1", deserialize_epoll_create_dt(req.data), Failed \cup FreeFd)
(* mutant: rtn_value is not stored *)
SockEpollCtlNoValue ==
  /\ req.op = "EPOLL_CTL"
  /\ \E v \in Failed \cup {0} :
       ServeAs("epoll_ctl", deserialize_epoll_ctl_dt(req.data), v, rtn.value, NULL, rtn.data)
SockEpollCtl ==
  req.op = "EPOLL_CTL" /\ ServeFd("epoll_ctl", deserialize_epoll_ctl_dt(req.data), Failed \cup {0})
SockEpollWait ==
  /\ req.op = "EPOLL_WAIT"
  /\ LET a == deserialize_epoll_wait_dt(req.data)
         args == [epfd |-> a.epfd, maxevents |-> a.maxevents, timeout |-> a.timeout]
     IN  \/ ServeFd("epoll_wait", args, Failed)
         \/ \E n \in 0 .. Least(a.maxevents, Len(KernelEvents)) :
              LET events == SubSeq(KernelEvents, 1, n)
              IN  Serve("epoll_wait", args, n, events,
                    serialize_epoll_wait_dt(rtn.data, n, a.epfd, a.maxevents, a.timeout, events))
(* The kernel's poll sets revents of every entry. *)
KernelPoll(fds, revents) == [i \in DOMAIN fds |-> [fds[i] EXCEPT !.revents = revents[i]]]
SockPoll ==
  /\ req.op = "POLL"
  /\ LET a == deserialize_poll_pollfd(req.data)
     IN  \/ ServeFd("poll", a, Failed)
         \/ \E revents \in [DOMAIN a.fds -> {0, 1}] :
              LET fds == KernelPoll(a.fds, revents)
                  n == Cardinality({i \in DOMAIN fds : revents[i] # 0})
              IN  Serve("poll", a, n, fds, serialize_poll_pollfd(rtn.data, fds, a.timeout))

(* The kernel gets the address of the copy, also where it wants an int. *)
SockFcntl ==
  /\ req.op = "FCNTL"
  /\ LET a == deserialize_fcntl_dt(req.data)
         arg == CASE a.flag = 1 -> Pointer [] a.flag = 2 -> a.arg [] OTHER -> NULL
     IN  ServeFd("fcntl", [fd |-> req.fd, cmd |-> a.cmd, arg |-> arg], Failed \cup {0})

(* sock_setsockopt and sock_getsockopt do not store rtn_value. *)
SockSetsockopt ==
  /\ req.op = "SETSOCKOPT"
  /\ LET a == deserialize_sockopt_dt(req.data)
         args == [fd |-> req.fd, level |-> a.level, optname |-> a.optname, optval |-> a.optval]
     IN  \E v \in Failed \cup {0} :
           ServeAs("setsockopt", args, v, rtn.value, NULL, rtn.data)
SockGetsockopt ==
  /\ req.op = "GETSOCKOPT"
  /\ LET a == deserialize_sockopt_dt(req.data)
         args == [fd |-> req.fd, level |-> a.level, optname |-> a.optname]
         optval == SubSeq(KernelOpt, 1, Least(a.optlen, Len(KernelOpt)))
     IN  \/ ServeAs("getsockopt", args, -1, rtn.value, NULL, rtn.data)
         \/ /\ a.optlen >= 0
            /\ ServeAs("getsockopt", args, 0, rtn.value, optval,
                       serialize_sockopt_dt(rtn.data, a.level, a.optname, optval))
SockGetsockname ==
  /\ req.op = "GETSOCKNAME"
  /\ \/ ServeFd("getsockname", [fd |-> req.fd], Failed)
     \/ Serve("getsockname", [fd |-> req.fd], 0, KernelAddr,
              serialize_addr_dt(rtn.data, AddrBytes, KernelAddr))

(* The copy of an option value runs past the data array: at the worker, or   *)
(* at the host when req_getsockopt decodes the reply.                        *)
Overrun ==
  /\ \/ phase = "sent" /\ req.op \in {"SETSOCKOPT", "GETSOCKOPT"} /\ ~OptlenFits(req.data)
     \/ phase = "served" /\ call.op = "getsockopt" /\ ~OptlenFits(reply.data)
  /\ phase' = "crashed"
  /\ UNCHANGED <<calls, fdVars, call, meant, req, ran, out, rtn, reply, got>>

---------------------------------------------------------------------------
(* The hooks from the reply on: the end of set_req_sock, deserialize, and    *)
(* the update of fd_ht                                                       *)

Return(value, output) ==
  /\ phase = "served"
  /\ got' = [value |-> value, errno |-> IF reply.value < 0 THEN reply.errno ELSE 0,
             output |-> output]
  /\ phase' = "idle"
  /\ UNCHANGED <<calls, call, meant, ran, out, rtn, reply>>
ReturnOutput(output) ==
  Return(reply.value, output) /\ UNCHANGED <<fdVars, req>>

ReturnValue ==
  /\ phase = "served" /\ call.op \in {"bind", "listen", "epoll_ctl", "fcntl", "setsockopt"}
  /\ ReturnOutput(NULL)

(* mutant: the descriptors of the standard streams are accepted *)
ReqSockReturnAny ==
  /\ phase = "served" /\ call.op = "socket"
  /\ Return(reply.value, NULL)
  /\ IF reply.value <= 0 THEN UNCHANGED fdVars ELSE HandedOut(reply.value)
  /\ UNCHANGED req
ReqSockReturn ==
  /\ phase = "served" /\ call.op = "socket"
  /\ IF reply.value <= 2
     THEN Return(-1, NULL) /\ UNCHANGED fdVars
     ELSE Return(reply.value, NULL) /\ HandedOut(reply.value)
  /\ UNCHANGED req
(* mutant: the new descriptor is not entered into fd_ht *)
ReqAcceptReturnNoInsert ==
  /\ phase = "served" /\ call.op \in {"accept", "epoll_create1"}
  /\ Return(reply.value, NULL)
  /\ open' = IF reply.value <= 0 THEN open
              ELSE [open EXCEPT !.snic = @ \cup {reply.value}]
  /\ misclosed' = misclosed \ {reply.value}
  /\ UNCHANGED <<routed, connected, req>>
ReqAcceptReturn ==
  /\ phase = "served" /\ call.op \in {"accept", "epoll_create1"}
  /\ Return(reply.value, NULL)
  /\ IF reply.value <= 0 THEN UNCHANGED fdVars ELSE HandedOut(reply.value)
  /\ UNCHANGED req

(* connect returns what the insertion returned. *)
ReqConnectReturn ==
  /\ phase = "served" /\ call.op = "connect"
  /\ Return(1, NULL)
  /\ fd_insertByValue(call.args.fd) /\ connected' = connected \cup {call.args.fd}
  /\ UNCHANGED <<open, misclosed, req>>

(* A close that was meant for the host has closed a descriptor of the        *)
(* SmartNIC and deletes its node.                                            *)
ReqCloseReturn ==
  /\ phase = "served" /\ call.op = "close"
  /\ Return(reply.value, NULL)
  /\ fd_deleteByKey(call.args.fd)
  /\ open' = [open EXCEPT ![meant] = @ \ {call.args.fd}]
  /\ misclosed' = IF meant = "host" THEN misclosed \cup {call.args.fd} ELSE misclosed
  /\ UNCHANGED <<connected, req>>

ReqReadReturn ==
  /\ phase = "served" /\ call.op = "read"
  /\ ReturnOutput(IF reply.value < 0 THEN NULL ELSE Get(reply.data, 0, reply.value))
ReqWriteReturn ==
  /\ phase = "served" /\ call.op = "write"
  /\ Return(reply.value, NULL)
  /\ req' = [req EXCEPT !.data = Blank]
  /\ UNCHANGED fdVars

ReqSelectReturn ==
  /\ phase = "served" /\ call.op = "select"
  /\ ReturnOutput(IF reply.value > 0
                  THEN deserialize_select_fd_set(reply.data, [call.args EXCEPT !.t = NULL])
                  ELSE call.args)
(* mutant: maxevents events are taken from the reply *)
ReqEpollWaitReturnMax ==
  /\ phase = "served" /\ call.op = "epoll_wait"
  /\ ReturnOutput(Rows(reply.data, 16, Least(call.args.maxevents, EventsThatFit), EventBytes))
ReqEpollWaitReturn ==
  /\ phase = "served" /\ call.op = "epoll_wait"
  /\ ReturnOutput(deserialize_epoll_wait_dt(reply.data).events)
(* mutant: a reply with one entry ready is not decoded *)
ReqPollReturnMany ==
  /\ phase = "served" /\ call.op = "poll"
  /\ ReturnOutput(IF reply.value > 1 THEN deserialize_poll_pollfd(reply.data).fds
                  ELSE call.args.fds)
ReqPollReturn ==
  /\ phase = "served" /\ call.op = "poll"
  /\ ReturnOutput(IF reply.value > 0 THEN deserialize_poll_pollfd(reply.data).fds
                  ELSE call.args.fds)

(* The option value is copied to memory that the application does not get. *)
ReqGetsockoptReturn ==
  /\ phase = "served" /\ call.op = "getsockopt"
  /\ ReturnOutput([optlen |-> deserialize_sockopt_dt(reply.data).optlen])
ReqGetpeernameReturn ==
  /\ phase = "served" /\ call.op = "getpeername"
  /\ ReturnOutput(deserialize_addr_dt(reply.data))

(* On success the address is copied a second time, from the wrong offset,    *)
(* and gets the IP address of the host.                                      *)
ReqGetsocknameReturn ==
  /\ phase = "served" /\ call.op = "getsockname"
  /\ ReturnOutput(
       IF reply.value # 0 THEN deserialize_addr_dt(reply.data)
       ELSE [addrlen |-> AddrBytes,
             addr |-> Get(reply.data, 0, 4) \o ClientIp \o Get(reply.data, 8, 8)])

---------------------------------------------------------------------------
Hooks(c) ==
  \/ ReqSock(c) \/ ReqConnect(c) \/ ReqClose(c) \/ ReqBind(c) \/ ReqListen(c)
  \/ ReqAccept(c) \/ ReqRead(c) \/ ReqWrite(c) \/ ReqSelect(c) \/ ReqEpollCreate1(c)
  \/ ReqEpollCtl(c) \/ ReqEpollWait(c) \/ ReqPoll(c) \/ ReqFcntl(c)
  \/ ReqSetsockopt(c) \/ ReqGetsockopt(c) \/ ReqGetpeername(c) \/ ReqGetsockname(c)
  \/ Original(c)

RdmaReqEvent ==
  \/ SockSocket \/ SockAccept \/ SockConnect \/ SockClose \/ SockReadMessage
  \/ SockSendMessage \/ SockBind \/ SockListen \/ SockSelect \/ SockEpollCreate1
  \/ SockEpollCtl \/ SockEpollWait \/ SockPoll \/ SockFcntl \/ SockSetsockopt
  \/ SockGetsockopt \/ SockGetsockname

Returns ==
  \/ ReturnValue \/ ReqSockReturn \/ ReqAcceptReturn \/ ReqConnectReturn
  \/ ReqCloseReturn \/ ReqReadReturn \/ ReqWriteReturn \/ ReqSelectReturn
  \/ ReqEpollWaitReturn \/ ReqPollReturn \/ ReqGetsockoptReturn
  \/ ReqGetpeernameReturn \/ ReqGetsocknameReturn

Next ==
  \/ \E c \in Call : Hooks(c)
  \/ RdmaReqEvent
  \/ Overrun
  \/ Returns

Spec == Init /\ [][Next]_vars

---------------------------------------------------------------------------
OpenTyped ==
  /\ open \in [host : SUBSET Fd, snic : SUBSET Fd]
  /\ misclosed \subseteq Fd /\ connected \subseteq Fd

(* Every variable has its type: the bytes of both messages are bytes, a call  *)
(* adds at most one node of a descriptor to fd_ht, the application holds its  *)
(* own descriptors only, and a reply is there because the SmartNIC's kernel   *)
(* was called (hook.c, rdma_req_event).                                       *)
TypeOK ==
  /\ phase \in {"idle", "sent", "served", "crashed"}
  /\ calls \in 0 .. MaxCalls
  /\ routed \in [Fd -> 0 .. MaxCalls + 1]
  /\ OpenTyped
  /\ call \in Call \cup {NULL} /\ meant \in {"host", "snic", "mixed"}
  /\ req \in Request
  /\ rtn \in Message /\ reply \in Message
  /\ phase = "served" => ran.at = "snic" /\ out.value \in Int32

AtSnic == ran # NULL /\ ran.at = "snic"
Served(op) == AtSnic /\ call.op = op
Finished(op) == Served(op) /\ got # NULL

(* The arguments k of the kernel call are those of the application's call c. *)
Arrived(c, k) ==
  LET a == c.args
  IN  /\ c.op \in {"accept", "close", "read", "epoll_create1", "epoll_wait", "poll",
                    "setsockopt"} => k = a
      /\ c.op = "connect" => k.fd = a.fd /\ (a.family = "inet" => k.port = a.port)
      /\ c.op \in {"bind", "listen", "getsockname"} => k.fd = a.fd
      /\ c.op = "epoll_ctl" =>
           /\ k = [epfd |-> a.epfd, op |-> a.op, fd |-> a.fd, event |-> k.event]
           /\ a.event # NULL => k.event = a.event
      /\ c.op = "write" =>
           /\ k.fd = a.fd /\ Len(k.buf) = Len(a.buf)
           /\ \A i \in 1 .. Copied(Len(a.buf)) : k.buf[i] = a.buf[i]
           /\ Header + Len(a.buf) < DataBytes => k.buf = a.buf
      /\ c.op = "fcntl" => k.cmd = a.cmd

(* Whatever earlier calls left in req.data, the SmartNIC's kernel is called  *)
(* with the application's arguments.  Not so: the type of a socket, the      *)
(* port of a bind, the backlog, the event of an epoll_ctl without one, the   *)
(* end of a message that leaves no room for the header, and of fcntl all     *)
(* but the command.                                                          *)
ArgumentsArrive == AtSnic => Arrived(call, ran.args)

(* The sets and the timeout k of the kernel's select are those of a. *)
SelectArrived(a, k) ==
  /\ k.nfds = a.nfds
  /\ a.r # NULL => k.r \ Clobbered = a.r \ Clobbered
  /\ NULL \notin {a.r, a.w} => k.w = a.w
  /\ NULL \notin {a.r, a.w, a.e} => k.e = a.e
  /\ k.t = IF NULL \in {a.r, a.w, a.e, a.t} THEN Zeros(TimevalBytes) ELSE a.t

(* select reaches the SmartNIC's kernel with the sets and the timeout of the *)
(* application up to the first pointer that is NULL, but for the descriptors *)
(* below 24 of readfds.  A timeout that does not arrive is zero.             *)
SelectArrives == Served("select") => SelectArrived(call.args, ran.args)

(* A select that finds descriptors ready hands the kernel's sets to the      *)
(* application, each one it passed, but for those below 24 of readfds; and   *)
(* a set that arrived comes back with no descriptor it did not have.         *)
SetsReturn ==
  Finished("select") /\ out.value > 0 =>
    LET a == call.args
        g == got.output
    IN  /\ a.r # NULL => g.r \ Clobbered = out.output.r \ Clobbered
        /\ \A f \in {"w", "e"} : a[f] # NULL => g[f] = out.output[f]
        /\ NULL \notin {a.r, a.w} => g.w \subseteq a.w

(* An epoll_wait that does not fail fills the array of the application with  *)
(* the kernel's events in their order, up to the limit of the codec, and     *)
(* never past maxevents.  One that fails decodes an older reply.             *)
EventsReturn ==
  Finished("epoll_wait") /\ out.value >= 0 =>
    /\ got.output = SubSeq(out.output, 1, Least(out.value, EventsThatFit))
    /\ Len(got.output) <= call.args.maxevents

(* A poll that finds descriptors ready hands the kernel's entries to the     *)
(* application, and they are those of the application's array.  One that     *)
(* does not leaves the array alone, revents included, whatever entries an    *)
(* earlier poll left in the reply.                                           *)
PollReturns ==
  Finished("poll") =>
    IF out.value > 0
    THEN /\ got.output = out.output
         /\ \A i \in DOMAIN call.args.fds : got.output[i].fd = call.args.fds[i].fd
    ELSE got.output = call.args.fds

(* The application gets the value, the error and the bytes of its own        *)
(* kernel call, never those of an earlier one.  Not so: connect, which       *)
(* returns 1, and the calls whose handler stores no value.                   *)
ValueReturns ==
  got # NULL /\ call.op \notin {"connect", "setsockopt", "getsockopt", "getpeername"} =>
    /\ got.value = IF call.op = "socket" /\ out.value <= 2 THEN -1 ELSE out.value
    /\ got.errno = out.errno
    /\ call.op = "read" /\ out.value > 0 => got.output = out.output

(* Why ValueReturns holds: a reply has the outcome of the kernel call it     *)
(* answers, if its handler stores one, and nothing else is ever handed to    *)
(* the application.                                                          *)
StoresValue(op) == op \notin {"setsockopt", "getsockopt", "getpeername"}
ValueInv ==
  /\ DOMAIN rtn.data = 0 .. DataBytes - 1
  /\ phase \in {"sent", "served"} => got = NULL
  /\ phase = "sent" =>
       /\ StoresValue(call.op) <=> req.op \notin {"SETSOCKOPT", "GETSOCKOPT"}
       /\ call.op = "read" <=> req.op = "READ"
       /\ req.op = "READ" => req.size \in 1 .. DataBytes
  /\ phase = "served" =>
       /\ out.errno = IF out.value < 0 THEN 1 ELSE 0
       /\ StoresValue(call.op) =>
            reply.value = out.value /\ (out.value < 0 => reply.errno = 1)
       /\ call.op = "read" => out.value \in Int
       /\ call.op = "read" /\ out.value > 0 => Get(reply.data, 0, out.value) = out.output
  /\ ValueReturns

(* A call all of whose descriptors belong to one kernel is made there, if    *)
(* the descriptor that its hook looks up is one of them, though the kernels  *)
(* number their descriptors independently and fd_ht has the number alone.    *)
(* One for the SmartNIC goes to the host only when a close of a descriptor   *)
(* of the host has deleted the node of the same number; one for the host     *)
(* goes to the SmartNIC only when the SmartNIC has that number open, or had  *)
(* it when a connect entered it a second time.                               *)
RightKernel ==
  /\ ran # NULL /\ call.op \notin {"socket", "epoll_create1"}
  /\ LookedUp(call) \in Descriptors(call)
  => /\ meant = "snic" => ran.at = "snic" \/ LookedUp(call) \in misclosed
     /\ meant = "host" => ran.at = "host" \/ LookedUp(call) \in open.snic \cup connected

(* Why RightKernel holds: fd_ht has one node of a number that the SmartNIC   *)
(* has open, and none of another, but for those that were entered twice; a   *)
(* request is on its way only for a number that has a node; and what a reply *)
(* adds to the table is a descriptor that the SmartNIC had not handed out.   *)
RouteInv ==
  /\ routed \in [Fd -> Nat] /\ OpenTyped
  /\ \A f \in open.snic \ misclosed : routed[f] > 0
  /\ \A f \in Fd \ connected : routed[f] = IF f \in open.snic \ misclosed THEN 1 ELSE 0
  /\ phase \in {"sent", "served"} =>
       /\ call.op \notin {"socket", "epoll_create1"} =>
            LookedUp(call) \in Fd /\ routed[LookedUp(call)] > 0
       /\ call.op = "close" => meant \in {"host", "snic"}
  /\ phase = "sent" =>
       /\ call.op = "socket" <=> req.op = "SOCKET"
       /\ call.op = "accept" <=> req.op = "ACCEPT"
       /\ call.op = "epoll_create1" <=> req.op = "EPOLL_CREATE1"
  /\ phase = "served" =>
       /\ ran.at = "snic"
       /\ call.op = "socket" => reply.value \in {-1, 2} \cup FreeFd
       /\ call.op \in {"accept", "epoll_create1"} => reply.value \in {-1} \cup FreeFd
  /\ RightKernel

(* Only a call that reads an option or a peer's name can take a length out   *)
(* of bytes that no call wrote as a length, and run past the data array.     *)
OverrunNeedsQuery == phase = "crashed" => call.op \in {"getsockopt", "getpeername"}

(* Why OverrunNeedsQuery holds: the length in a request of setsockopt is     *)
(* the one that this very call has stored.                                   *)
LengthInv ==
  /\ DOMAIN req.data = 0 .. DataBytes - 1
  /\ phase = "sent" =>
       /\ req.op = "SETSOCKOPT" => OptlenFits(req.data)
       /\ req.op = "GETSOCKOPT" => call.op \in {"getsockopt", "getpeername"}
  /\ OverrunNeedsQuery

(* Why ArgumentsArrive and SelectArrives hold: while the request is on its   *)
(* way, its header and its data have the arguments of the call under way,    *)
(* over whatever the calls before it left there.                             *)
Requested(c, q) ==
  LET a == c.args
  IN  /\ c.op = "accept" => q.op = "ACCEPT" /\ q.fd = a.fd
      /\ c.op = "close" => q.op = "CLOSE" /\ q.fd = a.fd
      /\ c.op = "read" => q.op = "READ" /\ q.fd = a.fd /\ q.size = a.size
      /\ c.op = "connect" =>
           q.op = "CONNECT" /\ q.fd = a.fd /\ (a.family = "inet" => q.port = a.port)
      /\ c.op = "bind" => q.op = "BIND" /\ q.fd = a.fd
      /\ c.op = "listen" => q.op = "LISTEN" /\ q.fd = a.fd
      /\ c.op = "getsockname" => q.op = "GETSOCKNAME" /\ q.fd = a.fd
      /\ c.op = "write" =>
           /\ q.op = "WRITE" /\ q.fd = a.fd /\ q.size = Len(a.buf)
           /\ \A i \in 1 .. Copied(Len(a.buf)) : q.data[i - 1] = a.buf[i]
      /\ c.op = "select" => q.op = "SELECT" /\ SelectStored(q.data, a)
      /\ c.op = "epoll_create1" =>
           q.op = "EPOLL_CREATE1" /\ deserialize_epoll_create_dt(q.data) = a
      /\ c.op = "epoll_ctl" =>
           /\ q.op = "EPOLL_CTL"
           /\ LET k == deserialize_epoll_ctl_dt(q.data)
              IN  /\ k = [epfd |-> a.epfd, op |-> a.op, fd |-> a.fd, event |-> k.event]
                  /\ a.event # NULL => k.event = a.event
      /\ c.op = "epoll_wait" =>
           /\ q.op = "EPOLL_WAIT"
           /\ LET k == deserialize_epoll_wait_dt(q.data)
              IN  a = [epfd |-> k.epfd, maxevents |-> k.maxevents, timeout |-> k.timeout]
      /\ c.op = "poll" => q.op = "POLL" /\ deserialize_poll_pollfd(q.data) = a
      /\ c.op = "fcntl" => q.op = "FCNTL" /\ deserialize_fcntl_dt(q.data).cmd = a.cmd
      /\ c.op = "setsockopt" =>
           /\ q.op = "SETSOCKOPT"
           /\ LET k == deserialize_sockopt_dt(q.data)
              IN  a = [fd |-> q.fd, level |-> k.level, optname |-> k.optname, optval |-> k.optval]
ArgsInv ==
  /\ phase \in {"sent", "served"} => call \in Call
  /\ phase = "sent" => Requested(call, req)
  /\ ArgumentsArrive /\ SelectArrives

(* Why EventsReturn, PollReturns and SetsReturn hold: a reply on its way has *)
(* the output of the kernel call that it answers, in full or as far as the   *)
(* codec goes.                                                               *)
Replied(c, o, data) ==
  /\ c.op = "epoll_wait" /\ o.value >= 0 =>
       LET events == deserialize_epoll_wait_dt(data).events
       IN  /\ events = SubSeq(o.output, 1, Least(o.value, EventsThatFit))
           /\ Len(events) <= c.args.maxevents
  /\ c.op = "poll" /\ o.value > 0 =>
       /\ deserialize_poll_pollfd(data).fds = o.output
       /\ \A i \in DOMAIN c.args.fds : o.output[i].fd = c.args.fds[i].fd
  /\ c.op = "select" /\ o.value > 0 =>
       /\ SelectStored(data, o.output)
       /\ NULL \notin {o.output.r, o.output.w, o.output.e}
       /\ NULL \notin {c.args.r, c.args.w} => o.output.w \subseteq c.args.w
OutputInv ==
  /\ phase = "served" => Replied(call, out, reply.data)
  /\ EventsReturn /\ PollReturns /\ SetsReturn

(* Why TypeOK holds: the call under way has yet to add its node to fd_ht,    *)
(* the length of a message is counted by an int, and the worker decodes the  *)
(* entries of a poll only for a call of poll.                                *)
TypeInv ==
  /\ TypeOK
  /\ \A f \in Fd : routed[f] <= IF phase \in {"sent", "served"} THEN calls ELSE calls + 1
  /\ req.size \in Int32
  /\ phase = "sent" /\ req.op = "POLL" => call.op = "poll"

=============================================================================
