---------------------------- MODULE CallDataProofs ----------------------------
(***************************************************************************)
(* What the calls carry, for every set of calls and every outcome of the   *)
(* kernel: the arguments that reach the SmartNIC's kernel and the output   *)
(* that comes back.  Both rest on the round trips of CodecsProofs and on   *)
(* the invariants of CallArgsProofs.                                       *)
(***************************************************************************)
EXTENDS CallArgsProofs, FiniteSetTheorems

(* What a request says of the call that it carries *)
LEMMA RequestOp ==
  ASSUME NEW c, NEW q, Requested(c, q)
  PROVE  /\ c.op = "accept" => q.op = "ACCEPT"
         /\ c.op = "close" => q.op = "CLOSE"
         /\ c.op = "read" => q.op = "READ"
         /\ c.op = "connect" => q.op = "CONNECT"
         /\ c.op = "bind" => q.op = "BIND"
         /\ c.op = "listen" => q.op = "LISTEN"
         /\ c.op = "getsockname" => q.op = "GETSOCKNAME"
         /\ c.op = "write" => q.op = "WRITE"
         /\ c.op = "select" => q.op = "SELECT"
         /\ c.op = "epoll_create1" => q.op = "EPOLL_CREATE1"
         /\ c.op = "epoll_ctl" => q.op = "EPOLL_CTL"
         /\ c.op = "epoll_wait" => q.op = "EPOLL_WAIT"
         /\ c.op = "poll" => q.op = "POLL"
         /\ c.op = "fcntl" => q.op = "FCNTL"
         /\ c.op = "setsockopt" => q.op = "SETSOCKOPT"
BY DEF Requested

(* A call that carries nothing *)
LEMMA NothingCarried ==
  ASSUME NEW c, NEW k,
         c.op \notin {"accept", "close", "read", "connect", "bind", "listen", "getsockname",
                      "write", "select", "epoll_create1", "epoll_ctl", "epoll_wait", "poll",
                      "fcntl", "setsockopt"}
  PROVE  Arrived(c, k) /\ Requested(c, k)
BY DEF Arrived, Requested

(* It holds before the first call. *)
LEMMA ArgsInit == Init => ArgsInv
BY DEF Init, ArgsInv, ArgumentsArrive, SelectArrives, Served, AtSnic

(* A hook that sends a request with the arguments of its call *)
LEMMA ArgsSend ==
  ASSUME NEW c \in Call, NEW op, NEW fd, NEW size, NEW port, NEW data,
         Send(c, op, fd, size, port, data),
         Requested(c, [op |-> op, fd |-> fd, size |-> size, port |-> port, data |-> data])
  PROVE  ArgsInv'
<1>1. call' = c /\ phase' = "sent" /\ ran' = NULL
      /\ req' = [op |-> op, fd |-> fd, size |-> size, port |-> port, data |-> data]
  BY DEF Send, MakesCall
<1>2. Requested(call, req)'
  BY <1>1, Zenon
<1>. QED BY <1>1, <1>2 DEF ArgsInv, ArgumentsArrive, SelectArrives, Served, AtSnic

(* The worker makes the kernel call with what it has decoded. *)
LEMMA ArgsServe ==
  ASSUME ArgsInv, NEW op, NEW args, NEW value, NEW stored, NEW output, NEW data,
         ServeAs(op, args, value, stored, output, data),
         Arrived(call, args),
         call.op = "select" => SelectArrived(call.args, args)
  PROVE  ArgsInv'
<1>1. phase = "sent" /\ phase' = "served" /\ call' = call /\ ran'.args = args
  BY DEF ServeAs
<1>2. Arrived(call, ran.args)'
  BY <1>1, Zenon
<1>3. call'.op = "select" => SelectArrived(call.args, ran.args)'
  BY <1>1, Zenon
<1>. QED BY <1>1, <1>2, <1>3 DEF ArgsInv, ArgumentsArrive, SelectArrives, Served

(* The arguments that a hook copies into the data array *)
LEMMA WriteRequested ==
  ASSUME NEW d, IsData(d), NEW c \in Call, c.op = "write", NEW q,
         q = [op |-> "WRITE", fd |-> c.args.fd, size |-> Len(c.args.buf), port |-> 0,
              data |-> Put(d, 0, SubSeq(c.args.buf, 1, Copied(Len(c.args.buf))))]
  PROVE  Requested(c, q)
<1>1. c.args.buf \in Seq(Byte) /\ Len(c.args.buf) \in Int32
  BY CallAssumption DEF WellTyped
<1>2. PICK buf : buf = c.args.buf OBVIOUS
<1>3. PICK n : n = Copied(Len(buf)) OBVIOUS
<1>4. n \in 0 .. Len(buf) /\ n <= DataBytes /\ buf \in Seq(Byte)
  BY SMT, <1>1, <1>2, <1>3, CodecAssumption DEF Copied, Header, Int32
<1>5. PICK s : s = SubSeq(buf, 1, n) OBVIOUS
<1>6. Len(s) = n /\ \A i \in 1 .. n : s[i] = buf[i]
  BY SMT, <1>4, <1>5
<1>7. ASSUME NEW i \in 1 .. n PROVE Put(d, 0, s)[i - 1] = buf[i]
  <2>1. i - 1 \in DOMAIN d /\ i - 1 \in 0 .. (0 + Len(s)) - 1 /\ (i - 1) - 0 + 1 = i
    BY SMT, <1>4, <1>6, CodecAssumption DEF IsData
  <2>2. Put(d, 0, s)[i - 1] = s[(i - 1) - 0 + 1]
    BY <2>1 DEF Put
  <2>. QED BY <1>6, <2>1, <2>2
<1>8. q.data = Put(d, 0, s) BY <1>2, <1>3, <1>5
<1>9. \A i \in 1 .. Copied(Len(c.args.buf)) : q.data[i - 1] = c.args.buf[i]
  BY <1>2, <1>3, <1>7, <1>8
<1>. QED BY <1>9 DEF Requested

(* epoll_create1: the flags *)
LEMMA EpollCreate1Requested ==
  ASSUME NEW d, IsData(d), NEW c \in Call, c.op = "epoll_create1", NEW q,
         q.op = "EPOLL_CREATE1", q.data = serialize_epoll_create_dt(d, c.args.flags)
  PROVE  Requested(c, q)
<1>1. c.args \in [flags : Int32] BY CallAssumption DEF WellTyped
<1>2. c.args.flags \in Int32 /\ c.args = [flags |-> c.args.flags] BY <1>1
<1>3. deserialize_epoll_create_dt(q.data) = c.args
  BY <1>2, EpollCreateRoundTrip
<1>. QED BY <1>3 DEF Requested

(* epoll_ctl: the descriptors, the operation and the event *)
LEMMA EpollCtlRequested ==
  ASSUME NEW d, IsData(d), NEW c \in Call, c.op = "epoll_ctl", NEW q, q.op = "EPOLL_CTL",
         q.data = serialize_epoll_ctl_dt(d, c.args.epfd, c.args.op, c.args.fd, c.args.event)
  PROVE  Requested(c, q)
<1>1. c.args \in [epfd : Int32, op : Int32, fd : Int32, event : {NULL} \cup EpollEvent]
  BY CallAssumption DEF WellTyped
<1>2. c.args.epfd \in Int32 /\ c.args.op \in Int32 /\ c.args.fd \in Int32
      /\ c.args.event \in {NULL} \cup EpollEvent
  BY <1>1
<1>3. PICK k : k = deserialize_epoll_ctl_dt(
               serialize_epoll_ctl_dt(d, c.args.epfd, c.args.op, c.args.fd, c.args.event))
  OBVIOUS
<1>4. ASSUME NEW epfd \in Int32, NEW op \in Int32, NEW fd \in Int32,
             NEW event \in {NULL} \cup EpollEvent,
             k = deserialize_epoll_ctl_dt(serialize_epoll_ctl_dt(d, epfd, op, fd, event))
      PROVE  /\ k = [epfd |-> epfd, op |-> op, fd |-> fd, event |-> k.event]
             /\ event # NULL => k.event = event
  BY <1>4, EpollCtlRoundTrip
<1>5. /\ k = [epfd |-> c.args.epfd, op |-> c.args.op, fd |-> c.args.fd, event |-> k.event]
      /\ c.args.event # NULL => k.event = c.args.event
  BY <1>2, <1>3, <1>4, ZenonT(60)
<1>. QED BY <1>3, <1>5 DEF Requested

(* epoll_wait: maxevents and the timeout *)
LEMMA EpollWaitRequested ==
  ASSUME NEW d, IsData(d), NEW c \in Call, c.op = "epoll_wait", NEW q, q.op = "EPOLL_WAIT",
         q.data = serialize_epoll_wait_dt(d, 0, c.args.epfd, c.args.maxevents,
                                          c.args.timeout, <<>>)
  PROVE  Requested(c, q)
<1>1. c.args \in [epfd : Int32, maxevents : Int32, timeout : Int32]
  BY CallAssumption DEF WellTyped
<1>2. c.args.epfd \in Int32 /\ c.args.maxevents \in Int32 /\ c.args.timeout \in Int32
      /\ c.args = [epfd |-> c.args.epfd, maxevents |-> c.args.maxevents,
                   timeout |-> c.args.timeout]
  BY <1>1
<1>3. PICK none : none = <<>> OBVIOUS
<1>4. PICK n : n = 0 OBVIOUS
<1>5. none \in Seq(EpollEvent) /\ n = Len(none) /\ n \in Int32
  BY <1>3, <1>4 DEF Int32
<1>6. PICK k : k = deserialize_epoll_wait_dt(
               serialize_epoll_wait_dt(d, n, c.args.epfd, c.args.maxevents,
                                       c.args.timeout, none))
  OBVIOUS
<1>7. k.epfd = c.args.epfd /\ k.maxevents = c.args.maxevents /\ k.timeout = c.args.timeout
  <2>1. PICK epfd, maxevents, timeout :
          epfd = c.args.epfd /\ maxevents = c.args.maxevents /\ timeout = c.args.timeout
    OBVIOUS
  <2>2. epfd \in Int32 /\ maxevents \in Int32 /\ timeout \in Int32 BY <1>2, <2>1
  <2>3. k = deserialize_epoll_wait_dt(
              serialize_epoll_wait_dt(d, n, epfd, maxevents, timeout, none))
    BY <1>6, <2>1
  <2>4. k.epfd = epfd /\ k.maxevents = maxevents /\ k.timeout = timeout
    BY <1>5, <2>2, <2>3, EpollWaitRoundTrip
  <2>. QED BY <2>1, <2>4
<1>8. c.args = [epfd |-> k.epfd, maxevents |-> k.maxevents, timeout |-> k.timeout]
  BY <1>2, <1>7
<1>. QED BY <1>3, <1>4, <1>6, <1>8 DEF Requested

(* poll: the entries and the timeout *)
LEMMA PollRequested ==
  ASSUME NEW d, IsData(d), NEW c \in Call, c.op = "poll", NEW q, q.op = "POLL",
         q.data = serialize_poll_pollfd(d, c.args.fds, c.args.timeout)
  PROVE  Requested(c, q)
<1>1. c.args \in [timeout : Int32, fds : Seq(PollEntry)] /\ 12 + 8 * Len(c.args.fds) <= DataBytes
  BY CallAssumption DEF WellTyped
<1>2. c.args.timeout \in Int32 /\ c.args.fds \in Seq(PollEntry)
      /\ c.args = [timeout |-> c.args.timeout, fds |-> c.args.fds]
  BY <1>1
<1>3. deserialize_poll_pollfd(q.data) = c.args
  BY <1>1, <1>2, PollRoundTrip
<1>. QED BY <1>3 DEF Requested

(* fcntl: the command *)
LEMMA FcntlRequested ==
  ASSUME NEW d, IsData(d), NEW c \in Call, c.op = "fcntl", NEW q, q.op = "FCNTL", NEW arg,
         q.data = serialize_fcntl_dt(d, c.args.cmd, arg)
  PROVE  Requested(c, q)
<1>1. c.args.cmd \in Int32 BY CallAssumption DEF WellTyped
<1>2. deserialize_fcntl_dt(q.data).cmd = c.args.cmd BY <1>1, FcntlCommand
<1>. QED BY <1>2 DEF Requested

(* setsockopt: level, option and value *)
LEMMA SetsockoptRequested ==
  ASSUME NEW d, IsData(d), NEW c \in Call, c.op = "setsockopt", NEW q, q.op = "SETSOCKOPT",
         q.fd = c.args.fd,
         q.data = serialize_sockopt_dt(d, c.args.level, c.args.optname, c.args.optval)
  PROVE  Requested(c, q)
<1>1. c.args \in [fd : Int32, level : Int32, optname : Int32, optval : Seq(Byte)]
      /\ Len(c.args.optval) <= DataBytes - 12
  BY CallAssumption DEF WellTyped
<1>2. c.args.level \in Int32 /\ c.args.optname \in Int32 /\ c.args.optval \in Seq(Byte)
      /\ c.args = [fd |-> c.args.fd, level |-> c.args.level, optname |-> c.args.optname,
                   optval |-> c.args.optval]
  BY <1>1
<1>3. PICK v : v = c.args.optval OBVIOUS
<1>4. Len(v) \in 0 .. DataBytes - 12 /\ v = [i \in 1 .. Len(v) |-> v[i]]
  BY SMT, <1>1, <1>2, <1>3, CodecAssumption
<1>5. PICK k : k = deserialize_sockopt_dt(
               serialize_sockopt_dt(d, c.args.level, c.args.optname, v))
  OBVIOUS
<1>6. ASSUME NEW level \in Int32, NEW optname \in Int32,
             k = deserialize_sockopt_dt(serialize_sockopt_dt(d, level, optname, v))
      PROVE  k.level = level /\ k.optname = optname /\ k.optval = v
  BY <1>4, <1>6, SockoptRoundTrip
<1>7. c.args = [fd |-> q.fd, level |-> k.level, optname |-> k.optname, optval |-> k.optval]
  <2>1. k.level = c.args.level /\ k.optname = c.args.optname /\ k.optval = v
    BY <1>2, <1>5, <1>6, Zenon
  <2>. QED BY <1>2, <1>3, <2>1
<1>. QED BY <1>3, <1>5, <1>7 DEF Requested

(* select: nfds, the timeout and the sets *)
LEMMA SelectRequested ==
  ASSUME NEW d, IsData(d), NEW c \in Call, c.op = "select", NEW q, q.op = "SELECT",
         q.data = serialize_select_fd_set(d, c.args)
  PROVE  Requested(c, q)
<1>1. c.args \in SelectArg BY CallAssumption DEF WellTyped
<1>2. SelectStored(q.data, c.args) BY <1>1, SelectLayout
<1>. QED BY <1>2 DEF Requested

(* Every hook up to the reply *)
LEMMA ArgsHooks ==
  ASSUME LengthInv, NEW c \in Call, Hooks(c)
  PROVE  ArgsInv'
<1>0. IsData(req.data) BY DEF LengthInv, IsData
<1>1. ASSUME NEW op, NEW fd, NEW size, NEW port, NEW data,
             Send(c, op, fd, size, port, data),
             \A q : q = [op |-> op, fd |-> fd, size |-> size, port |-> port, data |-> data]
                    => Requested(c, q)
      PROVE  ArgsInv'
  BY <1>1, ArgsSend
<1>2. ASSUME NEW q, c.op = "accept", q.op = "ACCEPT", q.fd = c.args.fd
      PROVE  Requested(c, q)
  BY <1>2 DEF Requested
<1>3. ASSUME NEW q, c.op = "close", q.op = "CLOSE", q.fd = c.args.fd
      PROVE  Requested(c, q)
  BY <1>3 DEF Requested
<1>4. ASSUME NEW q, c.op = "read", q.op = "READ", q.fd = c.args.fd, q.size = c.args.size
      PROVE  Requested(c, q)
  BY <1>4 DEF Requested
<1>5. ASSUME NEW q, c.op = "connect", q.op = "CONNECT", q.fd = c.args.fd,
             c.args.family = "inet" => q.port = c.args.port
      PROVE  Requested(c, q)
  BY <1>5 DEF Requested
<1>6. ASSUME NEW q, c.op = "bind", q.op = "BIND", q.fd = c.args.fd
      PROVE  Requested(c, q)
  BY <1>6 DEF Requested
<1>7. ASSUME NEW q, c.op = "listen", q.op = "LISTEN", q.fd = c.args.fd
      PROVE  Requested(c, q)
  BY <1>7 DEF Requested
<1>8. ASSUME NEW q, c.op = "getsockname", q.op = "GETSOCKNAME", q.fd = c.args.fd
      PROVE  Requested(c, q)
  BY <1>8 DEF Requested
<1>9. CASE ReqSock(c) BY <1>1, <1>9, NothingCarried DEF ReqSock
<1>10. CASE ReqConnect(c) BY <1>1, <1>5, <1>10 DEF ReqConnect, SendFd
<1>11. CASE ReqClose(c) BY <1>1, <1>3, <1>11 DEF ReqClose, SendFd
<1>12. CASE ReqBind(c) BY <1>1, <1>6, <1>12 DEF ReqBind, SendFd
<1>13. CASE ReqListen(c) BY <1>1, <1>7, <1>13 DEF ReqListen, SendFd
<1>14. CASE ReqAccept(c) BY <1>1, <1>2, <1>14 DEF ReqAccept, SendFd
<1>15. CASE ReqRead(c) BY <1>1, <1>4, <1>15 DEF ReqRead
<1>16. CASE ReqWrite(c) BY <1>0, <1>1, <1>16, WriteRequested DEF ReqWrite
<1>17. CASE ReqSelect(c) BY <1>0, <1>1, <1>17, SelectRequested DEF ReqSelect
<1>18. CASE ReqEpollCreate1(c)
  BY <1>0, <1>1, <1>18, EpollCreate1Requested DEF ReqEpollCreate1
<1>19. CASE ReqEpollCtl(c) BY <1>0, <1>1, <1>19, EpollCtlRequested DEF ReqEpollCtl
<1>20. CASE ReqEpollWait(c) BY <1>0, <1>1, <1>20, EpollWaitRequested DEF ReqEpollWait
<1>21. CASE ReqPoll(c) BY <1>0, <1>1, <1>21, PollRequested DEF ReqPoll
<1>22. CASE ReqFcntl(c)
  <2>1. PICK arg : Send(c, "FCNTL", FcntlFlag(c.args.cmd), 0, 0,
                        serialize_fcntl_dt(req.data, c.args.cmd, arg))
    BY <1>22 DEF ReqFcntl
  <2>2. c.op = "fcntl" BY <1>22 DEF ReqFcntl
  <2>. QED BY <1>0, <1>1, <2>1, <2>2, FcntlRequested
<1>23. CASE ReqSetsockopt(c) BY <1>0, <1>1, <1>23, SetsockoptRequested DEF ReqSetsockopt
<1>24. CASE ReqGetsockopt(c)
  BY <1>1, <1>24, NothingCarried DEF ReqGetsockopt, SendFd
<1>25. CASE ReqGetpeername(c) BY <1>1, <1>25, NothingCarried DEF ReqGetpeername
<1>26. CASE ReqGetsockname(c) BY <1>1, <1>8, <1>26 DEF ReqGetsockname
<1>27. CASE Original(c)
  <2>1. phase' = "idle" /\ ran'.at = "host" BY <1>27 DEF Original, MakesCall
  <2>. QED BY <2>1 DEF ArgsInv, ArgumentsArrive, SelectArrives, Served, AtSnic
<1>. QED
  BY <1>9, <1>10, <1>11, <1>12, <1>13, <1>14, <1>15, <1>16, <1>17, <1>18, <1>19, <1>20,
     <1>21, <1>22, <1>23, <1>24, <1>25, <1>26, <1>27 DEF Hooks

(* What the worker's decoding yields, for each call *)
LEMMA WriteArrives ==
  ASSUME NEW c \in Call, c.op = "write", NEW q, Requested(c, q), NEW k,
         k = [fd |-> q.fd, buf |-> Get(q.data, 0, q.size)]
  PROVE  Arrived(c, k)
<1>1. c.args.buf \in Seq(Byte) /\ Len(c.args.buf) \in Int32
  BY CallAssumption DEF WellTyped
<1>2. /\ q.fd = c.args.fd /\ q.size = Len(c.args.buf)
      /\ \A i \in 1 .. Copied(Len(c.args.buf)) : q.data[i - 1] = c.args.buf[i]
  BY DEF Requested
<1>3. PICK buf, n, data : buf = c.args.buf /\ n = Len(buf) /\ data = q.data OBVIOUS
<1>4. buf \in Seq(Byte) /\ n \in Nat /\ buf = [i \in 1 .. n |-> buf[i]]
      /\ \A i \in 1 .. Copied(n) : data[i - 1] = buf[i]
  <2>1. buf \in Seq(Byte) /\ n = Len(buf) BY <1>1, <1>3
  <2>2. n \in Nat /\ buf = [i \in 1 .. n |-> buf[i]] BY SMT, <2>1
  <2>3. \A i \in 1 .. Copied(n) : data[i - 1] = buf[i] BY <1>2, <1>3, Zenon
  <2>. QED BY <2>1, <2>2, <2>3
<1>5. Copied(n) <= n /\ Copied(n) \in Int /\ (Header + n < DataBytes => Copied(n) = n)
  BY SMTT(60), <1>4, CodecAssumption DEF Copied, Header
<1>6. k.buf = Get(data, 0, n) BY <1>2, <1>3
<1>7. Len(Get(data, 0, n)) = n /\ \A i \in 1 .. n : Get(data, 0, n)[i] = data[i - 1]
  BY <1>4 DEF Get
<1>8. \A i \in 1 .. Copied(n) : Get(data, 0, n)[i] = buf[i]
  <2>1. n \in Nat BY <1>4
  <2>2. \A i \in 1 .. Copied(n) : i \in 1 .. n BY SMT, <1>5, <2>1
  <2>. QED BY <1>4, <1>7, <2>2, Zenon
<1>9. ASSUME Header + n < DataBytes PROVE Get(data, 0, n) = buf
  <2>1. \A i \in 1 .. n : data[0 + i - 1] = buf[i]
    BY <1>4, <1>5, <1>9
  <2>2. Get(data, 0, n) = [i \in 1 .. n |-> buf[i]]
    BY <2>1 DEF Get
  <2>. QED BY <1>4, <2>2
<1>10. /\ k.fd = c.args.fd /\ Len(k.buf) = Len(c.args.buf)
       /\ \A i \in 1 .. Copied(Len(c.args.buf)) : k.buf[i] = c.args.buf[i]
       /\ Header + Len(c.args.buf) < DataBytes => k.buf = c.args.buf
  BY <1>2, <1>3, <1>6, <1>7, <1>8, <1>9
<1>. QED BY <1>10 DEF Arrived

(* What was stored for a select is what the worker decodes. *)
LEMMA SelectIsArrived ==
  ASSUME NEW a, NEW d, SelectStored(d, a),
         NEW u, u.r # NULL, u.w # NULL, u.e # NULL, u.t = Zeros(TimevalBytes),
         NEW k, k = deserialize_select_fd_set(d, u)
  PROVE  SelectArrived(a, k)
<1>1. u.t # NULL BY CallAssumption
<1>2. /\ k.nfds = a.nfds
      /\ a.r # NULL => k.r \ Clobbered = a.r \ Clobbered
      /\ a.r # NULL /\ a.w # NULL => k.w = a.w
      /\ a.r # NULL /\ a.w # NULL /\ a.e # NULL => k.e = a.e
      /\ a.r # NULL /\ a.w # NULL /\ a.e # NULL /\ a.t # NULL => k.t = a.t
      /\ ~(a.r # NULL /\ a.w # NULL /\ a.e # NULL /\ a.t # NULL) => k.t = Zeros(TimevalBytes)
  BY <1>1, SelectReads
<1>3. k.t = IF NULL \in {a.r, a.w, a.e, a.t} THEN Zeros(TimevalBytes) ELSE a.t
  BY <1>2
<1>. QED BY <1>2, <1>3 DEF SelectArrived

(* The structures that sock_select decodes into: sets with any contents, and *)
(* the timeout {0, 0}.  They are never NULL.                                 *)
LEMMA SelectUninit ==
  ASSUME NEW u \in [{"r", "w", "e"} -> Uninit], NEW v,
         v = [nfds |-> 0, r |-> u["r"], w |-> u["w"], e |-> u["e"], t |-> Zeros(TimevalBytes)]
  PROVE  /\ v.r \in Fds /\ v.w \in Fds /\ v.e \in Fds
         /\ v.r # NULL /\ v.w # NULL /\ v.e # NULL /\ v.t = Zeros(TimevalBytes)
<1>1. u["r"] \in Uninit /\ u["w"] \in Uninit /\ u["e"] \in Uninit OBVIOUS
<1>2. NULL \notin Uninit /\ Uninit \subseteq Fds BY CallAssumption
<1>3. v.r = u["r"] /\ v.w = u["w"] /\ v.e = u["e"] /\ v.t = Zeros(TimevalBytes) OBVIOUS
<1>. QED BY <1>1, <1>2, <1>3, Zenon

(* What the worker hands to the kernel is what the call passed. *)
LEMMA DecodedArrives ==
  ASSUME NEW c \in Call, NEW q, Requested(c, q), NEW k,
         \/ q.op = "ACCEPT" /\ k = [fd |-> q.fd]
         \/ q.op = "CLOSE" /\ k = [fd |-> q.fd]
         \/ q.op = "READ" /\ k = [fd |-> q.fd, size |-> q.size]
         \/ q.op = "CONNECT" /\ k = [fd |-> q.fd, port |-> q.port]
         \/ q.op = "BIND" /\ k.fd = q.fd
         \/ q.op = "LISTEN" /\ k.fd = q.fd
         \/ q.op = "GETSOCKNAME" /\ k.fd = q.fd
         \/ q.op = "WRITE" /\ k = [fd |-> q.fd, buf |-> Get(q.data, 0, q.size)]
         \/ q.op = "EPOLL_CREATE1" /\ k = deserialize_epoll_create_dt(q.data)
         \/ q.op = "EPOLL_CTL" /\ k = deserialize_epoll_ctl_dt(q.data)
         \/ /\ q.op = "EPOLL_WAIT"
            /\ LET a == deserialize_epoll_wait_dt(q.data)
               IN  k = [epfd |-> a.epfd, maxevents |-> a.maxevents, timeout |-> a.timeout]
         \/ q.op = "POLL" /\ k = deserialize_poll_pollfd(q.data)
         \/ q.op = "FCNTL" /\ k.cmd = deserialize_fcntl_dt(q.data).cmd
         \/ /\ q.op = "SETSOCKOPT"
            /\ LET a == deserialize_sockopt_dt(q.data)
               IN  k = [fd |-> q.fd, level |-> a.level, optname |-> a.optname,
                        optval |-> a.optval]
         \/ q.op \in {"SOCKET", "GETSOCKOPT", "SELECT"}
  PROVE  Arrived(c, k)
<1>1. CASE c.op = "accept"
  <2>1. c.args \in [fd : Int32] BY <1>1, CallAssumption DEF WellTyped
  <2>2. q.op = "ACCEPT" /\ q.fd = c.args.fd BY <1>1 DEF Requested
  <2>3. k = c.args BY <2>1, <2>2
  <2>. QED BY <1>1, <2>3 DEF Arrived
<1>2. CASE c.op = "close"
  <2>1. c.args \in [fd : Int32] BY <1>2, CallAssumption DEF WellTyped
  <2>2. q.op = "CLOSE" /\ q.fd = c.args.fd BY <1>2 DEF Requested
  <2>3. k = c.args BY <2>1, <2>2
  <2>. QED BY <1>2, <2>3 DEF Arrived
<1>3. CASE c.op = "read"
  <2>1. c.args \in [fd : Int32, size : 1 .. DataBytes]
    BY <1>3, CallAssumption DEF WellTyped
  <2>2. q.op = "READ" /\ q.fd = c.args.fd /\ q.size = c.args.size BY <1>3 DEF Requested
  <2>3. k = c.args BY <2>1, <2>2
  <2>. QED BY <1>3, <2>3 DEF Arrived
<1>4. CASE c.op = "connect"
  <2>1. q.op = "CONNECT" /\ q.fd = c.args.fd
        /\ (c.args.family = "inet" => q.port = c.args.port)
    BY <1>4 DEF Requested
  <2>2. k.fd = c.args.fd /\ (c.args.family = "inet" => k.port = c.args.port) BY <2>1
  <2>. QED BY <1>4, <2>2 DEF Arrived
<1>5. CASE c.op \in {"bind", "listen", "getsockname"}
  <2>1. q.op \in {"BIND", "LISTEN", "GETSOCKNAME"} /\ q.fd = c.args.fd BY <1>5 DEF Requested
  <2>2. k.fd = c.args.fd BY <2>1
  <2>. QED BY <1>5, <2>2 DEF Arrived
<1>6. CASE c.op = "write"
  <2>1. q.op = "WRITE" BY <1>6, RequestOp
  <2>2. k = [fd |-> q.fd, buf |-> Get(q.data, 0, q.size)] BY <2>1
  <2>. QED BY <1>6, <2>2, WriteArrives
<1>7. CASE c.op = "epoll_create1"
  <2>1. q.op = "EPOLL_CREATE1" /\ deserialize_epoll_create_dt(q.data) = c.args
    BY <1>7 DEF Requested
  <2>2. k = c.args BY <2>1
  <2>. QED BY <1>7, <2>2 DEF Arrived
<1>8. CASE c.op = "epoll_ctl"
  <2>1. q.op = "EPOLL_CTL" BY <1>8, RequestOp
  <2>2. k = deserialize_epoll_ctl_dt(q.data) BY <2>1
  <2>3. /\ k = [epfd |-> c.args.epfd, op |-> c.args.op, fd |-> c.args.fd, event |-> k.event]
        /\ c.args.event # NULL => k.event = c.args.event
    BY <1>8, <2>2, Zenon DEF Requested
  <2>. QED BY <1>8, <2>3 DEF Arrived
<1>9. CASE c.op = "epoll_wait"
  <2>1. q.op = "EPOLL_WAIT" BY <1>9, RequestOp
  <2>2. PICK a : a = deserialize_epoll_wait_dt(q.data) OBVIOUS
  <2>3. k = [epfd |-> a.epfd, maxevents |-> a.maxevents, timeout |-> a.timeout]
    BY <2>1, <2>2
  <2>4. c.args = [epfd |-> a.epfd, maxevents |-> a.maxevents, timeout |-> a.timeout]
    BY <1>9, <2>2, Zenon DEF Requested
  <2>5. k = c.args BY <2>3, <2>4, Zenon
  <2>. QED BY <1>9, <2>5 DEF Arrived
<1>10. CASE c.op = "poll"
  <2>1. q.op = "POLL" /\ deserialize_poll_pollfd(q.data) = c.args
    BY <1>10 DEF Requested
  <2>2. k = c.args BY <2>1
  <2>. QED BY <1>10, <2>2 DEF Arrived
<1>11. CASE c.op = "fcntl"
  <2>1. q.op = "FCNTL" /\ deserialize_fcntl_dt(q.data).cmd = c.args.cmd
    BY <1>11 DEF Requested
  <2>2. k.cmd = c.args.cmd BY <2>1
  <2>. QED BY <1>11, <2>2 DEF Arrived
<1>12. CASE c.op = "setsockopt"
  <2>1. q.op = "SETSOCKOPT" BY <1>12, RequestOp
  <2>2. PICK a : a = deserialize_sockopt_dt(q.data) OBVIOUS
  <2>3. k = [fd |-> q.fd, level |-> a.level, optname |-> a.optname, optval |-> a.optval]
    BY <2>1, <2>2
  <2>4. c.args = [fd |-> q.fd, level |-> a.level, optname |-> a.optname, optval |-> a.optval]
    BY <1>12, <2>2, Zenon DEF Requested
  <2>5. k = c.args BY <2>3, <2>4, Zenon
  <2>. QED BY <1>12, <2>5 DEF Arrived
<1>13. CASE c.op = "select" BY <1>13 DEF Arrived
<1>. QED
  BY <1>1, <1>2, <1>3, <1>4, <1>5, <1>6, <1>7, <1>8, <1>9, <1>10, <1>11, <1>12, <1>13,
     NothingCarried

(* Every case of the worker's switch *)
LEMMA ArgsWorker ==
  ASSUME ArgsInv, RdmaReqEvent
  PROVE  ArgsInv'
<1>. DEFINE Passed(args) ==
       Arrived(call, args) /\ (call.op = "select" => SelectArrived(call.args, args))
<1>1. phase = "sent" BY WorkerStep
<1>2. call \in Call /\ Requested(call, req)
  BY <1>1 DEF ArgsInv
<1>3. ASSUME req.op # "SELECT" PROVE call.op # "select"
  BY <1>2, <1>3, RequestOp
<1>4. ASSUME NEW op, NEW args, NEW v, NEW w, NEW output, NEW data,
             ServeAs(op, args, v, w, output, data), Passed(args)
      PROVE  ArgsInv'
  BY <1>4, ArgsServe
<1>5. ASSUME NEW op, NEW args, NEW v, NEW output, NEW data,
             Serve(op, args, v, output, data), Passed(args)
      PROVE  ArgsInv'
  BY <1>4, <1>5, Zenon DEF Serve
<1>6. ASSUME NEW op, NEW args, NEW values, ServeFd(op, args, values), Passed(args)
      PROVE  ArgsInv'
  BY <1>5, <1>6, Zenon DEF ServeFd
<1>7. CASE SockSocket
  <2>1. req.op = "SOCKET" BY <1>7 DEF SockSocket
  <2>2. \A k : Arrived(call, k) BY <1>2, <2>1, DecodedArrives
  <2>. QED BY <1>3, <1>6, <1>7, <2>1, <2>2, Zenon DEF SockSocket
<1>8. CASE SockAccept
  <2>1. req.op = "ACCEPT" BY <1>8 DEF SockAccept
  <2>2. Arrived(call, [fd |-> req.fd]) BY <1>2, <2>1, DecodedArrives
  <2>. QED BY <1>3, <1>6, <1>8, <2>1, <2>2, Zenon DEF SockAccept
<1>9. CASE SockConnect
  <2>1. req.op = "CONNECT" BY <1>9 DEF SockConnect
  <2>2. Arrived(call, [fd |-> req.fd, port |-> req.port])
    BY <1>2, <2>1, DecodedArrives
  <2>. QED BY <1>3, <1>6, <1>9, <2>1, <2>2, Zenon DEF SockConnect
<1>10. CASE SockClose
  <2>1. req.op = "CLOSE" BY <1>10 DEF SockClose
  <2>2. Arrived(call, [fd |-> req.fd]) BY <1>2, <2>1, DecodedArrives
  <2>. QED BY <1>3, <1>6, <1>10, <2>1, <2>2, Zenon DEF SockClose
<1>11. CASE SockReadMessage
  <2>1. req.op = "READ" BY <1>11 DEF SockReadMessage
  <2>2. Arrived(call, [fd |-> req.fd, size |-> req.size])
    BY <1>2, <2>1, DecodedArrives
  <2>. QED BY <1>3, <1>5, <1>6, <1>11, <2>1, <2>2, Zenon DEF SockReadMessage
<1>12. CASE SockSendMessage
  <2>1. req.op = "WRITE" BY <1>12 DEF SockSendMessage
  <2>2. Arrived(call, [fd |-> req.fd, buf |-> Get(req.data, 0, req.size)])
    BY <1>2, <2>1, DecodedArrives
  <2>. QED BY <1>3, <1>6, <1>12, <2>1, <2>2, Zenon DEF SockSendMessage
<1>13. CASE SockBind
  <2>1. req.op = "BIND" BY <1>13 DEF SockBind
  <2>2. Arrived(call, [fd |-> req.fd, port |-> req.port])
    BY <1>2, <2>1, DecodedArrives
  <2>. QED BY <1>3, <1>6, <1>13, <2>1, <2>2, Zenon DEF SockBind
<1>14. CASE SockListen
  <2>1. req.op = "LISTEN" BY <1>14 DEF SockListen
  <2>2. PICK k : k = [fd |-> req.fd, backlog |-> 1024] BY ZenonT(60)
  <2>3. Arrived(call, k) BY <1>2, <2>1, <2>2, DecodedArrives
  <2>4. \E values : ServeFd("listen", k, values) BY <1>14, <2>2, SMT DEF SockListen
  <2>. QED BY <1>3, <1>6, <2>1, <2>3, <2>4, Zenon
<1>15. CASE SockSelect
  <2>1. req.op = "SELECT" BY <1>15 DEF SockSelect
  <2>2. ASSUME NEW u \in [{"r", "w", "e"} -> Uninit] PROVE Passed(SelectArgs(u))
    <3>1. PICK k : k = SelectArgs(u) OBVIOUS
    <3>2. PICK v : v = [nfds |-> 0, r |-> u["r"], w |-> u["w"], e |-> u["e"],
                        t |-> Zeros(TimevalBytes)]
      OBVIOUS
    <3>3. v.r # NULL /\ v.w # NULL /\ v.e # NULL /\ v.t = Zeros(TimevalBytes)
      BY <3>2, SelectUninit
    <3>4. k = deserialize_select_fd_set(req.data, v) BY <3>1, <3>2, Zenon DEF SelectArgs
    <3>5. call.op = "select" => SelectStored(req.data, call.args) BY <1>2 DEF Requested
    <3>6. call.op = "select" => SelectArrived(call.args, k)
      BY <3>3, <3>4, <3>5, SelectIsArrived
    <3>7. Arrived(call, k) BY <1>2, <2>1, DecodedArrives
    <3>. QED BY <3>1, <3>6, <3>7, Zenon
  <2>. QED BY <1>5, <1>6, <1>15, <2>2, Zenon DEF SockSelect
<1>16. CASE SockEpollCreate1
  <2>1. req.op = "EPOLL_CREATE1" BY <1>16 DEF SockEpollCreate1
  <2>2. Arrived(call, deserialize_epoll_create_dt(req.data))
    BY <1>2, <2>1, DecodedArrives
  <2>. QED BY <1>3, <1>6, <1>16, <2>1, <2>2, Zenon DEF SockEpollCreate1
<1>17. CASE SockEpollCtl
  <2>1. req.op = "EPOLL_CTL" BY <1>17 DEF SockEpollCtl
  <2>2. Arrived(call, deserialize_epoll_ctl_dt(req.data))
    BY <1>2, <2>1, DecodedArrives
  <2>. QED BY <1>3, <1>6, <1>17, <2>1, <2>2, Zenon DEF SockEpollCtl
<1>18. CASE SockEpollWait
  <2>1. req.op = "EPOLL_WAIT" BY <1>18 DEF SockEpollWait
  <2>2. PICK a : a = deserialize_epoll_wait_dt(req.data) OBVIOUS
  <2>3. PICK k : k = [epfd |-> a.epfd, maxevents |-> a.maxevents, timeout |-> a.timeout]
    OBVIOUS
  <2>4. Arrived(call, k) BY <1>2, <2>1, <2>2, <2>3, DecodedArrives
  <2>5. Passed(k) BY <1>3, <2>1, <2>4
  <2>. QED BY <1>5, <1>6, <1>18, <2>2, <2>3, <2>5, Zenon DEF SockEpollWait
<1>19. CASE SockPoll
  <2>1. req.op = "POLL" BY <1>19 DEF SockPoll
  <2>2. Arrived(call, deserialize_poll_pollfd(req.data))
    BY <1>2, <2>1, DecodedArrives
  <2>. QED BY <1>3, <1>5, <1>6, <1>19, <2>1, <2>2, Zenon DEF SockPoll
<1>20. CASE SockFcntl
  <2>1. req.op = "FCNTL" BY <1>20 DEF SockFcntl
  <2>2. PICK a : a = deserialize_fcntl_dt(req.data) OBVIOUS
  <2>3. \A arg : Arrived(call, [fd |-> req.fd, cmd |-> a.cmd, arg |-> arg])
    <3>. TAKE arg
    <3>. PICK k : k = [fd |-> req.fd, cmd |-> a.cmd, arg |-> arg] OBVIOUS
    <3>1. Arrived(call, k) BY <1>2, <2>1, <2>2, DecodedArrives
    <3>. QED BY <3>1
  <2>4. \E arg, values : ServeFd("fcntl", [fd |-> req.fd, cmd |-> a.cmd, arg |-> arg], values)
    BY <1>20, <2>2, Zenon DEF SockFcntl
  <2>. QED BY <1>3, <1>6, <2>1, <2>3, <2>4, Zenon
<1>21. CASE SockSetsockopt
  <2>1. req.op = "SETSOCKOPT" BY <1>21 DEF SockSetsockopt
  <2>2. PICK a : a = deserialize_sockopt_dt(req.data) OBVIOUS
  <2>3. PICK k : k = [fd |-> req.fd, level |-> a.level, optname |-> a.optname,
                      optval |-> a.optval]
    OBVIOUS
  <2>4. Arrived(call, k) BY <1>2, <2>1, <2>2, <2>3, DecodedArrives
  <2>5. Passed(k) BY <1>3, <2>1, <2>4
  <2>. QED BY <1>4, <1>21, <2>2, <2>3, <2>5, Zenon DEF SockSetsockopt
<1>22. CASE SockGetsockopt
  <2>1. req.op = "GETSOCKOPT" BY <1>22 DEF SockGetsockopt
  <2>2. \A k : Arrived(call, k) BY <1>2, <2>1, DecodedArrives
  <2>. QED BY <1>3, <1>4, <1>22, <2>1, <2>2, Zenon DEF SockGetsockopt
<1>23. CASE SockGetsockname
  <2>1. req.op = "GETSOCKNAME" BY <1>23 DEF SockGetsockname
  <2>2. Arrived(call, [fd |-> req.fd]) BY <1>2, <2>1, DecodedArrives
  <2>. QED BY <1>3, <1>5, <1>6, <1>23, <2>1, <2>2, Zenon DEF SockGetsockname
<1>. QED
  BY <1>7, <1>8, <1>9, <1>10, <1>11, <1>12, <1>13, <1>14, <1>15, <1>16, <1>17, <1>18,
     <1>19, <1>20, <1>21, <1>22, <1>23 DEF RdmaReqEvent

(* A hook that returns, and a copy that runs past the array, keep the call   *)
(* and what the kernel was called with.                                      *)
LEMMA ArgsKept ==
  ASSUME ArgsInv, call' = call, ran' = ran, phase' = "idle" \/ phase' = "crashed"
  PROVE  ArgsInv'
<1>1. Arrived(call, ran.args) => Arrived(call, ran.args)' OBVIOUS
<1>2. SelectArrived(call.args, ran.args) => SelectArrived(call.args, ran.args)' OBVIOUS
<1>. QED BY <1>1, <1>2 DEF ArgsInv, ArgumentsArrive, SelectArrives, Served, AtSnic

(* The return to the application *)
LEMMA ArgsReturns ==
  ASSUME ArgsInv, Returns
  PROVE  ArgsInv'
<1>1. ASSUME NEW v, NEW output, Return(v, output)
      PROVE  call' = call /\ ran' = ran /\ phase' = "idle"
  BY <1>1 DEF Return
<1>2. ASSUME NEW output, ReturnOutput(output)
      PROVE  call' = call /\ ran' = ran /\ phase' = "idle"
  BY <1>1, <1>2 DEF ReturnOutput
<1>3. call' = call /\ ran' = ran /\ phase' = "idle"
  <2>1. CASE ReqSockReturn BY <1>1, <2>1, Zenon DEF ReqSockReturn
  <2>. QED
    BY <1>1, <1>2, <2>1, Zenon DEF Returns, ReturnValue, ReqAcceptReturn, ReqConnectReturn,
      ReqCloseReturn, ReqReadReturn, ReqWriteReturn, ReqSelectReturn, ReqEpollWaitReturn,
      ReqPollReturn, ReqGetsockoptReturn, ReqGetpeernameReturn, ReqGetsocknameReturn
<1>. QED BY <1>3, ArgsKept

(* In every state the request under way has the arguments of the call under  *)
(* way, and the kernel of the SmartNIC has been called with them.            *)
THEOREM Carried == Spec => []ArgsInv
<1>1. ASSUME LengthInv, ArgsInv, [Next]_vars PROVE ArgsInv'
  <2>1. CASE \E c \in Call : Hooks(c) BY <1>1, <2>1, ArgsHooks
  <2>2. CASE RdmaReqEvent BY <1>1, <2>2, ArgsWorker
  <2>3. CASE Overrun BY <1>1, <2>3, ArgsKept DEF Overrun
  <2>4. CASE Returns BY <1>1, <2>4, ArgsReturns
  <2>5. CASE UNCHANGED vars
    <3>1. Requested(call, req) => Requested(call, req)' BY <2>5 DEF vars
    <3>2. Arrived(call, ran.args) => Arrived(call, ran.args)' BY <2>5 DEF vars
    <3>3. SelectArrived(call.args, ran.args) => SelectArrived(call.args, ran.args)'
      BY <2>5 DEF vars
    <3>. QED
      BY <1>1, <2>5, <3>1, <3>2, <3>3
      DEF vars, ArgsInv, ArgumentsArrive, SelectArrives, Served, AtSnic
  <2>. QED BY <1>1, <2>1, <2>2, <2>3, <2>4, <2>5 DEF Next
<1>. QED BY <1>1, ArgsInit, LengthsFit, PTL DEF Spec

(* Whatever calls came before, the kernel of the SmartNIC is called with the *)
(* application's arguments, apart from those that ArgumentsArrive excepts.   *)
THEOREM ArgumentsAlwaysArrive == Spec => []ArgumentsArrive
<1>1. ArgsInv => ArgumentsArrive BY DEF ArgsInv
<1>. QED BY <1>1, Carried, PTL

(* For any sets of descriptors and any timeout, select reaches the kernel as *)
(* SelectArrives says, whatever the uninitialised sets held.                 *)
THEOREM SelectAlwaysArrives == Spec => []SelectArrives
<1>1. ArgsInv => SelectArrives BY DEF ArgsInv
<1>. QED BY <1>1, Carried, PTL

---------------------------------------------------------------------------

(* Before the first call there is no output. *)
LEMMA OutputInit == Init => OutputInv
BY DEF Init, OutputInv, EventsReturn, PollReturns, SetsReturn, Finished

(* While the application has no outcome there is none to compare. *)
LEMMA NoOutput ==
  ASSUME got' = NULL, phase' = "served" => Replied(call, out, reply.data)'
  PROVE  OutputInv'
BY DEF OutputInv, EventsReturn, PollReturns, SetsReturn, Finished

(* The worker's reply has the output of the kernel call. *)
LEMMA OutputServe ==
  ASSUME ValueInv, NEW op, NEW args, NEW value, NEW stored, NEW output, NEW data,
         ServeAs(op, args, value, stored, output, data),
         \A o : o.value = value /\ o.output = output => Replied(call, o, data)
  PROVE  OutputInv'
<1>1. /\ phase = "sent" /\ call' = call /\ got' = got
      /\ out' = [value |-> value, errno |-> IF value < 0 THEN 1 ELSE 0, output |-> output]
      /\ reply'.data = data
  BY DEF ServeAs
<1>2. got' = NULL BY <1>1 DEF ValueInv
<1>3. out'.value = value /\ out'.output = output BY <1>1
<1>4. Replied(call', out', reply'.data) BY <1>1, <1>3, Zenon
<1>. QED BY <1>2, <1>4, NoOutput

(* A call without output, and an outcome that no hook decodes *)
LEMMA NothingReplied ==
  ASSUME NEW c, NEW o, NEW d,
         c.op \notin {"epoll_wait", "poll", "select"}
           \/ (c.op \in {"poll", "select"} /\ ~(o.value > 0))
           \/ (~(o.value > 0) /\ ~(o.value >= 0))
  PROVE  Replied(c, o, d)
BY DEF Replied

(* The events in a reply are those the kernel had ready, in their order and  *)
(* no more of them than the call asked for.                                  *)
LEMMA EpollWaitReplied ==
  ASSUME NEW c \in Call, c.op = "epoll_wait", NEW q, Requested(c, q),
         NEW d, IsData(d), NEW a, a = deserialize_epoll_wait_dt(q.data),
         NEW n \in 0 .. Least(a.maxevents, Len(KernelEvents)),
         NEW o, o.value = n, o.output = SubSeq(KernelEvents, 1, n)
  PROVE  Replied(c, o, serialize_epoll_wait_dt(d, n, a.epfd, a.maxevents, a.timeout,
                                               SubSeq(KernelEvents, 1, n)))
<1>1. c.args \in [epfd : Int32, maxevents : Int32, timeout : Int32]
  BY CallAssumption DEF WellTyped
<1>2. c.args = [epfd |-> a.epfd, maxevents |-> a.maxevents, timeout |-> a.timeout]
  BY Zenon DEF Requested
<1>3. PICK epfd, max, t : epfd = a.epfd /\ max = a.maxevents /\ t = a.timeout OBVIOUS
<1>4. epfd \in Int32 /\ max \in Int32 /\ t \in Int32 /\ c.args.maxevents = max
  BY <1>1, <1>2, <1>3
<1>5. KernelEvents \in Seq(EpollEvent) BY CallAssumption
<1>6. n \in Nat /\ n <= max /\ n <= Len(KernelEvents) /\ n \in Int32
  BY SMT, <1>3, <1>4, <1>5 DEF Least, Int32
<1>7. PICK events : events = SubSeq(KernelEvents, 1, n) OBVIOUS
<1>8. events \in Seq(EpollEvent) /\ n = Len(events)
  BY SMT, <1>5, <1>6, <1>7
<1>9. PICK data : data = serialize_epoll_wait_dt(d, n, epfd, max, t, events) OBVIOUS
<1>10. PICK k : k = deserialize_epoll_wait_dt(data) OBVIOUS
<1>11. k.events = SubSeq(events, 1, Least(n, EventsThatFit))
  BY SMTT(60), <1>4, <1>6, <1>8, <1>9, <1>10, EpollWaitRoundTrip
<1>12. PICK m : m = Least(n, EventsThatFit) OBVIOUS
<1>13. m \in 0 .. n
  BY SMT, <1>6, <1>12, CodecAssumption DEF Least, EventsThatFit, EventBytes
<1>14. Len(SubSeq(events, 1, m)) <= max
  BY SMT, <1>4, <1>6, <1>8, <1>13 DEF Int32
<1>15. k.events = SubSeq(o.output, 1, Least(o.value, EventsThatFit))
       /\ Len(k.events) <= c.args.maxevents
  BY <1>4, <1>7, <1>11, <1>12, <1>14, Zenon
<1>16. Replied(c, o, data)
  BY <1>10, <1>15 DEF Replied
<1>. QED BY <1>3, <1>7, <1>9, <1>16

(* What the kernel makes of the entries of poll *)
LEMMA PolledEntries ==
  ASSUME NEW entries \in Seq(PollEntry), NEW revents \in [DOMAIN entries -> {0, 1}], NEW fds,
         fds = KernelPoll(entries, revents)
  PROVE  /\ fds \in Seq(PollEntry) /\ Len(fds) = Len(entries)
         /\ \A i \in DOMAIN entries : fds[i].fd = entries[i].fd
<1>1. ASSUME NEW p \in PollEntry, NEW v \in {0, 1}, NEW r, r = [p EXCEPT !.revents = v]
      PROVE  r \in PollEntry /\ r.fd = p.fd
  <2>1. r = [fd |-> p.fd, events |-> p.events, revents |-> v] BY <1>1 DEF PollEntry
  <2>2. p.fd \in Int32 /\ p.events \in Int16 /\ v \in Int16 BY <1>1, SMT DEF PollEntry, Int16
  <2>3. PICK f, e : f = p.fd /\ e = p.events OBVIOUS
  <2>4. r = [fd |-> f, events |-> e, revents |-> v] /\ f \in Int32 /\ e \in Int16 /\ v \in Int16
    BY <2>1, <2>2, <2>3, Zenon
  <2>. QED BY <2>3, <2>4, Zenon DEF PollEntry
<1>2. PICK n : n = Len(entries) OBVIOUS
<1>3. n \in Nat /\ DOMAIN entries = 1 .. n BY <1>2, SMT
<1>4. DOMAIN fds = 1 .. n BY <1>3, Zenon DEF KernelPoll
<1>5. ASSUME NEW i \in 1 .. n
      PROVE  fds[i] \in PollEntry /\ fds[i].fd = entries[i].fd
  <2>1. entries[i] \in PollEntry BY <1>2, <1>5, SMT
  <2>2. revents[i] \in {0, 1} BY <1>3, <1>5, Zenon
  <2>3. fds[i] = [entries[i] EXCEPT !.revents = revents[i]]
    BY <1>3, <1>5, Zenon DEF KernelPoll
  <2>. QED BY <1>1, <2>1, <2>2, <2>3, ZenonT(60)
<1>6. fds = [i \in 1 .. n |-> fds[i]] BY <1>3, Zenon DEF KernelPoll
<1>7. fds \in Seq(PollEntry) /\ Len(fds) = n
  <2>1. ASSUME NEW f, f = [i \in 1 .. n |-> f[i]], \A i \in 1 .. n : f[i] \in PollEntry
        PROVE  f \in Seq(PollEntry) /\ Len(f) = n
    BY <1>3, <2>1
  <2>2. \A i \in 1 .. n : fds[i] \in PollEntry BY <1>5
  <2>. QED BY <1>6, <2>1, <2>2, Zenon
<1>. QED BY <1>2, <1>3, <1>5, <1>7, Zenon

(* The entries in a reply are those of the call with the kernel's revents. *)
LEMMA PollReplied ==
  ASSUME NEW c \in Call, c.op = "poll", NEW q, Requested(c, q),
         NEW d, IsData(d), NEW a, a = deserialize_poll_pollfd(q.data), NEW fds,
         fds \in Seq(PollEntry) /\ Len(fds) = Len(a.fds),
         \A i \in DOMAIN a.fds : fds[i].fd = a.fds[i].fd,
         NEW o, o.output = fds
  PROVE  Replied(c, o, serialize_poll_pollfd(d, fds, a.timeout))
<1>1. c.args \in [timeout : Int32, fds : Seq(PollEntry)] /\ 12 + 8 * Len(c.args.fds) <= DataBytes
  BY CallAssumption DEF WellTyped
<1>2. a = c.args BY DEF Requested
<1>3. PICK t : t = a.timeout OBVIOUS
<1>4. t \in Int32 /\ 12 + 8 * Len(fds) <= DataBytes
  BY <1>1, <1>2, <1>3
<1>5. deserialize_poll_pollfd(serialize_poll_pollfd(d, fds, t)) = [timeout |-> t, fds |-> fds]
  BY <1>4, PollRoundTrip
<1>6. deserialize_poll_pollfd(serialize_poll_pollfd(d, fds, t)).fds = o.output BY <1>5
<1>7. \A i \in DOMAIN c.args.fds : o.output[i].fd = c.args.fds[i].fd
  BY <1>2
<1>8. Replied(c, o, serialize_poll_pollfd(d, fds, t))
  BY <1>6, <1>7 DEF Replied
<1>. QED BY <1>3, <1>8

(* The sets that the kernel's select leaves *)
LEMMA SelectKept ==
  ASSUME NEW s, s.r \in Fds, s.w \in Fds, s.e \in Fds, NEW ready \in Ready,
         IsSelect(s),
         NEW k, k = KernelSelect(s, ready)
  PROVE  /\ IsSelect(k) /\ k.nfds = s.nfds /\ k.t = s.t
         /\ k.r \in Fds /\ k.w \in Fds /\ k.e \in Fds /\ k.w \subseteq s.w
         /\ k.r # NULL /\ k.w # NULL /\ k.e # NULL
<1>. DEFINE Keep(fds) == fds \cap ready \cap (0 .. s.nfds - 1)
<1>1. k = [s EXCEPT !.r = Keep(s.r), !.w = Keep(s.w), !.e = Keep(s.e)]
  BY Zenon DEF KernelSelect
<1>2. PICK nfds, r, w, e, t : nfds = s.nfds /\ r = s.r /\ w = s.w /\ e = s.e /\ t = s.t
  OBVIOUS
<1>3. s = [nfds |-> nfds, r |-> r, w |-> w, e |-> e, t |-> t] BY <1>2, Zenon DEF IsSelect
<1>4. k = [nfds |-> nfds, r |-> Keep(r), w |-> Keep(w), e |-> Keep(e), t |-> t]
  <2>1. PICK kr, kw, ke : kr = Keep(r) /\ kw = Keep(w) /\ ke = Keep(e) OBVIOUS
  <2>2. k = [s EXCEPT !.r = kr, !.w = kw, !.e = ke] BY <1>1, <1>2, <2>1, Zenon
  <2>3. k = [nfds |-> nfds, r |-> kr, w |-> kw, e |-> ke, t |-> t] BY <1>3, <2>2
  <2>. QED BY <2>1, <2>3, Zenon
<1>5. k.nfds = nfds /\ k.r = Keep(r) /\ k.w = Keep(w) /\ k.e = Keep(e) /\ k.t = t BY <1>4
<1>6. \A fds \in Fds : Keep(fds) \in Fds /\ Keep(fds) \subseteq fds /\ Keep(fds) \in SUBSET ready
  BY DEF Fds
<1>7. \A fds \in SUBSET ready : fds # NULL BY CallAssumption
<1>. HIDE DEF Keep
<1>8. r \in Fds /\ w \in Fds /\ e \in Fds BY <1>2
<1>9. IsSelect(k) BY <1>4, <1>5, Zenon DEF IsSelect
<1>. QED BY <1>2, <1>5, <1>6, <1>7, <1>8, <1>9, Zenon

(* The sets in a reply are those the kernel left, but for the descriptors    *)
(* below 24 of readfds, and they have no descriptor that was not passed.     *)
LEMMA SelectReplied ==
  ASSUME NEW c \in Call, c.op = "select", NEW s, SelectArrived(c.args, s),
         s.r \in Fds, s.w \in Fds, s.e \in Fds, NEW ready \in Ready,
         IsSelect(s),
         NEW k, k = KernelSelect(s, ready), NEW d, IsData(d), NEW o, o.output = k
  PROVE  Replied(c, o, serialize_select_fd_set(d, k))
<1>1. /\ IsSelect(k) /\ k.nfds = s.nfds /\ k.t = s.t
      /\ k.r \in Fds /\ k.w \in Fds /\ k.e \in Fds /\ k.w \subseteq s.w
      /\ k.r # NULL /\ k.w # NULL /\ k.e # NULL
  BY SelectKept, Zenon
<1>2. c.args \in SelectArg BY CallAssumption DEF WellTyped
<1>3. k.nfds \in Int32 /\ k.t \in {NULL} \cup Timeval
  <2>1. k.nfds = c.args.nfds /\ (k.t = Zeros(TimevalBytes) \/ k.t = c.args.t)
    BY <1>1 DEF SelectArrived
  <2>2. c.args.nfds \in Int32 /\ c.args.t \in {NULL} \cup Timeval BY <1>2 DEF SelectArg
  <2>3. Zeros(TimevalBytes) \in Timeval BY DEF Zeros, Timeval, Byte
  <2>. QED BY <2>1, <2>2, <2>3
<1>4. k \in SelectArg
  <2>1. k = [nfds |-> k.nfds, r |-> k.r, w |-> k.w, e |-> k.e, t |-> k.t]
    BY <1>1, Zenon DEF IsSelect
  <2>2. k.r \in {NULL} \cup Fds /\ k.w \in {NULL} \cup Fds /\ k.e \in {NULL} \cup Fds BY <1>1
  <2>. QED BY <1>3, <2>1, <2>2, Zenon DEF SelectArg
<1>5. PICK data : data = serialize_select_fd_set(d, k) OBVIOUS
<1>6. SelectStored(data, k) BY <1>4, <1>5, SelectLayout
<1>7. NULL \notin {c.args.r, c.args.w} => k.w \subseteq c.args.w
  BY <1>1 DEF SelectArrived
<1>8. Replied(c, o, data)
  <2>1. SelectStored(data, o.output) BY <1>6
  <2>2. NULL \notin {o.output.r, o.output.w, o.output.e}
        /\ (NULL \notin {c.args.r, c.args.w} => o.output.w \subseteq c.args.w)
    BY <1>1, <1>7
  <2>. QED BY <2>1, <2>2 DEF Replied
<1>. QED BY <1>5, <1>8

(* Every case of the worker's switch *)
LEMMA OutputWorker ==
  ASSUME ValueInv, ArgsInv, RdmaReqEvent
  PROVE  OutputInv'
<1>1. phase = "sent" BY WorkerStep
<1>2. call \in Call /\ Requested(call, req) BY <1>1 DEF ArgsInv
<1>3. IsData(rtn.data) BY DEF ValueInv, IsData
<1>4. ASSUME req.op \notin {"EPOLL_WAIT", "POLL", "SELECT"}
      PROVE  \A o, d : Replied(call, o, d)
  BY <1>2, <1>4, RequestOp, NothingReplied
<1>5. ASSUME req.op \notin {"EPOLL_WAIT", "POLL", "SELECT"} PROVE OutputInv'
  <2>1. phase' = "served" /\ call' = call /\ got' = got BY WorkerStep
  <2>2. got' = NULL BY <1>1, <2>1 DEF ValueInv
  <2>3. Replied(call', out', reply'.data) BY <1>4, <1>5, <2>1, Zenon
  <2>. QED BY <2>2, <2>3, NoOutput
<1>6. ASSUME NEW op, NEW args, NEW values, ServeFd(op, args, values),
             \A v \in values : (~(v > 0) /\ ~(v >= 0)) \/ (v = 0 /\ req.op = "SELECT")
      PROVE  OutputInv'
  <2>1. PICK v \in values : ServeAs(op, args, v, v, NULL, rtn.data)
    BY <1>6 DEF ServeFd, Serve
  <2>2. (~(v > 0) /\ ~(v >= 0)) \/ (v = 0 /\ call.op \notin {"epoll_wait", "poll"})
    BY <1>2, <1>6, RequestOp
  <2>3. \A o : o.value = v => Replied(call, o, rtn.data)
    BY <2>2, NothingReplied
  <2>. QED BY <2>1, <2>3, OutputServe
<1>7. CASE SockEpollWait
  <2>1. req.op = "EPOLL_WAIT" BY <1>7 DEF SockEpollWait
  <2>2. PICK a : a = deserialize_epoll_wait_dt(req.data) OBVIOUS
  <2>3. PICK args : args = [epfd |-> a.epfd, maxevents |-> a.maxevents, timeout |-> a.timeout]
    OBVIOUS
  <2>4. \/ ServeFd("epoll_wait", args, {-1})
        \/ \E n \in 0 .. Least(a.maxevents, Len(KernelEvents)) :
             ServeAs("epoll_wait", args, n, n, SubSeq(KernelEvents, 1, n),
               serialize_epoll_wait_dt(rtn.data, n, a.epfd, a.maxevents, a.timeout,
                                       SubSeq(KernelEvents, 1, n)))
    BY <1>7, <2>2, <2>3, Zenon DEF SockEpollWait, Serve, Failed
  <2>5. CASE ServeFd("epoll_wait", args, {-1}) BY <1>6, <2>5
  <2>6. ASSUME NEW n \in 0 .. Least(a.maxevents, Len(KernelEvents)),
               ServeAs("epoll_wait", args, n, n, SubSeq(KernelEvents, 1, n),
                 serialize_epoll_wait_dt(rtn.data, n, a.epfd, a.maxevents, a.timeout,
                                         SubSeq(KernelEvents, 1, n)))
        PROVE  OutputInv'
    <3>1. PICK events : events = SubSeq(KernelEvents, 1, n) OBVIOUS
    <3>2. PICK data : data = serialize_epoll_wait_dt(rtn.data, n, a.epfd, a.maxevents,
                                                     a.timeout, events)
      OBVIOUS
    <3>3. ServeAs("epoll_wait", args, n, n, events, data) BY <2>6, <3>1, <3>2, Zenon
    <3>4. ASSUME NEW o, o.value = n, o.output = events PROVE Replied(call, o, data)
      <4>1. CASE call.op = "epoll_wait"
        BY <1>2, <1>3, <2>2, <3>1, <3>2, <3>4, <4>1, EpollWaitReplied, Zenon
      <4>2. CASE call.op # "epoll_wait"
        BY <1>2, <2>1, <4>2, RequestOp, NothingReplied
      <4>. QED BY <4>1, <4>2
    <3>. QED BY <3>3, <3>4, OutputServe
  <2>. QED BY <2>4, <2>5, <2>6
<1>8. CASE SockPoll
  <2>1. req.op = "POLL" BY <1>8 DEF SockPoll
  <2>2. PICK a : a = deserialize_poll_pollfd(req.data) OBVIOUS
  <2>3. CASE ServeFd("poll", a, {-1}) BY <1>6, <2>3
  <2>4. ASSUME NEW revents \in [DOMAIN a.fds -> {0, 1}], NEW fds, NEW n,
               fds = KernelPoll(a.fds, revents),
               Serve("poll", a, n, fds, serialize_poll_pollfd(rtn.data, fds, a.timeout))
        PROVE  OutputInv'
    <3>1. PICK data : data = serialize_poll_pollfd(rtn.data, fds, a.timeout) OBVIOUS
    <3>2. ServeAs("poll", a, n, n, fds, data) BY <2>4, <3>1, Zenon DEF Serve
    <3>3. ASSUME NEW o, o.output = fds PROVE Replied(call, o, data)
      <4>1. CASE call.op = "poll"
        <5>1. call.args \in [timeout : Int32, fds : Seq(PollEntry)]
          BY <1>2, <4>1, CallAssumption, Zenon DEF WellTyped
        <5>2. a = call.args BY <1>2, <2>2, <4>1, Zenon DEF Requested
        <5>3. a.fds \in Seq(PollEntry) BY <5>1, <5>2, Zenon
        <5>4. /\ fds \in Seq(PollEntry) /\ Len(fds) = Len(a.fds)
              /\ \A i \in DOMAIN a.fds : fds[i].fd = a.fds[i].fd
          BY <2>4, <5>3, PolledEntries, Zenon
        <5>. QED BY <1>2, <1>3, <2>2, <3>1, <3>3, <4>1, <5>4, PollReplied, Zenon
      <4>2. CASE call.op # "poll"
        <5>1. call.op \notin {"epoll_wait", "poll", "select"}
          BY <1>2, <2>1, <4>2, RequestOp, Zenon
        <5>. QED BY <5>1, NothingReplied, Zenon
      <4>. QED BY <4>1, <4>2
    <3>. QED BY <3>2, <3>3, OutputServe, Zenon
  <2>5. \/ ServeFd("poll", a, {-1})
        \/ \E revents \in [DOMAIN a.fds -> {0, 1}] : \E fds, n :
             /\ fds = KernelPoll(a.fds, revents)
             /\ Serve("poll", a, n, fds, serialize_poll_pollfd(rtn.data, fds, a.timeout))
    BY <1>8, <2>2, Zenon DEF SockPoll, Failed
  <2>. QED BY <2>3, <2>4, <2>5, Zenon
<1>9. CASE SockSelect
  <2>1. req.op = "SELECT" BY <1>9 DEF SockSelect
  <2>2. PICK u \in [{"r", "w", "e"} -> Uninit] :
          \/ ServeFd("select", SelectArgs(u), Failed \cup {0})
          \/ \E ready \in Ready :
               LET k == KernelSelect(SelectArgs(u), ready)
               IN  Serve("select", SelectArgs(u), FoundReady(k), k,
                         serialize_select_fd_set(rtn.data, k))
    BY <1>9, Zenon DEF SockSelect
  <2>3. CASE ServeFd("select", SelectArgs(u), Failed \cup {0})
    BY <1>6, <2>1, <2>3 DEF Failed
  <2>4. PICK s : s = SelectArgs(u) OBVIOUS
  <2>5. ASSUME NEW ready \in Ready, NEW k, k = KernelSelect(s, ready), NEW n,
               Serve("select", s, n, k, serialize_select_fd_set(rtn.data, k))
        PROVE  OutputInv'
    <3>1. PICK data : data = serialize_select_fd_set(rtn.data, k) OBVIOUS
    <3>2. ServeAs("select", s, n, n, k, data) BY <2>5, <3>1, Zenon DEF Serve
    <3>3. PICK v : v = [nfds |-> 0, r |-> u["r"], w |-> u["w"], e |-> u["e"],
                        t |-> Zeros(TimevalBytes)]
      OBVIOUS
    <3>4. /\ v.r \in Fds /\ v.w \in Fds /\ v.e \in Fds
          /\ v.r # NULL /\ v.w # NULL /\ v.e # NULL /\ v.t = Zeros(TimevalBytes)
      BY <3>3, SelectUninit, Zenon
    <3>5. s = deserialize_select_fd_set(req.data, v) BY <2>4, <3>3, Zenon DEF SelectArgs
    <3>6. s.r \in Fds /\ s.w \in Fds /\ s.e \in Fds
          /\ IsSelect(s)
      BY <3>4, <3>5, SelectIsRead, Zenon
    <3>7. ASSUME NEW o, o.output = k PROVE Replied(call, o, data)
      <4>1. CASE call.op = "select"
        <5>1. SelectStored(req.data, call.args) BY <1>2, <4>1, Zenon DEF Requested
        <5>2. SelectArrived(call.args, s) BY <3>4, <3>5, <5>1, SelectIsArrived, Zenon
        <5>. QED BY <1>2, <1>3, <2>5, <3>1, <3>6, <3>7, <4>1, <5>2, SelectReplied, Zenon
      <4>2. CASE call.op # "select"
        <5>1. call.op \notin {"epoll_wait", "poll", "select"}
          BY <1>2, <2>1, <4>2, RequestOp, Zenon
        <5>. QED BY <5>1, NothingReplied, Zenon
      <4>. QED BY <4>1, <4>2
    <3>. QED BY <3>2, <3>7, OutputServe, Zenon
  <2>. QED BY <2>2, <2>3, <2>4, <2>5, Zenon
<1>. QED
  <2>1. CASE SockSocket BY <1>5, <2>1 DEF SockSocket
  <2>2. CASE SockAccept BY <1>5, <2>2 DEF SockAccept
  <2>3. CASE SockConnect BY <1>5, <2>3 DEF SockConnect
  <2>4. CASE SockClose BY <1>5, <2>4 DEF SockClose
  <2>5. CASE SockReadMessage BY <1>5, <2>5 DEF SockReadMessage
  <2>6. CASE SockSendMessage BY <1>5, <2>6 DEF SockSendMessage
  <2>7. CASE SockBind BY <1>5, <2>7 DEF SockBind
  <2>8. CASE SockListen BY <1>5, <2>8 DEF SockListen
  <2>9. CASE SockEpollCreate1 BY <1>5, <2>9 DEF SockEpollCreate1
  <2>10. CASE SockEpollCtl BY <1>5, <2>10 DEF SockEpollCtl
  <2>11. CASE SockFcntl BY <1>5, <2>11 DEF SockFcntl
  <2>12. CASE SockSetsockopt BY <1>5, <2>12 DEF SockSetsockopt
  <2>13. CASE SockGetsockopt BY <1>5, <2>13 DEF SockGetsockopt
  <2>14. CASE SockGetsockname BY <1>5, <2>14 DEF SockGetsockname
  <2>. QED
    BY <1>7, <1>8, <1>9, <2>1, <2>2, <2>3, <2>4, <2>5, <2>6, <2>7, <2>8, <2>9, <2>10,
       <2>11, <2>12, <2>13, <2>14 DEF RdmaReqEvent

(* What a hook hands to the application is the output in the reply. *)
LEMMA OutputReturn ==
  ASSUME NEW value, NEW output, Return(value, output),
         call.op = "epoll_wait" /\ out.value >= 0 =>
           /\ output = SubSeq(out.output, 1, Least(out.value, EventsThatFit))
           /\ Len(output) <= call.args.maxevents,
         call.op = "poll" =>
           IF out.value > 0
           THEN /\ output = out.output
                /\ \A i \in DOMAIN call.args.fds : output[i].fd = call.args.fds[i].fd
           ELSE output = call.args.fds,
         call.op = "select" /\ out.value > 0 =>
           /\ call.args.r # NULL => output.r \ Clobbered = out.output.r \ Clobbered
           /\ call.args.w # NULL => output.w = out.output.w
           /\ call.args.e # NULL => output.e = out.output.e
           /\ NULL \notin {call.args.r, call.args.w} => output.w \subseteq call.args.w
  PROVE  OutputInv'
<1>1. phase' = "idle" /\ got'.output = output /\ UNCHANGED <<call, out>>
  BY DEF Return
<1>2. EventsReturn'
  <2>1. SubSeq(out'.output, 1, Least(out'.value, EventsThatFit))
          = SubSeq(out.output, 1, Least(out.value, EventsThatFit))
    BY <1>1, Zenon
  <2>. QED BY <1>1, <2>1 DEF EventsReturn, Finished, Served, Least, EventsThatFit
<1>3. PollReturns' BY <1>1 DEF PollReturns, Finished, Served
<1>4. SetsReturn' BY <1>1 DEF SetsReturn, Finished, Served, Clobbered
<1>. QED BY <1>1, <1>2, <1>3, <1>4 DEF OutputInv

(* Every hook from the reply on *)
LEMMA OutputReturns ==
  ASSUME ValueInv, ArgsInv, OutputInv, Returns
  PROVE  OutputInv'
<1>1. ASSUME NEW v, NEW output, Return(v, output), call.op \notin {"epoll_wait", "poll", "select"}
      PROVE  OutputInv'
  BY <1>1, OutputReturn
<1>2. ASSUME NEW output, ReturnOutput(output), call.op \notin {"epoll_wait", "poll", "select"}
      PROVE  OutputInv'
  BY <1>1, <1>2, Zenon DEF ReturnOutput
<1>3. ASSUME phase = "served", call.op \in {"epoll_wait", "poll", "select"}
      PROVE  reply.value = out.value /\ Replied(call, out, reply.data)
  BY <1>3 DEF ValueInv, OutputInv, StoresValue
<1>4. CASE ReqEpollWaitReturn
  <2>1. phase = "served" /\ call.op = "epoll_wait" BY <1>4 DEF ReqEpollWaitReturn
  <2>2. PICK events : events = deserialize_epoll_wait_dt(reply.data).events OBVIOUS
  <2>3. Return(reply.value, events)
    BY <1>4, <2>2, Zenon DEF ReqEpollWaitReturn, ReturnOutput
  <2>4. out.value >= 0 =>
          /\ events = SubSeq(out.output, 1, Least(out.value, EventsThatFit))
          /\ Len(events) <= call.args.maxevents
    BY <1>3, <2>1, <2>2, Zenon DEF Replied
  <2>. QED BY <2>1, <2>3, <2>4, OutputReturn
<1>5. CASE ReqPollReturn
  <2>1. phase = "served" /\ call.op = "poll" BY <1>5 DEF ReqPollReturn
  <2>2. reply.value = out.value /\ Replied(call, out, reply.data) BY <1>3, <2>1
  <2>3. CASE out.value > 0
    <3>1. PICK fds : fds = deserialize_poll_pollfd(reply.data).fds OBVIOUS
    <3>2. Return(reply.value, fds)
      BY <1>5, <2>2, <2>3, <3>1 DEF ReqPollReturn, ReturnOutput
    <3>3. /\ fds = out.output
          /\ \A i \in DOMAIN call.args.fds : out.output[i].fd = call.args.fds[i].fd
      BY <2>1, <2>2, <2>3, <3>1, Zenon DEF Replied
    <3>. QED BY <2>1, <2>3, <3>2, <3>3, OutputReturn
  <2>4. CASE ~(out.value > 0)
    <3>1. Return(reply.value, call.args.fds)
      BY <1>5, <2>2, <2>4 DEF ReqPollReturn, ReturnOutput
    <3>. QED BY <2>1, <2>4, <3>1, OutputReturn
  <2>. QED BY <2>3, <2>4
<1>6. CASE ReqSelectReturn
  <2>1. phase = "served" /\ call.op = "select" BY <1>6 DEF ReqSelectReturn
  <2>2. reply.value = out.value /\ Replied(call, out, reply.data) BY <1>3, <2>1
  <2>3. CASE out.value > 0
    <3>1. PICK u : u = [call.args EXCEPT !.t = NULL] OBVIOUS
    <3>2. PICK g : g = deserialize_select_fd_set(reply.data, u) OBVIOUS
    <3>3. Return(reply.value, g)
      BY <1>6, <2>2, <2>3, <3>1, <3>2, Zenon DEF ReqSelectReturn, ReturnOutput
    <3>4. PICK s : s = out.output OBVIOUS
    <3>5. /\ SelectStored(reply.data, s) /\ NULL \notin {s.r, s.w, s.e}
          /\ NULL \notin {call.args.r, call.args.w} => s.w \subseteq call.args.w
      BY <2>1, <2>2, <2>3, <3>4, Zenon DEF Replied
    <3>6. u.r = call.args.r /\ u.w = call.args.w /\ u.e = call.args.e
      <4>1. call \in Call BY <2>1 DEF ArgsInv
      <4>2. call.args \in SelectArg BY <2>1, <4>1, CallAssumption DEF WellTyped
      <4>. QED BY <3>1, <4>2 DEF SelectArg
    <3>7. s.r # NULL /\ s.w # NULL /\ s.e # NULL BY <3>5
    <3>8. /\ u.r # NULL => g.r \ Clobbered = s.r \ Clobbered
          /\ u.w # NULL => g.w = s.w
          /\ u.e # NULL => g.e = s.e
      <4>1. SelectStored(reply.data, s) BY <3>5
      <4>. QED BY <3>2, <3>7, <4>1, SelectReads
    <3>9. /\ call.args.r # NULL => g.r \ Clobbered = out.output.r \ Clobbered
          /\ call.args.w # NULL => g.w = out.output.w
          /\ call.args.e # NULL => g.e = out.output.e
          /\ NULL \notin {call.args.r, call.args.w} => g.w \subseteq call.args.w
      BY <3>4, <3>5, <3>6, <3>8
    <3>. QED BY <2>1, <3>3, <3>9, OutputReturn, Zenon
  <2>4. CASE ~(out.value > 0)
    <3>1. PICK output : Return(reply.value, output)
      BY <1>6, Zenon DEF ReqSelectReturn, ReturnOutput
    <3>. QED BY <2>1, <2>4, <3>1, OutputReturn
  <2>. QED BY <2>3, <2>4
<1>7. CASE ReturnValue BY <1>2, <1>7 DEF ReturnValue
<1>8. CASE ReqSockReturn BY <1>1, <1>8 DEF ReqSockReturn
<1>9. CASE ReqAcceptReturn BY <1>1, <1>9 DEF ReqAcceptReturn
<1>10. CASE ReqConnectReturn BY <1>1, <1>10 DEF ReqConnectReturn
<1>11. CASE ReqCloseReturn BY <1>1, <1>11 DEF ReqCloseReturn
<1>12. CASE ReqReadReturn
  <2>1. call.op \notin {"epoll_wait", "poll", "select"} BY <1>12 DEF ReqReadReturn
  <2>. QED BY <1>2, <1>12, <2>1, Zenon DEF ReqReadReturn
<1>13. CASE ReqWriteReturn
  <2>1. call.op \notin {"epoll_wait", "poll", "select"} BY <1>13 DEF ReqWriteReturn
  <2>. QED BY <1>1, <1>13, <2>1, Zenon DEF ReqWriteReturn
<1>14. CASE ReqGetsockoptReturn BY <1>2, <1>14 DEF ReqGetsockoptReturn
<1>15. CASE ReqGetpeernameReturn BY <1>2, <1>15 DEF ReqGetpeernameReturn
<1>16. CASE ReqGetsocknameReturn
  <2>1. call.op \notin {"epoll_wait", "poll", "select"} BY <1>16 DEF ReqGetsocknameReturn
  <2>. QED BY <1>2, <1>16, <2>1, Zenon DEF ReqGetsocknameReturn
<1>. QED
  BY <1>4, <1>5, <1>6, <1>7, <1>8, <1>9, <1>10, <1>11, <1>12, <1>13, <1>14, <1>15,
     <1>16 DEF Returns

(* Every hook up to the reply forgets the outcome of the call before. *)
LEMMA OutputHooks ==
  ASSUME NEW c \in Call, Hooks(c)
  PROVE  OutputInv'
<1>1. ASSUME NEW op, NEW fd, NEW size, NEW port, NEW data, Send(c, op, fd, size, port, data)
      PROVE  got' = NULL /\ phase' = "sent"
  BY <1>1 DEF Send
<1>2. CASE Original(c) BY <1>2, NoOutput DEF Original, MakesCall
<1>3. CASE ReqBind(c) BY <1>1, <1>3, NoOutput DEF ReqBind, SendFd
<1>4. CASE ~Original(c) /\ ~ReqBind(c)
  <2>1. got' = NULL /\ phase' = "sent"
    BY <1>1, <1>4, Zenon DEF Hooks, SendFd, ReqSock, ReqConnect, ReqClose, ReqListen,
      ReqAccept, ReqRead, ReqWrite, ReqSelect, ReqEpollCreate1, ReqEpollCtl, ReqEpollWait,
      ReqPoll, ReqFcntl, ReqSetsockopt, ReqGetsockopt, ReqGetpeername, ReqGetsockname
  <2>. QED BY <2>1, NoOutput
<1>. QED BY <1>2, <1>3, <1>4

(* In every state the reply under way has the output of the kernel call that *)
(* it answers.                                                               *)
THEOREM OutputCarried == Spec => []OutputInv
<1>1. ASSUME ValueInv, ArgsInv, OutputInv, [Next]_vars PROVE OutputInv'
  <2>1. CASE \E c \in Call : Hooks(c) BY <2>1, OutputHooks
  <2>2. CASE RdmaReqEvent BY <1>1, <2>2, OutputWorker
  <2>3. CASE Overrun
    <3>1. phase \in {"sent", "served"} /\ phase' = "crashed" /\ got' = got
      BY <2>3 DEF Overrun
    <3>2. got' = NULL BY <1>1, <3>1 DEF ValueInv
    <3>. QED BY <3>1, <3>2, NoOutput
  <2>4. CASE Returns BY <1>1, <2>4, OutputReturns
  <2>5. CASE UNCHANGED vars
    <3>1. UNCHANGED <<phase, call, ran, out, reply, got>> BY <2>5 DEF vars
    <3>2. Replied(call, out, reply.data) => Replied(call, out, reply.data)' BY <3>1
    <3>3. EventsReturn => EventsReturn'
      <4>1. SubSeq(out'.output, 1, Least(out'.value, EventsThatFit))
              = SubSeq(out.output, 1, Least(out.value, EventsThatFit))
        BY <3>1, Zenon
      <4>. QED BY <3>1, <4>1 DEF EventsReturn, Finished, Served, AtSnic, Least, EventsThatFit
    <3>4. PollReturns => PollReturns' BY <3>1 DEF PollReturns, Finished, Served, AtSnic
    <3>5. SetsReturn => SetsReturn' BY <3>1 DEF SetsReturn, Finished, Served, AtSnic, Clobbered
    <3>. QED BY <1>1, <3>1, <3>2, <3>3, <3>4, <3>5 DEF OutputInv
  <2>. QED BY <1>1, <2>1, <2>2, <2>3, <2>4, <2>5 DEF Next
<1>. QED BY <1>1, OutputInit, Answered, Carried, PTL DEF Spec

(* An epoll_wait that does not fail gives the application the kernel's       *)
(* events in their order, as far as the codec's limit goes and never past    *)
(* maxevents, for any events and any limit.                                  *)
THEOREM EventsAlwaysReturn == Spec => []EventsReturn
<1>1. OutputInv => EventsReturn BY DEF OutputInv
<1>. QED BY <1>1, OutputCarried, PTL

(* A poll gives the application the kernel's entries or leaves its array     *)
(* alone, for arrays of any length that fits.                                *)
THEOREM PollAlwaysReturns == Spec => []PollReturns
<1>1. OutputInv => PollReturns BY DEF OutputInv
<1>. QED BY <1>1, OutputCarried, PTL

(* A select gives the application the sets that the kernel left, but for the *)
(* descriptors below 24 of readfds, for sets of any size.                    *)
THEOREM SetsAlwaysReturn == Spec => []SetsReturn
<1>1. OutputInv => SetsReturn BY DEF OutputInv
<1>. QED BY <1>1, OutputCarried, PTL

---------------------------------------------------------------------------
(* Types *)

(* A descriptor is an int. *)
LEMMA FdIsInt == Fd \subseteq Int32 /\ {-1, 0, 2} \cup NewFd \subseteq Int32
<1>1. FdSetBytes \in Nat /\ 24 * FdSetBytes <= 2147483647
  BY SMT, CodecAssumption, ByteAssumption DEF Int32
<1>2. 3 .. 8 * FdSetBytes - 1 \subseteq Int32 BY SMT, <1>1 DEF Int32
<1>3. Fd \subseteq 3 .. 8 * FdSetBytes - 1 BY CallAssumption DEF Fd
<1>4. -1 \in Int32 /\ 0 \in Int32 /\ 2 \in Int32 BY SMT DEF Int32
<1>5. NewFd \subseteq Fd BY DEF Fd
<1>. QED BY <1>2, <1>3, <1>4, <1>5, Zenon

(* The cleared array is one of bytes. *)
LEMMA BlankData == Blank \in Data
BY DEF Blank, Data, Byte

(* The stores after a reply leave a message. *)
LEMMA AfterReplyType ==
  ASSUME NEW op, NEW m \in Message
  PROVE  AfterReply(op, m) \in Message
<1>1. PICK e, v, d : e = m.errno /\ v = m.value /\ d = m.data OBVIOUS
<1>2. e \in {0, 1} /\ v \in Int32 /\ d \in Data /\ m = [errno |-> e, value |-> v, data |-> d]
  BY <1>1 DEF Message
<1>3. 0 \in Nat /\ 2 \in Nat /\ 8 \in Nat OBVIOUS
<1>4. Put(d, 0, Zeros(8)) \in Data /\ Put(d, 0, Zeros(2)) \in Data
  BY <1>2, <1>3, ZerosBytes, PutData, Zenon
<1>5. 0 \in Int32 /\ Blank \in Data BY FdIsInt, BlankData
<1>6. PICK p, q : p = Put(d, 0, Zeros(8)) /\ q = Put(d, 0, Zeros(2)) OBVIOUS
<1>7. CASE op = "READ" /\ m.value > 0
  <2>1. AfterReply(op, m) = [m EXCEPT !.errno = 0, !.data = p]
    BY <1>1, <1>6, <1>7, Zenon DEF AfterReply
  <2>. QED BY <1>2, <1>4, <1>6, <2>1 DEF Message
<1>8. CASE op = "WRITE"
  <2>1. AfterReply(op, m) = [errno |-> 0, value |-> 0, data |-> q]
    BY <1>1, <1>6, <1>8 DEF AfterReply
  <2>. QED BY <1>4, <1>5, <1>6, <2>1 DEF Message
<1>9. CASE op = "SELECT"
  <2>1. AfterReply(op, m) = [m EXCEPT !.errno = 0, !.data = Blank] BY <1>9 DEF AfterReply
  <2>. QED BY <1>2, <1>5, <2>1 DEF Message
<1>10. CASE ~(op = "READ" /\ m.value > 0) /\ op # "WRITE" /\ op # "SELECT"
  <2>1. AfterReply(op, m) = [m EXCEPT !.errno = 0] BY <1>10 DEF AfterReply
  <2>. QED BY <1>2, <2>1 DEF Message
<1>. QED BY <1>7, <1>8, <1>9, <1>10

(* A call is meant for one of the kernels or for both. *)
LEMMA OwnersType ==
  ASSUME NEW c
  PROVE  Owners(c) \subseteq {"host", "snic", "mixed"}
<1>1. PICK owners : owners = {k \in {"host", "snic"} : Descriptors(c) \subseteq open[k]}
  OBVIOUS
<1>2. owners \subseteq {"host", "snic"} BY <1>1
<1>3. Owners(c) = CASE c.op \in {"socket", "epoll_create1"} -> {"snic"}
                    [] owners = {} -> {"mixed"}
                    [] OTHER -> owners
  BY <1>1, Zenon DEF Owners
<1>4. CASE c.op \in {"socket", "epoll_create1"} \/ owners = {}
  <2>1. Owners(c) \in {{"snic"}, {"mixed"}} BY <1>3, <1>4
  <2>. QED BY <2>1
<1>5. CASE ~(c.op \in {"socket", "epoll_create1"} \/ owners = {})
  <2>1. Owners(c) = owners BY <1>3, <1>5
  <2>. QED BY <1>2, <2>1
<1>. QED BY <1>4, <1>5

(* The types before the first call *)
LEMMA TypeInit == Init => TypeInv
<1>. SUFFICES ASSUME Init PROVE TypeInv OBVIOUS
<1>1. 0 \in Int32 /\ Blank \in Data /\ UninitValue \subseteq Int32 /\ MaxCalls \in Nat
  BY FdIsInt, BlankData, CallAssumption, ByteAssumption
<1>2. req \in Request /\ req.size = 0 /\ reply \in Message
  <2>1. /\ req = [op |-> "SOCKET", fd |-> 0, size |-> 0, port |-> 0, data |-> Blank]
        /\ reply = [errno |-> 0, value |-> 0, data |-> Blank]
    BY DEF Init
  <2>2. req \in Request /\ req.size = 0 BY <1>1, <2>1 DEF Request, ReqOp
  <2>3. reply \in Message BY <1>1, <2>1 DEF Message
  <2>. QED BY <2>2, <2>3
<1>3. rtn \in Message
  <2>1. [i \in 0 .. DataBytes - 1 |-> 170] \in Data BY DEF Data, Byte
  <2>2. PICK d : d = [i \in 0 .. DataBytes - 1 |-> 170] OBVIOUS
  <2>3. PICK v \in UninitValue : rtn = [errno |-> 0, value |-> v, data |-> d]
    BY <2>2 DEF Init
  <2>. QED BY <1>1, <2>1, <2>2, <2>3 DEF Message
<1>4. routed \in [Fd -> 0 .. MaxCalls + 1] /\ (\A f \in Fd : routed[f] <= 1) BY <1>1 DEF Init
<1>5. phase = "idle" /\ calls = 0 /\ OpenTyped /\ call = NULL /\ meant = "mixed"
  BY DEF Init, Fd, OpenTyped
<1>6. calls \in 0 .. MaxCalls /\ calls + 1 = 1 BY <1>1, <1>5
<1>. QED BY <1>1, <1>2, <1>3, <1>4, <1>5, <1>6 DEF TypeInv, TypeOK

(* A hook sends a request. *)
LEMMA TypeSend ==
  ASSUME TypeInv, NEW c \in Call, NEW op \in ReqOp, NEW fd \in Int32, NEW size \in Nat,
         size \in Int32, NEW port \in Nat, NEW data \in Data,
         Send(c, op, fd, size, port, data), op = "POLL" => c.op = "poll"
  PROVE  TypeInv'
<1>1. /\ phase = "idle" /\ calls < MaxCalls /\ call' = c /\ calls' = calls + 1
      /\ req' = [op |-> op, fd |-> fd, size |-> size, port |-> port, data |-> data]
      /\ phase' = "sent" /\ UNCHANGED <<routed, open, misclosed, connected, rtn, reply>>
      /\ meant' \in {"host", "snic", "mixed"}
  BY OwnersType DEF Send, MakesCall, fdVars
<1>2. req' \in Request /\ req'.size = size /\ req'.op = op BY <1>1 DEF Request
<1>3. calls' \in 0 .. MaxCalls /\ \A f \in Fd : routed'[f] <= calls'
  BY <1>1, ByteAssumption DEF TypeInv, TypeOK
<1>. QED BY <1>1, <1>2, <1>3 DEF TypeInv, TypeOK, OpenTyped

(* The original function is called. *)
LEMMA TypeOriginal ==
  ASSUME TypeInv, NEW c \in Call, Original(c)
  PROVE  TypeInv'
<1>1. /\ phase = "idle" /\ calls < MaxCalls /\ call' = c /\ calls' = calls + 1
      /\ open' = IF c.op = "close" THEN [open EXCEPT ![meant'] = @ \ {c.args.fd}] ELSE open
      /\ UNCHANGED <<phase, routed, misclosed, connected, req, rtn, reply>>
      /\ meant' \in {"host", "snic", "mixed"}
  BY OwnersType DEF Original, MakesCall
<1>2. calls' \in 0 .. MaxCalls /\ \A f \in Fd : routed'[f] <= calls' + 1
  BY <1>1, ByteAssumption DEF TypeInv, TypeOK
<1>3. OpenTyped' BY <1>1 DEF TypeInv, TypeOK, OpenTyped
<1>. QED BY <1>1, <1>2, <1>3 DEF TypeInv, TypeOK

(* The worker replies. *)
LEMMA TypeServe ==
  ASSUME TypeInv, NEW op, NEW args, NEW value \in Int32, NEW stored \in Int32, NEW output,
         NEW data \in Data, ServeAs(op, args, value, stored, output, data)
  PROVE  TypeInv'
<1>1. /\ phase = "sent" /\ phase' = "served" /\ ran'.at = "snic" /\ out'.value = value
      /\ UNCHANGED <<calls, routed, open, misclosed, connected, call, meant, req>>
  BY DEF ServeAs, fdVars
<1>2. reply' \in Message
  <2>1. PICK e : e = IF value < 0 THEN 1 ELSE rtn.errno OBVIOUS
  <2>2. e \in {0, 1} BY <2>1 DEF TypeInv, TypeOK, Message
  <2>3. reply' = [errno |-> e, value |-> stored, data |-> data] BY <2>1, Zenon DEF ServeAs
  <2>. QED BY <2>2, <2>3 DEF Message
<1>3. rtn' \in Message BY <1>2, AfterReplyType DEF ServeAs
<1>. QED BY <1>1, <1>2, <1>3 DEF TypeInv, TypeOK, OpenTyped

(* A hook returns. *)
LEMMA TypeReturn ==
  ASSUME TypeInv, NEW value, NEW output, Return(value, output),
         OpenTyped', req' \in Request, req'.size = req.size,
         routed' \in [Fd -> Nat], \A f \in Fd : routed'[f] <= routed[f] + 1
  PROVE  TypeInv'
<1>1. phase = "served" /\ phase' = "idle" /\ UNCHANGED <<calls, call, meant, ran, out, rtn, reply>>
  BY DEF Return
<1>2. \A f \in Fd : routed'[f] <= calls' + 1 /\ routed'[f] \in 0 .. MaxCalls + 1
  BY <1>1, ByteAssumption DEF TypeInv, TypeOK
<1>3. routed' \in [Fd -> 0 .. MaxCalls + 1] BY <1>2
<1>. QED BY <1>1, <1>2, <1>3 DEF TypeInv, TypeOK

(* Every hook up to the reply *)
LEMMA TypeHooks ==
  ASSUME TypeInv, NEW c \in Call, Hooks(c)
  PROVE  TypeInv'
<1>1. req.data \in Data /\ 0 \in Nat /\ 0 \in Int32
  BY FdIsInt DEF TypeInv, TypeOK, Request
<1>2. WellTyped(c) /\ Int32 \subseteq Int BY CallAssumption DEF Int32
<1>3. ASSUME NEW op \in ReqOp, NEW fd \in Int32, NEW port \in Nat, NEW data \in Data,
             Send(c, op, fd, 0, port, data), op = "POLL" => c.op = "poll"
      PROVE  TypeInv'
  BY <1>1, <1>3, TypeSend
<1>4. ASSUME NEW op \in ReqOp, NEW port \in Nat, SendFd(c, op, port), op # "POLL",
             c.args.fd \in Int32
      PROVE  TypeInv'
  BY <1>1, <1>3, <1>4 DEF SendFd
<1>5. CASE ReqSock(c) BY <1>1, <1>3, <1>5 DEF ReqSock, ReqOp
<1>6. CASE ReqConnect(c)
  <2>1. PICK port : port = IF c.args.family \in {"inet", "inet6"} THEN c.args.port ELSE 0
    OBVIOUS
  <2>2. SendFd(c, "CONNECT", port) /\ c.op = "connect" BY <1>6, <2>1, Zenon DEF ReqConnect
  <2>3. c.args.fd \in Int32 /\ port \in Nat BY <1>2, <2>1, <2>2 DEF WellTyped
  <2>. QED BY <1>4, <2>2, <2>3 DEF ReqOp
<1>7. CASE ReqClose(c)
  <2>1. SendFd(c, "CLOSE", 0) /\ c.op = "close" BY <1>7 DEF ReqClose
  <2>2. c.args.fd \in Int32 BY <1>2, <2>1 DEF WellTyped
  <2>. QED BY <1>1, <1>4, <2>1, <2>2 DEF ReqOp
<1>8. CASE ReqBind(c)
  <2>1. SendFd(c, "BIND", 8080) /\ c.op = "bind" /\ 8080 \in Nat BY SMT, <1>8 DEF ReqBind
  <2>2. c.args.fd \in Int32 BY <1>2, <2>1 DEF WellTyped
  <2>. QED BY SMT, <1>4, <2>1, <2>2 DEF ReqOp
<1>9. CASE ReqListen(c)
  <2>1. SendFd(c, "LISTEN", 0) /\ c.op = "listen" BY <1>9 DEF ReqListen
  <2>2. c.args.fd \in Int32 BY <1>2, <2>1 DEF WellTyped
  <2>. QED BY <1>1, <1>4, <2>1, <2>2 DEF ReqOp
<1>10. CASE ReqAccept(c)
  <2>1. SendFd(c, "ACCEPT", 0) /\ c.op = "accept" BY <1>10 DEF ReqAccept
  <2>2. c.args.fd \in Int32 BY <1>2, <2>1 DEF WellTyped
  <2>. QED BY <1>1, <1>4, <2>1, <2>2 DEF ReqOp
<1>11. CASE ReqRead(c)
  <2>1. Send(c, "READ", c.args.fd, c.args.size, 0, req.data) /\ c.op = "read"
    BY <1>11 DEF ReqRead
  <2>2. c.args.fd \in Int32 /\ c.args.size \in 1 .. DataBytes BY <1>2, <2>1 DEF WellTyped
  <2>3. c.args.size \in Nat /\ c.args.size \in Int32 BY SMT, <2>2, CodecAssumption DEF Int32
  <2>. QED BY <1>1, <2>1, <2>2, <2>3, TypeSend DEF ReqOp
<1>12. CASE ReqWrite(c)
  <2>1. PICK buf : buf = c.args.buf OBVIOUS
  <2>2. PICK n : n = Len(buf) OBVIOUS
  <2>3. Send(c, "WRITE", c.args.fd, n, 0, Put(req.data, 0, SubSeq(buf, 1, Copied(n))))
        /\ c.op = "write"
    BY <1>12, <2>1, <2>2, Zenon DEF ReqWrite
  <2>4. c.args.fd \in Int32 /\ buf \in Seq(Byte) /\ n \in Int32
    BY <1>2, <2>1, <2>2, <2>3 DEF WellTyped
  <2>5. n \in Nat /\ Copied(n) \in 0 .. n
    <3>1. n \in Nat BY <2>2, <2>4
    <3>2. DataBytes \in Nat /\ 24 < DataBytes BY SMT, CodecAssumption DEF Header
    <3>. QED BY <3>1, <3>2 DEF Copied, Header
  <2>6. SubSeq(buf, 1, Copied(n)) \in Seq(Byte)
    <3>1. PICK k \in 0 .. n : k = Copied(n) BY <2>5
    <3>2. SubSeq(buf, 1, k) \in Seq(Byte) BY <2>2, <2>4, <3>1
    <3>. QED BY <3>1, <3>2
  <2>7. Put(req.data, 0, SubSeq(buf, 1, Copied(n))) \in Data BY <1>1, <2>6, PutData, Zenon
  <2>8. PICK d \in Data : d = Put(req.data, 0, SubSeq(buf, 1, Copied(n))) BY <2>7
  <2>9. Send(c, "WRITE", c.args.fd, n, 0, d) BY <2>3, <2>8
  <2>. QED BY <1>1, <2>4, <2>5, <2>9, TypeSend DEF ReqOp
<1>13. CASE ReqSelect(c)
  <2>1. PICK d : d = serialize_select_fd_set(req.data, c.args) OBVIOUS
  <2>2. Send(c, "SELECT", 0, 0, 0, d) /\ c.op = "select" BY <1>13, <2>1 DEF ReqSelect
  <2>3. c.args.nfds \in Int /\ c.args.t \in {NULL} \cup Timeval
    BY <1>2, <2>2 DEF WellTyped, SelectArg
  <2>4. d \in Data BY <1>1, <2>1, <2>3, SelectData
  <2>. QED BY <1>1, <1>3, <2>2, <2>4 DEF ReqOp
<1>14. CASE ReqEpollCreate1(c)
  <2>1. PICK d : d = serialize_epoll_create_dt(req.data, c.args.flags) OBVIOUS
  <2>2. Send(c, "EPOLL_CREATE1", 0, 0, 0, d) /\ c.op = "epoll_create1"
    BY <1>14, <2>1 DEF ReqEpollCreate1
  <2>3. c.args.flags \in Int BY <1>2, <2>2 DEF WellTyped
  <2>4. d \in Data BY <1>1, <2>1, <2>3, EpollCreateData
  <2>. QED BY <1>1, <1>3, <2>2, <2>4 DEF ReqOp
<1>15. CASE ReqEpollCtl(c)
  <2>1. PICK a : a = c.args OBVIOUS
  <2>2. PICK d : d = serialize_epoll_ctl_dt(req.data, a.epfd, a.op, a.fd, a.event) OBVIOUS
  <2>3. Send(c, "EPOLL_CTL", a.epfd, 0, 0, d) /\ c.op = "epoll_ctl"
    BY <1>15, <2>1, <2>2, Zenon DEF ReqEpollCtl
  <2>4. a \in [epfd : Int32, op : Int32, fd : Int32, event : {NULL} \cup EpollEvent]
    BY <1>2, <2>1, <2>3, Zenon DEF WellTyped
  <2>5. a.epfd \in Int32 /\ a.op \in Int32 /\ a.fd \in Int32 /\ a.event \in {NULL} \cup EpollEvent
    BY <2>4
  <2>6. d \in Data BY <1>1, <1>2, <2>2, <2>5, EpollCtlData, Zenon
  <2>. QED BY <1>1, <1>3, <2>3, <2>5, <2>6 DEF ReqOp
<1>16. CASE ReqEpollWait(c)
  <2>1. PICK a : a = c.args OBVIOUS
  <2>2. PICK d : d = serialize_epoll_wait_dt(req.data, 0, a.epfd, a.maxevents, a.timeout, <<>>)
    OBVIOUS
  <2>3. Send(c, "EPOLL_WAIT", a.epfd, 0, 0, d) /\ c.op = "epoll_wait"
    BY <1>16, <2>1, <2>2, Zenon DEF ReqEpollWait
  <2>4. a \in [epfd : Int32, maxevents : Int32, timeout : Int32]
    BY <1>2, <2>1, <2>3, Zenon DEF WellTyped
  <2>5. a.epfd \in Int32 /\ a.maxevents \in Int32 /\ a.timeout \in Int32 BY <2>4
  <2>6. <<>> \in Seq(EpollEvent) /\ 0 <= Len(<<>>) OBVIOUS
  <2>7. d \in Data BY <1>1, <1>2, <2>2, <2>5, <2>6, EpollWaitData, Zenon
  <2>. QED BY <1>1, <1>3, <2>3, <2>5, <2>7 DEF ReqOp
<1>17. CASE ReqPoll(c)
  <2>1. PICK a : a = c.args OBVIOUS
  <2>2. PICK d : d = serialize_poll_pollfd(req.data, a.fds, a.timeout) OBVIOUS
  <2>3. Send(c, "POLL", LookedUp(c), 0, 0, d) /\ c.op = "poll"
    BY <1>17, <2>1, <2>2, Zenon DEF ReqPoll
  <2>4. a \in [timeout : Int32, fds : Seq(PollEntry)] /\ a.fds # <<>>
        /\ 12 + 8 * Len(a.fds) <= DataBytes
    BY <1>2, <2>1, <2>3, Zenon DEF WellTyped
  <2>5. a.timeout \in Int32 /\ a.fds \in Seq(PollEntry) BY <2>4
  <2>6. Len(a.fds) \in Int32 /\ Len(a.fds) > 0
    BY SMT, <2>4, <2>5, CodecAssumption DEF Int32
  <2>7. LookedUp(c) \in Int32
    <3>1. LookedUp(c) = a.fds[1].fd BY <2>1, <2>3 DEF LookedUp
    <3>2. a.fds[1] \in PollEntry BY <2>5, <2>6
    <3>. QED BY <3>1, <3>2 DEF PollEntry
  <2>8. d \in Data BY <1>1, <1>2, <2>2, <2>5, <2>6, PollData, Zenon
  <2>. QED BY <1>1, <1>3, <2>3, <2>7, <2>8 DEF ReqOp
<1>18. CASE ReqFcntl(c)
  <2>1. PICK arg \in {c.args.arg, BadArg} :
          Send(c, "FCNTL", FcntlFlag(c.args.cmd), 0, 0,
               serialize_fcntl_dt(req.data, c.args.cmd, arg))
    BY <1>18 DEF ReqFcntl
  <2>2. c.op = "fcntl" BY <1>18 DEF ReqFcntl
  <2>3. c.args.cmd \in Int /\ c.args.arg \in Seq(Byte)
        /\ ArgBytes(FcntlFlag(c.args.cmd)) <= Len(c.args.arg)
    BY <1>2, <2>2 DEF WellTyped
  <2>4. PICK n : n = ArgBytes(FcntlFlag(c.args.cmd)) OBVIOUS
  <2>5. n \in Nat /\ (n \in {0, 4} \/ n = FlockBytes) /\ FcntlFlag(c.args.cmd) \in 0 .. 2
    BY <2>3, <2>4, FcntlFlagType, Zenon
  <2>6. arg \in Seq(Byte) /\ n <= Len(arg)
    <3>1. BadArg \in Seq(Byte) /\ n <= Len(BadArg) BY <2>5, ByteAssumption
    <3>. QED BY <2>1, <2>3, <2>4, <3>1
  <2>7. PICK d : d = serialize_fcntl_dt(req.data, c.args.cmd, arg) OBVIOUS
  <2>8. d \in Data BY <1>1, <2>3, <2>4, <2>6, <2>7, FcntlData, Zenon
  <2>9. FcntlFlag(c.args.cmd) \in Int32 BY SMT, <2>5 DEF Int32
  <2>. QED BY <1>1, <1>3, <2>1, <2>7, <2>8, <2>9 DEF ReqOp
<1>19. CASE ReqSetsockopt(c)
  <2>1. PICK a : a = c.args OBVIOUS
  <2>2. PICK d : d = serialize_sockopt_dt(req.data, a.level, a.optname, a.optval) OBVIOUS
  <2>3. Send(c, "SETSOCKOPT", a.fd, 0, 0, d) /\ c.op = "setsockopt"
    BY <1>19, <2>1, <2>2, Zenon DEF ReqSetsockopt
  <2>4. a \in [fd : Int32, level : Int32, optname : Int32, optval : Seq(Byte)]
    BY <1>2, <2>1, <2>3, Zenon DEF WellTyped
  <2>5. a.fd \in Int32 /\ a.level \in Int32 /\ a.optname \in Int32 /\ a.optval \in Seq(Byte)
    BY <2>4
  <2>6. d \in Data BY <1>1, <1>2, <2>2, <2>5, SockoptData, Zenon
  <2>. QED BY <1>1, <1>3, <2>3, <2>5, <2>6 DEF ReqOp
<1>20. CASE ReqGetsockopt(c)
  <2>1. SendFd(c, "GETSOCKOPT", 0) /\ c.op = "getsockopt" BY <1>20 DEF ReqGetsockopt
  <2>2. c.args.fd \in Int32 BY <1>2, <2>1 DEF WellTyped
  <2>. QED BY <1>1, <1>4, <2>1, <2>2 DEF ReqOp
<1>21. CASE ReqGetpeername(c) \/ ReqGetsockname(c)
  <2>1. PICK a : a = c.args OBVIOUS
  <2>2. PICK d : d = serialize_addr_dt(req.data, a.addrlen, a.addr) OBVIOUS
  <2>3. /\ Send(c, "GETSOCKOPT", a.fd, 0, 0, d) \/ Send(c, "GETSOCKNAME", a.fd, 0, 0, d)
        /\ c.op \in {"getpeername", "getsockname"}
    BY <1>21, <2>1, <2>2, Zenon DEF ReqGetpeername, ReqGetsockname
  <2>4. a \in [fd : Int32, addrlen : Int32, addr : Seq(Byte)]
    BY <1>2, <2>1, <2>3, Zenon DEF WellTyped
  <2>5. a.fd \in Int32 /\ a.addrlen \in Int32 /\ a.addr \in Seq(Byte) BY <2>4
  <2>6. d \in Data BY <1>1, <1>2, <2>2, <2>5, AddrData, Zenon
  <2>. QED BY <1>1, <1>3, <2>3, <2>5, <2>6 DEF ReqOp
<1>22. CASE Original(c) BY <1>22, TypeOriginal
<1>. QED
  BY <1>5, <1>6, <1>7, <1>8, <1>9, <1>10, <1>11, <1>12, <1>13, <1>14, <1>15, <1>16,
     <1>17, <1>18, <1>19, <1>20, <1>21, <1>22 DEF Hooks

(* What the worker decodes for a select: sets of descriptors and a timeout *)
LEMMA SelectReadTypes ==
  ASSUME NEW data \in Data, NEW v, v.t = Zeros(TimevalBytes),
         NEW s, s = deserialize_select_fd_set(data, v)
  PROVE  s.nfds \in Int32 /\ s.t \in Timeval
<1>1. DataBytes \in Nat /\ FdSetBytes \in Nat /\ 21 + 3 * FdSetBytes <= DataBytes
      /\ TimevalBytes = 16
  BY SMT, CodecAssumption DEF TimevalBytes
<1>2. 0 \in Nat /\ 0 + 4 <= DataBytes BY <1>1
<1>3. IntAt(data, 0) \in Int32 BY <1>2, IntAtType
<1>4. PICK g : g = Get(data, 5 + 3 * FdSetBytes, TimevalBytes) OBVIOUS
<1>5. g \in Timeval
  <2>1. ASSUME NEW i \in 1 .. 16 PROVE data[5 + 3 * FdSetBytes + i - 1] \in Byte
    <3>1. 5 + 3 * FdSetBytes + i - 1 \in 0 .. DataBytes - 1 BY <1>1
    <3>. QED BY <3>1 DEF Data
  <2>2. g = [i \in 1 .. 16 |-> data[5 + 3 * FdSetBytes + i - 1]] BY <1>1, <1>4 DEF Get
  <2>. QED BY <1>1, <2>1, <2>2 DEF Timeval
<1>6. Zeros(TimevalBytes) \in Timeval BY DEF Zeros, Timeval, Byte
<1>7. s.nfds = IntAt(data, 0) /\ (s.t = v.t \/ s.t = g)
  BY <1>4, Zenon DEF deserialize_select_fd_set
<1>. QED BY <1>3, <1>5, <1>6, <1>7

(* A set of descriptors has at most as many as an fd_set has bits. *)
LEMMA FdsCount ==
  ASSUME NEW fds \in Fds
  PROVE  Cardinality(fds) \in 0 .. 8 * FdSetBytes
<1>1. PICK m \in Nat : m = 8 * FdSetBytes BY SMT, CodecAssumption
<1>2. IsFiniteSet(0 .. m - 1) /\ Cardinality(0 .. m - 1) = m
  <2>1. 0 \in Int /\ m - 1 \in Int /\ (IF 0 > m - 1 THEN 0 ELSE (m - 1) - 0 + 1) = m OBVIOUS
  <2>. QED BY <2>1, FS_Interval
<1>3. fds \subseteq 0 .. m - 1 BY <1>1 DEF Fds
<1>4. IsFiniteSet(fds) /\ Cardinality(fds) <= m BY <1>2, <1>3, FS_Subset
<1>5. Cardinality(fds) \in Nat BY <1>4, FS_CardinalityType
<1>. QED BY <1>1, <1>4, <1>5

(* The number that select returns *)
LEMMA FoundIsInt ==
  ASSUME NEW k, k.r \in Fds, k.w \in Fds, k.e \in Fds
  PROVE  FoundReady(k) \in Int32
<1>1. PICK x, y, z : x = Cardinality(k.r) /\ y = Cardinality(k.w) /\ z = Cardinality(k.e)
  OBVIOUS
<1>2. x \in 0 .. 8 * FdSetBytes /\ y \in 0 .. 8 * FdSetBytes /\ z \in 0 .. 8 * FdSetBytes
  BY <1>1, FdsCount
<1>3. FdSetBytes \in Nat /\ 24 * FdSetBytes \in Int32 BY SMT, CodecAssumption, ByteAssumption
<1>4. x + y + z \in Int32 BY SMT, <1>2, <1>3 DEF Int32
<1>. QED BY <1>1, <1>4, Zenon DEF FoundReady

(* The number that poll returns *)
LEMMA PolledIsInt ==
  ASSUME NEW n \in Nat, n \in Int32, NEW S, S \subseteq 1 .. n
  PROVE  Cardinality(S) \in Int32
<1>1. IsFiniteSet(1 .. n) /\ Cardinality(1 .. n) = n
  <2>1. 1 \in Int /\ n \in Int /\ (IF 1 > n THEN 0 ELSE n - 1 + 1) = n OBVIOUS
  <2>. QED BY <2>1, FS_Interval
<1>2. IsFiniteSet(S) /\ Cardinality(S) <= n BY <1>1, FS_Subset
<1>3. Cardinality(S) \in Nat BY <1>2, FS_CardinalityType
<1>. QED BY SMT, <1>2, <1>3 DEF Int32

(* Every case of the worker's switch *)
LEMMA TypeWorker ==
  ASSUME TypeInv, ArgsInv, RdmaReqEvent
  PROVE  TypeInv'
<1>1. phase = "sent" BY WorkerStep
<1>2. call \in Call /\ Requested(call, req) BY <1>1 DEF ArgsInv
<1>3. /\ req.data \in Data /\ req.size \in Nat /\ req.size \in Int32
      /\ rtn.data \in Data /\ rtn.value \in Int32 /\ Int32 \subseteq Int
      /\ req.op = "POLL" => call.op = "poll"
  BY <1>1 DEF TypeInv, TypeOK, Request, Message, Int32
<1>4. /\ Failed \subseteq Int32 /\ Failed \cup {0} \subseteq Int32 /\ 0 \in Int32
      /\ -1 \in Int32 /\ Failed \cup {2} \cup FreeFd \subseteq Int32
      /\ Failed \cup FreeFd \subseteq Int32
  BY FdIsInt, Zenon DEF Failed, FreeFd
<1>5. ASSUME NEW op, NEW args, NEW values, ServeFd(op, args, values), values \subseteq Int32
      PROVE  TypeInv'
  <2>1. PICK v \in values : ServeAs(op, args, v, v, NULL, rtn.data)
    BY <1>5 DEF ServeFd, Serve
  <2>. QED BY <1>3, <1>5, <2>1, TypeServe
<1>6. CASE SockSocket BY <1>4, <1>5, <1>6, Zenon DEF SockSocket
<1>7. CASE SockAccept BY <1>4, <1>5, <1>7, Zenon DEF SockAccept
<1>8. CASE SockConnect BY <1>4, <1>5, <1>8, Zenon DEF SockConnect
<1>9. CASE SockClose BY <1>4, <1>5, <1>9, Zenon DEF SockClose
<1>10. CASE SockBind BY <1>4, <1>5, <1>10, Zenon DEF SockBind
<1>11. CASE SockListen
  <2>1. PICK args : ServeFd("listen", args, Failed \cup {0}) BY <1>11 DEF SockListen
  <2>. QED BY <1>4, <1>5, <2>1
<1>12. CASE SockReadMessage
  <2>. DEFINE args == [fd |-> req.fd, size |-> req.size]
              text(n) == [i \in 1 .. n |-> (100 + i) % 256]
  <2>1. \/ ServeFd("read", args, Failed \cup {0})
        \/ \E n \in {1, req.size} :
             ServeAs("read", args, n, n, text(n), Put(rtn.data, 0, text(n)))
    BY <1>12, Zenon DEF SockReadMessage, Serve
  <2>2. CASE ServeFd("read", args, Failed \cup {0}) BY <1>4, <1>5, <2>2
  <2>3. ASSUME NEW n \in {1, req.size},
               ServeAs("read", args, n, n, text(n), Put(rtn.data, 0, text(n)))
        PROVE  TypeInv'
    <3>1. n \in Nat /\ n \in Int32
      <4>1. 1 \in Int32 BY SMT DEF Int32
      <4>. QED BY <1>3, <4>1
    <3>2. text(n) \in Seq(Byte)
      <4>1. \A i \in 1 .. n : (100 + i) % 256 \in Byte BY SMT, <3>1 DEF Byte
      <4>2. text(n) \in [1 .. n -> Byte] BY <4>1
      <4>3. PICK t : t = text(n) OBVIOUS
      <4>. HIDE DEF text
      <4>4. t \in [1 .. n -> Byte] BY <4>2, <4>3
      <4>5. t \in Seq(Byte) BY <3>1, <4>4
      <4>. QED BY <4>3, <4>5
    <3>. HIDE DEF text
    <3>3. PICK d : d = Put(rtn.data, 0, text(n)) OBVIOUS
    <3>4. d \in Data
      <4>1. 0 \in Nat OBVIOUS
      <4>. QED BY <1>3, <3>2, <3>3, <4>1, PutData, Zenon
    <3>5. ServeAs("read", args, n, n, text(n), d) BY <2>3, <3>3
    <3>. QED BY <3>1, <3>4, <3>5, TypeServe
  <2>. QED BY <2>1, <2>2, <2>3
<1>13. CASE SockSendMessage
  <2>1. Failed \cup {req.size} \subseteq Int32 BY <1>3, <1>4
  <2>2. PICK args : ServeFd("write", args, Failed \cup {req.size})
    BY <1>13 DEF SockSendMessage
  <2>. QED BY <1>5, <2>1, <2>2
<1>14. CASE SockSelect
  <2>1. PICK u \in [{"r", "w", "e"} -> Uninit] :
          \/ ServeFd("select", SelectArgs(u), Failed \cup {0})
          \/ \E ready \in Ready :
               LET k == KernelSelect(SelectArgs(u), ready)
               IN  Serve("select", SelectArgs(u), FoundReady(k), k,
                         serialize_select_fd_set(rtn.data, k))
    BY <1>14, Zenon DEF SockSelect
  <2>2. CASE ServeFd("select", SelectArgs(u), Failed \cup {0}) BY <1>4, <1>5, <2>2
  <2>3. PICK s : s = SelectArgs(u) OBVIOUS
  <2>4. ASSUME NEW ready \in Ready, NEW k, k = KernelSelect(s, ready),
               Serve("select", s, FoundReady(k), k, serialize_select_fd_set(rtn.data, k))
        PROVE  TypeInv'
    <3>1. PICK n, d : n = FoundReady(k) /\ d = serialize_select_fd_set(rtn.data, k) OBVIOUS
    <3>2. ServeAs("select", s, n, n, k, d) BY <2>4, <3>1, Zenon DEF Serve
    <3>3. PICK v : v = [nfds |-> 0, r |-> u["r"], w |-> u["w"], e |-> u["e"],
                        t |-> Zeros(TimevalBytes)]
      OBVIOUS
    <3>4. /\ v.r \in Fds /\ v.w \in Fds /\ v.e \in Fds /\ v.t = Zeros(TimevalBytes)
          /\ v.r # NULL /\ v.w # NULL /\ v.e # NULL
      BY <3>3, SelectUninit, Zenon
    <3>5. s = deserialize_select_fd_set(req.data, v) BY <2>3, <3>3, Zenon DEF SelectArgs
    <3>6. s.r \in Fds /\ s.w \in Fds /\ s.e \in Fds /\ IsSelect(s)
      BY <3>4, <3>5, SelectIsRead, Zenon
    <3>7. s.nfds \in Int32 /\ s.t \in Timeval BY <1>3, <3>4, <3>5, SelectReadTypes, Zenon
    <3>8. k.nfds = s.nfds /\ k.t = s.t /\ k.r \in Fds /\ k.w \in Fds /\ k.e \in Fds
      BY <2>4, <3>6, SelectKept, Zenon
    <3>9. n \in Int32 BY <3>1, <3>8, FoundIsInt, Zenon
    <3>10. k.nfds \in Int /\ k.t \in {NULL} \cup Timeval BY <1>3, <3>7, <3>8, Zenon
    <3>11. d \in Data BY <1>3, <3>1, <3>10, SelectData, Zenon
    <3>. QED BY <3>2, <3>9, <3>11, TypeServe
  <2>. QED BY <2>1, <2>2, <2>3, <2>4, Zenon
<1>15. CASE SockEpollCreate1 BY <1>4, <1>5, <1>15, Zenon DEF SockEpollCreate1
<1>16. CASE SockEpollCtl BY <1>4, <1>5, <1>16, Zenon DEF SockEpollCtl
<1>17. CASE SockEpollWait
  <2>1. PICK a : a = deserialize_epoll_wait_dt(req.data) OBVIOUS
  <2>2. PICK args : args = [epfd |-> a.epfd, maxevents |-> a.maxevents, timeout |-> a.timeout]
    OBVIOUS
  <2>3. \/ ServeFd("epoll_wait", args, Failed)
        \/ \E n \in 0 .. Least(a.maxevents, Len(KernelEvents)) :
             ServeAs("epoll_wait", args, n, n, SubSeq(KernelEvents, 1, n),
               serialize_epoll_wait_dt(rtn.data, n, a.epfd, a.maxevents, a.timeout,
                                       SubSeq(KernelEvents, 1, n)))
    BY <1>17, <2>1, <2>2, Zenon DEF SockEpollWait, Serve
  <2>4. CASE ServeFd("epoll_wait", args, Failed) BY <1>4, <1>5, <2>4
  <2>5. a.epfd \in Int32 /\ a.maxevents \in Int32 /\ a.timeout \in Int32
    <3>1. 4 \in Nat /\ 8 \in Nat /\ 12 \in Nat /\ 4 + 4 <= DataBytes /\ 8 + 4 <= DataBytes
          /\ 12 + 4 <= DataBytes
      BY SMT, CodecAssumption DEF Header
    <3>2. IntAt(req.data, 4) \in Int32 /\ IntAt(req.data, 8) \in Int32
          /\ IntAt(req.data, 12) \in Int32
      BY <1>3, <3>1, IntAtType
    <3>. QED BY <2>1, <3>2, Zenon DEF deserialize_epoll_wait_dt
  <2>6. ASSUME NEW n \in 0 .. Least(a.maxevents, Len(KernelEvents)),
               ServeAs("epoll_wait", args, n, n, SubSeq(KernelEvents, 1, n),
                 serialize_epoll_wait_dt(rtn.data, n, a.epfd, a.maxevents, a.timeout,
                                         SubSeq(KernelEvents, 1, n)))
        PROVE  TypeInv'
    <3>1. PICK events : events = SubSeq(KernelEvents, 1, n) OBVIOUS
    <3>2. PICK d : d = serialize_epoll_wait_dt(rtn.data, n, a.epfd, a.maxevents, a.timeout,
                                               events)
      OBVIOUS
    <3>3. ServeAs("epoll_wait", args, n, n, events, d) BY <2>6, <3>1, <3>2, Zenon
    <3>4. KernelEvents \in Seq(EpollEvent) BY CallAssumption
    <3>5. n \in Nat /\ n <= a.maxevents /\ n <= Len(KernelEvents)
      <4>1. a.maxevents \in Int BY <1>3, <2>5, Zenon
      <4>2. PICK S, w : S = EpollEvent /\ w = KernelEvents OBVIOUS
      <4>3. Len(w) \in Nat
        <5>1. w \in Seq(S) BY <3>4, <4>2, Zenon
        <5>. QED BY <5>1
      <4>4. n \in 0 .. Least(a.maxevents, Len(w)) BY <2>6, <4>2, Zenon
      <4>5. n \in Nat /\ n <= a.maxevents /\ n <= Len(w) BY <4>1, <4>3, <4>4 DEF Least
      <4>. QED BY <4>2, <4>5, Zenon
    <3>6. n \in Int32 BY SMT, <2>5, <3>5 DEF Int32
    <3>7. events \in Seq(EpollEvent) /\ n <= Len(events)
      <4>1. PICK S : S = EpollEvent OBVIOUS
      <4>2. PICK w : w = KernelEvents OBVIOUS
      <4>3. w \in Seq(S) /\ n \in Nat /\ n <= Len(w) /\ events = SubSeq(w, 1, n)
        BY <3>1, <3>4, <3>5, <4>1, <4>2, Zenon
      <4>4. events \in Seq(S) /\ Len(events) = n BY <4>3
      <4>. QED BY <3>5, <4>1, <4>4
    <3>8. d \in Data BY <1>3, <2>5, <3>2, <3>5, <3>7, EpollWaitData, Zenon
    <3>. QED BY <3>3, <3>6, <3>8, TypeServe
  <2>. QED BY <2>3, <2>4, <2>6
<1>18. CASE SockPoll
  <2>1. req.op = "POLL" /\ call.op = "poll" BY <1>3, <1>18 DEF SockPoll
  <2>2. PICK a : a = deserialize_poll_pollfd(req.data) OBVIOUS
  <2>3. CASE ServeFd("poll", a, Failed) BY <1>4, <1>5, <2>3
  <2>4. ASSUME NEW revents \in [DOMAIN a.fds -> {0, 1}], NEW fds, NEW n,
               fds = KernelPoll(a.fds, revents),
               n = Cardinality({i \in DOMAIN fds : revents[i] # 0}),
               Serve("poll", a, n, fds, serialize_poll_pollfd(rtn.data, fds, a.timeout))
        PROVE  TypeInv'
    <3>1. PICK d : d = serialize_poll_pollfd(rtn.data, fds, a.timeout) OBVIOUS
    <3>2. ServeAs("poll", a, n, n, fds, d) BY <2>4, <3>1, Zenon DEF Serve
    <3>3. call.args \in [timeout : Int32, fds : Seq(PollEntry)]
          /\ 12 + 8 * Len(call.args.fds) <= DataBytes
      BY <1>2, <2>1, CallAssumption, Zenon DEF WellTyped
    <3>4. a = call.args BY <1>2, <2>1, <2>2, Zenon DEF Requested
    <3>5. a.timeout \in Int32 /\ a.fds \in Seq(PollEntry) BY <3>3, <3>4, Zenon
    <3>6. fds \in Seq(PollEntry) /\ Len(fds) = Len(a.fds)
      BY <2>4, <3>5, PolledEntries, Zenon
    <3>7. PICK l \in Nat : l = Len(fds) BY <3>6
    <3>8. l \in Int32
      <4>1. 12 + 8 * l <= DataBytes BY <3>3, <3>4, <3>6, <3>7
      <4>. QED BY SMT, <4>1, CodecAssumption DEF Int32
    <3>9. {i \in DOMAIN fds : revents[i] # 0} \subseteq 1 .. l BY <3>6, <3>7
    <3>10. n \in Int32 BY <2>4, <3>8, <3>9, PolledIsInt, Zenon
    <3>11. d \in Data BY <1>3, <3>1, <3>5, <3>6, <3>7, <3>8, PollData, Zenon
    <3>. QED BY <3>2, <3>10, <3>11, TypeServe
  <2>5. \/ ServeFd("poll", a, Failed)
        \/ \E revents \in [DOMAIN a.fds -> {0, 1}] : \E fds, n :
             /\ fds = KernelPoll(a.fds, revents)
             /\ n = Cardinality({i \in DOMAIN fds : revents[i] # 0})
             /\ Serve("poll", a, n, fds, serialize_poll_pollfd(rtn.data, fds, a.timeout))
    BY <1>18, <2>2, Zenon DEF SockPoll
  <2>. QED BY <2>3, <2>4, <2>5, Zenon
<1>19. CASE SockFcntl BY <1>4, <1>5, <1>19, Zenon DEF SockFcntl
<1>20. CASE SockSetsockopt
  <2>1. PICK args, v : v \in Failed \cup {0}
                       /\ ServeAs("setsockopt", args, v, rtn.value, NULL, rtn.data)
    BY <1>20, Zenon DEF SockSetsockopt
  <2>. QED BY <1>3, <1>4, <2>1, TypeServe
<1>21. CASE SockGetsockopt
  <2>1. PICK a : a = deserialize_sockopt_dt(req.data) OBVIOUS
  <2>2. PICK args : args = [fd |-> req.fd, level |-> a.level, optname |-> a.optname] OBVIOUS
  <2>3. PICK optval : optval = SubSeq(KernelOpt, 1, Least(a.optlen, Len(KernelOpt))) OBVIOUS
  <2>4. PICK d : d = serialize_sockopt_dt(rtn.data, a.level, a.optname, optval) OBVIOUS
  <2>5. \/ ServeAs("getsockopt", args, -1, rtn.value, NULL, rtn.data)
        \/ a.optlen >= 0 /\ ServeAs("getsockopt", args, 0, rtn.value, optval, d)
    BY <1>21, <2>1, <2>2, <2>3, <2>4, Zenon DEF SockGetsockopt
  <2>6. a.level \in Int32 /\ a.optname \in Int32 /\ a.optlen \in Int32
    <3>1. 0 \in Nat /\ 4 \in Nat /\ 8 \in Nat /\ 0 + 4 <= DataBytes /\ 4 + 4 <= DataBytes
          /\ 8 + 4 <= DataBytes
      BY SMT, CodecAssumption DEF Header
    <3>2. IntAt(req.data, 0) \in Int32 /\ IntAt(req.data, 4) \in Int32
          /\ IntAt(req.data, 8) \in Int32
      BY <1>3, <3>1, IntAtType
    <3>. QED BY <2>1, <3>2, Zenon DEF deserialize_sockopt_dt
  <2>7. CASE ServeAs("getsockopt", args, -1, rtn.value, NULL, rtn.data)
    BY <1>3, <1>4, <2>7, TypeServe
  <2>8. CASE a.optlen >= 0 /\ ServeAs("getsockopt", args, 0, rtn.value, optval, d)
    <3>1. PICK n : n = Least(a.optlen, Len(KernelOpt)) OBVIOUS
    <3>2. KernelOpt \in Seq(Byte) BY ByteAssumption
    <3>3. n \in Nat /\ n <= Len(KernelOpt)
      <4>1. a.optlen \in Int BY <1>3, <2>6
      <4>. QED BY <2>8, <3>1, <3>2, <4>1 DEF Least
    <3>4. optval \in Seq(Byte) BY <2>3, <3>1, <3>2, <3>3
    <3>5. d \in Data BY <1>3, <2>4, <2>6, <3>4, SockoptData, Zenon
    <3>. QED BY <1>3, <1>4, <2>8, <3>5, TypeServe
  <2>. QED BY <2>5, <2>7, <2>8
<1>22. CASE SockGetsockname
  <2>1. PICK d : d = serialize_addr_dt(rtn.data, AddrBytes, KernelAddr) OBVIOUS
  <2>2. PICK args : \/ ServeFd("getsockname", args, Failed)
                    \/ ServeAs("getsockname", args, 0, 0, KernelAddr, d)
    BY <1>22, <2>1, Zenon DEF SockGetsockname, Serve
  <2>3. d \in Data
    <3>1. AddrBytes \in Int BY DEF AddrBytes
    <3>. QED BY <1>3, <2>1, <3>1, ByteAssumption, AddrData, Zenon
  <2>. QED BY <1>4, <1>5, <2>2, <2>3, TypeServe
<1>. QED
  BY <1>6, <1>7, <1>8, <1>9, <1>10, <1>11, <1>12, <1>13, <1>14, <1>15, <1>16, <1>17,
     <1>18, <1>19, <1>20, <1>21, <1>22 DEF RdmaReqEvent

(* Every return of a hook: it adds at most one node to fd_ht. *)
LEMMA TypeReturns ==
  ASSUME TypeInv, RouteInv', Returns
  PROVE  TypeInv'
<1>1. /\ OpenTyped' /\ routed' \in [Fd -> Nat] /\ req \in Request
      /\ \A f \in Fd : routed[f] \in Nat
  BY DEF RouteInv, TypeInv, TypeOK
<1>2. ASSUME NEW value, NEW output, Return(value, output),
             req' = req, \A f \in Fd : routed'[f] <= routed[f] + 1
      PROVE  TypeInv'
  BY <1>1, <1>2, TypeReturn
<1>3. ASSUME UNCHANGED routed
      PROVE  \A f \in Fd : routed'[f] <= routed[f] + 1
  BY <1>1, <1>3
<1>4. ASSUME NEW fd, fd_insertByValue(fd)
      PROVE  \A f \in Fd : routed'[f] <= routed[f] + 1
  BY <1>1, <1>4 DEF fd_insertByValue, TypeInv, TypeOK
<1>5. ASSUME NEW fd, fd_deleteByKey(fd)
      PROVE  \A f \in Fd : routed'[f] <= routed[f] + 1
  BY <1>1, <1>5 DEF fd_deleteByKey, TypeInv, TypeOK
<1>6. ASSUME NEW output, ReturnOutput(output)
      PROVE  TypeInv'
  BY <1>2, <1>3, <1>6 DEF ReturnOutput, fdVars
<1>7. CASE ReturnValue BY <1>6, <1>7, Zenon DEF ReturnValue
<1>8. CASE ReqSockReturn
  <2>1. req' = req BY <1>8 DEF ReqSockReturn
  <2>2. PICK value : Return(value, NULL) /\ (UNCHANGED routed \/ fd_insertByValue(reply.value))
    BY <1>8, Zenon DEF ReqSockReturn, HandedOut, fdVars
  <2>. QED BY <1>2, <1>3, <1>4, <2>1, <2>2
<1>9. CASE ReqAcceptReturn
  <2>1. req' = req /\ Return(reply.value, NULL) BY <1>9 DEF ReqAcceptReturn
  <2>2. UNCHANGED routed \/ fd_insertByValue(reply.value)
    BY <1>9, Zenon DEF ReqAcceptReturn, HandedOut, fdVars
  <2>. QED BY <1>2, <1>3, <1>4, <2>1, <2>2
<1>10. CASE ReqConnectReturn
  <2>1. req' = req /\ Return(1, NULL) BY <1>10 DEF ReqConnectReturn
  <2>2. fd_insertByValue(call.args.fd) BY <1>10, Zenon DEF ReqConnectReturn
  <2>. QED BY <1>2, <1>4, <2>1, <2>2
<1>11. CASE ReqCloseReturn
  <2>1. req' = req /\ Return(reply.value, NULL) BY <1>11 DEF ReqCloseReturn
  <2>2. fd_deleteByKey(call.args.fd) BY <1>11, Zenon DEF ReqCloseReturn
  <2>. QED BY <1>2, <1>5, <2>1, <2>2
<1>12. CASE ReqReadReturn
  <2>1. PICK output : ReturnOutput(output) BY <1>12, Zenon DEF ReqReadReturn
  <2>. QED BY <1>6, <2>1
<1>13. CASE ReqWriteReturn
  <2>1. Return(reply.value, NULL) /\ UNCHANGED routed BY <1>13 DEF ReqWriteReturn, fdVars
  <2>2. req' \in Request /\ req'.size = req.size
    <3>1. PICK d : d = Blank OBVIOUS
    <3>2. req' = [req EXCEPT !.data = d] BY <1>13, <3>1, Zenon DEF ReqWriteReturn
    <3>3. d \in Data BY <3>1, BlankData
    <3>. QED BY <1>1, <3>2, <3>3 DEF Request
  <2>. QED BY <1>1, <1>3, <2>1, <2>2, TypeReturn
<1>14. CASE ReqSelectReturn
  <2>1. PICK output : ReturnOutput(output) BY <1>14, Zenon DEF ReqSelectReturn
  <2>. QED BY <1>6, <2>1
<1>15. CASE ReqEpollWaitReturn BY <1>6, <1>15, Zenon DEF ReqEpollWaitReturn
<1>16. CASE ReqPollReturn
  <2>1. PICK output : ReturnOutput(output) BY <1>16, Zenon DEF ReqPollReturn
  <2>. QED BY <1>6, <2>1
<1>17. CASE ReqGetsockoptReturn BY <1>6, <1>17, Zenon DEF ReqGetsockoptReturn
<1>18. CASE ReqGetpeernameReturn BY <1>6, <1>18, Zenon DEF ReqGetpeernameReturn
<1>19. CASE ReqGetsocknameReturn
  <2>1. PICK output : ReturnOutput(output) BY <1>19, Zenon DEF ReqGetsocknameReturn
  <2>. QED BY <1>6, <2>1
<1>. QED
  BY <1>7, <1>8, <1>9, <1>10, <1>11, <1>12, <1>13, <1>14, <1>15, <1>16, <1>17, <1>18,
     <1>19 DEF Returns

(* Bytes stay bytes, a call adds at most one node to fd_ht, and the worker    *)
(* decodes the entries of a poll only for a call of poll (hook.c,             *)
(* rdma_req_event).                                                           *)
THEOREM Typed == Spec => []TypeInv
<1>1. TypeInv /\ ArgsInv /\ RouteInv' /\ [Next]_vars => TypeInv'
  <2>. SUFFICES ASSUME TypeInv, ArgsInv, RouteInv', [Next]_vars
                PROVE  TypeInv'
    OBVIOUS
  <2>1. ASSUME NEW c \in Call, Hooks(c)
        PROVE  TypeInv'
    BY <2>1, TypeHooks
  <2>2. CASE RdmaReqEvent BY <2>2, TypeWorker
  <2>3. CASE Overrun
    <3>1. /\ phase' = "crashed" /\ calls' = calls /\ routed' = routed
          /\ UNCHANGED <<open, misclosed, connected, call, meant, req, rtn, reply>>
      BY <2>3 DEF Overrun, fdVars
    <3>2. \A f \in Fd : routed'[f] <= calls' + 1 BY <3>1 DEF TypeInv, TypeOK
    <3>. QED BY <3>1, <3>2 DEF TypeInv, TypeOK, OpenTyped
  <2>4. CASE Returns BY <2>4, TypeReturns
  <2>5. CASE UNCHANGED vars BY <2>5 DEF vars, fdVars, TypeInv, TypeOK, OpenTyped
  <2>. QED BY <2>1, <2>2, <2>3, <2>4, <2>5 DEF Next
<1>. QED BY <1>1, TypeInit, Carried, Routed, PTL DEF Spec

(* Every variable of the call has its type, whatever the calls before left   *)
(* in the messages and in fd_ht (hook.c, rdma_req_event).                    *)
THEOREM CallTypeCorrect == Spec => []TypeOK
<1>1. TypeInv => TypeOK BY DEF TypeInv
<1>. QED BY <1>1, Typed, PTL

=============================================================================
