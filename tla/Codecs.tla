------------------------------- MODULE Codecs -------------------------------
(***************************************************************************)
(* How the arguments of a socket call are laid out in the data array of    *)
(* req_msg and rtn_msg (rdma_common.c of the host and of the SmartNIC).    *)
(*                                                                         *)
(* A data array maps offsets to bytes and a field is a sequence of bytes,  *)
(* so the offsets here are those of the memcpy calls.  A serialize_        *)
(* operator returns the array after the call: what it does not write keeps *)
(* what an earlier call left there.  A deserialize_ operator returns the   *)
(* record of the values that the call stores through its pointers.         *)
(***************************************************************************)
EXTENDS Integers, Sequences

CONSTANTS
  DataBytes,   \* BUFFER_SIZE
  EventLimit,  \* the limit of 1024 bytes in the codec of epoll_wait
  FdSetBytes,  \* sizeof(fd_set)
  FlockBytes,  \* sizeof(struct flock)
  NULL

Header == 12        \* header_sz of set_req_sock
EventBytes == 12    \* sizeof(struct epoll_event), which is packed
PollFdBytes == 8    \* sizeof(struct pollfd)
TimevalBytes == 16  \* sizeof(struct timeval)
AddrBytes == 16     \* sizeof(struct sockaddr)

ASSUME CodecAssumption ==
  /\ DataBytes \in Nat /\ DataBytes <= 2147483647 /\ EventLimit \in 16 .. DataBytes
  /\ FdSetBytes \in Nat /\ 3 <= FdSetBytes /\ 5 + 3 * FdSetBytes + TimevalBytes <= DataBytes
  /\ FlockBytes \in Nat /\ 8 + FlockBytes <= DataBytes
  /\ 2 * Header < DataBytes

Byte == 0 .. 255
Data == [0 .. DataBytes - 1 -> Byte]
Int32 == {v \in Int : -2147483647 - 1 <= v /\ v <= 2147483647}
Int16 == {v \in Int : -32768 <= v /\ v <= 32767}
Fds == SUBSET (0 .. 8 * FdSetBytes - 1)
Timeval == [1 .. TimevalBytes -> Byte]
EpollEvent == [1 .. EventBytes -> Byte]
PollEntry == [fd : Int32, events : Int16, revents : Int16]
SelectArg == [nfds : Int32, r : {NULL} \cup Fds, w : {NULL} \cup Fds, e : {NULL} \cup Fds,
              t : {NULL} \cup Timeval]

Zeros(n) == [i \in 1 .. n |-> 0]
Least(m, n) == IF m < n THEN m ELSE n

(* memcpy to and from the offset off of a data array *)
Put(data, off, field) ==
  [i \in DOMAIN data |->
     IF i \in off .. off + Len(field) - 1 THEN field[i - off + 1] ELSE data[i]]
Get(data, off, n) == [i \in 1 .. n |-> data[off + i - 1]]

(* A 32-bit integer in memory, least significant byte first.  As 64 bits it  *)
(* is extended by its sign.                                                  *)
Word(v) == <<v % 256, (v \div 256) % 256, (v \div 65536) % 256, (v \div 16777216) % 256>>
Wide(v) == Word(v) \o (IF v < 0 THEN <<255, 255, 255, 255>> ELSE Zeros(4))
AsInt(b) == b[1] + 256 * b[2] + 65536 * b[3]
            + 16777216 * (IF b[4] < 128 THEN b[4] ELSE b[4] - 256)
IntAt(data, off) == AsInt(Get(data, off, 4))
Short(v) == <<v % 256, (v \div 256) % 256>>
AsShort(low, high) == low + 256 * (IF high < 128 THEN high ELSE high - 256)

(* An array of n elements of w bytes, as its bytes and back *)
Flat(rows, w) ==
  [i \in 1 .. Len(rows) * w |-> rows[1 + ((i - 1) \div w)][1 + ((i - 1) % w)]]
Rows(data, off, n, w) == [i \in 1 .. n |-> Get(data, off + (i - 1) * w, w)]
Ints(v) == Flat([i \in DOMAIN v |-> Word(v[i])], 4)

(* An fd_set: descriptor f is bit f % 8 of byte f \div 8. *)
Weight == <<1, 2, 4, 8, 16, 32, 64, 128>>
FdSet(fds) ==
  [i \in 1 .. FdSetBytes |->
     LET Bit(b) == IF 8 * (i - 1) + b \in fds THEN Weight[b + 1] ELSE 0
     IN  Bit(0) + Bit(1) + Bit(2) + Bit(3) + Bit(4) + Bit(5) + Bit(6) + Bit(7)]
AsFds(b) == {f \in 0 .. 8 * Len(b) - 1 : (b[1 + (f \div 8)] \div Weight[1 + (f % 8)]) % 2 = 1}

---------------------------------------------------------------------------
(* epoll_create1 *)

serialize_epoll_create_dt(data, flag) == Put(data, 0, Word(flag))
deserialize_epoll_create_dt(data) == [flags |-> IntAt(data, 0)]

(* epoll_ctl: the host leaves the bytes of an event alone that is NULL, the  *)
(* SmartNIC takes an event from them in any case.                            *)
serialize_epoll_ctl_dt(data, epfd, op, fd, event) ==
  Put(IF event = NULL THEN data ELSE Put(data, 12, event), 0, Ints(<<epfd, op, fd>>))
deserialize_epoll_ctl_dt(data) ==
  [epfd |-> IntAt(data, 0), op |-> IntAt(data, 4), fd |-> IntAt(data, 8),
   event |-> Get(data, 12, EventBytes)]

(* epoll_wait: the loops over the events stop before EventLimit, whatever    *)
(* nfds in the first word says.                                              *)
EventsThatFit == (EventLimit - 16) \div EventBytes
(* mutant: timeout is not stored *)
serialize_epoll_wait_dtNoTimeout(data, nfds, epfd, maxevents, timeout, events) ==
  Put(Put(data, 0, Ints(<<nfds, epfd, maxevents>>)),
      16, Flat(SubSeq(events, 1, Least(nfds, EventsThatFit)), EventBytes))
serialize_epoll_wait_dt(data, nfds, epfd, maxevents, timeout, events) ==
  Put(Put(data, 0, Ints(<<nfds, epfd, maxevents, timeout>>)),
      16, Flat(SubSeq(events, 1, Least(nfds, EventsThatFit)), EventBytes))
deserialize_epoll_wait_dt(data) ==
  [nfds |-> IntAt(data, 0), epfd |-> IntAt(data, 4),
   maxevents |-> IntAt(data, 8), timeout |-> IntAt(data, 12),
   events |-> Rows(data, 16, Least(IntAt(data, 0), EventsThatFit), EventBytes)]

(* select: the flag says which pointers are not NULL, one decimal digit for  *)
(* each.  It is an int and is stored last, over the first three bytes of     *)
(* readfds.  Reading it, each digit counts only if all before it are 1.      *)
Clobbered == 0 .. 23
SelectFlag(s) ==
  LET Given(p) == IF p = NULL THEN 0 ELSE 1
  IN  1000 * Given(s.r) + 100 * Given(s.w) + 10 * Given(s.e) + Given(s.t)
serialize_select_fd_set(data, s) ==
  LET Set(p) == IF p = NULL THEN Zeros(FdSetBytes) ELSE FdSet(p)
      Time(p) == IF p = NULL THEN Zeros(TimevalBytes) ELSE p
      r == Put(Put(data, 0, Word(s.nfds)), 5, Set(s.r))
      w == Put(r, 5 + FdSetBytes, Set(s.w))
      e == Put(w, 5 + 2 * FdSetBytes, Set(s.e))
      t == Put(e, 5 + 3 * FdSetBytes, Time(s.t))
  IN  Put(t, 4, Word(SelectFlag(s)))
(* mutant: the digit of readfds is not taken off the flag *)
deserialize_select_fd_setSameFlag(data, s) ==
  LET flag == IntAt(data, 4)
      SetAt(k) == AsFds(Get(data, 5 + k * FdSetBytes, FdSetBytes))
  IN  [nfds |-> IntAt(data, 0),
       r |-> IF flag \div 1000 # 1 \/ s.r = NULL THEN s.r ELSE SetAt(0),
       w |-> IF flag \div 100 # 1 \/ s.w = NULL THEN s.w ELSE SetAt(1),
       e |-> IF (flag - 100) \div 10 # 1 \/ s.e = NULL THEN s.e ELSE SetAt(2),
       t |-> s.t]
deserialize_select_fd_set(data, s) ==
  LET flag == IntAt(data, 4)
      SetAt(k) == AsFds(Get(data, 5 + k * FdSetBytes, FdSetBytes))
  IN  [nfds |-> IntAt(data, 0),
       r |-> IF flag \div 1000 # 1 \/ s.r = NULL THEN s.r ELSE SetAt(0),
       w |-> IF (flag - 1000) \div 100 # 1 \/ s.w = NULL THEN s.w ELSE SetAt(1),
       e |-> IF (flag - 1100) \div 10 # 1 \/ s.e = NULL THEN s.e ELSE SetAt(2),
       t |-> IF flag - 1110 # 1 \/ s.t = NULL THEN s.t
             ELSE Get(data, 5 + 3 * FdSetBytes, TimevalBytes)]

(* What select leaves in the array: its arguments, each where it is, but for *)
(* the descriptors below 24 of readfds                                       *)
SelectStored(data, s) ==
  /\ IntAt(data, 0) = s.nfds /\ IntAt(data, 4) = SelectFlag(s)
  /\ s.r # NULL => AsFds(Get(data, 5, FdSetBytes)) \ Clobbered = s.r \ Clobbered
  /\ s.w # NULL => AsFds(Get(data, 5 + FdSetBytes, FdSetBytes)) = s.w
  /\ s.e # NULL => AsFds(Get(data, 5 + 2 * FdSetBytes, FdSetBytes)) = s.e
  /\ s.t # NULL => Get(data, 5 + 3 * FdSetBytes, TimevalBytes) = s.t

(* poll: an entry of fds is its descriptor, events and revents. *)
PollFd(p) == Word(p.fd) \o Short(p.events) \o Short(p.revents)
AsPollFd(b) ==
  [fd |-> AsInt(b), events |-> AsShort(b[5], b[6]), revents |-> AsShort(b[7], b[8])]
serialize_poll_pollfd(data, fds, timeout) ==
  Put(Put(Put(data, 0, Word(timeout)), 4, Wide(Len(fds))),
      12, Flat([i \in DOMAIN fds |-> PollFd(fds[i])], PollFdBytes))
deserialize_poll_pollfd(data) ==
  LET rows == Rows(data, 12, IntAt(data, 4), PollFdBytes)
  IN  [timeout |-> IntAt(data, 0), fds |-> [i \in DOMAIN rows |-> AsPollFd(rows[i])]]

(* fcntl: the flag tells an argument of type int from a struct flock. *)
FcntlFlag(cmd) ==
  CASE cmd \in {0, 2, 4} -> 1   \* F_DUPFD, F_SETFD, F_SETFL
    [] cmd \in {5, 6, 7} -> 2   \* F_GETLK, F_SETLK, F_SETLKW
    [] OTHER -> 0
ArgBytes(flag) == CASE flag = 1 -> 4 [] flag = 2 -> FlockBytes [] OTHER -> 0
serialize_fcntl_dt(data, cmd, arg) ==
  LET flag == FcntlFlag(cmd)
  IN  Put(Put(data, 0, Ints(<<cmd, flag>>)), 8, SubSeq(arg, 1, ArgBytes(flag)))
deserialize_fcntl_dt(data) ==
  LET flag == IntAt(data, 4)
  IN  [cmd |-> IntAt(data, 0), flag |-> flag, arg |-> Get(data, 8, ArgBytes(flag))]

(* setsockopt and getsockopt: optlen is a length that the reader trusts. *)
(* mutant: optlen is not stored *)
serialize_sockopt_dtNoLength(data, level, optname, optval) ==
  Put(Put(data, 0, Ints(<<level, optname>>)), 12, optval)
serialize_sockopt_dt(data, level, optname, optval) ==
  Put(Put(data, 0, Ints(<<level, optname, Len(optval)>>)), 12, optval)
OptlenFits(data) == IntAt(data, 8) \in 0 .. DataBytes - 12
deserialize_sockopt_dt(data) ==
  [level |-> IntAt(data, 0), optname |-> IntAt(data, 4), optlen |-> IntAt(data, 8),
   optval |-> IF OptlenFits(data) THEN Get(data, 12, IntAt(data, 8)) ELSE NULL]

(* getpeername and getsockname *)
serialize_addr_dt(data, addrlen, addr) == Put(Put(data, 0, Word(addrlen)), 4, addr)
deserialize_addr_dt(data) ==
  [addrlen |-> IntAt(data, 0), addr |-> Get(data, 4, AddrBytes)]

=============================================================================
