----------------------------- MODULE MCCallArgs -----------------------------
(* A small instance of CallArgs for TLC: local descriptor 4, descriptors 7   *)
(* and 25 for sockets of the SmartNIC, on both sides of the 24 that select   *)
(* tells apart, 9 for an epoll instance, and 11 for a descriptor made later. *)
EXTENDS CallArgs

Event(mask, fd) == Word(mask) \o Wide(fd)
MCKernelEvents == <<Event(1, 7), Event(4, 25), Event(1, 9)>>
MCReady == {{7}, {25}, {3, 7, 25}}
MCUninit == {{}, {3}}
MCUninitValue == {-1, 5}
MCKernelOpt == <<1, 0, 0, 0>>
MCKernelAddr == <<2, 0, 31, 144, 10, 0, 0, 2>> \o Zeros(8)
MCClientIp == <<10, 0, 0, 1>>
MCBadArg == [i \in 1 .. FlockBytes |-> 170]

Select(nfds, r, w, e, t) ==
  [op |-> "select", args |-> [nfds |-> nfds, r |-> r, w |-> w, e |-> e, t |-> t]]
Second == Wide(1) \o Wide(0)
SelectCalls ==
  {Select(26, {7, 25}, {7}, {25}, Second), Select(26, {25}, {7, 25}, NULL, Second),
   Select(26, {7, 25}, NULL, NULL, NULL), Select(8, NULL, {7}, NULL, NULL),
   Select(32, {25}, NULL, NULL, NULL), Select(26, {4, 25}, NULL, NULL, NULL),
   Select(5, {4}, NULL, NULL, NULL)}

EpollCalls ==
  {[op |-> "epoll_create1", args |-> [flags |-> 524288]]}
  \cup {[op |-> "epoll_ctl", args |-> a] :
          a \in {[epfd |-> 9, op |-> 1, fd |-> 7, event |-> Event(1, 7)],
                 [epfd |-> 9, op |-> 2, fd |-> 25, event |-> NULL],
                 [epfd |-> 9, op |-> 1, fd |-> 4, event |-> Event(1, 4)]}}
  \cup {[op |-> "epoll_wait", args |-> a] :
          a \in {[epfd |-> 9, maxevents |-> 1, timeout |-> -1],
                 [epfd |-> 9, maxevents |-> 3, timeout |-> 2000]}}

Entry(fd) == [fd |-> fd, events |-> 1, revents |-> 4]
PollCalls ==
  {[op |-> "poll", args |-> [timeout |-> t, fds |-> fds]] :
     t \in {-1}, fds \in {<<Entry(7)>>, <<Entry(25), Entry(7)>>, <<Entry(-1), Entry(7)>>,
                          <<Entry(4)>>}}

SocketCalls ==
  {[op |-> "socket", args |-> [type |-> "dgram"]],
   [op |-> "connect", args |-> [fd |-> 7, family |-> "inet", port |-> 443]],
   [op |-> "connect", args |-> [fd |-> 7, family |-> "unix", port |-> 0]],
   [op |-> "bind", args |-> [fd |-> 7, port |-> 443]],
   [op |-> "listen", args |-> [fd |-> 7, backlog |-> 5]],
   [op |-> "accept", args |-> [fd |-> 7]]}
  \cup {[op |-> "close", args |-> [fd |-> f]] : f \in {4, 7, 11}}
  \cup {[op |-> "read", args |-> [fd |-> f, size |-> 3]] : f \in {7, 11}}
  \cup {[op |-> "write", args |-> [fd |-> 7, buf |-> [i \in 1 .. n |-> i]]] : n \in {2, 28}}

OptionCalls ==
  {[op |-> "fcntl", args |-> [fd |-> 7, cmd |-> cmd, arg |-> [i \in 1 .. FlockBytes |-> i]]] :
     cmd \in {3, 4, 5}}
  \cup {[op |-> "setsockopt", args |-> [fd |-> 7, level |-> 1, optname |-> 2, optval |-> v]] :
          v \in {<<>>, <<1, 0, 0, 0>>}}
  \cup {[op |-> "getsockopt", args |-> [fd |-> 7, level |-> 1, optname |-> 4]]}
  \cup {[op |-> op, args |-> [fd |-> 7, addrlen |-> 16, addr |-> addr]] :
          op \in {"getpeername", "getsockname"},
          addr \in {Zeros(16), [i \in 1 .. 16 |-> 170]}}

MCCall == SelectCalls \cup EpollCalls \cup PollCalls \cup SocketCalls \cup OptionCalls

=============================================================================
