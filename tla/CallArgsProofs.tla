--------------------------- MODULE CallArgsProofs ---------------------------
(***************************************************************************)
(* Theorems about CallArgs, for every set of calls, of descriptors and of  *)
(* outcomes of the kernel, and for behaviours of any number of calls.      *)
(***************************************************************************)
EXTENDS CallArgs, CodecsProofs

(* At first fd_ht has the SmartNIC's descriptors and no others. *)
LEMMA RouteInit == Init => RouteInv
BY DEF Init, RouteInv, RightKernel, OpenTyped, Fd

(* The descriptor a remote call looks up has a node. *)
LEMMA RemoteRouted ==
  ASSUME NEW c, Remote(c), c.op \notin {"socket", "epoll_create1"}
  PROVE  LookedUp(c) \in Fd /\ routed[LookedUp(c)] > 0
BY DEF Remote

(* A close is meant for a kernel that has its descriptor open. *)
LEMMA CloseMeant ==
  ASSUME NEW c, MakesCall(c), c.op = "close"
  PROVE  meant' \in {"host", "snic"}
<1>1. Descriptors(c) = {c.args.fd} /\ Descriptors(c) \subseteq open.host \cup open.snic
  BY DEF MakesCall, Descriptors
<1>2. \E k \in {"host", "snic"} : Descriptors(c) \subseteq open[k]
  BY <1>1, SMT
<1>. DEFINE owners == {k \in {"host", "snic"} : Descriptors(c) \subseteq open[k]}
<1>3. owners # {} BY <1>2
<1>4. owners \subseteq {"host", "snic"} OBVIOUS
<1>5. Owners(c) = owners
  <2>. HIDE DEF owners
  <2>. SUFFICES Owners(c) = CASE c.op \in {"socket", "epoll_create1"} -> {"snic"}
                              [] owners = {} -> {"mixed"}
                              [] OTHER -> owners
    BY <1>3
  <2>. USE DEF owners
  <2>. QED BY DEF Owners
<1>. QED BY <1>4, <1>5 DEF MakesCall

(* A hook that sends a request has found its descriptor in fd_ht. *)
LEMMA RouteSend ==
  ASSUME RouteInv, NEW c, NEW op, NEW fd, NEW size, NEW port, NEW data,
         Send(c, op, fd, size, port, data),
         c.op = "socket" <=> op = "SOCKET",
         c.op = "accept" <=> op = "ACCEPT",
         c.op = "epoll_create1" <=> op = "EPOLL_CREATE1"
  PROVE  RouteInv'
<1>1. call' = c /\ phase' = "sent" /\ ran' = NULL /\ req'.op = op
      /\ UNCHANGED <<routed, open, misclosed, connected>>
  BY DEF Send, MakesCall, fdVars
<1>2. c.op \notin {"socket", "epoll_create1"} =>
        LookedUp(c) \in Fd /\ routed[LookedUp(c)] > 0
  BY RemoteRouted DEF Send
<1>3. c.op = "close" => meant' \in {"host", "snic"}
  BY CloseMeant DEF Send
<1>4. RightKernel'
  BY <1>1 DEF RightKernel
<1>. QED
  BY <1>1, <1>2, <1>3, <1>4 DEF RouteInv, OpenTyped, LookedUp

(* The original function is called for a descriptor that fd_ht does not      *)
(* have, so that the SmartNIC has it open only if a close has misled it.     *)
LEMMA RouteOriginal ==
  ASSUME RouteInv, NEW c, Original(c)
  PROVE  RouteInv'
<1>1. /\ call' = c /\ ran'.at = "host" /\ phase = "idle" /\ ~Remote(c)
      /\ UNCHANGED <<phase, routed, misclosed, connected, req, reply>>
      /\ open' = IF c.op = "close" THEN [open EXCEPT ![meant'] = @ \ {c.args.fd}] ELSE open
      /\ meant' \in Owners(c) /\ MakesCall(c)
  BY DEF Original, MakesCall
<1>2. /\ open' \in [host : SUBSET Fd, snic : SUBSET Fd] /\ open'.snic \subseteq open.snic
      /\ c.op # "close" => open' = open
      /\ \A f \in open.snic : f \notin open'.snic => c.op = "close" /\ f = c.args.fd
  <2>1. CASE c.op = "close"
    <3>1. meant' \in {"host", "snic"} BY <1>1, <2>1, CloseMeant
    <3>. QED BY <1>1, <2>1, <3>1 DEF RouteInv, OpenTyped
  <2>2. CASE c.op # "close" BY <1>1, <2>2 DEF RouteInv, OpenTyped
  <2>. QED BY <2>1, <2>2
<1>3. c.op \notin {"socket", "epoll_create1"} /\ LookedUp(c) \in Fd
      /\ routed[LookedUp(c)] > 0 => FALSE
  BY <1>1 DEF Remote
<1>4. c.op \notin {"socket", "epoll_create1"} => LookedUp(c) \notin open.snic \ misclosed
  BY <1>3 DEF RouteInv, OpenTyped
<1>5. \A f \in open.snic \ misclosed : f \in open'.snic
  BY <1>2, <1>4 DEF LookedUp
<1>6. c.op \notin {"socket", "epoll_create1"} /\ meant' = "snic"
      /\ LookedUp(c) \in Descriptors(c) => LookedUp(c) \in misclosed
  <2>1. SUFFICES ASSUME c.op \notin {"socket", "epoll_create1"}, meant' = "snic",
                        LookedUp(c) \in Descriptors(c)
                 PROVE  LookedUp(c) \in open.snic
    BY <1>4
  <2>2. Descriptors(c) \subseteq open["snic"] BY <1>1, <2>1, Zenon DEF Owners
  <2>. QED BY <2>1, <2>2
<1>7. RightKernel'
  BY <1>1, <1>6 DEF RightKernel, LookedUp, Descriptors
<1>8. open'.snic \ misclosed' = open.snic \ misclosed
  BY <1>1, <1>2, <1>5
<1>. QED
  BY <1>1, <1>2, <1>7, <1>8 DEF RouteInv, OpenTyped

(* A kernel call at the SmartNIC is for a number that fd_ht has. *)
LEMMA RouteServe ==
  ASSUME RouteInv, NEW op, NEW args, NEW value, NEW stored, NEW output, NEW data,
         ServeAs(op, args, value, stored, output, data),
         req.op = "SOCKET" => stored \in {-1, 2} \cup FreeFd,
         req.op \in {"ACCEPT", "EPOLL_CREATE1"} => stored \in {-1} \cup FreeFd
  PROVE  RouteInv'
<1>1. phase = "sent" /\ phase' = "served" /\ ran'.at = "snic" /\ reply'.value = stored
      /\ UNCHANGED <<routed, open, misclosed, connected, call, meant, req>>
  BY DEF ServeAs, fdVars
<1>2. FreeFd' = FreeFd BY <1>1 DEF FreeFd
<1>3. (phase' = "served" =>
       /\ call'.op = "socket" => reply'.value \in {-1, 2} \cup FreeFd'
       /\ call'.op \in {"accept", "epoll_create1"} => reply'.value \in {-1} \cup FreeFd')
  BY <1>1, <1>2 DEF RouteInv
<1>4. call.op \notin {"socket", "epoll_create1"} =>
        LookedUp(call) \in open.snic \cup connected
  BY <1>1 DEF RouteInv
<1>5. RightKernel'
  BY <1>1, <1>4 DEF RightKernel, LookedUp, Descriptors
<1>. QED
  BY <1>1, <1>3, <1>5 DEF RouteInv, OpenTyped, LookedUp

(* A hook that returns keeps the call and who made it, so RightKernel stays  *)
(* true if nothing that the SmartNIC had under a number is forgotten.        *)
LEMMA RouteReturn ==
  ASSUME RouteInv, NEW value, NEW output, Return(value, output),
         routed' \in [Fd -> Nat], OpenTyped',
         \A f \in open'.snic \ misclosed' : routed'[f] > 0,
         \A f \in Fd \ connected' :
           routed'[f] = IF f \in open'.snic \ misclosed' THEN 1 ELSE 0,
         meant = "host" => open.snic \cup connected \subseteq open'.snic \cup connected'
  PROVE  RouteInv'
<1>1. phase = "served" /\ phase' = "idle" /\ UNCHANGED <<call, meant, ran>>
  BY DEF Return
<1>2. ran.at = "snic" BY <1>1 DEF RouteInv
<1>3. RightKernel'
  BY <1>1, <1>2 DEF RouteInv, RightKernel, LookedUp, Descriptors
<1>. QED
  BY <1>1, <1>3 DEF RouteInv

(* Every hook up to the reply *)
LEMMA RouteHooks ==
  ASSUME RouteInv, NEW c \in Call, Hooks(c)
  PROVE  RouteInv'
<1>1. CASE ReqSock(c) BY <1>1, RouteSend DEF ReqSock
<1>2. CASE ReqConnect(c) BY <1>2, RouteSend DEF ReqConnect, SendFd
<1>3. CASE ReqClose(c) BY <1>3, RouteSend DEF ReqClose, SendFd
<1>4. CASE ReqBind(c) BY <1>4, RouteSend DEF ReqBind, SendFd
<1>5. CASE ReqListen(c) BY <1>5, RouteSend DEF ReqListen, SendFd
<1>6. CASE ReqAccept(c) BY <1>6, RouteSend DEF ReqAccept, SendFd
<1>7. CASE ReqRead(c) BY <1>7, RouteSend DEF ReqRead
<1>8. CASE ReqWrite(c) BY <1>8, RouteSend DEF ReqWrite
<1>9. CASE ReqSelect(c) BY <1>9, RouteSend DEF ReqSelect
<1>10. CASE ReqEpollCreate1(c) BY <1>10, RouteSend DEF ReqEpollCreate1
<1>11. CASE ReqEpollCtl(c) BY <1>11, RouteSend DEF ReqEpollCtl
<1>12. CASE ReqEpollWait(c) BY <1>12, RouteSend DEF ReqEpollWait
<1>13. CASE ReqPoll(c) BY <1>13, RouteSend DEF ReqPoll
<1>14. CASE ReqFcntl(c)
  <2>. PICK arg \in {c.args.arg, BadArg} :
         Send(c, "FCNTL", FcntlFlag(c.args.cmd), 0, 0,
              serialize_fcntl_dt(req.data, c.args.cmd, arg))
    BY <1>14 DEF ReqFcntl
  <2>. QED BY <1>14, RouteSend DEF ReqFcntl
<1>15. CASE ReqSetsockopt(c) BY <1>15, RouteSend DEF ReqSetsockopt
<1>16. CASE ReqGetsockopt(c) BY <1>16, RouteSend DEF ReqGetsockopt, SendFd
<1>17. CASE ReqGetpeername(c) BY <1>17, RouteSend DEF ReqGetpeername
<1>18. CASE ReqGetsockname(c) BY <1>18, RouteSend DEF ReqGetsockname
<1>19. CASE Original(c) BY <1>19, RouteOriginal
<1>. QED
  BY <1>1, <1>2, <1>3, <1>4, <1>5, <1>6, <1>7, <1>8, <1>9, <1>10, <1>11, <1>12,
     <1>13, <1>14, <1>15, <1>16, <1>17, <1>18, <1>19 DEF Hooks

(* Every case of the worker's switch.  Only those of socket, accept and      *)
(* epoll_create1 make a descriptor.                                          *)
LEMMA RouteWorker ==
  ASSUME RouteInv, RdmaReqEvent
  PROVE  RouteInv'
<1>1. CASE SockSocket
  <2>. PICK v \in {-1} \cup {2} \cup FreeFd :
         ServeAs("socket", [type |-> "stream"], v, v, NULL, rtn.data)
    BY <1>1 DEF SockSocket, ServeFd, Serve, Failed
  <2>. QED BY <1>1, RouteServe DEF SockSocket
<1>2. CASE SockAccept
  <2>. PICK v \in {-1} \cup FreeFd :
         ServeAs("accept", [fd |-> req.fd], v, v, NULL, rtn.data)
    BY <1>2 DEF SockAccept, ServeFd, Serve, Failed
  <2>. QED BY <1>2, RouteServe DEF SockAccept
<1>3. CASE SockEpollCreate1
  <2>. PICK v \in {-1} \cup FreeFd :
         ServeAs("epoll_create1", deserialize_epoll_create_dt(req.data), v, v, NULL, rtn.data)
    BY <1>3 DEF SockEpollCreate1, ServeFd, Serve, Failed
  <2>. QED BY <1>3, RouteServe DEF SockEpollCreate1
<1>4. ASSUME NEW op, NEW args, NEW values, ServeFd(op, args, values),
             req.op \notin {"SOCKET", "ACCEPT", "EPOLL_CREATE1"}
      PROVE  RouteInv'
  <2>. PICK v \in values : ServeAs(op, args, v, v, NULL, rtn.data)
    BY <1>4 DEF ServeFd, Serve
  <2>. QED BY <1>4, RouteServe
<1>5. ASSUME NEW op, NEW args, NEW v, NEW output, NEW data,
             Serve(op, args, v, output, data),
             req.op \notin {"SOCKET", "ACCEPT", "EPOLL_CREATE1"}
      PROVE  RouteInv'
  BY <1>5, RouteServe DEF Serve
<1>6. CASE SockConnect BY <1>6, <1>4 DEF SockConnect
<1>7. CASE SockClose BY <1>7, <1>4 DEF SockClose
<1>8. CASE SockBind BY <1>8, <1>4 DEF SockBind
<1>9. CASE SockListen BY <1>9, <1>4 DEF SockListen
<1>10. CASE SockReadMessage BY <1>10, <1>4, <1>5, Zenon DEF SockReadMessage
<1>11. CASE SockSendMessage BY <1>11, <1>4 DEF SockSendMessage
<1>12. CASE SockSelect BY <1>12, <1>4, <1>5, Zenon DEF SockSelect
<1>13. CASE SockEpollCtl BY <1>13, <1>4 DEF SockEpollCtl
<1>14. CASE SockEpollWait BY <1>14, <1>4, <1>5, Zenon DEF SockEpollWait
<1>15. CASE SockPoll BY <1>15, <1>4, <1>5, Zenon DEF SockPoll
<1>16. CASE SockFcntl BY <1>16, <1>4, <1>5, Zenon DEF SockFcntl
<1>17. CASE SockSetsockopt BY <1>17, RouteServe, Zenon DEF SockSetsockopt
<1>18. CASE SockGetsockopt BY <1>18, RouteServe, Zenon DEF SockGetsockopt
<1>19. CASE SockGetsockname BY <1>19, <1>4, <1>5, Zenon DEF SockGetsockname
<1>. QED
  BY <1>1, <1>2, <1>3, <1>6, <1>7, <1>8, <1>9, <1>10, <1>11, <1>12, <1>13, <1>14,
     <1>15, <1>16, <1>17, <1>18, <1>19 DEF RdmaReqEvent

(* Every hook from the reply on *)
LEMMA RouteReturns ==
  ASSUME RouteInv, Returns
  PROVE  RouteInv'
<1>1. ASSUME NEW v, NEW output, Return(v, output), UNCHANGED fdVars
      PROVE  RouteInv'
  BY <1>1, RouteReturn DEF RouteInv, OpenTyped, fdVars
<1>2. ASSUME NEW output, ReturnOutput(output) PROVE RouteInv'
  BY <1>1, <1>2 DEF ReturnOutput
<1>3. ASSUME NEW v, NEW output, NEW fd \in FreeFd, Return(v, output), HandedOut(fd)
      PROVE  RouteInv'
  <2>1. fd \in Fd /\ fd \notin open.snic \ misclosed BY <1>3 DEF FreeFd, Fd
  <2>2. routed' \in [Fd -> Nat] /\ routed'[fd] = routed[fd] + 1
        /\ \A f \in Fd : f # fd => routed'[f] = routed[f]
    BY <1>3, <2>1 DEF RouteInv, HandedOut, fd_insertByValue
  <2>3. open' \in [host : SUBSET Fd, snic : SUBSET Fd] /\ open'.snic = open.snic \cup {fd}
        /\ misclosed' = misclosed \ {fd} /\ connected' = connected
    BY <1>3, <2>1 DEF RouteInv, OpenTyped, HandedOut
  <2>4. routed[fd] \in Nat /\ (fd \notin connected => routed[fd] = 0)
    BY <2>1 DEF RouteInv
  <2>5. \A f \in open'.snic \ misclosed' : routed'[f] > 0
    BY <2>2, <2>3, <2>4 DEF RouteInv
  <2>6. \A f \in Fd \ connected' :
           routed'[f] = IF f \in open'.snic \ misclosed' THEN 1 ELSE 0
    BY <2>2, <2>3, <2>4 DEF RouteInv
  <2>7. OpenTyped' BY <2>1, <2>3 DEF RouteInv, OpenTyped
  <2>. QED BY <1>3, <2>2, <2>3, <2>5, <2>6, <2>7, RouteReturn
<1>4. ASSUME NEW fd \in FreeFd PROVE fd > 2
  BY <1>4, CallAssumption DEF FreeFd
<1>5. CASE ReqSockReturn
  <2>1. CASE reply.value <= 2 BY <1>5, <2>1, <1>1 DEF ReqSockReturn
  <2>2. CASE ~(reply.value <= 2)
    <3>1. reply.value \in FreeFd
      BY <1>5, <2>2 DEF ReqSockReturn, RouteInv
    <3>. QED BY <1>5, <2>2, <3>1, <1>3 DEF ReqSockReturn
  <2>. QED BY <2>1, <2>2
<1>6. CASE ReqAcceptReturn
  <2>1. CASE reply.value <= 0 BY <1>6, <2>1, <1>1 DEF ReqAcceptReturn
  <2>2. CASE ~(reply.value <= 0)
    <3>1. reply.value \in FreeFd
      BY <1>6, <2>2 DEF ReqAcceptReturn, RouteInv
    <3>. QED BY <1>6, <2>2, <3>1, <1>3 DEF ReqAcceptReturn
  <2>. QED BY <2>1, <2>2
<1>7. ASSUME phase = "served", call.op \in {"connect", "close"}
      PROVE  call.args.fd \in Fd /\ routed[call.args.fd] > 0
  <2>1. LookedUp(call) \in Fd /\ routed[LookedUp(call)] > 0 BY <1>7 DEF RouteInv
  <2>2. LookedUp(call) = call.args.fd BY <1>7 DEF LookedUp
  <2>. QED BY <2>1, <2>2
<1>8. CASE ReqConnectReturn
  <2>. DEFINE fd == call.args.fd
  <2>1. fd \in Fd BY <1>8, <1>7 DEF ReqConnectReturn
  <2>2. Return(1, NULL) /\ fd_insertByValue(fd) /\ connected' = connected \cup {fd}
        /\ UNCHANGED <<open, misclosed>>
    BY <1>8 DEF ReqConnectReturn
  <2>. HIDE DEF fd
  <2>3. routed' \in [Fd -> Nat] /\ routed'[fd] = routed[fd] + 1
        /\ \A f \in Fd : f # fd => routed'[f] = routed[f]
    BY <2>1, <2>2 DEF RouteInv, fd_insertByValue
  <2>4. \A f \in open'.snic \ misclosed' : routed'[f] > 0
    BY <2>1, <2>2, <2>3 DEF RouteInv, OpenTyped
  <2>5. \A f \in Fd \ connected' :
           routed'[f] = IF f \in open'.snic \ misclosed' THEN 1 ELSE 0
    BY <2>2, <2>3 DEF RouteInv
  <2>6. OpenTyped' BY <2>1, <2>2 DEF RouteInv, OpenTyped
  <2>. QED BY <2>2, <2>3, <2>4, <2>5, <2>6, RouteReturn
<1>9. CASE ReqCloseReturn
  <2>. DEFINE fd == call.args.fd
  <2>1. fd \in Fd /\ routed[fd] > 0 BY <1>9, <1>7 DEF ReqCloseReturn
  <2>2. meant \in {"host", "snic"} BY <1>9 DEF ReqCloseReturn, RouteInv
  <2>3. /\ Return(reply.value, NULL) /\ fd_deleteByKey(fd) /\ connected' = connected
        /\ open' = [open EXCEPT ![meant] = @ \ {fd}]
        /\ misclosed' = IF meant = "host" THEN misclosed \cup {fd} ELSE misclosed
    BY <1>9 DEF ReqCloseReturn
  <2>. HIDE DEF fd
  <2>4. routed' \in [Fd -> Nat] /\ routed'[fd] = routed[fd] - 1
        /\ \A f \in Fd : f # fd => routed'[f] = routed[f]
    BY <2>1, <2>3 DEF RouteInv, fd_deleteByKey
  <2>5. open' \in [host : SUBSET Fd, snic : SUBSET Fd]
        /\ open'.snic = IF meant = "snic" THEN open.snic \ {fd} ELSE open.snic
    BY <2>2, <2>3 DEF RouteInv, OpenTyped
  <2>6. open'.snic \ misclosed' = (open.snic \ misclosed) \ {fd}
    BY <2>2, <2>3, <2>5
  <2>7. \A f \in open'.snic \ misclosed' : routed'[f] > 0
    BY <2>4, <2>6 DEF RouteInv, OpenTyped
  <2>8. fd \notin connected => routed[fd] = 1
    BY <2>1 DEF RouteInv
  <2>9. \A f \in Fd \ connected' :
           routed'[f] = IF f \in open'.snic \ misclosed' THEN 1 ELSE 0
    BY <2>3, <2>4, <2>6, <2>8 DEF RouteInv
  <2>10. meant = "host" => open.snic \cup connected \subseteq open'.snic \cup connected'
    BY <2>3, <2>5
  <2>11. OpenTyped' BY <2>1, <2>3, <2>5 DEF RouteInv, OpenTyped
  <2>. QED BY <2>3, <2>4, <2>7, <2>9, <2>10, <2>11, RouteReturn
<1>10. CASE ReturnValue BY <1>10, <1>2 DEF ReturnValue
<1>11. CASE ReqReadReturn BY <1>11, <1>2, Zenon DEF ReqReadReturn
<1>12. CASE ReqWriteReturn BY <1>12, <1>1, Zenon DEF ReqWriteReturn
<1>13. CASE ReqSelectReturn BY <1>13, <1>2, Zenon DEF ReqSelectReturn
<1>14. CASE ReqEpollWaitReturn BY <1>14, <1>2, Zenon DEF ReqEpollWaitReturn
<1>15. CASE ReqPollReturn BY <1>15, <1>2, Zenon DEF ReqPollReturn
<1>16. CASE ReqGetsockoptReturn BY <1>16, <1>2, Zenon DEF ReqGetsockoptReturn
<1>17. CASE ReqGetpeernameReturn BY <1>17, <1>2, Zenon DEF ReqGetpeernameReturn
<1>18. CASE ReqGetsocknameReturn BY <1>18, <1>2, Zenon DEF ReqGetsocknameReturn
<1>. QED
  BY <1>5, <1>6, <1>8, <1>9, <1>10, <1>11, <1>12, <1>13, <1>14, <1>15, <1>16, <1>17,
     <1>18 DEF Returns

(* A copy that runs past the array changes no descriptor. *)
LEMMA RouteOverrun ==
  ASSUME RouteInv, Overrun
  PROVE  RouteInv'
<1>1. phase' = "crashed" /\ UNCHANGED <<fdVars, call, meant, ran>>
  BY DEF Overrun
<1>2. RightKernel'
  BY <1>1 DEF RouteInv, OpenTyped, RightKernel, LookedUp, Descriptors, fdVars
<1>. QED BY <1>1, <1>2 DEF RouteInv, OpenTyped, fdVars

(* In every state the table, the requests under way and the replies are as   *)
(* RouteInv says.                                                            *)
THEOREM Routed == Spec => []RouteInv
<1>1. ASSUME RouteInv, [Next]_vars PROVE RouteInv'
  <2>1. CASE \E c \in Call : Hooks(c) BY <1>1, <2>1, RouteHooks
  <2>2. CASE RdmaReqEvent BY <1>1, <2>2, RouteWorker
  <2>3. CASE Overrun BY <1>1, <2>3, RouteOverrun
  <2>4. CASE Returns BY <1>1, <2>4, RouteReturns
  <2>5. CASE UNCHANGED vars
    BY <1>1, <2>5 DEF vars, fdVars, FreeFd, OpenTyped, RouteInv, RightKernel, LookedUp, Descriptors
  <2>. QED BY <1>1, <2>1, <2>2, <2>3, <2>4, <2>5 DEF Next
<1>. QED BY <1>1, RouteInit, PTL DEF Spec

(* The hooked calls reach the kernel that all their descriptors belong to,   *)
(* if the one their hook looks up is among these, though both kernels may    *)
(* use one number: for any calls, any number of them, and any outcome of the *)
(* kernel's own calls.  The exceptions are those that RightKernel names: a   *)
(* number the SmartNIC has, or had when connect entered it a second time,    *)
(* takes the host's calls along, and a close that was taken along leaves the *)
(* SmartNIC's number to the host.                                            *)
THEOREM CallsReachTheirKernel == Spec => []RightKernel
<1>1. RouteInv => RightKernel BY DEF RouteInv
<1>. QED BY <1>1, Routed, PTL

---------------------------------------------------------------------------
(* The stores after a reply keep the array an array. *)
LEMMA AfterReplyDomain ==
  ASSUME NEW op, NEW e, NEW v, NEW d, DOMAIN d = 0 .. DataBytes - 1
  PROVE  DOMAIN AfterReply(op, [errno |-> e, value |-> v, data |-> d]).data
         = 0 .. DataBytes - 1
<1>. DEFINE m == [errno |-> e, value |-> v, data |-> d]
<1>1. CASE op = "READ" /\ v > 0
  <2>1. AfterReply(op, m).data = Put(d, 0, Zeros(8)) BY <1>1 DEF AfterReply
  <2>. QED BY <2>1, PutDomain
<1>2. CASE op = "WRITE"
  <2>1. AfterReply(op, m).data = Put(d, 0, Zeros(2)) BY <1>2 DEF AfterReply
  <2>. QED BY <2>1, PutDomain
<1>3. CASE op = "SELECT"
  <2>1. AfterReply(op, m).data = Blank BY <1>3 DEF AfterReply
  <2>. QED BY <2>1 DEF Blank
<1>4. CASE ~(op = "READ" /\ v > 0) /\ op # "WRITE" /\ op # "SELECT"
  BY <1>4 DEF AfterReply
<1>. QED BY <1>1, <1>2, <1>3, <1>4

(* It holds before the first call. *)
LEMMA ValueInit == Init => ValueInv
BY DEF Init, ValueInv, ValueReturns

(* A hook that makes a call forgets the outcome of the one before. *)
LEMMA ValueSend ==
  ASSUME ValueInv, NEW c, NEW op, NEW fd, NEW size, NEW port, NEW data,
         Send(c, op, fd, size, port, data),
         StoresValue(c.op) <=> op \notin {"SETSOCKOPT", "GETSOCKOPT"},
         c.op = "read" <=> op = "READ",
         op = "READ" => size \in 1 .. DataBytes
  PROVE  ValueInv'
<1>1. call' = c /\ phase' = "sent" /\ got' = NULL /\ req'.op = op /\ req'.size = size
      /\ rtn' = rtn
  BY DEF Send, MakesCall
<1>2. StoresValue(call'.op) <=> req'.op \notin {"SETSOCKOPT", "GETSOCKOPT"}
  BY <1>1
<1>. QED
  BY <1>1, <1>2 DEF ValueInv, ValueReturns, StoresValue

(* A reply has the outcome of the kernel call that the worker has just made. *)
LEMMA ValueServe ==
  ASSUME ValueInv, NEW op, NEW args, NEW value, NEW stored, NEW output, NEW data,
         ServeAs(op, args, value, stored, output, data),
         DOMAIN data = 0 .. DataBytes - 1,
         req.op \notin {"SETSOCKOPT", "GETSOCKOPT"} => stored = value,
         req.op = "READ" => value \in Int,
         req.op = "READ" /\ value > 0 => Get(data, 0, value) = output
  PROVE  ValueInv'
<1>1. /\ phase = "sent" /\ phase' = "served"
      /\ UNCHANGED <<call, req, got>>
      /\ out'.value = value /\ out'.output = output
      /\ out'.errno = IF value < 0 THEN 1 ELSE 0
      /\ reply'.value = stored /\ reply'.data = data
      /\ value < 0 => reply'.errno = 1
  BY DEF ServeAs
<1>2. DOMAIN rtn'.data = 0 .. DataBytes - 1
  <2>1. PICK e : reply' = [errno |-> e, value |-> stored, data |-> data]
    BY DEF ServeAs
  <2>2. rtn' = AfterReply(req.op, [errno |-> e, value |-> stored, data |-> data])
    BY <2>1 DEF ServeAs
  <2>. QED BY <2>2, AfterReplyDomain
<1>3. got' = NULL
  BY <1>1 DEF ValueInv
<1>4. call.op = "read" /\ value > 0 => Get(data, 0, value) = output
  BY <1>1 DEF ValueInv
<1>5. call.op = "read" => value \in Int
  BY <1>1 DEF ValueInv
<1>6. StoresValue(call.op) => stored = value
  BY <1>1 DEF ValueInv
<1>7. ValueReturns'
  BY <1>3 DEF ValueReturns
<1>. QED
  BY <1>1, <1>2, <1>3, <1>4, <1>5, <1>6, <1>7 DEF ValueInv, StoresValue

(* Every hook up to the reply *)
LEMMA ValueHooks ==
  ASSUME ValueInv, NEW c \in Call, Hooks(c)
  PROVE  ValueInv'
<1>1. CASE ReqSock(c) BY <1>1, ValueSend DEF ReqSock, StoresValue
<1>2. CASE ReqConnect(c) BY <1>2, ValueSend DEF ReqConnect, SendFd, StoresValue
<1>3. CASE ReqClose(c) BY <1>3, ValueSend DEF ReqClose, SendFd, StoresValue
<1>4. CASE ReqBind(c) BY <1>4, ValueSend DEF ReqBind, SendFd, StoresValue
<1>5. CASE ReqListen(c) BY <1>5, ValueSend DEF ReqListen, SendFd, StoresValue
<1>6. CASE ReqAccept(c) BY <1>6, ValueSend DEF ReqAccept, SendFd, StoresValue
<1>7. CASE ReqRead(c)
  <2>1. c.op = "read" /\ Send(c, "READ", c.args.fd, c.args.size, 0, req.data)
    BY <1>7 DEF ReqRead
  <2>2. c.args.size \in 1 .. DataBytes
    BY <2>1, CallAssumption DEF WellTyped
  <2>. QED BY <2>1, <2>2, ValueSend DEF StoresValue
<1>8. CASE ReqWrite(c) BY <1>8, ValueSend DEF ReqWrite, StoresValue
<1>9. CASE ReqSelect(c) BY <1>9, ValueSend DEF ReqSelect, StoresValue
<1>10. CASE ReqEpollCreate1(c) BY <1>10, ValueSend DEF ReqEpollCreate1, StoresValue
<1>11. CASE ReqEpollCtl(c) BY <1>11, ValueSend DEF ReqEpollCtl, StoresValue
<1>12. CASE ReqEpollWait(c) BY <1>12, ValueSend DEF ReqEpollWait, StoresValue
<1>13. CASE ReqPoll(c) BY <1>13, ValueSend DEF ReqPoll, StoresValue
<1>14. CASE ReqFcntl(c)
  <2>. PICK arg \in {c.args.arg, BadArg} :
         Send(c, "FCNTL", FcntlFlag(c.args.cmd), 0, 0,
              serialize_fcntl_dt(req.data, c.args.cmd, arg))
    BY <1>14 DEF ReqFcntl
  <2>. QED BY <1>14, ValueSend DEF ReqFcntl, StoresValue
<1>15. CASE ReqSetsockopt(c) BY <1>15, ValueSend DEF ReqSetsockopt, StoresValue
<1>16. CASE ReqGetsockopt(c) BY <1>16, ValueSend DEF ReqGetsockopt, SendFd, StoresValue
<1>17. CASE ReqGetpeername(c) BY <1>17, ValueSend DEF ReqGetpeername, StoresValue
<1>18. CASE ReqGetsockname(c) BY <1>18, ValueSend DEF ReqGetsockname, StoresValue
<1>19. CASE Original(c)
  <2>1. got' = NULL /\ phase' = "idle" /\ rtn' = rtn BY <1>19 DEF Original, MakesCall
  <2>. QED BY <2>1 DEF ValueInv, ValueReturns
<1>. QED
  BY <1>1, <1>2, <1>3, <1>4, <1>5, <1>6, <1>7, <1>8, <1>9, <1>10, <1>11, <1>12,
     <1>13, <1>14, <1>15, <1>16, <1>17, <1>18, <1>19 DEF Hooks

(* The serializers keep the array an array as well. *)
LEMMA SelectDomain ==
  ASSUME NEW d, NEW k PROVE DOMAIN serialize_select_fd_set(d, k) = DOMAIN d
BY DEF serialize_select_fd_set, Put

(* epoll_wait *)
LEMMA EpollWaitDomain ==
  ASSUME NEW d, NEW n, NEW epfd, NEW m, NEW t, NEW events
  PROVE  DOMAIN serialize_epoll_wait_dt(d, n, epfd, m, t, events) = DOMAIN d
BY PutDomain, ZenonT(60) DEF serialize_epoll_wait_dt

(* poll *)
LEMMA PollDomain ==
  ASSUME NEW d, NEW fds, NEW t PROVE DOMAIN serialize_poll_pollfd(d, fds, t) = DOMAIN d
BY DEF serialize_poll_pollfd, Put

(* socket options *)
LEMMA SockoptDomain ==
  ASSUME NEW d, NEW level, NEW optname, NEW optval
  PROVE  DOMAIN serialize_sockopt_dt(d, level, optname, optval) = DOMAIN d
BY DEF serialize_sockopt_dt, Put

(* addresses *)
LEMMA AddrDomain ==
  ASSUME NEW d, NEW addrlen, NEW addr PROVE DOMAIN serialize_addr_dt(d, addrlen, addr) = DOMAIN d
BY PutDomain, ZenonT(60) DEF serialize_addr_dt

(* Every case of the worker's switch *)
LEMMA ValueWorker ==
  ASSUME ValueInv, RdmaReqEvent
  PROVE  ValueInv'
<1>0. DOMAIN rtn.data = 0 .. DataBytes - 1
  BY DEF ValueInv
<1>1. ASSUME NEW op, NEW args, NEW values, ServeFd(op, args, values), req.op # "READ"
      PROVE  ValueInv'
  <2>. PICK v \in values : ServeAs(op, args, v, v, NULL, rtn.data)
    BY <1>1 DEF ServeFd, Serve
  <2>. QED BY <1>0, <1>1, ValueServe
<1>2. ASSUME NEW op, NEW args, NEW v, NEW output, NEW data,
             Serve(op, args, v, output, data), DOMAIN data = DOMAIN rtn.data,
             req.op # "READ"
      PROVE  ValueInv'
  BY <1>0, <1>2, ValueServe DEF Serve
<1>3. ASSUME NEW op, NEW args, NEW v, NEW output, NEW data,
             ServeAs(op, args, v, rtn.value, output, data),
             DOMAIN data = DOMAIN rtn.data, req.op \in {"SETSOCKOPT", "GETSOCKOPT"}
      PROVE  ValueInv'
  BY <1>0, <1>3, ValueServe
<1>4. CASE SockSocket BY <1>4, <1>1 DEF SockSocket
<1>5. CASE SockAccept BY <1>5, <1>1 DEF SockAccept
<1>6. CASE SockConnect BY <1>6, <1>1 DEF SockConnect
<1>7. CASE SockClose BY <1>7, <1>1 DEF SockClose
<1>8. CASE SockBind BY <1>8, <1>1 DEF SockBind
<1>9. CASE SockListen BY <1>9, <1>1 DEF SockListen
<1>10. CASE SockReadMessage
  <2>. DEFINE args == [fd |-> req.fd, size |-> req.size]
              text(n) == [i \in 1 .. n |-> (100 + i) % 256]
  <2>1. req.op = "READ" BY <1>10 DEF SockReadMessage
  <2>2. (\E v \in {-1} \cup {0} : ServeAs("read", args, v, v, NULL, rtn.data))
        \/ (\E n \in {1, req.size} :
              ServeAs("read", args, n, n, text(n), Put(rtn.data, 0, text(n))))
    BY <1>10 DEF SockReadMessage, ServeFd, Serve, Failed
  <2>3. ASSUME NEW v \in {-1} \cup {0}, ServeAs("read", args, v, v, NULL, rtn.data)
        PROVE  ValueInv'
    BY <1>0, <2>3, ValueServe
  <2>4. ASSUME NEW n \in {1, req.size},
               ServeAs("read", args, n, n, text(n), Put(rtn.data, 0, text(n)))
        PROVE  ValueInv'
    <3>1. phase = "sent" BY <2>4 DEF ServeAs
    <3>2. n \in 0 .. DataBytes
      BY <2>1, <3>1, CodecAssumption DEF ValueInv
    <3>3. IsField(text(n), n)
      BY <3>2 DEF IsField
    <3>4. Get(Put(rtn.data, 0, text(n)), 0, n) = text(n)
      <4>1. 0 \in Nat /\ n \in Nat /\ 0 + n <= DataBytes
        BY SMT, <3>2, CodecAssumption
      <4>2. IsData(rtn.data) BY <1>0 DEF IsData
      <4>3. PICK t : t = text(n) OBVIOUS
      <4>. HIDE DEF text
      <4>4. IsField(t, n) BY <3>3, <4>3, Zenon
      <4>5. Get(Put(rtn.data, 0, t), 0, n) = t BY <4>1, <4>2, <4>4, GetPut, Zenon
      <4>. QED BY <4>3, <4>5, Zenon
    <3>5. DOMAIN Put(rtn.data, 0, text(n)) = 0 .. DataBytes - 1
      BY <1>0, PutDomain
    <3>. HIDE DEF text
    <3>. QED BY <2>4, <3>4, <3>5, ValueServe
  <2>. QED BY <2>2, <2>3, <2>4
<1>11. CASE SockSendMessage BY <1>11, <1>1 DEF SockSendMessage
<1>12. CASE SockSelect
  BY <1>0, <1>1, <1>2, <1>12, SelectDomain, Zenon DEF SockSelect
<1>13. CASE SockEpollCreate1 BY <1>13, <1>1 DEF SockEpollCreate1
<1>14. CASE SockEpollCtl BY <1>14, <1>1 DEF SockEpollCtl
<1>15. CASE SockEpollWait
  <2>1. req.op # "READ" BY <1>15 DEF SockEpollWait
  <2>2. ASSUME NEW args, NEW v, NEW output, NEW n, NEW epfd, NEW m, NEW t, NEW events,
               Serve("epoll_wait", args, v, output,
                     serialize_epoll_wait_dt(rtn.data, n, epfd, m, t, events))
        PROVE  ValueInv'
    BY <1>2, <2>1, <2>2, EpollWaitDomain
  <2>. QED BY <1>1, <1>15, <2>1, <2>2, Zenon DEF SockEpollWait
<1>16. CASE SockPoll
  <2>1. req.op # "READ" BY <1>16 DEF SockPoll
  <2>2. ASSUME NEW args, NEW v, NEW output, NEW fds, NEW t,
               Serve("poll", args, v, output, serialize_poll_pollfd(rtn.data, fds, t))
        PROVE  ValueInv'
    BY <1>2, <2>1, <2>2, PollDomain
  <2>. QED BY <1>1, <1>16, <2>1, <2>2, Zenon DEF SockPoll
<1>17. CASE SockFcntl BY <1>1, <1>17, Zenon DEF SockFcntl
<1>18. CASE SockSetsockopt
  BY <1>0, <1>3, <1>18, Zenon DEF SockSetsockopt
<1>19. CASE SockGetsockopt
  <2>1. req.op \in {"SETSOCKOPT", "GETSOCKOPT"} BY <1>19 DEF SockGetsockopt
  <2>2. ASSUME NEW args, NEW v, ServeAs("getsockopt", args, v, rtn.value, NULL, rtn.data)
        PROVE  ValueInv'
    BY <1>3, <2>1, <2>2
  <2>3. ASSUME NEW args, NEW v, NEW output, NEW level, NEW optname, NEW optval,
               ServeAs("getsockopt", args, v, rtn.value, output,
                       serialize_sockopt_dt(rtn.data, level, optname, optval))
        PROVE  ValueInv'
    BY <1>3, <2>1, <2>3, SockoptDomain
  <2>. QED BY <1>19, <2>2, <2>3, Zenon DEF SockGetsockopt
<1>20. CASE SockGetsockname
  BY <1>0, <1>1, <1>2, <1>20, AddrDomain, ZenonT(60) DEF SockGetsockname
<1>. QED
  BY <1>4, <1>5, <1>6, <1>7, <1>8, <1>9, <1>10, <1>11, <1>12, <1>13, <1>14,
     <1>15, <1>16, <1>17, <1>18, <1>19, <1>20 DEF RdmaReqEvent

(* What a hook returns to the application is the reply to its request. *)
LEMMA ValueReturn ==
  ASSUME ValueInv, NEW value, NEW output, Return(value, output),
         value = reply.value \/ call.op = "connect"
           \/ (call.op = "socket" /\ reply.value <= 2 /\ value = -1),
         call.op = "socket" /\ reply.value <= 2 => value = -1,
         call.op = "read" /\ out.value > 0 => output = Get(reply.data, 0, reply.value)
  PROVE  ValueInv'
<1>1. /\ phase = "served" /\ phase' = "idle"
      /\ UNCHANGED <<call, out, rtn>>
      /\ got'.value = value /\ got'.output = output
      /\ got'.errno = IF reply.value < 0 THEN reply.errno ELSE 0
  BY DEF Return
<1>2. StoresValue(call.op) => out.errno = got'.errno
  BY <1>1 DEF ValueInv
<1>3. call.op = "read" /\ out.value > 0 => output = out.output
  BY <1>1 DEF ValueInv, StoresValue
<1>4. ValueReturns'
  BY <1>1, <1>2, <1>3 DEF ValueInv, ValueReturns, StoresValue
<1>. QED BY <1>1, <1>4 DEF ValueInv

(* Every hook from the reply on *)
LEMMA ValueOfReturns ==
  ASSUME ValueInv, Returns
  PROVE  ValueInv'
<1>1. ASSUME NEW output, Return(reply.value, output), call.op \notin {"socket", "read"}
      PROVE  ValueInv'
  BY <1>1, ValueReturn
<1>2. ASSUME NEW output, ReturnOutput(output), call.op \notin {"socket", "read"}
      PROVE  ValueInv'
  BY <1>1, <1>2 DEF ReturnOutput
<1>3. CASE ReqSockReturn
  <2>1. CASE reply.value <= 2 BY <1>3, <2>1, ValueReturn DEF ReqSockReturn
  <2>2. CASE ~(reply.value <= 2) BY <1>3, <2>2, ValueReturn DEF ReqSockReturn
  <2>. QED BY <2>1, <2>2
<1>4. CASE ReqReadReturn
  <2>1. phase = "served" /\ call.op = "read" BY <1>4 DEF ReqReadReturn
  <2>2. reply.value = out.value BY <2>1 DEF ValueInv, StoresValue
  <2>3. CASE reply.value < 0
    <3>1. Return(reply.value, NULL)
      BY <1>4, <2>3 DEF ReqReadReturn, ReturnOutput
    <3>2. ~(out.value > 0) BY <2>1, <2>2, <2>3 DEF ValueInv
    <3>. QED BY <2>1, <3>1, <3>2, ValueReturn
  <2>4. CASE ~(reply.value < 0)
    <3>1. Return(reply.value, Get(reply.data, 0, reply.value))
      BY <1>4, <2>4 DEF ReqReadReturn, ReturnOutput
    <3>. QED BY <2>1, <3>1, ValueReturn
  <2>. QED BY <2>3, <2>4
<1>5. CASE ReqConnectReturn BY <1>5, ValueReturn DEF ReqConnectReturn
<1>6. CASE ReqAcceptReturn BY <1>6, <1>1 DEF ReqAcceptReturn
<1>7. CASE ReqCloseReturn BY <1>7, <1>1 DEF ReqCloseReturn
<1>8. CASE ReturnValue BY <1>8, <1>2 DEF ReturnValue
<1>9. CASE ReqWriteReturn BY <1>9, <1>1 DEF ReqWriteReturn
<1>10. CASE ReqSelectReturn
  <2>1. call.op \notin {"socket", "read"} BY <1>10 DEF ReqSelectReturn
  <2>. QED BY <1>10, <2>1, <1>2, Zenon DEF ReqSelectReturn
<1>11. CASE ReqEpollWaitReturn BY <1>11, <1>2 DEF ReqEpollWaitReturn
<1>12. CASE ReqPollReturn
  <2>1. call.op \notin {"socket", "read"} BY <1>12 DEF ReqPollReturn
  <2>. QED BY <1>12, <2>1, <1>2, Zenon DEF ReqPollReturn
<1>13. CASE ReqGetsockoptReturn BY <1>13, <1>2 DEF ReqGetsockoptReturn
<1>14. CASE ReqGetpeernameReturn BY <1>14, <1>2 DEF ReqGetpeernameReturn
<1>15. CASE ReqGetsocknameReturn
  <2>1. call.op \notin {"socket", "read"} BY <1>15 DEF ReqGetsocknameReturn
  <2>. QED BY <1>15, <2>1, <1>2, Zenon DEF ReqGetsocknameReturn
<1>. QED
  BY <1>3, <1>4, <1>5, <1>6, <1>7, <1>8, <1>9, <1>10, <1>11, <1>12, <1>13, <1>14,
     <1>15 DEF Returns

(* In every state the reply under way is that of the call under way. *)
THEOREM Answered == Spec => []ValueInv
<1>1. ASSUME ValueInv, [Next]_vars PROVE ValueInv'
  <2>1. CASE \E c \in Call : Hooks(c) BY <1>1, <2>1, ValueHooks
  <2>2. CASE RdmaReqEvent BY <1>1, <2>2, ValueWorker
  <2>3. CASE Overrun
    <3>1. phase \in {"sent", "served"} /\ phase' = "crashed" /\ UNCHANGED <<rtn, got>>
      BY <2>3 DEF Overrun
    <3>2. got' = NULL BY <1>1, <3>1 DEF ValueInv
    <3>. QED BY <1>1, <3>1, <3>2 DEF ValueInv, ValueReturns
  <2>4. CASE Returns BY <1>1, <2>4, ValueOfReturns
  <2>5. CASE UNCHANGED vars
    BY <1>1, <2>5 DEF vars, ValueInv, ValueReturns, StoresValue
  <2>. QED BY <1>1, <2>1, <2>2, <2>3, <2>4, <2>5 DEF Next
<1>. QED BY <1>1, ValueInit, PTL DEF Spec

(* The application gets the value, the error and, of a read, the bytes of    *)
(* its own kernel call, whatever calls came before it and whatever they left *)
(* in the buffers; the exceptions are those that ValueReturns names.         *)
THEOREM OwnOutcomeReturns == Spec => []ValueReturns
<1>1. ValueInv => ValueReturns BY DEF ValueInv
<1>. QED BY <1>1, Answered, PTL

---------------------------------------------------------------------------

(* No option is longer than the array before the first call. *)
LEMMA LengthInit == Init => LengthInv
BY DEF Init, LengthInv, OverrunNeedsQuery, Blank

(* A request of setsockopt has a length that fits, one of getsockopt comes   *)
(* from a call that asks for something.                                      *)
LEMMA LengthSend ==
  ASSUME LengthInv, NEW c, NEW op, NEW fd, NEW size, NEW port, NEW data,
         Send(c, op, fd, size, port, data),
         DOMAIN data = DOMAIN req.data,
         op = "SETSOCKOPT" => OptlenFits(data),
         op = "GETSOCKOPT" => c.op \in {"getsockopt", "getpeername"}
  PROVE  LengthInv'
<1>1. call' = c /\ phase' = "sent" /\ req'.op = op /\ req'.data = data
  BY DEF Send, MakesCall
<1>2. req'.op = "SETSOCKOPT" => OptlenFits(req'.data)
  BY <1>1
<1>3. OptlenFits(req.data)' <=> OptlenFits(req'.data)
  BY DEF OptlenFits, IntAt, Get, AsInt
<1>. QED
  BY <1>1, <1>2, <1>3 DEF LengthInv, OverrunNeedsQuery

(* Every hook up to the reply *)
LEMMA LengthHooks ==
  ASSUME LengthInv, NEW c \in Call, Hooks(c)
  PROVE  LengthInv'
<1>1. ASSUME NEW op, NEW fd, NEW size, NEW port, Send(c, op, fd, size, port, req.data),
             op \notin {"SETSOCKOPT", "GETSOCKOPT"}
      PROVE  LengthInv'
  BY <1>1, LengthSend
<1>2. ASSUME NEW op, NEW fd, NEW size, NEW port, NEW data,
             Send(c, op, fd, size, port, data), DOMAIN data = DOMAIN req.data,
             op \notin {"SETSOCKOPT", "GETSOCKOPT"}
      PROVE  LengthInv'
  BY <1>2, LengthSend
<1>3. CASE ReqSock(c) BY <1>1, <1>3 DEF ReqSock
<1>4. CASE ReqConnect(c) BY <1>1, <1>4 DEF ReqConnect, SendFd
<1>5. CASE ReqClose(c) BY <1>1, <1>5 DEF ReqClose, SendFd
<1>6. CASE ReqBind(c) BY <1>1, <1>6 DEF ReqBind, SendFd
<1>7. CASE ReqListen(c) BY <1>1, <1>7 DEF ReqListen, SendFd
<1>8. CASE ReqAccept(c) BY <1>1, <1>8 DEF ReqAccept, SendFd
<1>9. CASE ReqRead(c) BY <1>1, <1>9 DEF ReqRead
<1>10. CASE ReqWrite(c) BY <1>2, <1>10, PutDomain DEF ReqWrite
<1>11. CASE ReqSelect(c) BY <1>2, <1>11, SelectDomain DEF ReqSelect
<1>12. CASE ReqEpollCreate1(c) BY <1>2, <1>12, PutDomain DEF ReqEpollCreate1, serialize_epoll_create_dt
<1>13. CASE ReqEpollCtl(c) BY <1>2, <1>13, PutDomain DEF ReqEpollCtl, serialize_epoll_ctl_dt
<1>14. CASE ReqEpollWait(c) BY <1>2, <1>14, EpollWaitDomain DEF ReqEpollWait
<1>15. CASE ReqPoll(c) BY <1>2, <1>15, PollDomain DEF ReqPoll
<1>16. CASE ReqFcntl(c)
  <2>1. PICK arg \in {c.args.arg, BadArg} :
          Send(c, "FCNTL", FcntlFlag(c.args.cmd), 0, 0,
               serialize_fcntl_dt(req.data, c.args.cmd, arg))
    BY <1>16 DEF ReqFcntl
  <2>2. DOMAIN serialize_fcntl_dt(req.data, c.args.cmd, arg) = DOMAIN req.data
    BY PutDomain, ZenonT(60) DEF serialize_fcntl_dt
  <2>. QED BY <1>2, <2>1, <2>2
<1>17. CASE ReqSetsockopt(c)
  <2>. DEFINE v == c.args.optval
              data == serialize_sockopt_dt(req.data, c.args.level, c.args.optname, v)
  <2>1. c.op = "setsockopt" /\ Send(c, "SETSOCKOPT", c.args.fd, 0, 0, data)
    BY <1>17 DEF ReqSetsockopt
  <2>2. c.args.level \in Int32 /\ c.args.optname \in Int32 /\ v \in Seq(Byte)
        /\ Len(v) <= DataBytes - 12
    BY <2>1, CallAssumption DEF WellTyped
  <2>. HIDE DEF v
  <2>3. Len(v) \in 0 .. DataBytes - 12 /\ v = [i \in 1 .. Len(v) |-> v[i]]
    BY SMT, <2>2, CodecAssumption
  <2>4. IsData(req.data) BY DEF LengthInv, IsData
  <2>5. OptlenFits(data)
    BY <2>2, <2>3, <2>4, SockoptRoundTrip, Zenon
  <2>6. DOMAIN data = DOMAIN req.data BY SockoptDomain, ZenonT(60)
  <2>. HIDE DEF data
  <2>. QED BY <2>1, <2>5, <2>6, LengthSend
<1>18. CASE ReqGetsockopt(c) BY <1>18, LengthSend DEF ReqGetsockopt, SendFd
<1>19. CASE ReqGetpeername(c) BY <1>19, LengthSend, AddrDomain DEF ReqGetpeername
<1>20. CASE ReqGetsockname(c) BY <1>2, <1>20, AddrDomain DEF ReqGetsockname
<1>21. CASE Original(c)
  <2>1. phase' = "idle" /\ req' = req BY <1>21 DEF Original, MakesCall
  <2>. QED BY <2>1 DEF LengthInv, OverrunNeedsQuery
<1>. QED
  BY <1>3, <1>4, <1>5, <1>6, <1>7, <1>8, <1>9, <1>10, <1>11, <1>12, <1>13,
     <1>14, <1>15, <1>16, <1>17, <1>18, <1>19, <1>20, <1>21 DEF Hooks

(* What every case of the worker's switch does *)
LEMMA WorkerStep ==
  ASSUME RdmaReqEvent
  PROVE  phase = "sent" /\ phase' = "served" /\ UNCHANGED <<call, req, got>>
<1>. DEFINE Step == phase = "sent" /\ phase' = "served" /\ UNCHANGED <<call, req, got>>
<1>. SUFFICES Step OBVIOUS
<1>1. ASSUME NEW op, NEW args, NEW v, NEW w, NEW output, NEW data,
             ServeAs(op, args, v, w, output, data)
      PROVE  Step
  BY <1>1 DEF ServeAs
<1>2. ASSUME NEW op, NEW args, NEW v, NEW output, NEW data, Serve(op, args, v, output, data)
      PROVE  Step
  BY <1>1, <1>2 DEF Serve
<1>3. ASSUME NEW op, NEW args, NEW values, ServeFd(op, args, values)
      PROVE  Step
  BY <1>2, <1>3, Zenon DEF ServeFd
<1>. HIDE DEF Step
<1>4. CASE SockSocket BY <1>1, <1>2, <1>3, <1>4, Zenon DEF SockSocket
<1>5. CASE SockAccept BY <1>1, <1>2, <1>3, <1>5, Zenon DEF SockAccept
<1>6. CASE SockConnect BY <1>1, <1>2, <1>3, <1>6, Zenon DEF SockConnect
<1>7. CASE SockClose BY <1>1, <1>2, <1>3, <1>7, Zenon DEF SockClose
<1>8. CASE SockReadMessage BY <1>1, <1>2, <1>3, <1>8, Zenon DEF SockReadMessage
<1>9. CASE SockSendMessage BY <1>1, <1>2, <1>3, <1>9, Zenon DEF SockSendMessage
<1>10. CASE SockBind BY <1>1, <1>2, <1>3, <1>10, Zenon DEF SockBind
<1>11. CASE SockListen BY <1>3, <1>11 DEF SockListen
<1>12. CASE SockSelect BY <1>1, <1>2, <1>3, <1>12, Zenon DEF SockSelect
<1>13. CASE SockEpollCreate1 BY <1>1, <1>2, <1>3, <1>13, Zenon DEF SockEpollCreate1
<1>14. CASE SockEpollCtl BY <1>1, <1>2, <1>3, <1>14, Zenon DEF SockEpollCtl
<1>15. CASE SockEpollWait BY <1>1, <1>2, <1>3, <1>15, Zenon DEF SockEpollWait
<1>16. CASE SockPoll BY <1>1, <1>2, <1>3, <1>16, Zenon DEF SockPoll
<1>17. CASE SockFcntl BY <1>1, <1>2, <1>3, <1>17, Zenon DEF SockFcntl
<1>18. CASE SockSetsockopt BY <1>1, <1>2, <1>3, <1>18, Zenon DEF SockSetsockopt
<1>19. CASE SockGetsockopt BY <1>1, <1>2, <1>3, <1>19, Zenon DEF SockGetsockopt
<1>20. CASE SockGetsockname BY <1>1, <1>2, <1>3, <1>20, Zenon DEF SockGetsockname
<1>. QED
  BY <1>4, <1>5, <1>6, <1>7, <1>8, <1>9, <1>10, <1>11, <1>12,
     <1>13, <1>14, <1>15, <1>16, <1>17, <1>18, <1>19, <1>20 DEF RdmaReqEvent

(* The worker leaves the request as it is. *)
LEMMA LengthWorker ==
  ASSUME LengthInv, RdmaReqEvent
  PROVE  LengthInv'
BY WorkerStep DEF LengthInv, OverrunNeedsQuery

(* A hook that returns leaves an array in the request. *)
LEMMA LengthReturns ==
  ASSUME LengthInv, Returns
  PROVE  LengthInv'
<1>1. ASSUME NEW output, ReturnOutput(output) PROVE phase' = "idle" /\ req' = req
  BY <1>1 DEF ReturnOutput, Return
<1>2. phase' = "idle" /\ DOMAIN req'.data = 0 .. DataBytes - 1
  <2>1. ASSUME phase' = "idle", req' = req
        PROVE  phase' = "idle" /\ DOMAIN req'.data = 0 .. DataBytes - 1
    BY <2>1 DEF LengthInv
  <2>2. CASE ReqWriteReturn
    <3>1. phase' = "idle" /\ req' = [req EXCEPT !.data = Blank]
      BY <2>2 DEF ReqWriteReturn, Return
    <3>. QED BY <3>1 DEF LengthInv, Blank
  <2>3. CASE ReqSockReturn BY <2>1, <2>3 DEF ReqSockReturn, Return
  <2>4. CASE ReqAcceptReturn BY <2>1, <2>4 DEF ReqAcceptReturn, Return
  <2>5. CASE ReqConnectReturn BY <2>1, <2>5 DEF ReqConnectReturn, Return
  <2>6. CASE ReqCloseReturn BY <2>1, <2>6 DEF ReqCloseReturn, Return
  <2>7. CASE ReturnValue BY <1>1, <2>1, <2>7, Zenon DEF ReturnValue
  <2>8. CASE ReqReadReturn BY <1>1, <2>1, <2>8, Zenon DEF ReqReadReturn
  <2>9. CASE ReqSelectReturn BY <1>1, <2>1, <2>9, Zenon DEF ReqSelectReturn
  <2>10. CASE ReqEpollWaitReturn BY <1>1, <2>1, <2>10, Zenon DEF ReqEpollWaitReturn
  <2>11. CASE ReqPollReturn BY <1>1, <2>1, <2>11, Zenon DEF ReqPollReturn
  <2>12. CASE ReqGetsockoptReturn BY <1>1, <2>1, <2>12, Zenon DEF ReqGetsockoptReturn
  <2>13. CASE ReqGetpeernameReturn BY <1>1, <2>1, <2>13, Zenon DEF ReqGetpeernameReturn
  <2>14. CASE ReqGetsocknameReturn BY <1>1, <2>1, <2>14, Zenon DEF ReqGetsocknameReturn
  <2>. QED
    BY <2>2, <2>3, <2>4, <2>5, <2>6, <2>7, <2>8, <2>9, <2>10, <2>11, <2>12, <2>13, <2>14 DEF Returns
<1>. QED BY <1>2 DEF LengthInv, OverrunNeedsQuery

(* In every state a request of setsockopt has a length that fits. *)
THEOREM LengthsFit == Spec => []LengthInv
<1>1. ASSUME LengthInv, [Next]_vars PROVE LengthInv'
  <2>1. CASE \E c \in Call : Hooks(c) BY <1>1, <2>1, LengthHooks
  <2>2. CASE RdmaReqEvent BY <1>1, <2>2, LengthWorker
  <2>3. CASE Overrun
    <3>1. phase' = "crashed" /\ UNCHANGED <<call, req>> BY <2>3 DEF Overrun
    <3>2. call.op \in {"getsockopt", "getpeername"} BY <1>1, <2>3 DEF Overrun, LengthInv
    <3>. QED BY <1>1, <3>1, <3>2 DEF LengthInv, OverrunNeedsQuery
  <2>4. CASE Returns BY <1>1, <2>4, LengthReturns
  <2>5. CASE UNCHANGED vars
    BY <1>1, <2>5 DEF vars, LengthInv, OverrunNeedsQuery, OptlenFits, IntAt, Get, AsInt
  <2>. QED BY <1>1, <2>1, <2>2, <2>3, <2>4, <2>5 DEF Next
<1>. QED BY <1>1, LengthInit, PTL DEF Spec

(* No sequence of calls makes the copy of an option run past the array but   *)
(* one that ends with getsockopt or getpeername.                             *)
THEOREM OverrunOnlyInQuery == Spec => []OverrunNeedsQuery
<1>1. LengthInv => OverrunNeedsQuery BY DEF LengthInv
<1>. QED BY <1>1, LengthsFit, PTL

=============================================================================
