-------------------------- MODULE ConnSetupProofs ---------------------------
(***************************************************************************)
(* The inductive invariant SetupInv of the connection set-up, and the      *)
(* safety properties it carries, for every set of threads and every bound  *)
(* on the connections: one lemma per action, then the theorems.            *)
(***************************************************************************)
EXTENDS ConnSetup, FiniteSetTheorems, TLAPS

USE DEF Conn, NoConn, Global, SetUpPc, OwnerPc, Request, ToSnic, ToHost, Calm, Fault

---------------------------------------------------------------------------
(* Helpers *)

(* At most one thread is in set-up. *)
LEMMA OneInSetUp ==
  ASSUME TypeOK, LockInv, NEW t \in Thread, NEW u \in Thread,
         pc[t] \in SetUpPc, pc[u] \in SetUpPc
  PROVE  t = u
BY SetupAssumption DEF TypeOK, LockInv

(* The global connection is left alone. *)
GlobalAlone ==
  /\ toSnic'[Global] = toSnic[Global] /\ atSnic'[Global] = atSnic[Global]
  /\ toHost'[Global] = toHost[Global] /\ atHost'[Global] = atHost[Global]
  /\ broken'[Global] = broken[Global]

(* What InStep speaks of is left alone, so it stays true. *)
LEMMA InStepKept ==
  ASSUME NEW t \in Thread, InStep(t), pc'[t] = pc[t], conn'[t] = conn[t],
         cm'[conn[t]] = cm[conn[t]], UNCHANGED <<spc, cur, chan>>,
         NewAsked \/ broken[Global] => NewAsked' \/ broken'[Global],
         NewAnswered => NewAnswered'
  PROVE  InStep(t)'
BY DEF InStep, NewAsked, NewAnswered

(* A step during a set-up has to keep only its thread in step: it is alone. *)
LEMMA SoleStep ==
  ASSUME TypeOK, LockInv, NEW t \in Thread, pc[t] \in SetUpPc,
         \A u \in Thread \ {t} : pc'[u] = pc[u],
         Calm' /\ pc'[t] \in SetUpPc => InStep(t)',
         Calm' /\ pc'[t] \notin SetUpPc =>
           spc' \in {"post_recv_req", "pthread_create", "poll"} /\ chan' = <<>>
  PROVE  StepInv'
<1>1. \A u \in Thread \ {t} : pc'[u] \notin SetUpPc
  BY OneInSetUp
<1> QED
  BY <1>1 DEF StepInv

(* A step of a thread outside set-up does not disturb the order. *)
LEMMA OutsideStep ==
  ASSUME TypeOK, StepInv, Calm' => Calm, UNCHANGED <<spc, cur, chan, cm>>,
         NewAsked \/ broken[Global] => NewAsked' \/ broken'[Global],
         NewAnswered => NewAnswered',
         \A u \in Thread : pc[u] \in SetUpPc \/ pc'[u] \in SetUpPc =>
                           pc'[u] = pc[u] /\ conn'[u] = conn[u]
  PROVE  StepInv'
<1> SUFFICES ASSUME Calm' PROVE StepInv'
  BY DEF StepInv
<1>1. ASSUME NEW u \in Thread, pc'[u] \in SetUpPc
      PROVE  InStep(u)'
  BY <1>1, InStepKept DEF StepInv
<1>2. ASSUME \A u \in Thread : pc'[u] \notin SetUpPc
      PROVE  spc' \in {"post_recv_req", "pthread_create", "poll"} /\ chan' = <<>>
  <2>1. \A u \in Thread : pc[u] \notin SetUpPc
    BY <1>2
  <2> QED
    BY <2>1 DEF StepInv
<1> QED
  BY <1>1, <1>2 DEF StepInv

(* A step of a thread outside set-up makes nothing fail. *)
LEMMA OutsideOrder ==
  ASSUME TypeOK, OrderInv, UNCHANGED <<left, faults, twice, up, cm, broken>>,
         \A c \in Conn : broken[c] /\ Quiet(c) => Quiet(c)',
         \A u \in Thread : pc[u] \in SetUpPc \/ pc'[u] \in SetUpPc =>
                           pc'[u] = pc[u] /\ conn'[u] = conn[u],
         \A u \in Thread : pc'[u] \notin {"no_r_info", "disconnect"}
                           \/ pc'[u] = pc[u]
  PROVE  OrderInv'
<1>1. Calm' <=> Calm
  BY DEF Calm
<1>2. \A u \in Thread : pc'[u] = "xchange" => pc[u] = "xchange" /\ conn'[u] = conn[u]
  OBVIOUS
<1>3. \A u \in Thread : pc[u] = "wait_established" =>
        pc'[u] = "wait_established" /\ conn'[u] = conn[u]
  OBVIOUS
<1> QED
  BY <1>1, <1>2, <1>3, SMTT(60) DEF OrderInv

(* The wires of the global connection are left alone, and its caller waits. *)
LEMMA GlobalKept ==
  ASSUME GlobalInv, GlobalAlone, rqHost'[Global] = rqHost[Global], Starting' <=> Starting,
         NewUnderWay /\ ~broken[Global] => lock' # NoThread /\ pc'[lock'] = "wait_new",
         cm[Global] = "established" => cm'[Global] = "established",
         \A c \in Conn \ {Global} : /\ toSnic'[c] # "new" /\ atSnic'[c] # "new"
                                    /\ toHost'[c] # "answer" /\ atHost'[c] # "answer"
  PROVE  GlobalInv'
BY DEF GlobalInv, GlobalAlone, NewUnderWay, NewAsked, NewAnswered, Quiet

(* Nothing at all happens on the wires. *)
LEMMA GlobalIdle ==
  ASSUME GlobalInv, UNCHANGED <<toSnic, atSnic, toHost, atHost, broken, rqHost>>,
         Starting' <=> Starting,
         cm[Global] = "established" => cm'[Global] = "established",
         NewUnderWay /\ ~broken[Global] => lock' # NoThread /\ pc'[lock'] = "wait_new"
  PROVE  GlobalInv'
BY GlobalKept DEF GlobalAlone, GlobalInv

(* While a thread is in set-up past its NEW, no NEW is under way. *)
LEMMA NewIsOver ==
  ASSUME SetupInv, NEW t \in Thread, pc[t] \in SetUpPc \ {"wait_new"}
  PROVE  NewUnderWay => broken[Global]
<1>1. Starting => ~NewUnderWay
  BY DEF SetupInv, GlobalInv
<1>2. ~Starting => lock = t
  BY DEF SetupInv, LockInv
<1> QED
  BY <1>1, <1>2 DEF SetupInv, GlobalInv

(* Whoever finds the lock free finds nobody in set-up, and the global      *)
(* connection broken or with nothing on it.                                *)
LEMMA AskFinds ==
  ASSUME SetupInv, NEW t \in Thread, AskNewConn(t)
  PROVE  /\ ~Starting /\ pc[t] = "lock" /\ lock = NoThread
         /\ \A u \in Thread : pc[u] \notin SetUpPc
         /\ broken[Global] \/ (~NewUnderWay /\ Quiet(Global) /\ rqHost[Global] = 0)
<1>1. pc[t] = "lock" /\ lock = NoThread
  BY DEF AskNewConn, At
<1>2. ~Starting
  BY <1>1, SetupAssumption DEF SetupInv, LockInv
<1>3. \A u \in Thread : pc[u] \notin SetUpPc
  BY <1>1, <1>2, SetupAssumption DEF SetupInv, LockInv
<1>4. NewUnderWay => broken[Global]
  BY <1>1 DEF SetupInv, GlobalInv
<1> QED
  BY <1>1, <1>2, <1>3, <1>4 DEF SetupInv, GlobalInv

(* The global connection is there to be called: Global is a connection. *)
LEMMA GlobalIsConn == Global \in Conn /\ Global # NoConn
BY SetupAssumption

(* A connection breaks, the global one or another. *)
LEMMA GlobalBreaks ==
  ASSUME TypeOK, GlobalInv, NEW c \in Conn,
         toSnic' = [toSnic EXCEPT ![c] = "none"], broken' = [broken EXCEPT ![c] = TRUE],
         rqHost' = [rqHost EXCEPT ![c] = 0],
         UNCHANGED <<pc, conn, lock, conns, cm, toHost, atSnic, atHost>>
  PROVE  GlobalInv'
<1>1. CASE c = Global
  BY <1>1 DEF TypeOK, GlobalInv, NewUnderWay, NewAsked, NewAnswered, Starting
<1>2. CASE c # Global
  <2>1. GlobalAlone /\ rqHost'[Global] = rqHost[Global]
    BY <1>2, GlobalIsConn DEF TypeOK, GlobalAlone
  <2> QED
    BY <1>2, <2>1, GlobalKept DEF TypeOK, GlobalInv, Starting
<1> QED
  BY <1>1, <1>2

(* A fault spoils the calm: nothing else is left to show. *)
LEMMA FaultSpoils ==
  ASSUME TypeOK, faults' = faults + 1
  PROVE  StepInv' /\ OrderInv'
<1>1. ~Calm' /\ faults' > 0
  BY DEF TypeOK
<1> QED
  BY <1>1 DEF StepInv, OrderInv

(* A message that moves on leaves everybody in step. *)
LEMMA MessageMoves ==
  ASSUME StepInv, OrderInv,
         UNCHANGED <<pc, conn, cm, spc, cur, chan, broken, up, twice, left, faults>>,
         NewAsked => NewAsked', NewAnswered => NewAnswered',
         \A c \in Conn : broken[c] /\ Quiet(c) => Quiet(c)'
  PROVE  StepInv' /\ OrderInv'
<1>1. \A t \in Thread : InStep(t) => InStep(t)'
  BY DEF InStep
<1> QED
  BY <1>1 DEF StepInv, OrderInv

(* A thread that is about to connect finds a number left. *)
LEMMA RoomForOne ==
  ASSUME TypeOK, RoomInv, NEW t \in Thread, pc[t] \in {"lock", "wait_new", "prepare"}
  PROVE  conns + 1 \in Conn
<1> DEFINE W == {u \in Thread : pc[u] \in {"lock", "wait_new", "prepare"}}
<1>1. IsFiniteSet(W) /\ Cardinality(W) \in Nat
  BY SetupAssumption, FS_Subset, FS_CardinalityType
<1>2. Cardinality(W) # 0
  BY <1>1, FS_EmptySet
<1> QED
  BY <1>1, <1>2, SetupAssumption DEF TypeOK, RoomInv

(* Room stays when no connection is made and nobody joins the queue for one. *)
LEMMA RoomKept ==
  ASSUME TypeOK, RoomInv, conns' = conns,
         \A u \in Thread : pc'[u] \in {"lock", "wait_new", "prepare"} =>
                           pc[u] \in {"lock", "wait_new", "prepare"}
  PROVE  RoomInv'
<1> DEFINE W == {u \in Thread : pc[u] \in {"lock", "wait_new", "prepare"}}
           V == {u \in Thread : pc'[u] \in {"lock", "wait_new", "prepare"}}
<1>1. V \in SUBSET W /\ W \in SUBSET Thread
  OBVIOUS
<1>2. IsFiniteSet(W) /\ Cardinality(W) \in Nat
  BY <1>1, SetupAssumption, FS_Subset, FS_CardinalityType
<1>3. IsFiniteSet(V) /\ Cardinality(V) \in Nat /\ Cardinality(V) <= Cardinality(W)
  BY <1>1, <1>2, FS_Subset, FS_CardinalityType
<1>4. conns + Cardinality(W) <= MaxConn
  BY DEF RoomInv
<1> HIDE DEF W, V
<1>5. conns' + Cardinality(V) <= MaxConn
  BY <1>2, <1>3, <1>4, SetupAssumption DEF TypeOK
<1> QED
  BY <1>5 DEF RoomInv, V

(* get_r_info takes a place that is free. *)
LEMMA RoomTaken ==
  ASSUME TypeOK, RoomInv, NEW t \in Thread, NEW e \in BOOLEAN, GetRInfo(t, e)
  PROVE  RoomInv'
<1> DEFINE W == {u \in Thread : pc[u] \in {"lock", "wait_new", "prepare"}}
           V == {u \in Thread : pc'[u] \in {"lock", "wait_new", "prepare"}}
<1>1. V = W \cup {t} /\ t \notin W /\ W \in SUBSET Thread
  BY DEF GetRInfo, At, Goto, TypeOK
<1>2. IsFiniteSet(W) /\ Cardinality(W) \in Nat
  BY <1>1, SetupAssumption, FS_Subset, FS_CardinalityType
<1>3. Cardinality(V) = Cardinality(W) + 1
  BY <1>1, <1>2, FS_AddElement
<1>4. conns + Cardinality(W) < MaxConn /\ conns' = conns
  BY DEF GetRInfo, Room
<1> HIDE DEF W, V
<1>5. conns' + Cardinality(V) <= MaxConn
  BY <1>2, <1>3, <1>4, SetupAssumption DEF TypeOK
<1> QED
  BY <1>5 DEF RoomInv, V

(* The connection made uses the place that was taken. *)
LEMMA RoomUsed ==
  ASSUME TypeOK, RoomInv, NEW t \in Thread, PrepareConnection(t)
  PROVE  RoomInv'
<1> DEFINE W == {u \in Thread : pc[u] \in {"lock", "wait_new", "prepare"}}
           V == {u \in Thread : pc'[u] \in {"lock", "wait_new", "prepare"}}
<1>1. V = W \ {t} /\ t \in W /\ W \in SUBSET Thread
  BY DEF PrepareConnection, At, Goto, TypeOK
<1>2. IsFiniteSet(W) /\ Cardinality(W) \in Nat
  BY <1>1, SetupAssumption, FS_Subset, FS_CardinalityType
<1>3. Cardinality(V) = Cardinality(W) - 1
  BY <1>1, <1>2, FS_RemoveElement
<1>4. conns + Cardinality(W) <= MaxConn /\ conns' = conns + 1
  BY DEF PrepareConnection, RoomInv
<1> HIDE DEF W, V
<1>5. conns' + Cardinality(V) <= MaxConn
  BY <1>2, <1>3, <1>4, SetupAssumption DEF TypeOK
<1> QED
  BY <1>5 DEF RoomInv, V

(* What reporting an event does to the channel. *)
LEMMA AppendEvent ==
  ASSUME NEW q \in Seq(Event), NEW e \in Event
  PROVE  /\ Append(q, e) \in Seq(Event)
         /\ Len(Append(q, e)) = Len(q) + 1 /\ Len(q) \in Nat
         /\ Append(q, e)[Len(q) + 1] = e
         /\ \A i \in 1 .. Len(q) : Append(q, e)[i] = q[i]
OBVIOUS

(* What taking the first event does to the channel. *)
LEMMA TailEvent ==
  ASSUME NEW q \in Seq(Event), q # <<>>
  PROVE  /\ Tail(q) \in Seq(Event) /\ Head(q) = q[1] /\ q[1] \in Event
         /\ Len(q) \in Nat \ {0} /\ Len(Tail(q)) = Len(q) - 1
         /\ \A i \in 1 .. Len(Tail(q)) : Tail(q)[i] = q[i + 1] /\ i + 1 \in 1 .. Len(q)
OBVIOUS

(* Every entry of the channel is an event. *)
LEMMA EventAt ==
  ASSUME NEW q \in Seq(Event), NEW i \in 1 .. Len(q)
  PROVE  q[i].conn \in Conn /\ q[i].type \in EventType
<1>1. q[i] \in Event
  OBVIOUS
<1> QED
  BY <1>1 DEF Event

(* The channel invariant does not look at steps past the request. *)
LEMMA SameChannel ==
  ASSUME TypeOK, ChannelInv, UNCHANGED <<spc, cur, chan>>,
         \A d \in Conn : cm[d] \in {"connecting", "failed"} =>
                         cm'[d] \in {"connecting", "failed"}
  PROVE  ChannelInv'
<1>1. \A i \in 1 .. Len(chan) : chan[i].conn \in Conn
  BY EventAt DEF TypeOK
<1> QED
  BY <1>1 DEF ChannelInv

(* Reporting an event keeps the channel's type. *)
LEMMA RaiseTyped ==
  ASSUME chan \in Seq(Event), NEW type \in EventType, NEW c \in Conn, Raise(type, c)
  PROVE  chan' \in Seq(Event)
BY AppendEvent DEF Raise, Event

(* Reporting anything but a request keeps the requests of the channel apart. *)
LEMMA RaiseKeepsChannel ==
  ASSUME TypeOK, ChannelInv, NEW type \in EventType, type # "CONNECT_REQUEST", NEW c \in Conn,
         Raise(type, c), UNCHANGED <<spc, cur>>,
         \A d \in Conn : cm[d] \in {"connecting", "failed"} =>
                         cm'[d] \in {"connecting", "failed"}
  PROVE  ChannelInv'
<1> DEFINE e == [type |-> type, conn |-> c]
<1>1. /\ chan \in Seq(Event) /\ e \in Event /\ e.type # "CONNECT_REQUEST"
      /\ chan' = Append(chan, e)
  BY DEF TypeOK, Raise, Event
<1>2. /\ Len(chan') = Len(chan) + 1 /\ Len(chan) \in Nat
      /\ chan'[Len(chan) + 1] = e
      /\ \A i \in 1 .. Len(chan) : chan'[i] = chan[i]
  BY <1>1, AppendEvent
<1>3. \A i \in 1 .. Len(chan') : chan'[i].type = "CONNECT_REQUEST" =>
         i \in 1 .. Len(chan) /\ chan'[i] = chan[i]
  BY <1>1, <1>2
<1>4. \A i \in 1 .. Len(chan) : chan[i].conn \in Conn
  BY <1>1, EventAt
<1> QED
  BY <1>2, <1>3, <1>4 DEF ChannelInv

---------------------------------------------------------------------------
(* The steps that make a connection, report an event or take one *)

(* A new connection: its number is in range and nobody else's. *)
LEMMA PrepareConnectionConn ==
  ASSUME SetupInv, NEW t \in Thread, PrepareConnection(t)
  PROVE  TypeOK' /\ OwnerInv' /\ MessageInv' /\ ReceiveInv'
<1>1. /\ conns + 1 \in Conn /\ conns \in Nat /\ cm[conns + 1] = "none"
      /\ conn[t] = NoConn /\ ~(conns + 1 <= conns)
  BY RoomForOne DEF SetupInv, PrepareConnection, At, TypeOK, OwnerInv
<1>2. /\ pc' = [pc EXCEPT ![t] = "connect"] /\ conn' = [conn EXCEPT ![t] = conns + 1]
      /\ rqHost' = [rqHost EXCEPT ![conns + 1] = 1] /\ conns' = conns + 1
      /\ cm' = cm
  BY DEF PrepareConnection, Goto
<1>3. TypeOK'
  BY <1>1, <1>2 DEF SetupInv, TypeOK, PrepareConnection, ThreadPc, snicVars
<1>4. OwnerInv'
  <2>1. \A u \in Thread : conn[u] # conns + 1 /\ conn[u] \in Nat
    BY <1>1 DEF SetupInv, OwnerInv, TypeOK
  <2>2. \A c \in Conn : c > conns' => cm'[c] = "none" /\ rqHost'[c] = 0
    BY <1>1, <1>2 DEF SetupInv, OwnerInv, TypeOK
  <2>3. conns + 1 = Global => t = Starter
    BY <1>1 DEF SetupInv, LockInv, Starting, PrepareConnection, At
  <2> QED
    BY <1>1, <1>2, <2>1, <2>2, <2>3 DEF SetupInv, OwnerInv, TypeOK
<1>5. MessageInv'
  BY <1>1, <1>2
  DEF SetupInv, MessageInv, Quiet, TypeOK, OwnerInv, PrepareConnection, snicVars
<1>6. ReceiveInv'
  <2>1. \A u \in Thread : conn[u] # conns + 1
    BY <1>1 DEF SetupInv, OwnerInv, TypeOK
  <2> QED
    BY <1>1, <1>2, <2>1
    DEF SetupInv, ReceiveInv, MessageInv, Quiet, TypeOK, OwnerInv, PrepareConnection
<1> QED
  BY <1>3, <1>4, <1>5, <1>6

(* The request of a connection is reported once. *)
LEMMA ConnectToServerEvent ==
  ASSUME SetupInv, NEW t \in Thread, ConnectToServer(t)
  PROVE  TypeOK' /\ ChannelInv'
<1>1. conn[t] \in Conn /\ cm[conn[t]] = "none" /\ chan \in Seq(Event)
  BY DEF SetupInv, OwnerInv, TypeOK, ConnectToServer, At
<1>2. chan' \in Seq(Event)
  BY <1>1, RaiseTyped DEF ConnectToServer, EventType
<1>3. TypeOK'
  BY <1>1, <1>2
  DEF SetupInv, TypeOK, ConnectToServer, Goto, ThreadPc, CmState, wires, snicVars
<1> DEFINE e == [type |-> "CONNECT_REQUEST", conn |-> conn[t]]
<1>4. \A i \in 1 .. Len(chan) : chan[i].type = "CONNECT_REQUEST" =>
         chan[i].conn # conn[t] /\ chan[i].conn \in Conn
  BY <1>1, EventAt DEF SetupInv, ChannelInv
<1>5. cm' = [cm EXCEPT ![conn[t]] = "connecting"] /\ spc' = spc /\ cur' = cur
  BY DEF ConnectToServer, snicVars
<1>6. spc \in {"setup", "accept"} => cur # conn[t]
  BY <1>1 DEF SetupInv, ServerInv
<1>7. ChannelInv'
  <2>1. CASE chan' = chan
    BY <1>4, <1>5, <2>1 DEF SetupInv, ChannelInv, TypeOK
  <2>2. CASE chan' = Append(chan, e)
    <3>1. /\ Len(chan') = Len(chan) + 1 /\ Len(chan) \in Nat
          /\ chan'[Len(chan) + 1] = e
          /\ \A i \in 1 .. Len(chan) : chan'[i] = chan[i]
      BY <1>1, <2>2, AppendEvent DEF Event, EventType
    <3>2. \A i \in 1 .. Len(chan') : i \in 1 .. Len(chan) \/ i = Len(chan) + 1
      BY <3>1
    <3>3. e.type = "CONNECT_REQUEST" /\ e.conn = conn[t] /\ cm'[e.conn] = "connecting"
      BY <1>1, <1>5 DEF SetupInv, TypeOK
    <3>4. \A i \in 1 .. Len(chan) : chan[i] # e
      BY <1>4
    <3>5. \A i \in 1 .. Len(chan) : chan[i].type = "CONNECT_REQUEST" =>
            /\ cm'[chan[i].conn] \in {"connecting", "failed"}
            /\ spc' \in {"setup", "accept"} => chan[i].conn # cur'
      BY <1>4, <1>5 DEF SetupInv, ChannelInv, TypeOK
    <3>6. \A i \in 1 .. Len(chan') : chan'[i].type = "CONNECT_REQUEST" =>
            /\ cm'[chan'[i].conn] \in {"connecting", "failed"}
            /\ spc' \in {"setup", "accept"} => chan'[i].conn # cur'
      BY <3>1, <3>2, <3>3, <3>5, <1>5, <1>6
    <3>7. \A i, j \in 1 .. Len(chan') :
            chan'[i].type = "CONNECT_REQUEST" /\ chan'[j] = chan'[i] => i = j
      <4> SUFFICES ASSUME NEW i \in 1 .. Len(chan'), NEW j \in 1 .. Len(chan'),
                          chan'[i].type = "CONNECT_REQUEST", chan'[j] = chan'[i]
                   PROVE  i = j
        OBVIOUS
      <4> HIDE DEF e
      <4>1. CASE i \in 1 .. Len(chan) /\ j \in 1 .. Len(chan)
        BY <4>1, <3>1 DEF SetupInv, ChannelInv
      <4>2. CASE i = Len(chan) + 1 \/ j = Len(chan) + 1
        BY <4>2, <3>1, <3>2, <3>4
      <4> QED
        BY <4>1, <4>2, <3>2
    <3> QED
      BY <3>6, <3>7 DEF ChannelInv
  <2> QED
    BY <2>1, <2>2 DEF ConnectToServer, Raise
<1> QED
  BY <1>3, <1>7

(* A DISCONNECTED event is no request. *)
LEMMA DisconnectEvent ==
  ASSUME SetupInv, NEW t \in Thread, Disconnect(t)
  PROVE  TypeOK' /\ ChannelInv'
<1>1. conn[t] \in Conn /\ cm[conn[t]] = "established" /\ chan \in Seq(Event)
  BY DEF SetupInv, OwnerInv, TypeOK, Disconnect, At
<1>2. chan' \in Seq(Event)
  BY <1>1, RaiseTyped DEF Disconnect, EventType
<1>3. TypeOK'
  BY <1>1, <1>2 DEF SetupInv, TypeOK, Disconnect, Goto, ThreadPc, CmState, snicVars
<1>4. /\ UNCHANGED <<spc, cur>>
      /\ \A d \in Conn : cm[d] \in {"connecting", "failed"} =>
                         cm'[d] \in {"connecting", "failed"}
  BY <1>1 DEF SetupInv, TypeOK, Disconnect, snicVars
<1>5. ChannelInv'
  <2>1. CASE chan' = chan
    BY <1>4, <2>1, SameChannel DEF SetupInv
  <2>2. CASE Raise("DISCONNECTED", conn[t])
    BY <1>1, <1>4, <2>2, RaiseKeepsChannel DEF SetupInv, EventType
  <2> QED
    BY <2>1, <2>2 DEF Disconnect
<1> QED
  BY <1>3, <1>5

(* A REJECTED event is no request. *)
LEMMA CmTimeoutEvent ==
  ASSUME SetupInv, NEW c \in Conn, CmTimeout(c)
  PROVE  TypeOK' /\ ChannelInv'
<1>1. chan \in Seq(Event)
  BY DEF SetupInv, TypeOK
<1>2. chan' \in Seq(Event)
  BY <1>1, RaiseTyped DEF CmTimeout, EventType
<1>3. TypeOK'
  BY <1>2 DEF SetupInv, TypeOK, CmTimeout, CmState, wires, snicVars
<1>4. /\ UNCHANGED <<spc, cur>>
      /\ \A d \in Conn : cm[d] \in {"connecting", "failed"} =>
                         cm'[d] \in {"connecting", "failed"}
  BY DEF SetupInv, TypeOK, CmTimeout, snicVars
<1>5. ChannelInv'
  <2>1. CASE chan' = chan
    BY <1>4, <2>1, SameChannel DEF SetupInv
  <2>2. CASE Raise("REJECTED", c)
    BY <1>1, <1>4, <2>2, RaiseKeepsChannel DEF SetupInv, EventType
  <2> QED
    BY <2>1, <2>2 DEF CmTimeout
<1> QED
  BY <1>3, <1>5

(* Who has got the server's metadata keeps a connection that is served. *)
LEMMA XchangedOwner ==
  ASSUME SetupInv, NEW t \in Thread, Xchanged(t)
  PROVE  TypeOK' /\ OwnerInv' /\ ServerInv'
<1>1. /\ pc[t] = "xchange" /\ conn[t] \in Conn /\ atHost[conn[t]] = "metadata"
      /\ cm[conn[t]] = "established"
      /\ t \in Thread /\ atHost' = [atHost EXCEPT ![conn[t]] = "none"]
  BY DEF SetupInv, TypeOK, OwnerInv, Xchanged, At
<1>2. CASE conn[t] = Global
  <2>1. /\ conn' = [conn EXCEPT ![t] = NoConn] /\ pc' = [u \in Thread |-> "idle"] /\ lock' = lock
    BY <1>2 DEF Xchanged
  <2>2. \A u \in Thread : conn'[u] = NoConn /\ pc'[u] = "idle"
    <3>1. t = Starter /\ \A u \in Thread \ {t} : pc[u] = "unborn"
      BY <1>2 DEF SetupInv, LockInv, Starting, OwnerInv
    <3>2. \A u \in Thread \ {t} : conn[u] = NoConn
      BY <3>1 DEF SetupInv, OwnerInv
    <3> QED
      BY <2>1, <3>2 DEF SetupInv, TypeOK
  <2>3. TypeOK'
    BY <2>1, <1>1, SetupAssumption DEF SetupInv, TypeOK, Xchanged, ThreadPc, snicVars
  <2>4. OwnerInv'
    BY <2>1, <2>2, <1>1, SetupAssumption DEF SetupInv, TypeOK, OwnerInv, Xchanged
  <2>5. ServerInv'
    BY <2>2, <1>1
    DEF SetupInv, TypeOK, ServerInv, MessageInv, Served, Quiet, Xchanged, snicVars
  <2> QED
    BY <2>3, <2>4, <2>5
<1>3. CASE conn[t] # Global
  <2>1. /\ conn' = conn /\ pc' = [pc EXCEPT ![t] = "ready"] /\ lock' = NoThread
    BY <1>3 DEF Xchanged, Goto
  <2>3. TypeOK'
    BY <2>1, <1>1, SetupAssumption DEF SetupInv, TypeOK, Xchanged, ThreadPc, snicVars
  <2>4. OwnerInv'
    BY <2>1, <1>1, SetupAssumption DEF SetupInv, TypeOK, OwnerInv, Xchanged
  <2>6. Served(conn[t])
    BY <1>1, <1>3 DEF SetupInv, ServerInv
  <2>7. \A c \in Conn : Served(c)' <=> Served(c)
    BY DEF Served, Xchanged, snicVars
  <2>8. spc = "send_metadata" => cur # conn[t]
    BY <1>1 DEF SetupInv, ServerInv
  <2>5. ServerInv'
    BY <2>1, <2>6, <2>7, <2>8, <1>1, <1>3
    DEF SetupInv, TypeOK, ServerInv, OwnerInv, Quiet, Xchanged, snicVars
  <2> QED
    BY <2>3, <2>4, <2>5
<1> QED
  BY <1>2, <1>3

(* Taking the first event: the next set-up is of a connection that is requested. *)
LEMMA WaitingClientConnEvent ==
  ASSUME SetupInv, WaitingClientConn
  PROVE  TypeOK' /\ ServerInv' /\ ChannelInv'
<1>1. /\ chan \in Seq(Event) /\ chan # <<>> /\ chan' = Tail(chan)
      /\ spc = "wait_request" /\ cur = NoConn
  BY DEF SetupInv, TypeOK, ServerInv, WaitingClientConn, TakeEvent, Serving
<1>2. /\ chan' \in Seq(Event) /\ Head(chan) = chan[1] /\ chan[1] \in Event
      /\ Len(chan) \in Nat \ {0} /\ Len(chan') = Len(chan) - 1
      /\ \A i \in 1 .. Len(chan') : chan'[i] = chan[i + 1] /\ i + 1 \in 1 .. Len(chan)
  BY <1>1, TailEvent
<1>3. chan[1].conn \in Conn /\ 1 \in 1 .. Len(chan)
  BY <1>1, <1>2, EventAt
<1>4. TypeOK'
  <2>1. cur' \in Conn \cup {NoConn} /\ spc' \in ServerPc
    BY <1>1, <1>2, <1>3 DEF WaitingClientConn, ServerPc
  <2>2. up' \in [{"host", "snic"} -> BOOLEAN] /\ twice' \in BOOLEAN
    BY ZenonT(60) DEF SetupInv, TypeOK, WaitingClientConn, TakeEvent
  <2> QED
    BY <1>2, <2>1, <2>2 DEF SetupInv, TypeOK, WaitingClientConn, hostVars, wires
<1>5. CASE chan[1].type = "CONNECT_REQUEST"
  <2>1. cur' = chan[1].conn /\ spc' = "setup"
    BY <1>2, <1>5 DEF WaitingClientConn
  <2>2. cm[chan[1].conn] \in {"connecting", "failed"}
    BY <1>3, <1>5 DEF SetupInv, ChannelInv
  <2>3. ServerInv'
    BY <1>1, <1>3, <2>1, <2>2
    DEF SetupInv, TypeOK, ServerInv, MessageInv, Quiet, Served, WaitingClientConn,
        hostVars, wires
  <2>4. \A i \in 1 .. Len(chan) \ {1} : chan[i].type = "CONNECT_REQUEST" =>
           chan[i].conn # chan[1].conn
    <3> SUFFICES ASSUME NEW i \in 1 .. Len(chan), i # 1, chan[i].type = "CONNECT_REQUEST",
                        chan[i].conn = chan[1].conn
                 PROVE  FALSE
      OBVIOUS
    <3>1. chan[i] \in Event
      BY <1>1
    <3>2. chan[i] = chan[1]
      BY <1>2, <1>5, <3>1 DEF Event
    <3> QED
      BY <1>3, <1>5, <3>2 DEF SetupInv, ChannelInv
  <2>5. \A i \in 1 .. Len(chan') : chan'[i].type = "CONNECT_REQUEST" =>
           cm'[chan'[i].conn] \in {"connecting", "failed"} /\ chan'[i].conn # cur'
    BY <1>2, <2>1, <2>4 DEF SetupInv, ChannelInv, WaitingClientConn, hostVars
  <2>6. \A i, j \in 1 .. Len(chan') :
           chan'[i].type = "CONNECT_REQUEST" /\ chan'[j] = chan'[i] => i = j
    BY <1>2 DEF SetupInv, ChannelInv
  <2>7. ChannelInv'
    BY <2>5, <2>6 DEF ChannelInv
  <2> QED
    BY <1>4, <2>3, <2>7
<1>6. CASE chan[1].type # "CONNECT_REQUEST"
  <2>1. cur' = cur /\ spc' = "poll"
    BY <1>2, <1>6 DEF WaitingClientConn
  <2>2. up'["host"] = up["host"]
    BY DEF SetupInv, TypeOK, WaitingClientConn
  <2>3. ServerInv'
    BY <1>1, <2>1, <2>2
    DEF SetupInv, ServerInv, Quiet, Served, WaitingClientConn, hostVars, wires
  <2>4. ChannelInv'
    <3>1. \A i \in 1 .. Len(chan') : chan'[i].type = "CONNECT_REQUEST" =>
            cm'[chan'[i].conn] \in {"connecting", "failed"}
      BY <1>2 DEF SetupInv, ChannelInv, WaitingClientConn, hostVars
    <3>2. \A i, j \in 1 .. Len(chan') :
            chan'[i].type = "CONNECT_REQUEST" /\ chan'[j] = chan'[i] => i = j
      BY <1>2 DEF SetupInv, ChannelInv
    <3> QED
      BY <2>1, <3>1, <3>2 DEF ChannelInv
  <2> QED
    BY <1>4, <2>3, <2>4
<1> QED
  BY <1>5, <1>6

---------------------------------------------------------------------------
(* SetupInv is inductive: one lemma per action *)

(* A thread enters get_r_info. *)
LEMMA GetRInfoKeeps ==
  ASSUME SetupInv, NEW t \in Thread, NEW e \in BOOLEAN, GetRInfo(t, e)
  PROVE  SetupInv'
<1>1. TypeOK'
  BY SetupAssumption DEF SetupInv, GetRInfo, At, Goto, Room, wires, snicVars,
     TypeOK, Event, EventType, ThreadPc, ServerPc, CmState
<1>2. LockInv'
  BY SetupAssumption DEF SetupInv, GetRInfo, At, Goto, Room, wires, snicVars,
     LockInv, Starting
<1>3. RoomInv'
  BY RoomTaken DEF SetupInv
<1>4. OwnerInv'
  BY SetupAssumption DEF SetupInv, GetRInfo, At, Goto, Room, wires, snicVars,
     OwnerInv
<1>5. MessageInv'
  BY SetupAssumption DEF SetupInv, GetRInfo, At, Goto, Room, wires, snicVars,
     MessageInv, Quiet
<1>6. ReceiveInv'
  BY SetupAssumption DEF SetupInv, GetRInfo, At, Goto, Room, wires, snicVars,
     ReceiveInv
<1>7. ServerInv'
  BY SetupAssumption DEF SetupInv, GetRInfo, At, Goto, Room, wires, snicVars,
     ServerInv, Served, Quiet
<1>8. StepInv'
  BY OutsideStep
  DEF SetupInv, NewAsked, NewAnswered, TypeOK, OwnerInv, GetRInfo, At, Goto, Room, wires,
     snicVars
<1>9. OrderInv'
  BY OutsideOrder DEF SetupInv, Quiet, TypeOK, OwnerInv, GetRInfo, At, Goto, wires,
     snicVars
<1>10. ChannelInv'
  BY DEF SetupInv, GetRInfo, Goto, wires, snicVars, ChannelInv
<1>20. GlobalInv'
  BY GlobalIdle
  DEF SetupInv, GetRInfo, At, Goto, wires, hostVars, snicVars, Starting, TypeOK,
     LockInv, GlobalInv
<1> QED
  BY <1>1, <1>2, <1>3, <1>4, <1>5, <1>6, <1>7, <1>8, <1>9, <1>10, <1>20 DEF SetupInv

(* The lock is free only when nobody is in set-up, so the SmartNIC is in step. *)
LEMMA AskNewConnKeeps ==
  ASSUME SetupInv, NEW t \in Thread, AskNewConn(t)
  PROVE  SetupInv'
<1>1. /\ ~Starting /\ pc[t] = "lock" /\ lock = NoThread
      /\ \A u \in Thread : pc[u] \notin SetUpPc
      /\ broken[Global] \/ (~NewUnderWay /\ Quiet(Global) /\ rqHost[Global] = 0)
  BY AskFinds
<1>2. /\ pc' = [pc EXCEPT ![t] = "wait_new"] /\ lock' = t
      /\ UNCHANGED <<leaving, conn, conns, cm, toHost, atSnic, atHost, acked, rqSnic, broken,
                     spc, cur, worker, chan, up, twice, left, faults>>
  BY DEF AskNewConn, Goto, snicVars
<1>3. \/ broken[Global] /\ UNCHANGED <<rqHost, toSnic>>
      \/ /\ ~broken[Global] /\ rqHost' = [rqHost EXCEPT ![Global] = 1]
         /\ toSnic' = [toSnic EXCEPT ![Global] = "new"]
  <2>1. ~broken[Global] => rqHost[Global] + 1 = 1
    BY <1>1
  <2> QED
    BY <2>1 DEF AskNewConn, PostRequest
<1>4. TypeOK'
  BY <1>2, <1>3 DEF SetupInv, TypeOK, ThreadPc
<1>5. pc'[t] = "wait_new" /\ \A u \in Thread \ {t} : pc'[u] = pc[u] /\ pc'[u] \notin SetUpPc
  BY <1>1, <1>2 DEF SetupInv, TypeOK
<1>6. ~Starting' /\ conns # 0
  BY <1>1, <1>2 DEF Starting
<1>7. /\ \A c \in Conn \ {Global} : toSnic'[c] = toSnic[c] /\ rqHost'[c] = rqHost[c]
      /\ \/ /\ broken[Global]
            /\ toSnic'[Global] = toSnic[Global] /\ rqHost'[Global] = rqHost[Global]
         \/ ~broken[Global] /\ toSnic'[Global] = "new" /\ rqHost'[Global] = 1
  <2>1. toSnic \in [Conn -> ToSnic] /\ rqHost \in [Conn -> {0, 1}]
    BY DEF SetupInv, TypeOK
  <2> HIDE DEF Conn, Global, ToSnic
  <2> QED
    BY <1>3, <2>1, GlobalIsConn
<1>8. ~broken[Global] => ~NewUnderWay /\ Quiet(Global) /\ rqHost[Global] = 0
  BY <1>1
<1>9. cm[Global] = "established" /\ Global <= conns /\ conns \in Nat
  BY <1>1, <1>6 DEF SetupInv, GlobalInv, TypeOK
<1>10. LockInv'
  BY <1>2, <1>5, <1>6 DEF LockInv
<1>11. RoomInv'
  BY <1>1, <1>2, <1>5, RoomKept DEF SetupInv
<1>12. OwnerInv'
  <2>1. \A c \in Conn : c > conns' => cm'[c] = "none" /\ rqHost'[c] = 0
    <3> SUFFICES ASSUME NEW c \in Conn, c > conns PROVE cm[c] = "none" /\ rqHost'[c] = 0
      BY <1>2
    <3>1. c # Global
      BY <1>9
    <3> QED
      BY <1>7, <3>1 DEF SetupInv, OwnerInv
  <2>2. \A u \in Thread : /\ pc'[u] \in OwnerPc <=> pc[u] \in OwnerPc
                          /\ pc'[u] # "wait_new" => pc'[u] = pc[u]
    BY <1>1, <1>5
  <2> QED
    <3>1. \A u \in Thread : /\ pc'[u] = "connect" <=> pc[u] = "connect"
                            /\ pc'[u] = "wait_established" <=> pc[u] = "wait_established"
      BY <1>1, <1>5
    <3>2. conn' = conn /\ cm' = cm /\ conns' = conns
      BY <1>2
    <3>3. \A u \in Thread : pc'[u] \in {"xchange", "ready", "wait_reply", "wait_del"} =>
                            cm[conn[u]] = "established"
      <4>1. \A u \in Thread : pc'[u] \in {"xchange", "ready", "wait_reply", "wait_del"} =>
                              pc[u] \in {"xchange", "ready", "wait_reply", "wait_del"}
        BY <2>2
      <4> QED
        BY <4>1 DEF SetupInv, OwnerInv
    <3>4. OwnerInv
      BY DEF SetupInv
    <3> HIDE DEF Conn, Global, SetUpPc, OwnerPc, NoConn
    <3> QED
      BY <2>1, <2>2, <3>1, <3>2, <3>3, <3>4 DEF OwnerInv
<1>13. MessageInv'
  <2>1. \A u \in Thread : pc[u] = "ready" => conn[u] # Global
    BY DEF SetupInv, ServerInv
  <2>2. \A u \in Thread : pc[u] = "disconnect" => conn[u] # Global
    BY DEF SetupInv, ServerInv
  <2>3. \A u \in Thread : pc'[u] \notin {"connect", "wait_established", "xchange"}
                          /\ (pc'[u] \in {"ready", "disconnect"} => pc'[u] = pc[u])
    BY <1>1, <1>5
  <2>4. \A c \in Conn \ {Global} : Quiet(c)' <=> Quiet(c)
    BY <1>2, <1>7 DEF Quiet
  <2>5. \A u \in Thread : pc'[u] \in {"connect", "wait_established", "ready", "disconnect"} =>
          broken'[conn'[u]] \/ Quiet(conn[u])'
    <3> SUFFICES ASSUME NEW u \in Thread, pc[u] \in {"ready", "disconnect"}
                 PROVE  broken[conn[u]] \/ Quiet(conn[u])'
      BY <1>2, <2>3
    <3>1. conn[u] \in Conn \ {Global}
      BY <2>1, <2>2 DEF SetupInv, OwnerInv, TypeOK
    <3>2. broken[conn[u]] \/ Quiet(conn[u])
      BY DEF SetupInv, MessageInv
    <3>3. conn' = conn
      BY <1>2
    <3> QED
      BY <2>4, <3>1, <3>2, <3>3 DEF Quiet
  <2>6. \A c \in Conn \ {Global} :
          /\ atSnic'[c] # "none" => toSnic'[c] = "none"
          /\ toHost'[c] # "none" => toSnic'[c] = "none" /\ atSnic'[c] = "none"
          /\ atHost'[c] # "none" =>
               toSnic'[c] = "none" /\ atSnic'[c] = "none" /\ toHost'[c] = "none"
          /\ broken'[c] => toSnic'[c] = "none" /\ atHost'[c] = "none" /\ rqHost'[c] = 0
          /\ cm'[c] \in {"none", "connecting", "accepted", "failed"} =>
               Quiet(c)' /\ ~broken'[c] /\ worker'[c] = "none"
    BY <1>2, <1>7, <2>4 DEF SetupInv, MessageInv
  <2>7. LET c == Global
        IN  /\ atSnic'[c] # "none" => toSnic'[c] = "none"
            /\ toHost'[c] # "none" => toSnic'[c] = "none" /\ atSnic'[c] = "none"
            /\ atHost'[c] # "none" =>
                 toSnic'[c] = "none" /\ atSnic'[c] = "none" /\ toHost'[c] = "none"
            /\ broken'[c] => toSnic'[c] = "none" /\ atHost'[c] = "none" /\ rqHost'[c] = 0
            /\ cm'[c] \notin {"none", "connecting", "accepted", "failed"}
    BY <1>2, <1>7, <1>8, <1>9, GlobalIsConn DEF SetupInv, MessageInv, Quiet
  <2> QED
    BY <2>3, <2>5, <2>6, <2>7 DEF MessageInv
<1>14. ReceiveInv'
  <2>1. \A u \in Thread : pc[u] = "ready" => conn[u] # Global
    BY DEF SetupInv, ServerInv
  <2>2. \A u \in Thread : pc'[u] \notin {"connect", "wait_established"}
                          /\ (pc'[u] = "ready" => pc[u] = "ready")
    BY <1>1, <1>5
  <2>3. \A u \in Thread : pc[u] = "ready" => rqHost'[conn[u]] = 0
    <3> SUFFICES ASSUME NEW u \in Thread, pc[u] = "ready" PROVE rqHost'[conn[u]] = 0
      OBVIOUS
    <3>1. conn[u] \in Conn \ {Global} /\ rqHost[conn[u]] = 0
      BY <2>1 DEF SetupInv, OwnerInv, ReceiveInv, TypeOK
    <3> QED
      BY <1>7, <3>1
  <2>4. \A c \in Conn :
          /\ ~broken'[c] /\ (toSnic'[c] # "none" \/ atSnic'[c] # "none" \/ toHost'[c] # "none") =>
               rqHost'[c] = 1
          /\ atHost'[c] # "none" => rqHost'[c] = 0
          /\ atSnic'[c] # "none" => rqSnic'[c] = 0
          /\ toSnic'[c] = "metadata" \/ cm'[c] = "accepted" => rqSnic'[c] = 1
    <3> SUFFICES ASSUME NEW c \in Conn
                 PROVE
          /\ ~broken'[c] /\ (toSnic'[c] # "none" \/ atSnic'[c] # "none" \/ toHost'[c] # "none") =>
               rqHost'[c] = 1
          /\ atHost'[c] # "none" => rqHost'[c] = 0
          /\ atSnic'[c] # "none" => rqSnic'[c] = 0
          /\ toSnic'[c] = "metadata" \/ cm'[c] = "accepted" => rqSnic'[c] = 1
      OBVIOUS
    <3>1. CASE c = Global
      BY <3>1, <1>2, <1>7, <1>8, <1>9 DEF SetupInv, ReceiveInv, Quiet
    <3>2. CASE c # Global
      BY <3>2, <1>2, <1>7 DEF SetupInv, ReceiveInv
    <3> QED
      BY <3>1, <3>2
  <2> QED
    BY <1>2, <2>2, <2>3, <2>4 DEF ReceiveInv
<1>15. ServerInv'
  <2>1. spc = "send_metadata" /\ cur = Global => broken[Global]
    BY <1>8 DEF SetupInv, ServerInv
  <2>2. \A u \in Thread : /\ pc'[u] # "wait_new" => pc'[u] = pc[u]
                          /\ pc'[u] = "xchange" <=> pc[u] = "xchange"
    BY <1>1, <1>5
  <2>3. spc = "send_metadata" /\ ~broken[cur] => Quiet(cur)' /\ rqHost'[cur] = 1
    <3> SUFFICES ASSUME spc = "send_metadata", ~broken[cur]
                 PROVE  Quiet(cur)' /\ rqHost'[cur] = 1
      OBVIOUS
    <3>1. cur \in Conn \ {Global} /\ Quiet(cur) /\ rqHost[cur] = 1
      BY <2>1 DEF SetupInv, ServerInv, TypeOK
    <3> QED
      BY <1>2, <1>7, <3>1 DEF Quiet
  <2>4. spc = "send_metadata" /\ ~broken[cur] => \A u \in Thread : conn[u] = cur => pc'[u] = "xchange"
    BY <2>2 DEF SetupInv, ServerInv
  <2> QED
    BY <1>2, <2>2, <2>3, <2>4 DEF SetupInv, ServerInv, Served
<1>16. StepInv'
  <2>1. Calm => spc \in {"post_recv_req", "pthread_create", "poll"} /\ chan = <<>>
    BY <1>1 DEF SetupInv, StepInv
  <2>2. (NewAsked \/ broken[Global])'
    BY <1>2, <1>3, GlobalIsConn DEF SetupInv, TypeOK, NewAsked
  <2>3. Calm' => InStep(t)'
    BY <1>2, <1>5, <2>1, <2>2 DEF InStep
  <2> QED
    BY <1>5, <2>3 DEF StepInv
<1>17. OrderInv'
  BY <1>1, <1>2, <1>7, <1>5 DEF SetupInv, OrderInv, Quiet
<1>18. ChannelInv'
  BY <1>2 DEF SetupInv, ChannelInv
<1>19. GlobalInv'
  BY <1>1, <1>2, <1>3, <1>5, <1>6, GlobalIsConn, SetupAssumption
  DEF SetupInv, GlobalInv, NewUnderWay, NewAsked, NewAnswered, Quiet, TypeOK
<1> QED
  BY <1>4, <1>10, <1>11, <1>12, <1>13, <1>14, <1>15, <1>16, <1>17, <1>18, <1>19 DEF SetupInv

(* The answer comes from a SmartNIC that waits for the request. *)
LEMMA NewConnAnsweredKeeps ==
  ASSUME SetupInv, NEW t \in Thread, NewConnAnswered(t)
  PROVE  SetupInv'
<1>1. /\ pc[t] = "wait_new" /\ atHost[Global] = "answer"
      /\ atHost' = [atHost EXCEPT ![Global] = "none"] /\ pc' = [pc EXCEPT ![t] = "prepare"]
      /\ UNCHANGED <<leaving, conn, lock, conns, cm, toSnic, toHost, atSnic, acked, rqSnic,
                     rqHost, broken, spc, cur, worker, chan, up, twice, left, faults>>
  BY DEF NewConnAnswered, At, Goto, snicVars
<1>2. pc'[t] = "prepare" /\ \A u \in Thread \ {t} : pc'[u] = pc[u]
  BY <1>1 DEF SetupInv, TypeOK
<1>3. /\ ~broken[Global] /\ toSnic[Global] = "none" /\ atSnic[Global] = "none"
      /\ toHost[Global] = "none" /\ rqHost[Global] = 0
  BY <1>1, GlobalIsConn DEF SetupInv, MessageInv, ReceiveInv
<1>4. TypeOK'
  BY <1>1 DEF SetupInv, TypeOK, ThreadPc
<1>5. LockInv'
  BY <1>1, <1>2 DEF SetupInv, LockInv, Starting
<1>6. RoomInv'
  BY <1>1, <1>2, RoomKept DEF SetupInv
<1>7. OwnerInv'
  BY <1>1, <1>2 DEF SetupInv, OwnerInv
<1>8. MessageInv'
  BY <1>1, <1>2 DEF SetupInv, MessageInv, Quiet, TypeOK
<1>9. ReceiveInv'
  BY <1>1, <1>2 DEF SetupInv, ReceiveInv, TypeOK
<1>10. ServerInv'
  BY <1>1, <1>2 DEF SetupInv, ServerInv, Served, Quiet, TypeOK
<1>11. StepInv'
  <2>1. Calm => spc = "wait_request" /\ chan = <<>>
    BY <1>1, <1>3 DEF SetupInv, StepInv, InStep, NewAsked
  <2>2. Calm' => InStep(t)'
    BY <1>1, <1>2, <2>1 DEF InStep
  <2> QED
    BY <1>1, <1>2, <2>2, SoleStep DEF SetupInv
<1>12. OrderInv'
  BY <1>1, <1>2 DEF SetupInv, OrderInv, Quiet, TypeOK
<1>13. ChannelInv'
  BY <1>1 DEF SetupInv, ChannelInv
<1>14. GlobalInv'
  <2>1. Quiet(Global)' /\ rqHost'[Global] = 0 /\ (Starting' <=> Starting)
    BY <1>1, <1>3, GlobalIsConn DEF SetupInv, Quiet, TypeOK, Starting
  <2> QED
    BY <1>1, <2>1 DEF SetupInv, GlobalInv, NewUnderWay, NewAsked, NewAnswered, Quiet, TypeOK
<1> QED
  BY <1>4, <1>5, <1>6, <1>7, <1>8, <1>9, <1>10, <1>11, <1>12, <1>13, <1>14 DEF SetupInv

(* The call fails on a broken connection, which leaves the SmartNIC in step. *)
LEMMA NewConnFailedKeeps ==
  ASSUME SetupInv, NEW t \in Thread, NewConnFailed(t)
  PROVE  SetupInv'
<1>1. /\ pc[t] = "wait_new" /\ broken[Global]
      /\ lock' = NoThread /\ pc' = [pc EXCEPT ![t] = "no_r_info"]
      /\ UNCHANGED <<leaving, conn, conns, cm, wires, snicVars, chan, up, twice, left, faults>>
  BY DEF NewConnFailed, At, Goto
<1>2. pc'[t] = "no_r_info" /\ \A u \in Thread \ {t} : pc'[u] = pc[u]
  BY <1>1 DEF SetupInv, TypeOK
<1>3. ~Starting
  BY <1>1, SetupAssumption DEF SetupInv, LockInv
<1>4. TypeOK'
  BY <1>1 DEF SetupInv, TypeOK, ThreadPc, wires, snicVars
<1>5. LockInv'
  BY <1>1, <1>2, <1>3, OneInSetUp DEF SetupInv, LockInv, Starting
<1>6. RoomInv'
  BY <1>1, <1>2, RoomKept DEF SetupInv
<1>7. OwnerInv'
  BY <1>1, <1>2 DEF SetupInv, OwnerInv, wires
<1>8. MessageInv'
  BY <1>1, <1>2 DEF SetupInv, MessageInv, Quiet, wires, snicVars
<1>9. ReceiveInv'
  BY <1>1, <1>2 DEF SetupInv, ReceiveInv, wires
<1>10. ServerInv'
  BY <1>1, <1>2 DEF SetupInv, ServerInv, Served, Quiet, wires, snicVars
<1>11. StepInv'
  <2>1. Calm => spc \in {"post_recv_req", "pthread_create", "poll"} /\ chan = <<>>
    BY <1>1, GlobalIsConn DEF SetupInv, StepInv, InStep, OrderInv, Quiet, NewAnswered
  <2> QED
    BY <1>1, <1>2, <2>1, SoleStep DEF SetupInv, snicVars
<1>12. OrderInv'
  BY <1>1, <1>2 DEF SetupInv, OrderInv, Quiet, wires
<1>13. ChannelInv'
  BY <1>1 DEF SetupInv, ChannelInv, wires, snicVars
<1>14. GlobalInv'
  BY <1>1, <1>3, GlobalIdle DEF SetupInv, Starting, wires
<1> QED
  BY <1>4, <1>5, <1>6, <1>7, <1>8, <1>9, <1>10, <1>11, <1>12, <1>13, <1>14 DEF SetupInv

(* The new connection is nobody else's. *)
LEMMA PrepareConnectionKeeps ==
  ASSUME SetupInv, NEW t \in Thread, PrepareConnection(t)
  PROVE  SetupInv'
<1>1. TypeOK'
  BY PrepareConnectionConn
<1>2. LockInv'
  BY SetupAssumption DEF SetupInv, PrepareConnection, At, Goto, snicVars, TypeOK,
     LockInv, OwnerInv, Starting
<1>3. RoomInv'
  BY RoomUsed DEF SetupInv
<1>4. OwnerInv'
  BY PrepareConnectionConn
<1>5. MessageInv'
  BY PrepareConnectionConn
<1>6. ReceiveInv'
  BY PrepareConnectionConn
<1>7. ServerInv'
  BY SetupAssumption DEF SetupInv, PrepareConnection, At, Goto, snicVars, TypeOK,
     ServerInv, OwnerInv, Served, Quiet
<1>8. StepInv'
  BY SetupAssumption DEF SetupInv, PrepareConnection, At, Goto, snicVars, StepInv,
     InStep, NewAsked, NewAnswered
<1>9. OrderInv'
  BY SetupAssumption
  DEF SetupInv, TypeOK, OwnerInv, PrepareConnection, At, Goto, snicVars, OrderInv, Quiet
<1>10. ChannelInv'
  BY DEF SetupInv, PrepareConnection, Goto, snicVars, ChannelInv
<1>20. GlobalInv'
  <2>1. conns + 1 \in Conn /\ conns \in Nat /\ pc[t] = "prepare" /\ conn[t] = NoConn
    BY RoomForOne DEF SetupInv, PrepareConnection, At, TypeOK, OwnerInv
  <2>2. /\ conn' = [conn EXCEPT ![t] = conns + 1] /\ conns' = conns + 1
        /\ rqHost' = [rqHost EXCEPT ![conns + 1] = 1] /\ pc' = [pc EXCEPT ![t] = "connect"]
        /\ UNCHANGED <<lock, cm, toSnic, toHost, atSnic, atHost, broken>>
    BY DEF PrepareConnection, Goto
  <2>3. NewUnderWay => broken[Global]
    BY <2>1, NewIsOver
  <2>4. CASE Starting
    <3>1. conns = 0 /\ t = Starter
      BY <2>1, <2>4, SetupAssumption DEF SetupInv, LockInv, Starting
    <3>2. Starting'
      BY <2>2, <3>1 DEF SetupInv, TypeOK, Starting
    <3> QED
      BY <2>2, <2>4, <3>2, <2>3 DEF SetupInv, GlobalInv, NewUnderWay, NewAsked, NewAnswered
  <2>5. CASE ~Starting
    <3>1. conns + 1 # Global /\ conns # 0
      BY <2>1, <2>5 DEF Starting
    <3>2. ~Starting'
      BY <2>1, <2>2, <2>5, <3>1 DEF SetupInv, TypeOK, Starting
    <3>3. rqHost'[Global] = rqHost[Global]
      BY <2>2, <3>1 DEF SetupInv, TypeOK
    <3> QED
      BY <2>2, <2>3, <2>5, <3>2, <3>3, GlobalKept DEF SetupInv, GlobalAlone, GlobalInv
  <2> QED
    BY <2>4, <2>5
<1> QED
  BY <1>1, <1>2, <1>3, <1>4, <1>5, <1>6, <1>7, <1>8, <1>9, <1>10, <1>20 DEF SetupInv

(* The request is the only one of its connection. *)
LEMMA ConnectToServerKeeps ==
  ASSUME SetupInv, NEW t \in Thread, ConnectToServer(t)
  PROVE  SetupInv'
<1>1. TypeOK'
  BY ConnectToServerEvent
<1>2. LockInv'
  BY SetupAssumption DEF SetupInv, ConnectToServer, At, Goto, Raise, wires,
     snicVars, LockInv, Starting
<1>3. RoomInv'
  BY RoomKept DEF SetupInv, TypeOK, ConnectToServer, At, Goto
<1>4. OwnerInv'
  BY SetupAssumption DEF SetupInv, ConnectToServer, At, Goto, Raise, wires,
     snicVars, TypeOK, OwnerInv
<1>5. MessageInv'
  BY SetupAssumption DEF SetupInv, ConnectToServer, At, Goto, Raise, wires,
     snicVars, TypeOK, MessageInv, OwnerInv, Quiet
<1>6. ReceiveInv'
  BY SetupAssumption DEF SetupInv, ConnectToServer, At, Goto, Raise, wires,
     snicVars, TypeOK, ReceiveInv, OwnerInv
<1>7. ServerInv'
  BY SetupAssumption DEF SetupInv, ConnectToServer, At, Goto, Raise, wires,
     snicVars, TypeOK, ServerInv, OwnerInv, Served, Quiet
<1>8. ChannelInv'
  BY ConnectToServerEvent
<1>9. StepInv'
  <2>1. Calm => spc = "wait_request" /\ chan = <<>> /\ up["snic"]
    BY DEF SetupInv, StepInv, OrderInv, InStep, NewAsked, NewAnswered, ConnectToServer, At
  <2>2. pc'[t] = "wait_established" /\ \A u \in Thread \ {t} : pc'[u] = pc[u]
    BY DEF SetupInv, TypeOK, ConnectToServer, Goto
  <2>3. cm'[conn[t]] = "connecting" /\ conn' = conn /\ spc' = spc
    BY DEF SetupInv, TypeOK, ConnectToServer, OwnerInv, At, snicVars
  <2>4. Calm => chan' = <<[type |-> "CONNECT_REQUEST", conn |-> conn[t]]>>
    BY <2>1 DEF ConnectToServer, Raise
  <2>5. Calm' => InStep(t)'
    BY <2>1, <2>2, <2>3, <2>4 DEF InStep, NewAsked, NewAnswered, ConnectToServer
  <2> QED
    BY <2>2, <2>5, SoleStep DEF SetupInv, ConnectToServer, At
<1>10. OrderInv'
  BY SetupAssumption DEF SetupInv, ConnectToServer, At, Goto, Raise, wires,
     snicVars, TypeOK, OrderInv, Quiet
<1>20. GlobalInv'
  <2>1. pc[t] = "connect" /\ cm[conn[t]] = "none"
    BY DEF SetupInv, OwnerInv, ConnectToServer, At
  <2>2. NewUnderWay => broken[Global]
    BY <2>1, NewIsOver
  <2> QED
    BY <2>1, <2>2, GlobalIdle DEF SetupInv, TypeOK, ConnectToServer, wires, Starting
<1> QED
  BY <1>1, <1>2, <1>3, <1>4, <1>5, <1>6, <1>7, <1>8, <1>9, <1>10, <1>20 DEF SetupInv

(* The metadata go out on a quiet connection with a receive at the other end. *)
LEMMA XchangeMetadataKeeps ==
  ASSUME SetupInv, NEW t \in Thread, XchangeMetadata(t)
  PROVE  SetupInv'
<1>1. TypeOK'
  BY SetupAssumption DEF SetupInv, XchangeMetadata, At, Goto, snicVars, TypeOK,
     OwnerInv, Event, EventType, ThreadPc, ServerPc, CmState
<1>2. LockInv'
  BY SetupAssumption DEF SetupInv, XchangeMetadata, At, Goto, snicVars, LockInv,
     Starting
<1>3. RoomInv'
  BY RoomKept DEF SetupInv, TypeOK, XchangeMetadata, At, Goto
<1>4. OwnerInv'
  BY SetupAssumption DEF SetupInv, XchangeMetadata, At, Goto, snicVars, OwnerInv
<1>5. MessageInv'
  BY SetupAssumption DEF SetupInv, XchangeMetadata, At, Goto, snicVars, TypeOK,
     MessageInv, OwnerInv, ReceiveInv, Quiet
<1>6. ReceiveInv'
  BY SetupAssumption DEF SetupInv, XchangeMetadata, At, Goto, snicVars, ReceiveInv
<1>7. ServerInv'
  BY SetupAssumption DEF SetupInv, XchangeMetadata, At, Goto, snicVars, ServerInv,
     Served, Quiet
<1>8. StepInv'
  BY SetupAssumption DEF SetupInv, XchangeMetadata, At, Goto, snicVars, StepInv,
     InStep, NewAsked, NewAnswered
<1>9. OrderInv'
  <2>1. /\ pc[t] = "wait_established" /\ pc' = [pc EXCEPT ![t] = "xchange"]
        /\ cm[conn[t]] = "established" /\ ~broken[conn[t]] /\ conn[t] \in Conn
        /\ toSnic' = [toSnic EXCEPT ![conn[t]] = "metadata"]
        /\ UNCHANGED <<conn, cm, toHost, atSnic, atHost, broken, up, twice, left, faults>>
    BY DEF SetupInv, TypeOK, OwnerInv, ReceiveInv, XchangeMetadata, At, Goto
  <2>2. pc'[t] = "xchange" /\ \A u \in Thread \ {t} : pc'[u] = pc[u]
    BY <2>1 DEF SetupInv, TypeOK
  <2>3. \A c \in Conn : broken[c] /\ Quiet(c) => Quiet(c)'
    BY <2>1 DEF SetupInv, TypeOK, Quiet
  <2> QED
    BY <2>1, <2>2, <2>3 DEF SetupInv, OrderInv
<1>10. ChannelInv'
  BY DEF SetupInv, XchangeMetadata, Goto, snicVars, ChannelInv
<1>20. GlobalInv'
  <2>1. /\ pc[t] = "wait_established" /\ conn[t] \in Conn
        /\ toSnic' = [toSnic EXCEPT ![conn[t]] = "metadata"]
        /\ UNCHANGED <<conn, conns, lock, cm, toHost, atSnic, atHost, rqHost, broken>>
    BY DEF SetupInv, TypeOK, OwnerInv, XchangeMetadata, At
  <2>2. NewUnderWay => broken[Global]
    BY <2>1, NewIsOver
  <2>3. CASE conn[t] = Global
    <3>1. t = Starter /\ Starting /\ Starting'
      BY <2>1, <2>3 DEF SetupInv, OwnerInv, Starting
    <3>2. toSnic'[Global] = "metadata"
      BY <2>1, <2>3 DEF SetupInv, TypeOK
    <3> QED
      BY <2>1, <2>2, <3>1, <3>2
      DEF SetupInv, TypeOK, GlobalInv, NewUnderWay, NewAsked, NewAnswered
  <2>4. CASE conn[t] # Global
    <3>1. GlobalAlone
      BY <2>1, <2>4 DEF SetupInv, TypeOK, GlobalAlone
    <3> QED
      BY <2>1, <2>2, <2>4, <3>1, GlobalKept DEF SetupInv, TypeOK, Starting, GlobalInv
  <2> QED
    BY <2>3, <2>4
<1> QED
  BY <1>1, <1>2, <1>3, <1>4, <1>5, <1>6, <1>7, <1>8, <1>9, <1>10, <1>20 DEF SetupInv

(* A set-up that is given up: a thread gives the connection and the lock    *)
(* back, and without the global connection the host ends.                   *)
LEMMA GiveUpKeeps ==
  ASSUME SetupInv, NEW t \in Thread, pc[t] \in SetUpPc \ {"wait_new"}, GiveUp(t),
         UNCHANGED <<leaving, conns, cm, wires, snicVars, chan, twice, left>>,
         ~Calm', faults' \in 0 .. MaxFaults, faults' >= faults
  PROVE  SetupInv'
<1>1. CASE Starting
  <2>1. /\ up' = [up EXCEPT !["host"] = FALSE]
        /\ UNCHANGED <<pc, conn, lock, leaving, conns, cm, wires, snicVars, chan, twice, left>>
    BY <1>1 DEF GiveUp
  <2>2. TypeOK'
    BY <2>1 DEF SetupInv, TypeOK, wires, snicVars
  <2>3. LockInv' /\ RoomInv' /\ OwnerInv'
    BY <2>1 DEF SetupInv, LockInv, RoomInv, OwnerInv, Starting, wires
  <2>4. MessageInv' /\ ReceiveInv'
    BY <2>1 DEF SetupInv, MessageInv, ReceiveInv, Quiet, wires, snicVars
  <2>5. ~up["host"] => ~up'["host"]
    BY <2>1 DEF SetupInv, TypeOK
  <2>6. ServerInv' /\ ChannelInv'
    BY <2>1, <2>5 DEF SetupInv, ServerInv, ChannelInv, Served, Quiet, wires, snicVars
  <2>7. GlobalInv'
    BY <2>1
    DEF SetupInv, GlobalInv, NewUnderWay, NewAsked, NewAnswered, Starting, Quiet, wires
  <2>8. up'["snic"] = up["snic"]
    BY <2>1 DEF SetupInv, TypeOK
  <2>9. StepInv' /\ OrderInv'
    BY <2>1, <2>8 DEF SetupInv, TypeOK, StepInv, OrderInv, wires
  <2> QED
    BY <2>2, <2>3, <2>4, <2>6, <2>7, <2>9 DEF SetupInv
<1>2. CASE ~Starting
  <2>1. /\ conn' = [conn EXCEPT ![t] = NoConn] /\ lock' = NoThread
        /\ pc' = [pc EXCEPT ![t] = "no_r_info"]
        /\ UNCHANGED <<up, leaving, conns, cm, wires, snicVars, chan, twice, left>>
    BY <1>2 DEF GiveUp, Goto
  <2>2. /\ pc'[t] = "no_r_info" /\ conn'[t] = NoConn
        /\ \A u \in Thread \ {t} : pc'[u] = pc[u] /\ conn'[u] = conn[u]
    BY <2>1 DEF SetupInv, TypeOK
  <2>3. ~Starting'
    BY <1>2, <2>1, <2>2, SetupAssumption DEF Starting
  <2>4. TypeOK'
    BY <2>1 DEF SetupInv, TypeOK, ThreadPc, wires, snicVars
  <2>5. LockInv'
    BY <1>2, <2>1, <2>2, <2>3, OneInSetUp DEF SetupInv, LockInv, Starting
  <2>6. RoomInv'
    BY <2>1, <2>2, RoomKept DEF SetupInv
  <2>7. OwnerInv'
    BY <2>1, <2>2 DEF SetupInv, TypeOK, OwnerInv, wires
  <2>8. MessageInv' /\ ReceiveInv'
    BY <2>1, <2>2 DEF SetupInv, MessageInv, ReceiveInv, Quiet, wires, snicVars
  <2>9. ServerInv'
    BY <2>1, <2>2, SetupAssumption
    DEF SetupInv, TypeOK, ServerInv, Served, Quiet, wires, snicVars
  <2>10. ChannelInv' /\ StepInv'
    BY <2>1 DEF SetupInv, ChannelInv, StepInv, snicVars
  <2>11. OrderInv'
    BY <2>1, <2>2 DEF SetupInv, TypeOK, OrderInv, wires
  <2>12. GlobalInv'
    BY <1>2, <2>1, <2>3, NewIsOver, GlobalIdle DEF SetupInv, wires
  <2> QED
    BY <2>4, <2>5, <2>6, <2>7, <2>8, <2>9, <2>10, <2>11, <2>12 DEF SetupInv
<1> QED
  BY <1>1, <1>2

(* A failed set-up gives the connection and the lock back. *)
LEMMA ConnectFailedKeeps ==
  ASSUME SetupInv, NEW t \in Thread, ConnectFailed(t)
  PROVE  SetupInv'
<1>1. pc[t] \in {"wait_established", "xchange"}
  BY DEF ConnectFailed, At
<1>2. ~Calm'
  BY <1>1 DEF SetupInv, TypeOK, OwnerInv, OrderInv, ConnectFailed, At
<1> QED
  BY <1>1, <1>2, GiveUpKeeps DEF ConnectFailed, SetupInv, TypeOK

(* A call that fails during set-up. *)
LEMMA SetUpFailsKeeps ==
  ASSUME SetupInv, NEW t \in Thread, SetUpFails(t)
  PROVE  SetupInv'
<1>1. pc[t] \in {"prepare", "connect", "wait_established"}
  BY DEF SetUpFails, At
<1>2. faults' \in 0 .. MaxFaults /\ faults' >= faults /\ ~Calm'
  BY SetupAssumption DEF SetUpFails, SetupInv, TypeOK
<1> QED
  BY <1>1, <1>2, GiveUpKeeps DEF SetUpFails

(* The server's metadata come from a connection that is served. *)
LEMMA XchangedKeeps ==
  ASSUME SetupInv, NEW t \in Thread, Xchanged(t)
  PROVE  SetupInv'
<1>1. TypeOK'
  BY XchangedOwner
<1>2. LockInv'
  <2>1. pc[t] = "xchange" /\ conn[t] \in Conn
    BY DEF SetupInv, TypeOK, OwnerInv, Xchanged, At
  <2>3. conns' = conns /\ conns # 0
    BY <2>1 DEF SetupInv, TypeOK, OwnerInv, Xchanged
  <2>4. CASE conn[t] = Global
    <3>1. t = Starter /\ lock = NoThread
      BY <2>4 DEF SetupInv, OwnerInv, LockInv, Starting
    <3>2. /\ conn' = [conn EXCEPT ![t] = NoConn] /\ pc' = [u \in Thread |-> "idle"]
          /\ lock' = lock
      BY <2>4 DEF Xchanged
    <3>3. conn'[Starter] = NoConn /\ \A u \in Thread : pc'[u] = "idle"
      BY <3>1, <3>2 DEF SetupInv, TypeOK
    <3> QED
      BY <2>3, <3>1, <3>2, <3>3, SetupAssumption DEF LockInv, Starting
  <2>5. CASE conn[t] # Global
    <3>1. conn' = conn /\ pc' = [pc EXCEPT ![t] = "ready"] /\ lock' = NoThread
      BY <2>5 DEF Xchanged, Goto
    <3>2. conn[Starter] # Global
      BY <2>1, <2>5, SetupAssumption DEF SetupInv, LockInv, Starting
    <3>3. \A u \in Thread : pc'[u] \notin SetUpPc
      BY <2>1, <3>1, OneInSetUp DEF SetupInv, TypeOK
    <3> QED
      BY <2>3, <3>1, <3>2, <3>3 DEF LockInv, Starting
  <2> QED
    BY <2>4, <2>5
<1>3. RoomInv'
  BY RoomKept DEF SetupInv, TypeOK, Xchanged, At, Goto
<1>4. OwnerInv'
  BY XchangedOwner
<1>5. MessageInv'
  BY SetupAssumption DEF SetupInv, Xchanged, At, Goto, snicVars, TypeOK,
     MessageInv, OwnerInv, Quiet
<1>6. ReceiveInv'
  BY SetupAssumption DEF SetupInv, Xchanged, At, Goto, snicVars, TypeOK,
     ReceiveInv, OwnerInv
<1>7. ServerInv'
  BY XchangedOwner
<1>8. StepInv'
  <2>1. pc[t] = "xchange" /\ atHost[conn[t]] = "metadata" /\ conn[t] \in Conn
    BY DEF SetupInv, TypeOK, OwnerInv, Xchanged, At
  <2>2. Calm => spc \in {"post_recv_req", "pthread_create", "poll"} /\ chan = <<>>
    BY <2>1 DEF SetupInv, StepInv, InStep, NewAsked, NewAnswered, ServerInv
  <2>3. \A u \in Thread \ {t} : pc[u] \notin SetUpPc
    BY <2>1, OneInSetUp DEF SetupInv
  <2>4. \A u \in Thread : pc'[u] \notin SetUpPc
    BY <2>3 DEF SetupInv, TypeOK, Xchanged, Goto
  <2> QED
    BY <2>2, <2>4 DEF StepInv, Xchanged, snicVars
<1>9. OrderInv'
  <2>1. pc[t] = "xchange" /\ UNCHANGED <<left, faults, twice, up, cm, broken>>
    BY DEF Xchanged, At
  <2>2. \A u \in Thread : pc'[u] \in {"idle", "ready"} \/ (pc'[u] = pc[u] /\ conn'[u] = conn[u])
    <3>1. \/ pc' = [u \in Thread |-> "idle"]
          \/ pc' = [pc EXCEPT ![t] = "ready"] /\ conn' = conn
      BY DEF Xchanged, Goto
    <3>2. CASE pc' = [u \in Thread |-> "idle"]
      BY <3>2
    <3>3. CASE pc' = [pc EXCEPT ![t] = "ready"] /\ conn' = conn
      BY <3>3 DEF SetupInv, TypeOK
    <3> QED
      BY <3>1, <3>2, <3>3
  <2>3. \A u \in Thread : pc[u] # "wait_established"
    BY <2>1, OneInSetUp DEF SetupInv
  <2>4. \A c \in Conn : Quiet(c) => Quiet(c)'
    BY DEF SetupInv, TypeOK, Xchanged, Quiet
  <2> QED
    BY <2>1, <2>2, <2>3, <2>4 DEF SetupInv, OrderInv
<1>10. ChannelInv'
  BY DEF SetupInv, Xchanged, Goto, snicVars, ChannelInv
<1>20. GlobalInv'
  <2>1. /\ pc[t] = "xchange" /\ conn[t] \in Conn /\ atHost[conn[t]] = "metadata"
        /\ atHost' = [atHost EXCEPT ![conn[t]] = "none"]
        /\ cm[conn[t]] = "established"
        /\ UNCHANGED <<conns, cm, toSnic, toHost, atSnic, rqHost, broken>>
    BY DEF SetupInv, TypeOK, OwnerInv, Xchanged, At
  <2>2. NewUnderWay => broken[Global]
    BY <2>1, NewIsOver
  <2>3. CASE conn[t] = Global
    <3>1. Quiet(Global)' /\ rqHost'[Global] = 0
      BY <2>1, <2>3 DEF SetupInv, TypeOK, MessageInv, ReceiveInv, Quiet
    <3> QED
      BY <2>1, <2>3, <3>1
      DEF SetupInv, TypeOK, GlobalInv, NewUnderWay, NewAsked, NewAnswered, Quiet
  <2>4. CASE conn[t] # Global
    <3>1. GlobalAlone
      BY <2>1, <2>4 DEF SetupInv, TypeOK, GlobalAlone
    <3>2. conn' = conn
      BY <2>4 DEF Xchanged
    <3> QED
      BY <2>1, <2>2, <2>4, <3>1, <3>2, GlobalKept DEF SetupInv, TypeOK, Starting, GlobalInv
  <2> QED
    BY <2>3, <2>4
<1> QED
  BY <1>1, <1>2, <1>3, <1>4, <1>5, <1>6, <1>7, <1>8, <1>9, <1>10, <1>20 DEF SetupInv

(* A thread without a connection goes on or takes the host down. *)
LEMMA NoRInfoKeeps ==
  ASSUME SetupInv, NEW t \in Thread, NoRInfo(t)
  PROVE  SetupInv'
<1>1. TypeOK'
  <2>1. up' \in [{"host", "snic"} -> BOOLEAN]
    BY ZenonT(60) DEF SetupInv, TypeOK, NoRInfo
  <2>2. pc' \in [Thread -> ThreadPc]
    BY DEF SetupInv, TypeOK, NoRInfo, Goto, ThreadPc
  <2> QED
    BY <2>1, <2>2 DEF SetupInv, TypeOK, NoRInfo, wires, snicVars
<1>2. LockInv'
  BY SetupAssumption DEF SetupInv, NoRInfo, At, Goto, wires, snicVars, TypeOK,
     LockInv, Starting
<1>3. RoomInv'
  BY RoomKept DEF SetupInv, TypeOK, NoRInfo, At, Goto
<1>4. OwnerInv'
  BY SetupAssumption DEF SetupInv, NoRInfo, At, Goto, wires, snicVars, TypeOK,
     OwnerInv
<1>5. MessageInv'
  BY SetupAssumption DEF SetupInv, NoRInfo, At, Goto, wires, snicVars, TypeOK,
     MessageInv, Quiet
<1>6. ReceiveInv'
  BY SetupAssumption DEF SetupInv, NoRInfo, At, Goto, wires, snicVars, TypeOK,
     ReceiveInv
<1>7. ServerInv'
  BY SetupAssumption DEF SetupInv, NoRInfo, At, Goto, wires, snicVars, TypeOK,
     ServerInv, Served, Quiet
<1>8. StepInv'
  <2>1. UNCHANGED <<conn, cm, wires, spc, cur, chan, left, faults>>
    BY DEF NoRInfo, snicVars
  <2>2. pc[t] = "no_r_info" /\ \A u \in Thread : pc'[u] = pc[u] \/ (u = t /\ pc'[u] = "idle")
    BY DEF SetupInv, TypeOK, NoRInfo, Goto, At
  <2> QED
    BY <2>1, <2>2, OutsideStep DEF SetupInv, wires, NewAsked, NewAnswered
<1>9. OrderInv'
  <2>1. UNCHANGED <<conn, cm, wires, twice, left, faults>>
    BY DEF NoRInfo
  <2>2. pc[t] = "no_r_info" /\ \A u \in Thread : pc'[u] = pc[u] \/ (u = t /\ pc'[u] = "idle")
    BY DEF SetupInv, TypeOK, NoRInfo, Goto, At
  <2>3. up'["snic"] = up["snic"]
    BY DEF SetupInv, TypeOK, NoRInfo
  <2>4. Calm => broken[Global]
    BY <2>2 DEF SetupInv, OrderInv
  <2> QED
    BY <2>1, <2>2, <2>3, <2>4 DEF SetupInv, OrderInv, Quiet, wires
<1>10. ChannelInv'
  BY DEF SetupInv, NoRInfo, Goto, wires, snicVars, ChannelInv
<1>20. GlobalInv'
  BY GlobalIdle
  DEF SetupInv, NoRInfo, At, Goto, wires, hostVars, snicVars, Starting, TypeOK,
     LockInv, GlobalInv
<1> QED
  BY <1>1, <1>2, <1>3, <1>4, <1>5, <1>6, <1>7, <1>8, <1>9, <1>10, <1>20 DEF SetupInv

(* A call starts on a quiet connection whose host has no receive posted. *)
LEMMA SetReqSockKeeps ==
  ASSUME SetupInv, NEW t \in Thread, SetReqSock(t)
  PROVE  SetupInv'
<1>1. TypeOK'
  <2>1. conn[t] \in Conn /\ rqHost[conn[t]] = 0
    BY DEF SetupInv, TypeOK, OwnerInv, ReceiveInv, SetReqSock, PostRequest, At
  <2>2. pc' \in [Thread -> ThreadPc]
    BY DEF SetupInv, TypeOK, SetReqSock, PostRequest, Goto, ThreadPc
  <2>3. rqHost' \in [Conn -> {0, 1}]
    BY <2>1 DEF SetupInv, TypeOK, SetReqSock, PostRequest
  <2>4. toSnic' \in [Conn -> ToSnic]
    BY <2>1 DEF SetupInv, TypeOK, SetReqSock, PostRequest
  <2> QED
    BY <2>2, <2>3, <2>4 DEF SetupInv, TypeOK, SetReqSock, PostRequest, snicVars
<1>2. /\ pc[t] = "ready" /\ conn[t] \in Conn \ {Global}
      /\ pc'[t] \in {"wait_reply", "wait_del"} /\ \A u \in Thread \ {t} : pc'[u] = pc[u]
      /\ UNCHANGED <<leaving, conn, lock, conns, cm, toHost, atSnic, atHost, broken, spc, cur,
                     chan, up, twice, left, faults>>
  BY DEF SetupInv, TypeOK, OwnerInv, ServerInv, SetReqSock, At, Goto, snicVars
<1>3. /\ rqHost \in [Conn -> {0, 1}] /\ toSnic \in [Conn -> ToSnic]
      /\ conn[t] \in Conn /\ Global \in Conn
  BY <1>2, GlobalIsConn DEF SetupInv, TypeOK
<1>4. /\ \A c \in Conn \ {conn[t]} : rqHost'[c] = rqHost[c] /\ toSnic'[c] = toSnic[c]
      /\ \/ /\ broken[conn[t]]
            /\ rqHost'[conn[t]] = rqHost[conn[t]] /\ toSnic'[conn[t]] = toSnic[conn[t]]
         \/ ~broken[conn[t]] /\ toSnic'[conn[t]] \in Request
  <2> HIDE DEF Conn, Global, ToSnic
  <2> QED
    BY <1>3 DEF SetReqSock, PostRequest
<1>5. \A c \in Conn : broken[c] /\ Quiet(c) => Quiet(c)'
  BY <1>2, <1>4 DEF Quiet
<1>6. LockInv'
  BY SetupAssumption DEF SetupInv, SetReqSock, PostRequest, At, Goto, snicVars, LockInv,
     Starting
<1>7. RoomInv'
  BY RoomKept DEF SetupInv, TypeOK, SetReqSock, PostRequest, At, Goto
<1>8. OwnerInv'
  BY SetupAssumption DEF SetupInv, SetReqSock, PostRequest, At, Goto, snicVars, TypeOK,
     OwnerInv
<1>9. MessageInv'
  BY SetupAssumption DEF SetupInv, SetReqSock, PostRequest, At, Goto, snicVars, TypeOK,
     MessageInv, OwnerInv, Quiet
<1>10. ReceiveInv'
  BY SetupAssumption DEF SetupInv, SetReqSock, PostRequest, At, Goto, snicVars, TypeOK,
     ReceiveInv, OwnerInv, MessageInv, Quiet
<1>11. ServerInv'
  BY SetupAssumption DEF SetupInv, SetReqSock, PostRequest, At, Goto, snicVars, TypeOK,
     ServerInv, Served, Quiet
<1>12. StepInv'
  BY <1>2, <1>3, <1>4, OutsideStep DEF SetupInv, NewAsked, NewAnswered
<1>13. OrderInv'
  BY <1>2, <1>5, OutsideOrder DEF SetupInv
<1>14. ChannelInv'
  BY DEF SetupInv, SetReqSock, PostRequest, Goto, snicVars, ChannelInv
<1>15. GlobalInv'
  <2>1. pc[t] = "ready" /\ conn[t] \in Conn \ {Global}
    BY DEF SetupInv, TypeOK, OwnerInv, ServerInv, SetReqSock, At
  <2>2. /\ GlobalAlone /\ rqHost'[Global] = rqHost[Global]
        /\ \A c \in Conn \ {Global} : toSnic'[c] # "new"
    BY <1>2, <1>3, <1>4 DEF SetupInv, GlobalInv, GlobalAlone
  <2>3. NewUnderWay /\ ~broken[Global] => lock' # NoThread /\ pc'[lock'] = "wait_new"
    BY <2>1 DEF SetupInv, TypeOK, GlobalInv, SetReqSock, Goto
  <2> QED
    BY <2>2, <2>3, GlobalKept DEF SetupInv, GlobalInv, SetReqSock, Starting
<1> QED
  BY <1>1, <1>6, <1>7, <1>8, <1>9, <1>10, <1>11, <1>12, <1>13, <1>14, <1>15 DEF SetupInv

(* pthread_exit of a thread that has a connection. *)
LEMMA LeaveKeeps ==
  ASSUME SetupInv, NEW t \in Thread, Leave(t)
  PROVE  SetupInv'
<1>1. TypeOK'
  BY SetupAssumption DEF SetupInv, Leave, At, wires, snicVars, TypeOK, Event,
     EventType, ThreadPc, ServerPc, CmState
<1>2. LockInv' /\ RoomInv' /\ OwnerInv' /\ MessageInv' /\ ReceiveInv' /\
   ServerInv' /\ ChannelInv' /\ StepInv' /\ OrderInv'
  BY DEF SetupInv, Leave, wires, snicVars, LockInv, RoomInv, OwnerInv, MessageInv,
     ReceiveInv, ServerInv, ChannelInv, StepInv, OrderInv, Starting, Quiet,
     Served, InStep, NewAsked, NewAnswered
<1>20. GlobalInv'
  BY GlobalIdle DEF SetupInv, Leave, At, Goto, wires, hostVars, snicVars, Starting, TypeOK,
     LockInv, GlobalInv
<1> QED
  BY <1>1, <1>2, <1>20 DEF SetupInv

(* The reply was the one message of the connection. *)
LEMMA CallReturnedKeeps ==
  ASSUME SetupInv, NEW t \in Thread, CallReturned(t)
  PROVE  SetupInv'
<1>1. TypeOK'
  BY SetupAssumption DEF SetupInv, CallReturned, At, Goto, snicVars, TypeOK,
     OwnerInv, Event, EventType, ThreadPc, ServerPc, CmState
<1>2. LockInv'
  BY SetupAssumption DEF SetupInv, CallReturned, At, Goto, snicVars, LockInv,
     Starting
<1>3. RoomInv'
  BY RoomKept DEF SetupInv, TypeOK, CallReturned, At, Goto
<1>4. OwnerInv'
  BY SetupAssumption DEF SetupInv, CallReturned, At, Goto, snicVars, OwnerInv
<1>5. MessageInv'
  BY SetupAssumption DEF SetupInv, CallReturned, At, Goto, snicVars, TypeOK,
     MessageInv, OwnerInv, Quiet
<1>6. ReceiveInv'
  BY SetupAssumption DEF SetupInv, CallReturned, At, Goto, snicVars, TypeOK,
     ReceiveInv, OwnerInv, MessageInv, Quiet
<1>7. ServerInv'
  BY SetupAssumption DEF SetupInv, CallReturned, At, Goto, snicVars, ServerInv,
     Served, Quiet
<1>8. StepInv'
  <2>1. /\ pc[t] = "wait_reply" /\ pc'[t] = "ready"
        /\ \A u \in Thread \ {t} : pc'[u] = pc[u]
        /\ conn[t] \in Conn \ {Global} /\ Global \in Conn
        /\ UNCHANGED <<conn, cm, toSnic, toHost, atSnic, broken, spc, cur, chan, left, faults>>
    BY GlobalIsConn
    DEF SetupInv, TypeOK, OwnerInv, ServerInv, CallReturned, At, Goto, snicVars
  <2>2. atHost'[Global] = atHost[Global]
    BY <2>1 DEF SetupInv, TypeOK, CallReturned
  <2> QED
    BY <2>1, <2>2, OutsideStep DEF SetupInv, NewAsked, NewAnswered
<1>9. OrderInv'
  BY OutsideOrder DEF SetupInv, Quiet, TypeOK, OwnerInv, CallReturned, At, Goto, snicVars
<1>10. ChannelInv'
  BY DEF SetupInv, CallReturned, Goto, snicVars, ChannelInv
<1>20. GlobalInv'
  <2>1. pc[t] = "wait_reply" /\ conn[t] \in Conn \ {Global}
    BY DEF SetupInv, TypeOK, OwnerInv, ServerInv, CallReturned, At
  <2>2. /\ GlobalAlone
        /\ \A c \in Conn \ {Global} : atHost'[c] # "answer"
    BY <2>1 DEF SetupInv, TypeOK, GlobalInv, GlobalAlone, CallReturned
  <2>3. NewUnderWay /\ ~broken[Global] => lock' # NoThread /\ pc'[lock'] = "wait_new"
    BY <2>1 DEF SetupInv, TypeOK, GlobalInv, CallReturned, Goto
  <2> QED
    BY <2>2, <2>3, GlobalKept DEF SetupInv, GlobalInv, CallReturned, Starting
<1> QED
  BY <1>1, <1>2, <1>3, <1>4, <1>5, <1>6, <1>7, <1>8, <1>9, <1>10, <1>20 DEF SetupInv

(* A thread disconnects: from here on the order is gone. *)
LEMMA DisconnectKeeps ==
  ASSUME SetupInv, NEW t \in Thread, Disconnect(t)
  PROVE  SetupInv'
<1>1. TypeOK'
  BY DisconnectEvent
<1>2. LockInv'
  BY SetupAssumption DEF SetupInv, Disconnect, At, Goto, Raise, snicVars, LockInv,
     Starting
<1>3. RoomInv'
  BY RoomKept DEF SetupInv, TypeOK, Disconnect, At, Goto
<1>4. OwnerInv'
  BY SetupAssumption DEF SetupInv, Disconnect, At, Goto, Raise, snicVars, TypeOK,
     OwnerInv
<1>5. MessageInv'
  BY SetupAssumption DEF SetupInv, Disconnect, At, Goto, Raise, snicVars, TypeOK,
     MessageInv, OwnerInv, Quiet
<1>6. ReceiveInv'
  BY SetupAssumption DEF SetupInv, Disconnect, At, Goto, Raise, snicVars,
     ReceiveInv
<1>7. ServerInv'
  BY SetupAssumption DEF SetupInv, Disconnect, At, Goto, Raise, snicVars,
     ServerInv, Served, Quiet
<1>8. ChannelInv'
  BY DisconnectEvent
<1>9. StepInv'
  BY DEF StepInv, Disconnect
<1>10. OrderInv'
  BY SetupAssumption DEF SetupInv, Disconnect, At, Goto, Raise, snicVars, OrderInv
<1>20. GlobalInv'
  <2>1. pc[t] = "wait_del" /\ conn[t] \in Conn \ {Global}
    BY DEF SetupInv, TypeOK, OwnerInv, ServerInv, Disconnect, At
  <2>2. /\ GlobalAlone /\ cm'[Global] = cm[Global]
        /\ \A c \in Conn \ {Global} : atHost'[c] # "answer"
    BY <2>1 DEF SetupInv, TypeOK, GlobalInv, GlobalAlone, Disconnect
  <2>3. NewUnderWay /\ ~broken[Global] => lock' # NoThread /\ pc'[lock'] = "wait_new"
    BY <2>1 DEF SetupInv, TypeOK, GlobalInv, Disconnect, Goto
  <2> QED
    BY <2>2, <2>3, GlobalKept DEF SetupInv, GlobalInv, Disconnect, Starting
<1> QED
  BY <1>1, <1>2, <1>3, <1>4, <1>5, <1>6, <1>7, <1>8, <1>9, <1>10, <1>20 DEF SetupInv

(* The end of the host. *)
LEMMA DisconnectedKeeps ==
  ASSUME SetupInv, NEW t \in Thread, Disconnected(t)
  PROVE  SetupInv'
<1>1. TypeOK'
  BY SetupAssumption DEF SetupInv, Disconnected, At, hostVars, wires, snicVars,
     TypeOK, Event, EventType, ThreadPc, ServerPc, CmState
<1>2. OrderInv'
  BY SetupAssumption DEF SetupInv, Disconnected, At, hostVars, wires, snicVars,
     OrderInv
<1>3. LockInv' /\ RoomInv' /\ OwnerInv' /\ MessageInv' /\ ReceiveInv' /\
   ServerInv' /\ ChannelInv' /\ StepInv'
  BY DEF SetupInv, Disconnected, hostVars, wires, snicVars, LockInv, RoomInv,
     OwnerInv, MessageInv, ReceiveInv, ServerInv, ChannelInv, StepInv, Starting,
     Quiet, Served, InStep, NewAsked, NewAnswered
<1>20. GlobalInv'
  BY GlobalIdle
  DEF SetupInv, Disconnected, At, Goto, wires, hostVars, snicVars, Starting, TypeOK,
     LockInv, GlobalInv
<1> QED
  BY <1>1, <1>2, <1>3, <1>20 DEF SetupInv

(* A thread function that returns leaves its connection behind. *)
LEMMA ThreadReturnsKeeps ==
  ASSUME SetupInv, NEW t \in Thread, ThreadReturns(t)
  PROVE  SetupInv'
<1>1. TypeOK'
  BY SetupAssumption DEF SetupInv, ThreadReturns, At, Goto, wires, snicVars,
     TypeOK, Event, EventType, ThreadPc, ServerPc, CmState
<1>2. LockInv'
  BY SetupAssumption DEF SetupInv, ThreadReturns, At, Goto, wires, snicVars,
     LockInv, Starting
<1>3. RoomInv'
  BY RoomKept DEF SetupInv, TypeOK, ThreadReturns, At, Goto
<1>4. OwnerInv'
  BY SetupAssumption DEF SetupInv, ThreadReturns, At, Goto, wires, snicVars,
     TypeOK, OwnerInv
<1>5. MessageInv'
  BY SetupAssumption DEF SetupInv, ThreadReturns, At, Goto, wires, snicVars,
     TypeOK, MessageInv, Quiet
<1>6. ReceiveInv'
  BY SetupAssumption DEF SetupInv, ThreadReturns, At, Goto, wires, snicVars,
     TypeOK, ReceiveInv
<1>7. ServerInv'
  BY SetupAssumption DEF SetupInv, ThreadReturns, At, Goto, wires, snicVars,
     TypeOK, ServerInv, Served, Quiet
<1>8. StepInv'
  BY OutsideStep
  DEF SetupInv, NewAsked, NewAnswered, TypeOK, OwnerInv, ThreadReturns, At, Goto, wires,
     snicVars
<1>9. OrderInv'
  BY OutsideOrder DEF SetupInv, Quiet, TypeOK, OwnerInv, ThreadReturns, At, Goto, wires,
     snicVars
<1>10. ChannelInv'
  BY DEF SetupInv, ThreadReturns, Goto, wires, snicVars, ChannelInv
<1>20. GlobalInv'
  BY GlobalIdle
  DEF SetupInv, ThreadReturns, At, Goto, wires, hostVars, snicVars, Starting, TypeOK,
     LockInv, GlobalInv
<1> QED
  BY <1>1, <1>2, <1>3, <1>4, <1>5, <1>6, <1>7, <1>8, <1>9, <1>10, <1>20 DEF SetupInv

(* The main thread takes an event for a request. *)
LEMMA WaitingClientConnKeeps ==
  ASSUME SetupInv, WaitingClientConn
  PROVE  SetupInv'
<1>1. TypeOK'
  BY WaitingClientConnEvent
<1>2. ServerInv'
  BY WaitingClientConnEvent
<1>3. ChannelInv'
  BY WaitingClientConnEvent
<1>4. StepInv'
  <2> SUFFICES ASSUME Calm PROVE StepInv'
    BY DEF StepInv, WaitingClientConn
  <2>1. spc = "wait_request" /\ chan # <<>> /\ chan' = Tail(chan) /\ pc' = pc
    BY DEF WaitingClientConn, Serving, TakeEvent, hostVars
  <2>2. PICK t \in Thread : pc[t] \in SetUpPc /\ InStep(t)
    BY <2>1 DEF SetupInv, StepInv
  <2>3. /\ pc[t] = "wait_established" /\ cm[conn[t]] = "connecting"
        /\ chan = <<[type |-> "CONNECT_REQUEST", conn |-> conn[t]]>>
    BY <2>1, <2>2 DEF InStep, NewAsked, NewAnswered
  <2>4. chan' = <<>> /\ spc' = "setup" /\ cur' = conn[t]
    BY <2>1, <2>3 DEF WaitingClientConn
  <2>5. InStep(t)'
    BY <2>3, <2>4 DEF WaitingClientConn, InStep, NewAsked, NewAnswered, hostVars
  <2> QED
    BY <2>1, <2>2, <2>5, SoleStep DEF SetupInv
<1>5. OrderInv'
  <2>1. Calm => Head(chan).type = "CONNECT_REQUEST"
    <3> SUFFICES ASSUME Calm PROVE Head(chan).type = "CONNECT_REQUEST"
      OBVIOUS
    <3>1. spc = "wait_request" /\ chan # <<>>
      BY DEF WaitingClientConn, Serving, TakeEvent
    <3>2. PICK t \in Thread : pc[t] \in SetUpPc /\ InStep(t)
      BY <3>1 DEF SetupInv, StepInv
    <3>3. chan = <<[type |-> "CONNECT_REQUEST", conn |-> conn[t]]>>
      BY <3>1, <3>2 DEF InStep, NewAsked, NewAnswered
    <3> QED
      BY <3>3
  <2>2. Calm => up' = up /\ ~twice'
    <3>1. Calm => up' = up
      BY <2>1 DEF WaitingClientConn
    <3>2. Calm => ~twice
      BY DEF SetupInv, OrderInv
    <3>3. Calm => ~twice'
      BY <2>1, <3>2 DEF WaitingClientConn, TakeEvent
    <3> QED
      BY <3>1, <3>3
  <2>3. ~up["snic"] => ~up'["snic"]
    BY DEF SetupInv, TypeOK, WaitingClientConn
  <2>4. up'["host"] = up["host"]
    BY DEF SetupInv, TypeOK, WaitingClientConn
  <2>5. UNCHANGED <<pc, conn, cm, toSnic, toHost, atSnic, atHost, broken, left, faults>>
    BY DEF WaitingClientConn, hostVars, wires
  <2> QED
    BY <2>2, <2>3, <2>4, <2>5 DEF SetupInv, OrderInv, Quiet
<1>6. LockInv' /\ RoomInv' /\ OwnerInv' /\ MessageInv' /\ ReceiveInv'
  BY DEF SetupInv, WaitingClientConn, TakeEvent, hostVars, wires, LockInv,
     RoomInv, OwnerInv, MessageInv, ReceiveInv, Starting, Quiet
<1>20. GlobalInv'
  BY GlobalIdle
  DEF SetupInv, WaitingClientConn, At, Goto, wires, hostVars, snicVars, Starting, TypeOK,
     LockInv, GlobalInv
<1> QED
  BY <1>1, <1>2, <1>3, <1>4, <1>5, <1>6, <1>20 DEF SetupInv

(* The resources of the connection are made. *)
LEMMA SetupClientResourcesKeeps ==
  ASSUME SetupInv, SetupClientResources
  PROVE  SetupInv'
<1>1. TypeOK'
  BY SetupAssumption DEF SetupInv, SetupClientResources, Serving, hostVars, wires,
     TypeOK, Event, EventType, ThreadPc, ServerPc, CmState
<1>2. ServerInv'
  BY SetupAssumption DEF SetupInv, SetupClientResources, Serving, hostVars, wires,
     ServerInv, Served, Quiet
<1>3. ChannelInv'
  BY SetupAssumption DEF SetupInv, SetupClientResources, Serving, hostVars, wires,
     ChannelInv
<1>4. StepInv'
  BY SetupAssumption DEF SetupInv, SetupClientResources, Serving, hostVars, wires,
     StepInv, InStep, NewAsked, NewAnswered
<1>5. LockInv' /\ RoomInv' /\ OwnerInv' /\ MessageInv' /\ ReceiveInv' /\ OrderInv'
  BY DEF SetupInv, SetupClientResources, hostVars, wires, LockInv, RoomInv,
     OwnerInv, MessageInv, ReceiveInv, OrderInv, Starting, Quiet
<1>20. GlobalInv'
  BY GlobalIdle
  DEF SetupInv, SetupClientResources, At, Goto, wires, hostVars, snicVars, Starting, TypeOK,
     LockInv, GlobalInv
<1> QED
  BY <1>1, <1>2, <1>3, <1>4, <1>5, <1>20 DEF SetupInv

(* The receive is there before the connection comes up. *)
LEMMA AcceptClientConnectionKeeps ==
  ASSUME SetupInv, AcceptClientConnection
  PROVE  SetupInv'
<1>1. /\ cur \in Conn /\ spc = "accept" /\ cm[cur] \in {"connecting", "failed"}
      /\ worker[cur] = "none" /\ Quiet(cur) /\ ~broken[cur]
  BY DEF SetupInv, TypeOK, ServerInv, MessageInv, AcceptClientConnection, Serving
<1>2. /\ rqSnic' = [rqSnic EXCEPT ![cur] = 1]
      /\ \/ cm[cur] = "connecting" /\ cm' = [cm EXCEPT ![cur] = "accepted"]
         \/ cm[cur] # "connecting" /\ cm' = cm
      /\ UNCHANGED <<pc, leaving, conn, lock, conns, toSnic, toHost, atSnic, atHost, acked, rqHost,
                     broken, worker, chan, up, twice, left, faults>>
  BY DEF AcceptClientConnection
<1>3. /\ rqSnic'[cur] = 1 /\ \A c \in Conn \ {cur} : rqSnic'[c] = rqSnic[c] /\ cm'[c] = cm[c]
      /\ cm'[cur] \in {"accepted", "failed"}
      /\ cm'[cur] = "accepted" <=> cm[cur] = "connecting"
  BY <1>1, <1>2 DEF SetupInv, TypeOK
<1>4. TypeOK'
  BY SetupAssumption DEF SetupInv, AcceptClientConnection, Serving, TypeOK,
     OwnerInv, ServerInv, Event, EventType, ThreadPc, ServerPc, CmState, Served,
     Quiet
<1>5. OwnerInv'
  BY SetupAssumption DEF SetupInv, AcceptClientConnection, Serving, TypeOK,
     OwnerInv
<1>6. MessageInv'
  BY SetupAssumption DEF SetupInv, AcceptClientConnection, Serving, TypeOK,
     MessageInv, Quiet
<1>7. ReceiveInv'
  <2>1. \A c \in Conn :
          /\ ~broken[c] /\ (toSnic[c] # "none" \/ atSnic[c] # "none" \/ toHost[c] # "none") =>
               rqHost[c] = 1
          /\ atHost[c] # "none" => rqHost[c] = 0
          /\ atSnic[c] # "none" => rqSnic'[c] = 0
          /\ toSnic[c] = "metadata" \/ cm'[c] = "accepted" => rqSnic'[c] = 1
    BY <1>1, <1>3 DEF SetupInv, ReceiveInv, Quiet
  <2>2. \A t \in Thread : pc[t] \in OwnerPc => conn[t] \in Conn
    BY DEF SetupInv, TypeOK, OwnerInv
  <2>3. \A t \in Thread :
          /\ pc[t] \in {"connect", "wait_established"} => rqHost[conn[t]] = 1 /\ ~broken[conn[t]]
          /\ pc[t] = "wait_established" /\ cm'[conn[t]] = "established" => rqSnic'[conn[t]] = 1
          /\ pc[t] = "ready" => rqHost[conn[t]] = 0
    BY <1>3, <2>2 DEF SetupInv, ReceiveInv
  <2> QED
    BY <1>2, <2>1, <2>3 DEF ReceiveInv
<1>8. ServerInv'
  BY SetupAssumption DEF SetupInv, AcceptClientConnection, Serving, ServerInv,
     Served, Quiet
<1>9. ChannelInv'
  <2>1. spc = "accept" /\ spc' \in {"wait_established", "poll"} /\ chan' = chan
    BY DEF AcceptClientConnection, Serving
  <2>2. \A i \in 1 .. Len(chan) : chan[i].conn \in Conn
    BY EventAt DEF SetupInv, TypeOK
  <2>3. \A d \in Conn : d # cur => cm'[d] = cm[d]
    BY DEF SetupInv, TypeOK, AcceptClientConnection
  <2> QED
    BY <2>1, <2>2, <2>3 DEF SetupInv, ChannelInv
<1>10. StepInv'
  <2> SUFFICES ASSUME Calm PROVE StepInv'
    BY DEF StepInv, AcceptClientConnection
  <2>1. PICK t \in Thread : pc[t] \in SetUpPc /\ InStep(t)
    BY DEF SetupInv, StepInv, AcceptClientConnection, Serving
  <2>2. /\ pc[t] = "wait_established" /\ cm[conn[t]] = "connecting"
        /\ cur = conn[t] /\ chan = <<>> /\ conn[t] \in Conn
    BY <2>1
    DEF AcceptClientConnection, Serving, InStep, NewAsked, NewAnswered, SetupInv, OwnerInv,
        TypeOK
  <2>3. InStep(t)'
    BY <2>2 DEF AcceptClientConnection, InStep, NewAsked, NewAnswered, SetupInv, TypeOK
  <2> QED
    BY <2>1, <2>3, SoleStep DEF SetupInv, AcceptClientConnection
<1>11. OrderInv'
  BY <1>1, <1>2, <1>3 DEF SetupInv, OrderInv, Quiet
<1>12. LockInv' /\ RoomInv'
  BY DEF SetupInv, AcceptClientConnection, LockInv, RoomInv, Starting
<1>13. GlobalInv'
  <2>1. cm[Global] = "established" => cm'[Global] = "established"
    BY <1>1, <1>3, GlobalIsConn
  <2> QED
    BY <1>2, <2>1, GlobalIdle DEF SetupInv, GlobalInv, Starting
<1> QED
  BY <1>4, <1>5, <1>6, <1>7, <1>8, <1>9, <1>10, <1>11, <1>12, <1>13 DEF SetupInv

(* The event is the one awaited, or the order is gone. *)
LEMMA WaitEstablishedKeeps ==
  ASSUME SetupInv, WaitEstablished
  PROVE  SetupInv'
<1>1. TypeOK'
  <2>1. chan' \in Seq(Event)
    BY TailEvent DEF SetupInv, TypeOK, WaitEstablished, TakeEvent
  <2>2. up' \in [{"host", "snic"} -> BOOLEAN]
    <3>1. up' = up \/ up' = [up EXCEPT !["snic"] = FALSE]
      BY DEF WaitEstablished
    <3> QED
      BY ZenonT(60), <3>1 DEF SetupInv, TypeOK
  <2>3. spc' \in ServerPc /\ twice' \in BOOLEAN
    BY DEF WaitEstablished, ServerPc, TakeEvent, SetupInv, TypeOK
  <2> QED
    BY <2>1, <2>2, <2>3 DEF SetupInv, TypeOK, WaitEstablished, hostVars, wires
<1>2. ServerInv'
  <2>1. up'["host"] = up["host"]
    BY DEF SetupInv, TypeOK, WaitEstablished
  <2> QED
    BY <2>1
    DEF SetupInv, WaitEstablished, Serving, hostVars, wires, ServerInv, Served, Quiet
<1>3. ChannelInv'
  BY SetupAssumption DEF SetupInv, WaitEstablished, Serving, TakeEvent, hostVars,
     wires, ChannelInv
<1>4. StepInv'
  <2> SUFFICES ASSUME Calm PROVE StepInv'
    BY DEF StepInv, WaitEstablished
  <2>1. spc = "wait_established" /\ chan # <<>> /\ chan' = Tail(chan) /\ pc' = pc
    BY DEF WaitEstablished, Serving, TakeEvent, hostVars
  <2>2. PICK t \in Thread : pc[t] \in SetUpPc /\ InStep(t)
    BY <2>1 DEF SetupInv, StepInv
  <2>3. /\ pc[t] \in {"wait_established", "xchange"} /\ cm[conn[t]] = "established"
        /\ chan = <<[type |-> "ESTABLISHED", conn |-> conn[t]]>> /\ cur = conn[t]
    BY <2>1, <2>2 DEF InStep, NewAsked, NewAnswered
  <2>4. chan' = <<>> /\ spc' = "wait_metadata" /\ cur' = conn[t]
    BY <2>1, <2>3 DEF WaitEstablished
  <2>5. InStep(t)'
    BY <2>3, <2>4 DEF WaitEstablished, InStep, NewAsked, NewAnswered, hostVars
  <2> QED
    BY <2>1, <2>2, <2>5, SoleStep DEF SetupInv
<1>5. OrderInv'
  <2>1. Calm => Head(chan).type = "ESTABLISHED"
    <3> SUFFICES ASSUME Calm PROVE Head(chan).type = "ESTABLISHED"
      OBVIOUS
    <3>1. spc = "wait_established" /\ chan # <<>>
      BY DEF WaitEstablished, Serving, TakeEvent
    <3>2. PICK t \in Thread : pc[t] \in SetUpPc /\ InStep(t)
      BY <3>1 DEF SetupInv, StepInv
    <3>3. chan = <<[type |-> "ESTABLISHED", conn |-> conn[t]]>>
      BY <3>1, <3>2 DEF InStep, NewAsked, NewAnswered
    <3> QED
      BY <3>3
  <2>2. Calm => up' = up /\ ~twice'
    <3>1. Calm => up' = up
      BY <2>1 DEF WaitEstablished
    <3>2. Calm => ~twice
      BY DEF SetupInv, OrderInv
    <3>3. Calm => ~twice'
      BY <2>1, <3>2 DEF WaitEstablished, TakeEvent
    <3> QED
      BY <3>1, <3>3
  <2>3. ~up["snic"] => ~up'["snic"]
    BY DEF SetupInv, TypeOK, WaitEstablished
  <2>4. up'["host"] = up["host"]
    BY DEF SetupInv, TypeOK, WaitEstablished
  <2>5. UNCHANGED <<pc, conn, cm, toSnic, toHost, atSnic, atHost, broken, left, faults>>
    BY DEF WaitEstablished, hostVars, wires
  <2> QED
    BY <2>2, <2>3, <2>4, <2>5 DEF SetupInv, OrderInv, Quiet
<1>6. LockInv' /\ RoomInv' /\ OwnerInv' /\ MessageInv' /\ ReceiveInv'
  BY DEF SetupInv, WaitEstablished, TakeEvent, hostVars, wires, LockInv, RoomInv,
     OwnerInv, MessageInv, ReceiveInv, Starting, Quiet
<1>20. GlobalInv'
  BY GlobalIdle
  DEF SetupInv, WaitEstablished, At, Goto, wires, hostVars, snicVars, Starting, TypeOK,
     LockInv, GlobalInv
<1> QED
  BY <1>1, <1>2, <1>3, <1>4, <1>5, <1>6, <1>20 DEF SetupInv

(* Whoever sent the metadata waits for those of the server. *)
LEMMA WaitMetadataKeeps ==
  ASSUME SetupInv, WaitMetadata
  PROVE  SetupInv'
<1>1. TypeOK'
  BY SetupAssumption DEF SetupInv, WaitMetadata, Serving, hostVars, TypeOK,
     OwnerInv, ServerInv, Event, EventType, ThreadPc, ServerPc, CmState, Served,
     Quiet
<1>2. MessageInv'
  BY SetupAssumption DEF SetupInv, WaitMetadata, Serving, hostVars, MessageInv,
     Quiet
<1>3. ReceiveInv'
  BY SetupAssumption DEF SetupInv, WaitMetadata, Serving, hostVars, ReceiveInv
<1>4. ServerInv'
  <2>1. cur \in Conn /\ spc = "wait_metadata" /\ atSnic[cur] = "metadata"
    BY DEF SetupInv, ServerInv, TypeOK, WaitMetadata, Serving
  <2>2. /\ spc' = "send_metadata" /\ cur' = cur /\ atSnic' = [atSnic EXCEPT ![cur] = "none"]
    BY DEF WaitMetadata
  <2>3. /\ toSnic[cur] = "none" /\ toHost[cur] = "none" /\ atHost[cur] = "none"
        /\ (~broken[cur] => rqHost[cur] = 1) /\ rqSnic[cur] = 0
    BY <2>1 DEF SetupInv, MessageInv, ReceiveInv
  <2>4. cm[cur] \in {"established", "disconnecting"}
    BY <2>1 DEF SetupInv, MessageInv, Quiet, TypeOK, CmState
  <2>5. ~broken[cur] => \A t \in Thread : conn[t] = cur => pc[t] = "xchange"
    <3> SUFFICES ASSUME ~broken[cur], NEW t \in Thread, conn[t] = cur PROVE pc[t] = "xchange"
      OBVIOUS
    <3>1. pc[t] \in OwnerPc
      BY <2>1 DEF SetupInv, OwnerInv
    <3>2. pc[t] \notin {"connect", "wait_established", "ready", "disconnect"}
      BY <2>1 DEF SetupInv, MessageInv, Quiet
    <3>3. pc[t] \notin {"wait_reply", "wait_del"}
      BY <2>1 DEF SetupInv, ServerInv, Served
    <3> QED
      BY <3>1, <3>2, <3>3
  <2>6. Quiet(cur)'
    BY <2>1, <2>2, <2>3 DEF Quiet, WaitMetadata, SetupInv, TypeOK
  <2>7. worker[cur] = "none"
    BY <2>1 DEF SetupInv, ServerInv
  <2>8. \A c \in Conn : Served(c) => Served(c)'
    BY <2>1, <2>2 DEF Served, WaitMetadata
  <2> QED
    BY <2>1, <2>2, <2>3, <2>4, <2>5, <2>6, <2>7, <2>8
    DEF SetupInv, ServerInv, TypeOK, OwnerInv, WaitMetadata, hostVars, OwnerPc
<1>5. ChannelInv'
  BY SetupAssumption DEF SetupInv, WaitMetadata, Serving, hostVars, ChannelInv
<1>6. StepInv'
  BY SetupAssumption DEF SetupInv, WaitMetadata, Serving, hostVars, StepInv,
     InStep, NewAsked, NewAnswered
<1>7. LockInv' /\ RoomInv' /\ OwnerInv'
  BY DEF SetupInv, WaitMetadata, hostVars, LockInv, RoomInv, OwnerInv, Starting
<1>8. OrderInv'
  <2>1. \A c \in Conn : Quiet(c) => Quiet(c)'
    BY DEF SetupInv, TypeOK, WaitMetadata, Quiet
  <2> QED
    BY <2>1 DEF SetupInv, OrderInv, WaitMetadata, hostVars
<1>20. GlobalInv'
  <2>1. /\ cur \in Conn /\ atSnic[cur] = "metadata"
        /\ atSnic' = [atSnic EXCEPT ![cur] = "none"]
        /\ UNCHANGED <<pc, conn, lock, conns, cm, toSnic, toHost, atHost, rqHost, broken>>
    BY DEF SetupInv, TypeOK, ServerInv, WaitMetadata, Serving, hostVars
  <2>2. CASE cur = Global
    <3>1. ~NewUnderWay /\ (Starting \/ broken[Global])
      BY <2>1, <2>2
      DEF SetupInv, GlobalInv, MessageInv, Quiet, NewUnderWay, NewAsked, NewAnswered
    <3> QED
      BY <2>1, <2>2, <3>1
      DEF SetupInv, TypeOK, GlobalInv, NewUnderWay, NewAsked, NewAnswered, Starting
  <2>3. CASE cur # Global
    <3>1. GlobalAlone
      BY <2>1, <2>3 DEF SetupInv, TypeOK, GlobalAlone
    <3> QED
      BY <2>1, <3>1, GlobalKept DEF SetupInv, TypeOK, Starting, GlobalInv
  <2> QED
    BY <2>2, <2>3
<1> QED
  BY <1>1, <1>2, <1>3, <1>4, <1>5, <1>6, <1>7, <1>8, <1>20 DEF SetupInv

(* The host's receive is posted when the server's metadata go out. *)
LEMMA SendServerMetadataKeeps ==
  ASSUME SetupInv, SendServerMetadata
  PROVE  SetupInv'
<1>1. TypeOK'
  BY SetupAssumption DEF SetupInv, SendServerMetadata, Serving, hostVars, TypeOK,
     OwnerInv, ServerInv, Event, EventType, ThreadPc, ServerPc, CmState, Served,
     Quiet
<1>2. MessageInv'
  BY SetupAssumption DEF SetupInv, SendServerMetadata, Serving, hostVars, TypeOK,
     MessageInv, OwnerInv, ServerInv, Quiet, Served
<1>3. ReceiveInv'
  BY SetupAssumption DEF SetupInv, SendServerMetadata, Serving, hostVars, TypeOK,
     ReceiveInv, OwnerInv, ServerInv, Served, Quiet
<1>4. ServerInv'
  BY SetupAssumption DEF SetupInv, SendServerMetadata, Serving, hostVars,
     ServerInv, Served, Quiet
<1>5. ChannelInv'
  BY SetupAssumption DEF SetupInv, SendServerMetadata, Serving, hostVars,
     ChannelInv
<1>6. StepInv'
  <2> SUFFICES ASSUME Calm PROVE StepInv'
    BY DEF StepInv, SendServerMetadata
  <2>1. spc = "send_metadata" /\ spc' = "post_recv_req" /\ UNCHANGED <<pc, conn, cm, cur, chan>>
    BY DEF SendServerMetadata, Serving, hostVars
  <2>2. PICK t \in Thread : pc[t] \in SetUpPc /\ InStep(t)
    BY <2>1 DEF SetupInv, StepInv
  <2>3. /\ pc[t] \in {"wait_established", "xchange"} /\ cm[conn[t]] = "established"
        /\ cur = conn[t] /\ chan = <<>>
    BY <2>1, <2>2 DEF InStep
  <2>4. pc[t] = "xchange"
    BY <2>1, <2>3 DEF SetupInv, ServerInv, ReceiveInv
  <2>5. InStep(t)'
    BY <2>1, <2>3, <2>4 DEF InStep
  <2> QED
    BY <2>1, <2>2, <2>5, SoleStep DEF SetupInv
<1>7. LockInv' /\ RoomInv' /\ OwnerInv'
  BY DEF SetupInv, SendServerMetadata, hostVars, LockInv, RoomInv, OwnerInv, Starting
<1>8. OrderInv'
  <2>1. Calm => ~broken[cur]
    <3> SUFFICES ASSUME Calm PROVE ~broken[cur]
      OBVIOUS
    <3>1. spc = "send_metadata"
      BY DEF SendServerMetadata, Serving
    <3>2. PICK t \in Thread : pc[t] \in SetUpPc /\ InStep(t)
      BY <3>1 DEF SetupInv, StepInv
    <3>3. pc[t] \in {"wait_established", "xchange"} /\ cur = conn[t]
      BY <3>1, <3>2 DEF InStep
    <3> QED
      BY <3>3 DEF SetupInv, ReceiveInv, OrderInv, TypeOK
  <2>2. \A c \in Conn \ {cur} : Quiet(c) => Quiet(c)'
    BY DEF SetupInv, TypeOK, SendServerMetadata, Quiet
  <2> QED
    BY <2>1, <2>2 DEF SetupInv, OrderInv, SendServerMetadata, hostVars
<1>20. GlobalInv'
  <2>1. /\ cur \in Conn /\ spc = "send_metadata"
        /\ toHost' = [toHost EXCEPT ![cur] = "metadata"]
        /\ UNCHANGED <<pc, conn, lock, conns, cm, toSnic, atSnic, atHost, rqHost, broken>>
    BY DEF SetupInv, TypeOK, ServerInv, SendServerMetadata, Serving, hostVars
  <2>2. CASE cur = Global
    <3>1. Starting \/ broken[Global]
      BY <2>1, <2>2
      DEF SetupInv, GlobalInv, ServerInv, Quiet, NewUnderWay, NewAsked, NewAnswered
    <3> QED
      BY <2>1, <2>2, <3>1
      DEF SetupInv, TypeOK, GlobalInv, NewUnderWay, NewAsked, NewAnswered, Starting
  <2>3. CASE cur # Global
    <3>1. GlobalAlone
      BY <2>1, <2>3 DEF SetupInv, TypeOK, GlobalAlone
    <3> QED
      BY <2>1, <3>1, GlobalKept DEF SetupInv, TypeOK, Starting, GlobalInv
  <2> QED
    BY <2>2, <2>3
<1> QED
  BY <1>1, <1>2, <1>3, <1>4, <1>5, <1>6, <1>7, <1>8, <1>20 DEF SetupInv

(* The receive of the metadata is used up when the next one is posted. *)
LEMMA PostRecvReqKeeps ==
  ASSUME SetupInv, PostRecvReq
  PROVE  SetupInv'
<1>1. TypeOK'
  BY SetupAssumption DEF SetupInv, PostRecvReq, RepostRecv, Serving, hostVars, TypeOK,
     OwnerInv, ServerInv, Event, EventType, ThreadPc, ServerPc, CmState, Served,
     Quiet
<1>2. ReceiveInv'
  BY SetupAssumption DEF SetupInv, PostRecvReq, RepostRecv, Serving, hostVars, TypeOK,
     ReceiveInv, OwnerInv, ServerInv, Served, Quiet
<1>3. ServerInv'
  BY SetupAssumption DEF SetupInv, PostRecvReq, RepostRecv, Serving, hostVars, ServerInv,
     Served, Quiet
<1>4. ChannelInv'
  BY SetupAssumption DEF SetupInv, PostRecvReq, RepostRecv, Serving, hostVars, ChannelInv
<1>5. StepInv' /\ OrderInv'
  <2>1. /\ spc = "post_recv_req" /\ spc' \in {"pthread_create", "poll"}
        /\ UNCHANGED <<pc, conn, cm, toSnic, toHost, atSnic, atHost, broken, chan, up, twice, left>>
    BY DEF PostRecvReq, Serving, hostVars
  <2>2. CASE faults' = faults
    <3>1. \A t \in Thread : InStep(t) => InStep(t)'
      BY <2>1 DEF InStep, NewAsked, NewAnswered
    <3> QED
      BY <2>1, <2>2, <3>1 DEF SetupInv, StepInv, OrderInv, Quiet
  <2>3. CASE faults' = faults + 1
    BY <2>3, FaultSpoils DEF SetupInv
  <2> QED
    BY <2>2, <2>3 DEF PostRecvReq, RepostRecv
<1>6. LockInv' /\ RoomInv' /\ OwnerInv' /\ MessageInv'
  BY
  DEF SetupInv, PostRecvReq, hostVars, LockInv, RoomInv, OwnerInv, MessageInv, Starting,
      Quiet
<1>20. GlobalInv'
  BY GlobalIdle
  DEF SetupInv, PostRecvReq, RepostRecv, At, Goto, wires, hostVars, snicVars, Starting,
      TypeOK,
     LockInv, GlobalInv
<1> QED
  BY <1>1, <1>2, <1>3, <1>4, <1>5, <1>6, <1>20 DEF SetupInv

(* The worker takes over a connection with one receive. *)
LEMMA PthreadCreateKeeps ==
  ASSUME SetupInv, PthreadCreate
  PROVE  SetupInv'
<1>1. /\ spc = "pthread_create" /\ spc' = "poll" /\ cur' = NoConn /\ cur \in Conn
      /\ worker' = [worker EXCEPT ![cur] = "polling"] \/ worker' = [worker EXCEPT ![cur] = "refused"]
      /\ up' = up \/ up' = [up EXCEPT !["snic"] = FALSE]
      /\ UNCHANGED <<pc, leaving, conn, lock, conns, cm, wires, chan, twice, left>>
  BY DEF SetupInv, TypeOK, ServerInv, PthreadCreate, Serving, hostVars
<1>2. \/ UNCHANGED <<up, faults>>
      \/ faults < MaxFaults /\ faults' = faults + 1
  BY DEF PthreadCreate
<1>3. /\ worker'[cur] \in {"polling", "refused"} /\ \A c \in Conn \ {cur} : worker'[c] = worker[c]
      /\ up'["host"] = up["host"]
  <2>1. worker'[cur] \in {"polling", "refused"} /\ \A c \in Conn \ {cur} : worker'[c] = worker[c]
    <3>1. worker \in [Conn -> {"none", "polling", "spinning", "refused", "ended"}]
      BY DEF SetupInv, TypeOK
    <3> HIDE DEF Conn
    <3> QED
      BY <1>1, <3>1
  <2>2. up'["host"] = up["host"]
    BY <1>1 DEF SetupInv, TypeOK
  <2> QED
    BY <2>1, <2>2
<1>4. TypeOK'
  <2>1. up' \in [{"host", "snic"} -> BOOLEAN]
    <3>1. up' = up \/ up' = [up EXCEPT !["snic"] = FALSE]
      BY <1>1
    <3> QED
      BY ZenonT(60), <3>1 DEF SetupInv, TypeOK
  <2>2. faults' \in 0 .. MaxFaults
    BY <1>2, SetupAssumption DEF SetupInv, TypeOK
  <2> QED
    BY <1>1, <2>1, <2>2 DEF SetupInv, TypeOK, ServerPc, wires
<1>5. LockInv' /\ RoomInv' /\ OwnerInv'
  BY <1>1 DEF SetupInv, LockInv, RoomInv, OwnerInv, Starting, wires
<1>6. cm[cur] \in {"established", "disconnecting"}
  BY <1>1 DEF SetupInv, ServerInv
<1>7. MessageInv' /\ ReceiveInv'
  BY <1>1, <1>3, <1>6 DEF SetupInv, MessageInv, ReceiveInv, Quiet, wires
<1>8. ServerInv'
  <2>1. \A c \in Conn : Served(c) => Served(c)'
    BY <1>1, <1>3 DEF Served
  <2>2. \A c \in Conn : worker'[c] = "ended" => worker[c] = "ended"
    BY <1>3
  <2>3. \A t \in Thread : pc[t] \in OwnerPc => conn[t] \in Conn
    BY DEF SetupInv, TypeOK, OwnerInv
  <2> QED
    BY <1>1, <1>3, <2>1, <2>2, <2>3 DEF SetupInv, ServerInv, wires
<1>9. ChannelInv'
  BY <1>1 DEF SetupInv, ChannelInv
<1>10. StepInv' /\ OrderInv'
  <2>1. CASE UNCHANGED <<up, faults>>
    <3>1. \A t \in Thread : InStep(t) => InStep(t)'
      BY <1>1 DEF InStep, NewAsked, NewAnswered, wires
    <3> QED
      BY <1>1, <2>1, <3>1 DEF SetupInv, StepInv, OrderInv, Quiet, wires
  <2>2. CASE faults' = faults + 1
    BY <2>2, FaultSpoils DEF SetupInv
  <2> QED
    BY <1>2, <2>1, <2>2
<1>11. GlobalInv'
  BY <1>1, GlobalIdle DEF SetupInv, GlobalInv, wires, Starting
<1> QED
  BY <1>4, <1>5, <1>7, <1>8, <1>9, <1>10, <1>11 DEF SetupInv

(* The request is answered when the channel is empty. *)
LEMMA NewRdmaConnKeeps ==
  ASSUME SetupInv, NewRdmaConn
  PROVE  SetupInv'
<1>1. /\ spc = "poll" /\ spc' = "wait_request" /\ cur' = cur /\ cur = NoConn
      /\ atSnic[Global] = "new" /\ atSnic' = [atSnic EXCEPT ![Global] = "none"]
      /\ toHost' = [toHost EXCEPT ![Global] = "answer"]
      /\ UNCHANGED <<pc, leaving, conn, lock, conns, cm, toSnic, atHost, acked, rqHost, broken,
                     worker, chan, up, twice, left>>
  BY DEF SetupInv, ServerInv, NewRdmaConn, Serving, hostVars
<1>2. /\ toSnic[Global] = "none" /\ toHost[Global] = "none" /\ atHost[Global] = "none"
      /\ rqSnic[Global] = 0 /\ (~broken[Global] => rqHost[Global] = 1) /\ NewUnderWay
      /\ cm[Global] = "established"
  BY <1>1, GlobalIsConn
  DEF SetupInv, MessageInv, ReceiveInv, GlobalInv, NewUnderWay, NewAsked
<1>3. \/ rqSnic' = [rqSnic EXCEPT ![Global] = 1] /\ faults' = faults
      \/ rqSnic' = rqSnic /\ faults < MaxFaults /\ faults' = faults + 1
  <2>1. rqSnic[Global] + 1 = 1
    BY <1>2
  <2> QED
    BY <2>1 DEF NewRdmaConn, RepostRecv
<1>4. /\ atSnic'[Global] = "none" /\ toHost'[Global] = "answer"
      /\ \A c \in Conn \ {Global} : /\ atSnic'[c] = atSnic[c] /\ toHost'[c] = toHost[c]
                                    /\ rqSnic'[c] = rqSnic[c]
      /\ rqSnic'[Global] \in {0, 1}
  BY <1>1, <1>2, <1>3, GlobalIsConn DEF SetupInv, TypeOK
<1>5. TypeOK'
  BY <1>1, <1>3, SetupAssumption DEF SetupInv, TypeOK, ServerPc
<1>6. LockInv' /\ RoomInv' /\ OwnerInv'
  BY <1>1 DEF SetupInv, LockInv, RoomInv, OwnerInv, Starting
<1>7. \A t \in Thread : pc[t] \in {"ready", "wait_reply", "wait_del", "disconnect"} =>
        conn[t] \in Conn \ {Global}
  BY DEF SetupInv, ServerInv, OwnerInv, TypeOK
<1>8. \A t \in Thread : pc[t] \in {"connect", "wait_established", "xchange"} => conn[t] \in Conn \ {Global}
  BY <1>2 DEF SetupInv, OwnerInv, GlobalInv, Starting, TypeOK
<1>9. MessageInv'
  <2>1. \A c \in Conn \ {Global} : Quiet(c)' <=> Quiet(c)
    BY <1>1, <1>4 DEF Quiet
  <2>2. \A c \in Conn :
       /\ atSnic'[c] # "none" => toSnic[c] = "none"
       /\ toHost'[c] # "none" => toSnic[c] = "none" /\ atSnic'[c] = "none"
       /\ atHost[c] # "none" => toSnic[c] = "none" /\ atSnic'[c] = "none" /\ toHost'[c] = "none"
       /\ broken[c] => toSnic[c] = "none" /\ atHost[c] = "none" /\ rqHost[c] = 0
    BY <1>2, <1>4 DEF SetupInv, MessageInv
  <2>3. \A c \in Conn : cm[c] \in {"none", "connecting", "accepted", "failed"} =>
          Quiet(c)' /\ ~broken[c] /\ worker[c] = "none"
    BY <1>2, <2>1 DEF SetupInv, MessageInv
  <2>4. \A t \in Thread : pc[t] \in {"connect", "wait_established", "ready", "disconnect"} =>
          broken[conn[t]] \/ Quiet(conn[t])'
    <3> SUFFICES ASSUME NEW t \in Thread,
                        pc[t] \in {"connect", "wait_established", "ready", "disconnect"}
                 PROVE  broken[conn[t]] \/ Quiet(conn[t])'
      OBVIOUS
    <3>1. conn[t] \in Conn \ {Global} /\ conn' = conn /\ (broken[conn[t]] \/ Quiet(conn[t]))
      BY <1>1, <1>7, <1>8 DEF SetupInv, MessageInv
    <3> QED
      BY <2>1, <3>1 DEF Quiet
  <2> QED
    BY <1>1, <2>2, <2>3, <2>4 DEF SetupInv, MessageInv
<1>10. ReceiveInv'
  <2>1. \A c \in Conn :
       /\ ~broken[c] /\ (toSnic[c] # "none" \/ atSnic'[c] # "none" \/ toHost'[c] # "none") =>
            rqHost[c] = 1
       /\ atHost[c] # "none" => rqHost[c] = 0
       /\ atSnic'[c] # "none" => rqSnic'[c] = 0
       /\ toSnic[c] = "metadata" \/ cm[c] = "accepted" => rqSnic'[c] = 1
    BY <1>2, <1>4 DEF SetupInv, ReceiveInv
  <2>2. \A t \in Thread : pc[t] = "wait_established" /\ cm[conn[t]] = "established" =>
          rqSnic'[conn[t]] = 1
    BY <1>4, <1>8 DEF SetupInv, ReceiveInv
  <2> QED
    BY <1>1, <2>1, <2>2 DEF SetupInv, ReceiveInv
<1>11. ServerInv'
  <2>1. \A c \in Conn : Served(c) => Served(c)'
    BY <1>1 DEF Served
  <2>2. \A t \in Thread : pc[t] \in {"ready", "wait_reply", "wait_del", "disconnect"} =>
          conn[t] # Global /\ Served(conn[t])'
    <3> SUFFICES ASSUME NEW t \in Thread,
                        pc[t] \in {"ready", "wait_reply", "wait_del", "disconnect"}
                 PROVE  conn[t] # Global /\ Served(conn[t])'
      OBVIOUS
    <3>1. conn[t] # Global /\ Served(conn[t]) /\ conn' = conn
      BY <1>1 DEF SetupInv, ServerInv
    <3> QED
      BY <1>1, <3>1 DEF Served
  <2> QED
    BY <1>1, <1>4, <2>1, <2>2 DEF SetupInv, ServerInv
<1>12. ChannelInv'
  BY <1>1 DEF SetupInv, ChannelInv
<1>13. StepInv' /\ OrderInv'
  <2>1. CASE faults' = faults /\ Calm
    <3>1. /\ ~broken[Global] /\ lock \in Thread /\ pc[lock] = "wait_new"
      BY <1>1, <1>2, <2>1, GlobalIsConn, SetupAssumption
      DEF SetupInv, TypeOK, OrderInv, Quiet, GlobalInv
    <3>2. InStep(lock) /\ ~NewAnswered
      BY <1>2, <2>1, <3>1 DEF SetupInv, StepInv, NewAnswered
    <3>3. chan = <<>>
      BY <3>1, <3>2 DEF InStep
    <3>4. InStep(lock)'
      BY <1>1, <1>4, <3>1, <3>3 DEF InStep, NewAnswered, SetupInv, LockInv
    <3>5. StepInv'
      BY <1>1, <3>1, <3>4, SoleStep DEF SetupInv
    <3>6. \A c \in Conn : broken[c] /\ Quiet(c) => Quiet(c)'
      BY <1>1, <1>4 DEF Quiet
    <3>7. OrderInv'
      BY <1>1, <2>1, <3>6 DEF SetupInv, OrderInv
    <3> QED
      BY <3>5, <3>7
  <2>2. CASE faults' = faults /\ ~Calm
    BY <1>1, <2>2 DEF SetupInv, StepInv, OrderInv
  <2>3. CASE faults' = faults + 1
    BY <2>3, FaultSpoils DEF SetupInv
  <2> QED
    BY <1>3, <2>1, <2>2, <2>3
<1>14. GlobalInv'
  BY <1>1, <1>2, <1>4, GlobalIsConn
  DEF SetupInv, GlobalInv, NewUnderWay, NewAsked, NewAnswered, Starting
<1> QED
  BY <1>5, <1>6, <1>9, <1>10, <1>11, <1>12, <1>13, <1>14 DEF SetupInv

(* The worker answers the one message of its connection. *)
LEMMA WorkerServesKeeps ==
  ASSUME SetupInv, NEW c \in Conn, WorkerServes(c)
  PROVE  SetupInv'
<1>1. /\ worker[c] = "polling" /\ atSnic[c] \in Request
      /\ atSnic' = [atSnic EXCEPT ![c] = "none"] /\ toHost' = [toHost EXCEPT ![c] = "reply"]
      /\ worker' = [worker EXCEPT ![c] = IF atSnic[c] = "del" THEN "spinning" ELSE @]
      /\ UNCHANGED <<pc, leaving, conn, lock, conns, cm, toSnic, atHost, acked, rqHost, broken,
                     spc, cur, chan, up, twice, left>>
  BY DEF WorkerServes, hostVars
<1>2. /\ toSnic[c] = "none" /\ toHost[c] = "none" /\ atHost[c] = "none"
      /\ rqSnic[c] = 0 /\ (~broken[c] => rqHost[c] = 1) /\ c # Global
      /\ cm[c] \notin {"none", "connecting", "accepted", "failed"}
  BY <1>1 DEF SetupInv, MessageInv, ReceiveInv, GlobalInv, Quiet
<1>3. \/ rqSnic' = [rqSnic EXCEPT ![c] = 1] /\ faults' = faults
      \/ rqSnic' = rqSnic /\ faults < MaxFaults /\ faults' = faults + 1
  <2>1. rqSnic[c] + 1 = 1
    BY <1>2
  <2> QED
    BY <2>1 DEF WorkerServes, RepostRecv
<1>4. /\ atSnic'[c] = "none" /\ toHost'[c] = "reply" /\ worker'[c] \in {"polling", "spinning"}
      /\ \A d \in Conn \ {c} : /\ atSnic'[d] = atSnic[d] /\ toHost'[d] = toHost[d]
                               /\ worker'[d] = worker[d] /\ rqSnic'[d] = rqSnic[d]
      /\ rqSnic'[c] \in {0, 1}
  BY <1>1, <1>2, <1>3 DEF SetupInv, TypeOK
<1>5. TypeOK'
  BY <1>1, <1>3, SetupAssumption DEF SetupInv, TypeOK
<1>6. LockInv' /\ RoomInv' /\ OwnerInv' /\ ChannelInv'
  BY <1>1 DEF SetupInv, LockInv, RoomInv, OwnerInv, ChannelInv, Starting
<1>7. \A t \in Thread : pc[t] \in OwnerPc => conn[t] \in Conn
  BY DEF SetupInv, OwnerInv, TypeOK
<1>8. \A d \in Conn \ {c} : Quiet(d)' <=> Quiet(d)
  BY <1>1, <1>4 DEF Quiet
<1>9. ~Quiet(c)
  BY <1>1 DEF Quiet
<1>10. MessageInv'
  <2>1. \A d \in Conn :
       /\ atSnic'[d] # "none" => toSnic[d] = "none"
       /\ toHost'[d] # "none" => toSnic[d] = "none" /\ atSnic'[d] = "none"
       /\ atHost[d] # "none" => toSnic[d] = "none" /\ atSnic'[d] = "none" /\ toHost'[d] = "none"
    BY <1>2, <1>4 DEF SetupInv, MessageInv
  <2>2. \A d \in Conn : cm[d] \in {"none", "connecting", "accepted", "failed"} =>
          Quiet(d)' /\ ~broken[d] /\ worker'[d] = "none"
    BY <1>2, <1>4, <1>8 DEF SetupInv, MessageInv
  <2>3. \A t \in Thread : pc[t] \in {"connect", "wait_established", "ready", "disconnect"} =>
          broken[conn[t]] \/ Quiet(conn[t])'
    <3> SUFFICES ASSUME NEW t \in Thread,
                        pc[t] \in {"connect", "wait_established", "ready", "disconnect"},
                        ~broken[conn[t]]
                 PROVE  Quiet(conn[t])'
      OBVIOUS
    <3>1. conn[t] \in Conn /\ conn' = conn /\ Quiet(conn[t])
      BY <1>1, <1>7 DEF SetupInv, MessageInv
    <3>2. conn[t] \in Conn \ {c}
      BY <1>9, <3>1
    <3> QED
      BY <1>8, <3>1, <3>2 DEF Quiet
  <2> QED
    BY <1>1, <2>1, <2>2, <2>3 DEF SetupInv, MessageInv
<1>11. ReceiveInv'
  <2>1. \A d \in Conn :
       /\ ~broken[d] /\ (toSnic[d] # "none" \/ atSnic'[d] # "none" \/ toHost'[d] # "none") =>
            rqHost[d] = 1
       /\ atHost[d] # "none" => rqHost[d] = 0
       /\ atSnic'[d] # "none" => rqSnic'[d] = 0
       /\ toSnic[d] = "metadata" \/ cm[d] = "accepted" => rqSnic'[d] = 1
    BY <1>2, <1>4 DEF SetupInv, ReceiveInv
  <2>2. \A t \in Thread : pc[t] = "wait_established" /\ cm[conn[t]] = "established" =>
          rqSnic'[conn[t]] = 1
    <3> SUFFICES ASSUME NEW t \in Thread, pc[t] = "wait_established",
                        cm[conn[t]] = "established"
                 PROVE  rqSnic'[conn[t]] = 1
      OBVIOUS
    <3>1. conn[t] \in Conn /\ ~broken[conn[t]] /\ rqSnic[conn[t]] = 1
      BY <1>7 DEF SetupInv, ReceiveInv
    <3>2. conn[t] # c
      BY <1>2, <3>1
    <3> QED
      BY <1>4, <3>1, <3>2
  <2> QED
    BY <1>1, <2>1, <2>2 DEF SetupInv, ReceiveInv
<1>12. ServerInv'
  <2>1. \A d \in Conn : Served(d)' <=> Served(d)
    BY <1>1, <1>4 DEF Served
  <2>2. worker[c] # "none" /\ Served(c)
    BY <1>1 DEF Served
  <2>3. spc \in {"setup", "accept", "wait_established", "wait_metadata", "send_metadata"} =>
          cur \in Conn \ {c}
    BY <2>2 DEF SetupInv, ServerInv, TypeOK
  <2>4. spc \in {"send_metadata", "post_recv_req"} => cur \in Conn \ {c}
    BY <1>1 DEF SetupInv, ServerInv, TypeOK
  <2>5. spc = "send_metadata" /\ ~broken[cur] => Quiet(cur)'
    <3> SUFFICES ASSUME spc = "send_metadata", ~broken[cur] PROVE Quiet(cur)'
      OBVIOUS
    <3>1. Quiet(cur) /\ cur' = cur /\ cur \in Conn \ {c}
      BY <1>1, <2>4 DEF SetupInv, ServerInv
    <3> QED
      BY <1>8, <3>1 DEF Quiet
  <2>6. \A d \in Conn \ {Global} : toHost'[d] = "metadata" \/ atHost[d] = "metadata" => Served(d)
    BY <1>4 DEF SetupInv, ServerInv
  <2>7. \A t \in Thread : pc[t] \in {"ready", "wait_reply", "wait_del", "disconnect"} =>
          conn[t] # Global /\ Served(conn[t])'
    <3> SUFFICES ASSUME NEW t \in Thread,
                        pc[t] \in {"ready", "wait_reply", "wait_del", "disconnect"}
                 PROVE  conn[t] # Global /\ Served(conn[t])'
      OBVIOUS
    <3>1. conn[t] # Global /\ Served(conn[t]) /\ conn[t] \in Conn /\ conn' = conn
      BY <1>1, <1>7 DEF SetupInv, ServerInv
    <3> QED
      BY <2>1, <3>1 DEF Served
  <2>8. \A d \in Conn : worker'[d] = "ended" => broken[d] \/ ~up["host"]
    BY <1>4 DEF SetupInv, ServerInv
  <2> QED
    BY <1>1, <1>4, <2>1, <2>3, <2>4, <2>5, <2>6, <2>7, <2>8 DEF SetupInv, ServerInv
<1>13. StepInv' /\ OrderInv'
  <2>1. CASE faults' = faults
    <3>1. \A d \in Conn : Quiet(d) => Quiet(d)'
      BY <1>8, <1>9
    <3>2. (NewAsked => NewAsked') /\ (NewAnswered => NewAnswered')
      BY <1>1, <1>2, <1>4, GlobalIsConn DEF NewAsked, NewAnswered
    <3> QED
      BY <1>1, <2>1, <3>1, <3>2, MessageMoves DEF SetupInv
  <2>2. CASE faults' = faults + 1
    BY <2>2, FaultSpoils DEF SetupInv
  <2> QED
    BY <1>3, <2>1, <2>2
<1>14. GlobalInv'
  <2>1. GlobalAlone /\ \A d \in Conn \ {Global} : atSnic'[d] # "new" /\ toHost'[d] # "answer"
    BY <1>1, <1>2, <1>4, GlobalIsConn DEF SetupInv, GlobalInv, GlobalAlone
  <2> QED
    BY <1>1, <2>1, GlobalKept DEF SetupInv, GlobalInv, Starting
<1> QED
  BY <1>5, <1>6, <1>10, <1>11, <1>12, <1>13, <1>14 DEF SetupInv

(* An accepted connection comes up. *)
LEMMA CmEstablishedKeeps ==
  ASSUME SetupInv, NEW c \in Conn, CmEstablished(c)
  PROVE  SetupInv'
<1>1. TypeOK'
  BY SetupAssumption DEF SetupInv, CmEstablished, Raise, wires, snicVars, TypeOK,
     Event, EventType, ThreadPc, ServerPc, CmState
<1>2. OwnerInv'
  BY SetupAssumption DEF SetupInv, CmEstablished, Raise, wires, snicVars, OwnerInv
<1>3. MessageInv'
  BY SetupAssumption DEF SetupInv, CmEstablished, Raise, wires, snicVars,
     MessageInv, Quiet
<1>4. ReceiveInv'
  BY SetupAssumption DEF SetupInv, CmEstablished, Raise, wires, snicVars,
     ReceiveInv
<1>5. ServerInv'
  BY SetupAssumption DEF SetupInv, CmEstablished, Raise, wires, snicVars,
     ServerInv, Served, Quiet
<1>6. ChannelInv'
  BY SetupAssumption DEF SetupInv, CmEstablished, Raise, wires, snicVars,
     ChannelInv
<1>7. StepInv'
  <2> SUFFICES ASSUME Calm PROVE StepInv'
    BY DEF StepInv, CmEstablished
  <2>1. PICK t \in Thread : conn[t] = c /\ pc[t] = "wait_established"
    BY DEF SetupInv, OrderInv, CmEstablished
  <2>2. spc = "wait_established" /\ cur = c /\ chan = <<>>
    BY <2>1 DEF SetupInv, StepInv, InStep, NewAsked, NewAnswered, CmEstablished
  <2>3. chan' = <<[type |-> "ESTABLISHED", conn |-> c]>>
    BY <2>2 DEF CmEstablished, Raise
  <2>4. InStep(t)'
    BY <2>1, <2>2, <2>3
    DEF CmEstablished, InStep, NewAsked, NewAnswered, SetupInv, TypeOK, snicVars
  <2> QED
    BY <2>1, <2>4, SoleStep DEF SetupInv, CmEstablished
<1>8. OrderInv'
  BY SetupAssumption DEF SetupInv, TypeOK, CmEstablished, wires, OrderInv, Quiet
<1>9. LockInv' /\ RoomInv'
  BY DEF SetupInv, CmEstablished, Raise, wires, snicVars, LockInv, RoomInv,
     Starting
<1>20. GlobalInv'
  BY GlobalIdle
  DEF SetupInv, CmEstablished, At, Goto, wires, hostVars, snicVars, Starting, TypeOK,
     LockInv, GlobalInv
<1> QED
  BY <1>1, <1>2, <1>3, <1>4, <1>5, <1>6, <1>7, <1>8, <1>9, <1>20 DEF SetupInv

(* A request times out only when the order is gone. *)
LEMMA CmTimeoutKeeps ==
  ASSUME SetupInv, NEW c \in Conn, CmTimeout(c)
  PROVE  SetupInv'
<1>0. ~Calm
  <2> SUFFICES ASSUME Calm PROVE FALSE
    OBVIOUS
  <2>1. cm[c] \in {"connecting", "accepted"} /\ up["snic"]
    BY DEF SetupInv, OrderInv, CmTimeout
  <2>2. PICK t \in Thread : conn[t] = c /\ pc[t] = "wait_established"
    BY <2>1 DEF SetupInv, OrderInv
  <2> QED
    BY <2>1, <2>2 DEF SetupInv, StepInv, InStep, NewAsked, NewAnswered, CmTimeout
<1>1. TypeOK'
  BY CmTimeoutEvent
<1>2. OwnerInv'
  BY SetupAssumption DEF SetupInv, CmTimeout, Raise, wires, snicVars, OwnerInv
<1>3. MessageInv'
  BY SetupAssumption DEF SetupInv, CmTimeout, Raise, wires, snicVars, MessageInv,
     Quiet
<1>4. ReceiveInv'
  BY SetupAssumption DEF SetupInv, CmTimeout, Raise, wires, snicVars, ReceiveInv
<1>5. ServerInv'
  BY SetupAssumption DEF SetupInv, CmTimeout, Raise, wires, snicVars, ServerInv,
     Served, Quiet
<1>6. ChannelInv'
  BY CmTimeoutEvent
<1>7. StepInv'
  BY <1>0 DEF StepInv, CmTimeout
<1>8. OrderInv'
  BY <1>0 DEF SetupInv, OrderInv, CmTimeout, wires
<1>9. LockInv' /\ RoomInv'
  BY DEF SetupInv, CmTimeout, Raise, wires, snicVars, LockInv, RoomInv, Starting
<1>20. GlobalInv'
  BY GlobalIdle
  DEF SetupInv, CmTimeout, At, Goto, wires, hostVars, snicVars, Starting, TypeOK,
     LockInv, GlobalInv
<1> QED
  BY <1>1, <1>2, <1>3, <1>4, <1>5, <1>6, <1>7, <1>8, <1>9, <1>20 DEF SetupInv

(* A message uses the SmartNIC's receive. *)
LEMMA DeliverToSnicKeeps ==
  ASSUME SetupInv, NEW c \in Conn, DeliverToSnic(c)
  PROVE  SetupInv'
<1>1. TypeOK'
  BY SetupAssumption DEF SetupInv, DeliverToSnic, hostVars, snicVars, TypeOK,
     Event, EventType, ThreadPc, ServerPc, CmState
<1>2. MessageInv'
  BY SetupAssumption DEF SetupInv, DeliverToSnic, hostVars, snicVars, TypeOK,
     MessageInv, Quiet
<1>3. ReceiveInv'
  BY SetupAssumption DEF SetupInv, DeliverToSnic, hostVars, snicVars, TypeOK,
     ReceiveInv, OwnerInv, MessageInv, Quiet
<1>4. ServerInv'
  BY SetupAssumption DEF SetupInv, DeliverToSnic, hostVars, snicVars, ServerInv,
     Served, Quiet
<1>5. LockInv' /\ RoomInv' /\ OwnerInv' /\ ChannelInv'
  BY DEF SetupInv, DeliverToSnic, hostVars, snicVars, LockInv, RoomInv, OwnerInv,
     ChannelInv, Starting
<1>6. StepInv' /\ OrderInv'
  <2>1. /\ toSnic[c] # "none" /\ toSnic' = [toSnic EXCEPT ![c] = "none"]
        /\ atSnic' = [atSnic EXCEPT ![c] = toSnic[c]] /\ UNCHANGED <<toHost, atHost>>
    BY DEF DeliverToSnic
  <2>2. \A d \in Conn : Quiet(d) => Quiet(d)'
    BY <2>1 DEF SetupInv, TypeOK, Quiet
  <2>3. (NewAsked => NewAsked') /\ (NewAnswered => NewAnswered')
    BY <2>1, GlobalIsConn DEF SetupInv, TypeOK, MessageInv, NewAsked, NewAnswered
  <2> QED
    BY <2>2, <2>3, MessageMoves DEF SetupInv, DeliverToSnic, hostVars, snicVars
<1>20. GlobalInv'
  <2>1. /\ toSnic[c] # "none" /\ toSnic' = [toSnic EXCEPT ![c] = "none"]
        /\ atSnic' = [atSnic EXCEPT ![c] = toSnic[c]]
        /\ UNCHANGED <<pc, conn, lock, conns, cm, toHost, atHost, rqHost, broken>>
    BY DEF DeliverToSnic, hostVars
  <2>2. /\ ~broken[c] /\ toHost[c] = "none" /\ atHost[c] = "none"
    BY <2>1 DEF SetupInv, MessageInv
  <2>3. CASE c = Global
    <3>1. /\ toSnic'[Global] = "none" /\ atSnic'[Global] = toSnic[Global]
          /\ atSnic[Global] = "none"
          /\ \A d \in Conn \ {Global} : toSnic'[d] = toSnic[d] /\ atSnic'[d] = atSnic[d]
      BY <2>1, <2>3 DEF SetupInv, TypeOK, MessageInv
    <3> QED
      BY <2>1, <2>2, <2>3, <3>1
      DEF SetupInv, GlobalInv, NewUnderWay, NewAsked, NewAnswered, Quiet, Starting
  <2>4. CASE c # Global
    <3>1. GlobalAlone
      BY <2>1, <2>4 DEF SetupInv, TypeOK, GlobalAlone
    <3> QED
      BY <2>1, <2>4, <3>1, GlobalKept DEF SetupInv, TypeOK, Starting, GlobalInv
  <2> QED
    BY <2>3, <2>4
<1> QED
  BY <1>1, <1>2, <1>3, <1>4, <1>5, <1>6, <1>20 DEF SetupInv

(* A SEND that fails was the connection's one message, and not metadata. *)
LEMMA SendFailsKeeps ==
  ASSUME SetupInv, NEW c \in Conn, SendFails(c)
  PROVE  SetupInv'
<1>1. TypeOK'
  BY SetupAssumption DEF SetupInv, SendFails, hostVars, snicVars, TypeOK, Event,
     EventType, ThreadPc, ServerPc, CmState
<1>2. OwnerInv'
  BY SetupAssumption DEF SetupInv, SendFails, hostVars, snicVars, OwnerInv
<1>3. MessageInv'
  BY SetupAssumption DEF SetupInv, SendFails, hostVars, snicVars, TypeOK,
     MessageInv, Quiet
<1>4. ReceiveInv'
  BY SetupAssumption DEF SetupInv, SendFails, hostVars, snicVars, TypeOK,
     ReceiveInv, OwnerInv, MessageInv, Quiet
<1>5. ServerInv'
  BY SetupAssumption DEF SetupInv, SendFails, hostVars, snicVars, ServerInv,
     Served, Quiet
<1>6. OrderInv'
  BY SetupAssumption DEF SetupInv, SendFails, hostVars, snicVars, TypeOK,
     OrderInv, OwnerInv, MessageInv, ReceiveInv, Quiet
<1>7. LockInv' /\ RoomInv' /\ ChannelInv'
  BY DEF SetupInv, SendFails, hostVars, snicVars, LockInv, RoomInv, ChannelInv, Starting
<1>8. StepInv'
  <2>1. /\ toSnic' = [toSnic EXCEPT ![c] = "none"] /\ broken' = [broken EXCEPT ![c] = TRUE]
        /\ UNCHANGED <<pc, conn, cm, atSnic, toHost, atHost, spc, cur, chan, left, faults>>
    BY DEF SendFails, hostVars, snicVars
  <2>2. /\ NewAsked \/ broken[Global] => NewAsked' \/ broken'[Global]
        /\ NewAnswered => NewAnswered'
    BY <2>1, GlobalIsConn DEF SetupInv, TypeOK, NewAsked, NewAnswered
  <2>3. \A t \in Thread : InStep(t) => InStep(t)'
    BY <2>1, <2>2, InStepKept
  <2> QED
    BY <2>1, <2>3 DEF SetupInv, StepInv
<1>20. GlobalInv'
  <2>1. /\ toSnic' = [toSnic EXCEPT ![c] = "none"] /\ broken' = [broken EXCEPT ![c] = TRUE]
        /\ rqHost' = [rqHost EXCEPT ![c] = 0]
        /\ UNCHANGED <<pc, conn, lock, conns, cm, toHost, atSnic, atHost>>
    BY DEF SendFails, hostVars
  <2> QED
    BY <2>1, GlobalBreaks DEF SetupInv, TypeOK
<1> QED
  BY <1>1, <1>2, <1>3, <1>4, <1>5, <1>6, <1>7, <1>8, <1>20 DEF SetupInv

(* An answer uses the host's receive. *)
LEMMA DeliverToHostKeeps ==
  ASSUME SetupInv, NEW c \in Conn, DeliverToHost(c)
  PROVE  SetupInv'
<1>1. TypeOK'
  BY SetupAssumption DEF SetupInv, DeliverToHost, hostVars, snicVars, TypeOK,
     Event, EventType, ThreadPc, ServerPc, CmState
<1>2. OwnerInv'
  BY SetupAssumption DEF SetupInv, DeliverToHost, hostVars, snicVars, OwnerInv
<1>3. MessageInv'
  BY SetupAssumption DEF SetupInv, DeliverToHost, hostVars, snicVars, TypeOK,
     MessageInv, Quiet
<1>4. ReceiveInv'
  BY SetupAssumption DEF SetupInv, DeliverToHost, hostVars, snicVars, TypeOK,
     ReceiveInv, OwnerInv, MessageInv, Quiet
<1>5. ServerInv'
  BY SetupAssumption DEF SetupInv, DeliverToHost, hostVars, snicVars, ServerInv,
     Served, Quiet
<1>6. LockInv' /\ RoomInv' /\ ChannelInv'
  BY DEF SetupInv, DeliverToHost, hostVars, snicVars, LockInv, RoomInv, ChannelInv, Starting
<1>7. StepInv' /\ OrderInv'
  <2>1. /\ toHost[c] # "none" /\ toHost' = [toHost EXCEPT ![c] = "none"]
        /\ atHost' = [atHost EXCEPT ![c] = toHost[c]] /\ UNCHANGED <<toSnic, atSnic>>
    BY DEF DeliverToHost
  <2>2. \A d \in Conn : Quiet(d) => Quiet(d)'
    BY <2>1 DEF SetupInv, TypeOK, Quiet
  <2>3. (NewAsked => NewAsked') /\ (NewAnswered => NewAnswered')
    BY <2>1, GlobalIsConn DEF SetupInv, TypeOK, MessageInv, NewAsked, NewAnswered
  <2> QED
    BY <2>2, <2>3, MessageMoves DEF SetupInv, DeliverToHost, hostVars, snicVars
<1>20. GlobalInv'
  <2>1. /\ toHost[c] # "none" /\ rqHost[c] > 0 /\ toHost' = [toHost EXCEPT ![c] = "none"]
        /\ atHost' = [atHost EXCEPT ![c] = toHost[c]]
        /\ rqHost' = [rqHost EXCEPT ![c] = @ - 1]
        /\ UNCHANGED <<pc, conn, lock, conns, cm, toSnic, atSnic, broken>>
    BY DEF DeliverToHost, hostVars
  <2>2. ~broken[c] /\ toSnic[c] = "none" /\ atSnic[c] = "none"
    BY <2>1 DEF SetupInv, MessageInv
  <2>3. CASE c = Global
    <3>1. /\ toHost'[Global] = "none" /\ atHost'[Global] = toHost[Global]
          /\ atHost[Global] = "none" /\ rqHost'[Global] = 0
          /\ \A d \in Conn \ {Global} : toHost'[d] = toHost[d] /\ atHost'[d] = atHost[d]
      BY <2>1, <2>3 DEF SetupInv, TypeOK, MessageInv
    <3> QED
      BY <2>1, <2>2, <2>3, <3>1
      DEF SetupInv, GlobalInv, NewUnderWay, NewAsked, NewAnswered, Quiet, Starting
  <2>4. CASE c # Global
    <3>1. GlobalAlone /\ rqHost'[Global] = rqHost[Global]
      BY <2>1, <2>4 DEF SetupInv, TypeOK, GlobalAlone
    <3> QED
      BY <2>1, <2>4, <3>1, GlobalKept DEF SetupInv, TypeOK, Starting, GlobalInv
  <2> QED
    BY <2>3, <2>4
<1> QED
  BY <1>1, <1>2, <1>3, <1>4, <1>5, <1>6, <1>7, <1>20 DEF SetupInv

(* The acknowledgements of the one message of a connection are lost. *)
LEMMA RetriesExhaustedKeeps ==
  ASSUME SetupInv, NEW c \in Conn, RetriesExhausted(c)
  PROVE  SetupInv'
<1>1. /\ toSnic' = [toSnic EXCEPT ![c] = "none"] /\ broken' = [broken EXCEPT ![c] = TRUE]
      /\ rqHost' = [rqHost EXCEPT ![c] = 0] /\ ~broken[c]
      /\ toSnic[c] # "none" \/ atSnic[c] # "none" \/ toHost[c] # "none"
      /\ UNCHANGED <<pc, leaving, conn, lock, conns, cm, toHost, atSnic, atHost, acked, rqSnic,
                     spc, cur, worker, chan, up, twice, left>>
  BY DEF RetriesExhausted, hostVars, snicVars
<1>2. faults < MaxFaults /\ faults' = faults + 1
  BY DEF RetriesExhausted
<1>3. TypeOK'
  BY <1>1, <1>2, SetupAssumption DEF SetupInv, TypeOK
<1>4. LockInv' /\ RoomInv' /\ ChannelInv'
  BY <1>1 DEF SetupInv, LockInv, RoomInv, ChannelInv, Starting
<1>5. OwnerInv'
  BY <1>1 DEF SetupInv, TypeOK, OwnerInv
<1>6. MessageInv'
  BY <1>1 DEF SetupInv, TypeOK, MessageInv, Quiet
<1>7. ReceiveInv'
  <2>1. \A t \in Thread : pc[t] \in {"connect", "wait_established"} => conn[t] # c
    BY <1>1 DEF SetupInv, MessageInv, Quiet
  <2> QED
    BY <1>1, <2>1 DEF SetupInv, TypeOK, ReceiveInv
<1>8. ServerInv'
  BY <1>1 DEF SetupInv, TypeOK, ServerInv, Served, Quiet
<1>9. ~Calm' /\ faults' > 0
  BY <1>2 DEF SetupInv, TypeOK
<1>10. StepInv' /\ OrderInv'
  BY <1>9 DEF StepInv, OrderInv
<1>11. GlobalInv'
  BY <1>1, GlobalBreaks DEF SetupInv, TypeOK
<1> QED
  BY <1>3, <1>4, <1>5, <1>6, <1>7, <1>8, <1>10, <1>11 DEF SetupInv

(* The SmartNIC gives up a connection that it sets up. *)
LEMMA ServerSetUpFailsKeeps ==
  ASSUME SetupInv, ServerSetUpFails
  PROVE  SetupInv'
<1>1. /\ spc \in {"setup", "accept", "send_metadata"} /\ spc' = "poll" /\ cur' = NoConn
      /\ up' = up \/ up' = [up EXCEPT !["snic"] = FALSE]
      /\ UNCHANGED <<pc, leaving, conn, lock, conns, cm, wires, worker, chan, twice, left>>
  BY DEF ServerSetUpFails, Serving, hostVars
<1>2. faults < MaxFaults /\ faults' = faults + 1
  BY DEF ServerSetUpFails
<1>3. TypeOK'
  <2>1. up' \in [{"host", "snic"} -> BOOLEAN]
    BY ZenonT(60), <1>1 DEF SetupInv, TypeOK
  <2> QED
    BY <1>1, <1>2, <2>1, SetupAssumption DEF SetupInv, TypeOK, ServerPc, wires
<1>4. LockInv' /\ RoomInv' /\ OwnerInv'
  BY <1>1 DEF SetupInv, LockInv, RoomInv, OwnerInv, Starting, wires
<1>5. MessageInv' /\ ReceiveInv'
  BY <1>1 DEF SetupInv, MessageInv, ReceiveInv, Quiet, wires
<1>6. ServerInv'
  <2>1. up'["host"] = up["host"]
    BY <1>1 DEF SetupInv, TypeOK
  <2> QED
    BY <1>1, <2>1 DEF SetupInv, ServerInv, Served, Quiet, wires
<1>7. ChannelInv'
  BY <1>1 DEF SetupInv, ChannelInv
<1>8. ~Calm' /\ faults' > 0
  BY <1>2 DEF SetupInv, TypeOK
<1>9. StepInv' /\ OrderInv'
  BY <1>8 DEF StepInv, OrderInv
<1>10. GlobalInv'
  BY <1>1, GlobalIdle DEF SetupInv, GlobalInv, wires, Starting
<1> QED
  BY <1>3, <1>4, <1>5, <1>6, <1>7, <1>9, <1>10 DEF SetupInv

(* The main thread ends on a send that failed. *)
LEMMA MainEndsKeeps ==
  ASSUME SetupInv, MainEnds
  PROVE  SetupInv'
<1>1. /\ up' = [up EXCEPT !["snic"] = FALSE]
      /\ UNCHANGED <<pc, leaving, conn, lock, conns, cm, wires, snicVars, chan, twice, left,
                     faults>>
  BY DEF MainEnds, hostVars
<1>2. ~Calm
  BY GlobalIsConn DEF SetupInv, OrderInv, Quiet, MainEnds, SendLost
<1>3. TypeOK'
  BY <1>1 DEF SetupInv, TypeOK, wires, snicVars
<1>4. LockInv' /\ RoomInv' /\ OwnerInv'
  BY <1>1 DEF SetupInv, LockInv, RoomInv, OwnerInv, Starting, wires
<1>5. MessageInv' /\ ReceiveInv'
  BY <1>1 DEF SetupInv, MessageInv, ReceiveInv, Quiet, wires, snicVars
<1>6. up'["host"] = up["host"] /\ ~up'["snic"]
  BY <1>1 DEF SetupInv, TypeOK
<1>7. ServerInv' /\ ChannelInv'
  BY <1>1, <1>6 DEF SetupInv, ServerInv, ChannelInv, Served, Quiet, wires, snicVars
<1>8. StepInv' /\ OrderInv'
  BY <1>1, <1>2, <1>6 DEF StepInv, OrderInv, wires
<1>9. GlobalInv'
  BY <1>1, GlobalIdle DEF SetupInv, GlobalInv, wires, Starting
<1> QED
  BY <1>3, <1>4, <1>5, <1>7, <1>8, <1>9 DEF SetupInv

(* A worker ends on a send that failed. *)
LEMMA WorkerEndsKeeps ==
  ASSUME SetupInv, NEW c \in Conn, WorkerEnds(c)
  PROVE  SetupInv'
<1>1. /\ worker' = [worker EXCEPT ![c] = "ended"] /\ worker[c] = "polling"
      /\ broken[c] \/ ~up["host"]
      /\ UNCHANGED <<hostVars, wires, spc, cur, chan, up, twice, left, faults>>
  BY DEF WorkerEnds, SendLost
<1>2. TypeOK'
  BY <1>1 DEF SetupInv, TypeOK, hostVars, wires
<1>3. LockInv' /\ RoomInv' /\ OwnerInv' /\ ChannelInv'
  BY <1>1 DEF SetupInv, LockInv, RoomInv, OwnerInv, ChannelInv, Starting, hostVars, wires
<1>4. MessageInv' /\ ReceiveInv'
  BY <1>1 DEF SetupInv, TypeOK, MessageInv, ReceiveInv, Quiet, hostVars, wires
<1>5. ServerInv'
  <2>1. \A d \in Conn : (worker'[d] # "none") <=> (worker[d] # "none")
    BY <1>1 DEF SetupInv, TypeOK
  <2>2. \A d \in Conn : Served(d)' <=> Served(d)
    BY <1>1, <2>1 DEF Served
  <2>3. \A d \in Conn : worker'[d] = "ended" => broken[d] \/ ~up["host"]
    BY <1>1 DEF SetupInv, TypeOK, ServerInv
  <2>4. cur # NoConn => cur \in Conn
    BY DEF SetupInv, TypeOK
  <2> QED
    BY <1>1, <2>1, <2>2, <2>3, <2>4, GlobalIsConn
    DEF SetupInv, TypeOK, OwnerInv, ServerInv, Quiet, hostVars, wires
<1>6. StepInv' /\ OrderInv'
  BY <1>1
  DEF SetupInv, StepInv, OrderInv, InStep, NewAsked, NewAnswered, Quiet, hostVars, wires
<1>7. GlobalInv'
  BY <1>1, GlobalIdle DEF SetupInv, GlobalInv, hostVars, wires, Starting
<1> QED
  BY <1>2, <1>3, <1>4, <1>5, <1>6, <1>7 DEF SetupInv

(* A step that changes nothing. *)
LEMMA SetupStutter ==
  ASSUME SetupInv, UNCHANGED vars
  PROVE  SetupInv'
<1> USE DEF vars, hostVars, wires, snicVars
<1>1. TypeOK'
  BY DEF SetupInv, TypeOK
<1>2. LockInv' /\ RoomInv' /\ OwnerInv'
  BY DEF SetupInv, LockInv, RoomInv, OwnerInv, Starting
<1>3. MessageInv' /\ ReceiveInv'
  BY DEF SetupInv, MessageInv, ReceiveInv, Quiet
<1>4. ServerInv'
  BY DEF SetupInv, ServerInv, Served, Quiet
<1>5. ChannelInv' /\ StepInv' /\ OrderInv'
  BY DEF SetupInv, ChannelInv, StepInv, InStep, NewAsked, NewAnswered, OrderInv, Quiet
<1>6. GlobalInv'
  BY GlobalIdle DEF SetupInv, GlobalInv, Starting
<1> QED
  BY <1>1, <1>2, <1>3, <1>4, <1>5, <1>6 DEF SetupInv

(* The program starts with nothing but the thread of my_main. *)
LEMMA SetupInitially == Init => SetupInv
<1> SUFFICES ASSUME Init PROVE SetupInv
  OBVIOUS
<1> USE SetupAssumption DEF Init
<1>1. TypeOK
  <2>1. /\ pc \in [Thread -> ThreadPc] /\ leaving \in [Thread -> BOOLEAN]
        /\ conn \in [Thread -> Conn \cup {NoConn}] /\ cm \in [Conn -> CmState]
        /\ conns \in 0 .. MaxConn /\ up \in [{"host", "snic"} -> BOOLEAN]
    BY DEF ThreadPc, CmState
  <2>2. /\ toSnic \in [Conn -> {"none"}] /\ atSnic \in [Conn -> {"none"}]
        /\ toHost \in [Conn -> {"none"}] /\ atHost \in [Conn -> {"none"}]
        /\ acked \in [Conn -> BOOLEAN] /\ broken \in [Conn -> BOOLEAN]
        /\ rqSnic \in [Conn -> {0, 1}] /\ rqHost \in [Conn -> {0, 1}]
        /\ worker \in [Conn -> {"none"}]
    OBVIOUS
  <2>3. lock \in Thread \cup {NoThread} /\ left \subseteq Thread /\ faults \in 0 .. MaxFaults
    OBVIOUS
  <2>4. spc \in ServerPc /\ cur \in Conn \cup {NoConn} /\ chan \in Seq(Event)
    BY DEF ServerPc
  <2>5. twice \in BOOLEAN
    OBVIOUS
  <2> HIDE DEF Conn
  <2> QED
    BY <2>1, <2>2, <2>3, <2>4, <2>5 DEF TypeOK
<1>2. LockInv
  BY DEF LockInv, Starting
<1>3. RoomInv
  <2>1. {t \in Thread : pc[t] \in {"lock", "wait_new", "prepare"}} = {Starter}
    OBVIOUS
  <2>2. Cardinality({t \in Thread : pc[t] \in {"lock", "wait_new", "prepare"}}) = 1
    BY <2>1, FS_Singleton
  <2> QED
    BY <2>2 DEF RoomInv
<1>4. OwnerInv
  BY DEF OwnerInv
<1>5. MessageInv /\ ReceiveInv
  BY DEF MessageInv, ReceiveInv, Quiet
<1>6. ServerInv
  BY DEF ServerInv, Served
<1>7. ChannelInv
  BY DEF ChannelInv
<1>8. StepInv /\ OrderInv
  BY DEF StepInv, InStep, NewAsked, NewAnswered, OrderInv, Quiet
<1>9. GlobalInv
  BY GlobalIsConn DEF GlobalInv, Starting, NewUnderWay, NewAsked, NewAnswered
<1> QED
  BY <1>1, <1>2, <1>3, <1>4, <1>5, <1>6, <1>7, <1>8, <1>9 DEF SetupInv

---------------------------------------------------------------------------
(* Theorems *)

(* Whatever the threads, the SmartNIC, the connection manager and the        *)
(* adapters do, and whatever fails, SetupInv holds: set-ups are exclusive,   *)
(* every connection has one owner and one message, every message its         *)
(* receive at the host, and in the calm both ends are in step.               *)
THEOREM SetupInvariant == Spec => []SetupInv
<1>1. ASSUME SetupInv, [Next]_vars
      PROVE  SetupInv'
  <2>1. ASSUME NEW t \in Thread, ThreadStep(t)
        PROVE  SetupInv'
    BY <1>1, <2>1, AskNewConnKeeps, NewConnAnsweredKeeps, NewConnFailedKeeps,
       PrepareConnectionKeeps, ConnectToServerKeeps, XchangeMetadataKeeps, XchangedKeeps,
       ConnectFailedKeeps, NoRInfoKeeps, CallReturnedKeeps, DisconnectKeeps,
       DisconnectedKeeps, SetReqSockKeeps DEF ThreadStep
  <2>2. ASSUME NEW t \in Thread, Application(t)
        PROVE  SetupInv'
    BY <1>1, <2>2, GetRInfoKeeps, SetReqSockKeeps, LeaveKeeps, ThreadReturnsKeeps
    DEF Application
  <2>3. ASSUME ServerMain
        PROVE  SetupInv'
    BY <1>1, <2>3, WaitingClientConnKeeps, SetupClientResourcesKeeps,
       AcceptClientConnectionKeeps, WaitEstablishedKeeps, WaitMetadataKeeps,
       SendServerMetadataKeeps, PostRecvReqKeeps, PthreadCreateKeeps, NewRdmaConnKeeps,
       MainEndsKeeps
    DEF ServerMain
  <2>4. ASSUME NEW c \in Conn, Worker(c) \/ Network(c)
        PROVE  SetupInv'
    BY <1>1, <2>4, WorkerServesKeeps, WorkerEndsKeeps, CmEstablishedKeeps, CmTimeoutKeeps,
       DeliverToSnicKeeps, SendFailsKeeps, DeliverToHostKeeps DEF Worker, Network
  <2>5. ASSUME SomethingFails
        PROVE  SetupInv'
    BY <1>1, <2>5, SetUpFailsKeeps, ServerSetUpFailsKeeps, RetriesExhaustedKeeps
    DEF SomethingFails
  <2> QED
    BY <1>1, <2>1, <2>2, <2>3, <2>4, <2>5, SetupStutter DEF Next
<1> QED
  BY SetupInitially, <1>1, PTL DEF Spec

(* Every variable keeps its type, and no end ever has two receives posted   *)
(* for its one buffer: the bound on the connections is enough.              *)
THEOREM SetupTypeCorrect == Spec => []TypeOK
<1>1. SetupInv => TypeOK
  BY DEF SetupInv
<1> QED
  BY <1>1, SetupInvariant, PTL

(* However many threads ask, and whatever fails on the way, at most one is   *)
(* in set-up, nobody leaves it with the lock and the global connection is    *)
(* called only for the holder.                                               *)
THEOREM SetUpIsExclusive == Spec => []OneSetUpAtATime
<1>1. SetupInv => OneSetUpAtATime
  <2> SUFFICES ASSUME SetupInv PROVE OneSetUpAtATime
    OBVIOUS
  <2>1. \A t, u \in Thread : pc[t] \in SetUpPc /\ pc[u] \in SetUpPc => t = u
    BY OneInSetUp DEF SetupInv
  <2>2. lock # NoThread => lock \in Thread /\ pc[lock] \in SetUpPc
    BY DEF SetupInv, LockInv, TypeOK
  <2>3. NewUnderWay /\ ~broken[Global] => lock # NoThread
    BY DEF SetupInv, GlobalInv
  <2> QED
    BY <2>1, <2>2, <2>3 DEF OneSetUpAtATime
<1> QED
  BY <1>1, SetupInvariant, PTL

(* The metadata of either end find a receive, in every interleaving. *)
THEOREM MetadataNeverLost == Spec => []MetadataFindsReceive
<1>1. SetupInv => MetadataFindsReceive
  BY DEF SetupInv, ReceiveInv, MetadataFindsReceive
<1> QED
  BY <1>1, SetupInvariant, PTL

(* A connection that get_r_info returned has had its worker asked for, or    *)
(* the SmartNIC is about to ask: whatever fails after the metadata have      *)
(* left, only pthread_create's refusal, the failure of its own queue pair or *)
(* the end of the host's process leaves it without.                          *)
THEOREM KeptIsServed == Spec => []KeptConnectionIsServed
<1>1. SetupInv => KeptConnectionIsServed
  <2> SUFFICES ASSUME SetupInv, NEW t \in Thread, pc[t] \in {"ready", "wait_reply", "wait_del"}
               PROVE  \/ worker[conn[t]] \in {"polling", "spinning", "refused"}
                      \/ worker[conn[t]] = "ended" /\ (broken[conn[t]] \/ ~up["host"])
                      \/ cur = conn[t] /\ spc \in {"post_recv_req", "pthread_create"}
    BY DEF KeptConnectionIsServed
  <2>1. conn[t] \in Conn /\ Served(conn[t])
    BY DEF SetupInv, TypeOK, OwnerInv, ServerInv
  <2>2. worker[conn[t]] \in {"none", "polling", "spinning", "refused", "ended"}
    BY <2>1 DEF SetupInv, TypeOK
  <2>3. worker[conn[t]] = "ended" => broken[conn[t]] \/ ~up["host"]
    BY <2>1 DEF SetupInv, ServerInv
  <2> QED
    BY <2>1, <2>2, <2>3 DEF Served
<1> QED
  BY <1>1, SetupInvariant, PTL

(* As long as no thread disconnects and nothing is at fault, no event is     *)
(* acknowledged twice, the SmartNIC does not crash and get_r_info returns    *)
(* NULL only because a NEW met no receive and broke the global connection.   *)
THEOREM OrderlyBeforeFirstLeaves == Spec => []OrderlyUntilFirstLeaves
<1>1. SetupInv => OrderlyUntilFirstLeaves
  BY DEF SetupInv, OrderInv, OrderlyUntilFirstLeaves
<1> QED
  BY <1>1, SetupInvariant, PTL

---------------------------------------------------------------------------
(* The service that the set-up implements *)

(* The stage of a thread, by its place *)
LEMMA StageIs ==
  /\ \A l \in SetUpPc : Stage(l) = "entering"
  /\ \A l \in {"unborn", "idle", "lock", "no_r_info"} : Stage(l) = "away"
  /\ Stage("ready") = "held" /\ Stage("wait_reply") = "called"
  /\ Stage("wait_del") = "deleting"
  /\ Stage("disconnect") = "gone" /\ Stage("exited") = "gone"
BY DEF Stage

(* A thread is where its stage says. *)
LEMMA PlaceOf ==
  ASSUME TypeOK, NEW t \in Thread
  PROVE  /\ Stages[t] = "entering" <=> pc[t] \in SetUpPc
         /\ Stages[t] \in {"called", "deleting"} <=> pc[t] \in Calling
BY DEF TypeOK, ThreadPc, Stages, Stage, Calling

(* A thread moves to another place, perhaps with another connection. *)
LEMMA ThreadMoves ==
  ASSUME TypeOK, NEW t \in Thread, NEW l, NEW k,
         pc' = [pc EXCEPT ![t] = l], conn' = [conn EXCEPT ![t] = k]
  PROVE  Service!Moves(t, Stage(l), IF l \in Calling \cup {"ready"} THEN k ELSE NoConn)
<1>1. \A u \in Thread : pc'[u] = IF u = t THEN l ELSE pc[u] BY DEF TypeOK
<1>2. \A u \in Thread : conn'[u] = IF u = t THEN k ELSE conn[u] BY DEF TypeOK
<1>3. Stages' = [Stages EXCEPT ![t] = Stage(l)]
  <2>1. Stages' = [u \in Thread |-> Stage(pc'[u])] BY DEF Stages
  <2>2. ASSUME NEW u \in Thread
        PROVE  Stage(pc'[u]) = IF u = t THEN Stage(l) ELSE Stage(pc[u])
    <3>1. CASE u = t
      <4>1. pc'[u] = l BY <1>1, <3>1
      <4>. QED BY <3>1, <4>1
    <3>2. CASE u # t
      <4>1. pc'[u] = pc[u] BY <1>1, <3>2
      <4>. QED BY <3>2, <4>1
    <3>. QED BY <3>1, <3>2
  <2>3. Stages' = [u \in Thread |-> IF u = t THEN Stage(l) ELSE Stage(pc[u])]
    BY <2>1, <2>2
  <2>. QED BY <2>3 DEF Stages
<1>4. Mine' = [Mine EXCEPT ![t] = IF l \in Calling \cup {"ready"} THEN k ELSE NoConn]
  BY <1>1, <1>2 DEF Mine
<1>. QED BY <1>3, <1>4 DEF Service!Moves

(* The works of ConnService *)
LEMMA WorkValues ==
  ASSUME NEW c \in Conn
  PROVE  /\ Work(c) \in {"none", "request", "reply", "doubt", "dead"}
         /\ Work(c) \in Service!Failed <=> broken[c]
BY DEF Work, Service!Failed

(* What a connection carries depends on its four messages and on its queue  *)
(* pair only.                                                               *)
LEMMA WorkStays ==
  ASSUME NEW c \in Conn, toSnic'[c] = toSnic[c], atSnic'[c] = atSnic[c],
         toHost'[c] = toHost[c], atHost'[c] = atHost[c], broken'[c] = broken[c]
  PROVE  Work(c)' = Work(c)
BY DEF Work

(* Nothing that carries a request or a reply has changed. *)
LEMMA WorksStay ==
  ASSUME \A c \in Conn : Work(c)' = Work(c)
  PROVE  UNCHANGED Works
BY DEF Works

(* One connection carries something else. *)
LEMMA WorksAfter ==
  ASSUME NEW c \in Conn, \A d \in Conn \ {c} : Work(d)' = Work(d)
  PROVE  Works' = [Works EXCEPT ![c] = Work(c)']
BY DEF Works

(* A request has its caller, and a caller something to wait for: a request,   *)
(* a reply or a connection that has failed.                                  *)
CallersWait ==
  /\ RequestHasCaller
  /\ \A t \in Thread : pc[t] \in Calling => conn[t] \in Conn /\ Work(conn[t]) # "none"

(* Whether a thread waits for a reply, and on which connection, is unchanged. *)
CallsOn(u) ==
  /\ pc[u] \in Calling <=> pc'[u] \in Calling
  /\ pc[u] \in Calling => conn'[u] = conn[u]

(* It stays so if no request is added, nothing comes to its end and nobody   *)
(* calls or returns.                                                         *)
LEMMA CallersStay ==
  ASSUME CallersWait,
         \A c \in Conn : /\ Work(c)' = "request" => Work(c) = "request"
                         /\ Work(c)' = "none" => Work(c) = "none",
         \A t \in Thread : CallsOn(t)
  PROVE  CallersWait'
<1>1. RequestHasCaller' BY DEF CallersWait, RequestHasCaller, CallsOn
<1>2. ASSUME NEW t \in Thread, pc'[t] \in Calling
      PROVE  conn'[t] \in Conn /\ Work(conn[t])' # "none"
  <2>1. pc[t] \in Calling /\ conn'[t] = conn[t] BY <1>2 DEF CallsOn
  <2>2. PICK c \in Conn : c = conn[t] BY <2>1 DEF CallersWait
  <2>3. Work(c) # "none" BY <2>1, <2>2 DEF CallersWait
  <2>4. Work(c)' # "none" BY <2>3
  <2>5. conn'[t] = c BY <2>1, <2>2
  <2>. QED BY <2>4, <2>5
<1>. QED BY <1>1, <1>2 DEF CallersWait, Calling

(* A step that the service does not see *)
LEMMA ServiceStutters ==
  ASSUME CallersWait, UNCHANGED <<pc, conn>>, \A c \in Conn : Work(c)' = Work(c)
  PROVE  CallersWait' /\ UNCHANGED Service!vars
<1>1. \A t \in Thread : CallsOn(t) BY DEF CallsOn
<1>2. CallersWait' BY <1>1, CallersStay
<1>3. UNCHANGED <<Stages, Mine>> BY DEF Stages, Mine
<1>. QED BY <1>2, <1>3, WorksStay DEF Service!vars

(* A step of a thread in set-up, or of one that has no connection yet *)
LEMMA UnseenMove ==
  ASSUME TypeOK, CallersWait, NEW t \in Thread, NEW l, NEW k,
         pc' = [pc EXCEPT ![t] = l], conn' = [conn EXCEPT ![t] = k],
         pc[t] \notin Calling \cup {"ready"}, l \notin Calling \cup {"ready"},
         Stage(l) = Stage(pc[t]), \A c \in Conn : Work(c)' = Work(c)
  PROVE  CallersWait' /\ UNCHANGED Service!vars
<1>1. Service!Moves(t, Stage(l), NoConn) BY ThreadMoves
<1>2. \A u \in Thread : CallsOn(u)
  BY DEF TypeOK, CallsOn
<1>3. CallersWait' BY <1>2, CallersStay
<1>4. Stages[t] = Stage(l) /\ Mine[t] = NoConn BY DEF Stages, Mine
<1>5. UNCHANGED <<Stages, Mine>>
  <2>1. Stages' = [Stages EXCEPT ![t] = Stage(l)] /\ Mine' = [Mine EXCEPT ![t] = NoConn]
    BY <1>1 DEF Service!Moves
  <2>. QED BY <1>4, <2>1 DEF Stages, Mine
<1>. QED BY <1>3, <1>5, WorksStay DEF Service!vars

Implemented == CallersWait' /\ (Service!Next \/ UNCHANGED Service!vars)

(* No message has moved. *)
LEMMA WiresStay ==
  ASSUME UNCHANGED <<toSnic, atSnic, toHost, atHost, broken>>
  PROVE  \A c \in Conn : Work(c)' = Work(c)
BY WorkStays

(* A thread asks for a connection and makes it. *)
LEMMA SetUpImplements ==
  ASSUME SetupInv, CallersWait, NEW t \in Thread,
         \/ \E e \in BOOLEAN : GetRInfo(t, e)
         \/ NewConnAnswered(t) \/ PrepareConnection(t) \/ ConnectToServer(t)
         \/ XchangeMetadata(t) \/ NoRInfo(t) \/ Leave(t) \/ Disconnected(t)
  PROVE  Implemented
<1>1. TypeOK BY DEF SetupInv
<1>2. conn = [conn EXCEPT ![t] = conn[t]] BY <1>1 DEF TypeOK
<1>3. ASSUME NEW l, NEW k, pc' = [pc EXCEPT ![t] = l], conn' = [conn EXCEPT ![t] = k],
             Stage(l) = Stage(pc[t]), pc[t] \notin Calling \cup {"ready"},
             l \notin Calling \cup {"ready"}, \A c \in Conn : Work(c)' = Work(c)
      PROVE  Implemented
  BY <1>1, <1>3, UnseenMove DEF Implemented
<1>4. ASSUME NEW e \in BOOLEAN, GetRInfo(t, e)
      PROVE  Implemented
  <2>1. /\ pc[t] = "idle" /\ pc' = [pc EXCEPT ![t] = "lock"] /\ conn' = conn
        /\ UNCHANGED <<toSnic, atSnic, toHost, atHost, broken>>
    BY <1>4 DEF GetRInfo, At, Goto, wires
  <2>. QED BY <1>2, <1>3, <2>1, StageIs, WiresStay DEF Calling
<1>5. CASE NewConnAnswered(t)
  <2>1. /\ pc[t] = "wait_new" /\ pc' = [pc EXCEPT ![t] = "prepare"] /\ conn' = conn
        /\ atHost[Global] = "answer" /\ atHost' = [atHost EXCEPT ![Global] = "none"]
        /\ UNCHANGED <<toSnic, atSnic, toHost, broken>>
    BY <1>5 DEF NewConnAnswered, At, Goto
  <2>2. ASSUME NEW c \in Conn
        PROVE  Work(c)' = Work(c)
    <3>1. atHost'[c] = atHost[c] \/ (atHost[c] = "answer" /\ atHost'[c] = "none")
      BY <1>1, <2>1 DEF TypeOK
    <3>. QED BY <2>1, <3>1 DEF Work
  <2>. QED BY <1>2, <1>3, <2>1, <2>2, StageIs DEF Calling
<1>6. CASE PrepareConnection(t)
  <2>1. /\ pc[t] = "prepare" /\ pc' = [pc EXCEPT ![t] = "connect"]
        /\ conn' = [conn EXCEPT ![t] = conns + 1]
        /\ UNCHANGED <<toSnic, atSnic, toHost, atHost, broken>>
    BY <1>6 DEF PrepareConnection, At, Goto
  <2>. QED BY <1>3, <2>1, StageIs, WiresStay DEF Calling
<1>7. CASE ConnectToServer(t)
  <2>1. /\ pc[t] = "connect" /\ pc' = [pc EXCEPT ![t] = "wait_established"] /\ conn' = conn
        /\ UNCHANGED <<toSnic, atSnic, toHost, atHost, broken>>
    BY <1>7 DEF ConnectToServer, At, Goto, wires
  <2>. QED BY <1>2, <1>3, <2>1, StageIs, WiresStay DEF Calling
<1>8. CASE XchangeMetadata(t)
  <2>1. /\ pc[t] = "wait_established" /\ pc' = [pc EXCEPT ![t] = "xchange"] /\ conn' = conn
        /\ toSnic' = [toSnic EXCEPT ![conn[t]] = "metadata"]
        /\ UNCHANGED <<atSnic, toHost, atHost, broken>>
    BY <1>8 DEF XchangeMetadata, At, Goto
  <2>2. toSnic[conn[t]] = "none"
    BY <1>1, <2>1 DEF SetupInv, MessageInv, ReceiveInv, Quiet
  <2>3. ASSUME NEW c \in Conn
        PROVE  Work(c)' = Work(c)
    <3>1. CASE c = conn[t]
      <4>1. toSnic'[c] = "metadata" BY <1>1, <2>1, <3>1 DEF TypeOK
      <4>. QED BY <2>1, <2>2, <3>1, <4>1 DEF Work, Request
    <3>2. CASE c # conn[t]
      <4>1. toSnic'[c] = toSnic[c] BY <1>1, <2>1, <3>2 DEF TypeOK
      <4>. QED BY <2>1, <4>1, WorkStays
    <3>. QED BY <3>1, <3>2
  <2>. QED BY <1>2, <1>3, <2>1, <2>3, StageIs DEF Calling
<1>9. CASE NoRInfo(t)
  <2>1. /\ pc[t] = "no_r_info" /\ conn' = conn
        /\ pc' = [pc EXCEPT ![t] = "idle"] \/ pc' = pc
        /\ UNCHANGED <<toSnic, atSnic, toHost, atHost, broken>>
    BY <1>9 DEF NoRInfo, At, Goto, wires
  <2>2. CASE pc' = [pc EXCEPT ![t] = "idle"]
    BY <1>2, <1>3, <2>1, <2>2, StageIs, WiresStay DEF Calling
  <2>3. CASE pc' = pc BY <2>1, <2>3, WiresStay, ServiceStutters DEF Implemented
  <2>. QED BY <2>1, <2>2, <2>3
<1>10. CASE Leave(t)
  <2>1. UNCHANGED <<pc, conn, toSnic, atSnic, toHost, atHost, broken>>
    BY <1>10 DEF Leave, wires
  <2>. QED BY <2>1, WiresStay, ServiceStutters DEF Implemented
<1>11. CASE Disconnected(t)
  <2>1. UNCHANGED <<pc, conn, toSnic, atSnic, toHost, atHost, broken>>
    BY <1>11 DEF Disconnected, hostVars, wires
  <2>. QED BY <2>1, WiresStay, ServiceStutters DEF Implemented
<1>. QED BY <1>4, <1>5, <1>6, <1>7, <1>8, <1>9, <1>10, <1>11

(* The lock is taken only when nobody is in set-up. *)
LEMMA AskNewConnImplements ==
  ASSUME SetupInv, CallersWait, NEW t \in Thread, AskNewConn(t)
  PROVE  Implemented
<1>1. TypeOK /\ LockInv BY DEF SetupInv
<1>2. /\ pc[t] = "lock" /\ lock = NoThread /\ pc' = [pc EXCEPT ![t] = "wait_new"]
      /\ conn' = [conn EXCEPT ![t] = conn[t]]
      /\ UNCHANGED <<atSnic, toHost, atHost, broken>>
      /\ UNCHANGED toSnic \/ toSnic' = [toSnic EXCEPT ![Global] = "new"]
  BY <1>1 DEF AskNewConn, PostRequest, At, Goto, TypeOK
<1>3. \A u \in Thread : pc[u] \notin SetUpPc
  BY <1>1, <1>2, SetupAssumption DEF LockInv, Starting, TypeOK
<1>4. \A u \in Thread : Stages[u] # "entering" BY <1>1, <1>3, PlaceOf
<1>5. Stages[t] = "away" BY <1>2, StageIs DEF Stages
<1>6. Service!Moves(t, "entering", NoConn)
  <2>1. Service!Moves(t, Stage("wait_new"),
                      IF "wait_new" \in Calling \cup {"ready"} THEN conn[t] ELSE NoConn)
    BY <1>1, <1>2, ThreadMoves
  <2>. QED BY <2>1, StageIs DEF Calling
<1>7. ASSUME NEW c \in Conn
      PROVE  Work(c)' = Work(c)
  <2>1. toSnic'[c] = toSnic[c] \/ (c = Global /\ toSnic'[c] = "new")
    BY <1>1, <1>2 DEF TypeOK
  <2>2. c = Global => toSnic[c] \notin Request BY DEF SetupInv, GlobalInv
  <2>. QED BY <1>2, <2>1, <2>2 DEF Work
<1>8. Service!Enter(t) BY <1>4, <1>5, <1>6, <1>7, WorksStay DEF Service!Enter
<1>9. \A u \in Thread : CallsOn(u)
  BY <1>1, <1>2 DEF TypeOK, Calling, CallsOn
<1>10. CallersWait' BY <1>7, <1>9, CallersStay
<1>. QED BY <1>8, <1>10 DEF Implemented, Service!Next

(* A set-up fails; without the global connection the process ends. *)
LEMMA SetUpFailedImplements ==
  ASSUME SetupInv, CallersWait, NEW t \in Thread,
         NewConnFailed(t) \/ ConnectFailed(t) \/ SetUpFails(t)
  PROVE  Implemented
<1>1. TypeOK BY DEF SetupInv
<1>2. /\ pc[t] \in SetUpPc
      /\ UNCHANGED <<toSnic, atSnic, toHost, atHost, broken>>
  BY DEF NewConnFailed, ConnectFailed, SetUpFails, At, wires
<1>3. CASE UNCHANGED <<pc, conn>>
  BY <1>2, <1>3, WiresStay, ServiceStutters DEF Implemented
<1>4. ASSUME NEW k, pc' = [pc EXCEPT ![t] = "no_r_info"], conn' = [conn EXCEPT ![t] = k]
      PROVE  Implemented
  <2>1. Service!Moves(t, "away", NoConn) BY <1>1, <1>4, ThreadMoves, StageIs DEF Calling
  <2>2. Stages[t] = "entering" BY <1>1, <1>2, PlaceOf
  <2>3. Service!Withdraw(t)
    BY <1>2, <2>1, <2>2, WiresStay, WorksStay DEF Service!Withdraw
  <2>4. \A u \in Thread : CallsOn(u)
    BY <1>1, <1>2, <1>4 DEF TypeOK, Calling, CallsOn
  <2>5. CallersWait' BY <1>2, <2>4, WiresStay, CallersStay
  <2>. QED BY <2>3, <2>5 DEF Implemented, Service!Next
<1>5. conn = [conn EXCEPT ![t] = conn[t]] BY <1>1 DEF TypeOK
<1>6. \/ UNCHANGED <<pc, conn>>
      \/ pc' = [pc EXCEPT ![t] = "no_r_info"] /\ conn' = conn
      \/ pc' = [pc EXCEPT ![t] = "no_r_info"] /\ conn' = [conn EXCEPT ![t] = NoConn]
  BY DEF NewConnFailed, ConnectFailed, SetUpFails, GiveUp, Goto
<1>. QED BY <1>3, <1>4, <1>5, <1>6

(* The server's metadata is all that a new connection has carried. *)
LEMMA XchangedImplements ==
  ASSUME SetupInv, CallersWait, NEW t \in Thread, Xchanged(t)
  PROVE  Implemented
<1>1. TypeOK /\ LockInv /\ OwnerInv /\ MessageInv BY DEF SetupInv
<1>2. PICK c : c = conn[t] OBVIOUS
<1>3. /\ pc[t] = "xchange" /\ atHost[c] = "metadata"
      /\ atHost' = [atHost EXCEPT ![c] = "none"]
      /\ UNCHANGED <<toSnic, atSnic, toHost, broken>>
  BY <1>2 DEF Xchanged, At
<1>4. c \in Conn BY <1>1, <1>2, <1>3 DEF OwnerInv, TypeOK
<1>5. toSnic[c] = "none" /\ atSnic[c] = "none" /\ toHost[c] = "none" /\ ~broken[c]
  BY <1>1, <1>3, <1>4 DEF MessageInv
<1>6. Work(c) = "none" /\ Work(c)' = "none"
  <2>1. atHost'[c] = "none" BY <1>1, <1>3, <1>4 DEF TypeOK
  <2>. QED BY <1>3, <1>5, <2>1 DEF Work, Request
<1>7. \A d \in Conn : Work(d)' = Work(d)
  <2>1. ASSUME NEW d \in Conn, d # c
        PROVE  Work(d)' = Work(d)
    <3>1. atHost'[d] = atHost[d] BY <1>1, <1>3, <2>1 DEF TypeOK
    <3>. QED BY <1>3, <3>1, WorkStays
  <2>. QED BY <1>6, <2>1
<1>8. Stages[t] = "entering" BY <1>1, <1>3, PlaceOf
<1>9. CASE c = Global
  <2>1. conn' = [conn EXCEPT ![t] = NoConn] /\ pc' = [u \in Thread |-> "idle"]
    BY <1>2, <1>9 DEF Xchanged
  <2>2. \A u \in Thread \ {t} : pc[u] = "unborn"
    <3>1. t = Starter BY <1>1, <1>2, <1>9 DEF OwnerInv
    <3>2. Starting BY <1>2, <1>9, <3>1 DEF Starting
    <3>. QED BY <1>1, <3>1, <3>2 DEF LockInv
  <2>3. ASSUME NEW u \in Thread
        PROVE  Stages'[u] = (IF u = t THEN "away" ELSE Stages[u])
               /\ Mine'[u] = (IF u = t THEN NoConn ELSE Mine[u])
    <3>1. pc'[u] = "idle" BY <2>1
    <3>2. Stages'[u] = "away" BY <3>1, StageIs DEF Stages
    <3>3. Mine'[u] = NoConn BY <3>1 DEF Mine, Calling
    <3>4. u # t => Stages[u] = "away" /\ Mine[u] = NoConn
      BY <2>2, StageIs DEF Stages, Mine, Calling
    <3>. QED BY <3>2, <3>3, <3>4
  <2>4. Service!Moves(t, "away", NoConn)
    <3>1. Stages' = [Stages EXCEPT ![t] = "away"] BY <2>3 DEF Stages
    <3>2. Mine' = [Mine EXCEPT ![t] = NoConn] BY <2>3 DEF Mine
    <3>. QED BY <3>1, <3>2 DEF Service!Moves
  <2>5. Service!Withdraw(t) BY <1>7, <1>8, <2>4, WorksStay DEF Service!Withdraw
  <2>6. \A u \in Thread : CallsOn(u) BY <1>3, <2>1, <2>2 DEF Calling, CallsOn
  <2>7. CallersWait' BY <1>7, <2>6, CallersStay
  <2>. QED BY <2>5, <2>7 DEF Implemented, Service!Next
<1>10. CASE c # Global
  <2>1. conn' = [conn EXCEPT ![t] = c] /\ pc' = [pc EXCEPT ![t] = "ready"]
    BY <1>1, <1>2, <1>10 DEF Xchanged, Goto, TypeOK
  <2>2. Service!Moves(t, "held", c) BY <1>1, <2>1, ThreadMoves, StageIs
  <2>3. \A u \in Thread : Mine[u] # c
    BY <1>1, <1>2, <1>3, <1>4 DEF Mine, Calling, OwnerInv
  <2>4. Works[c] = "none" BY <1>4, <1>6 DEF Works
  <2>5. Service!Obtain(t)
    BY <1>4, <1>7, <1>8, <2>2, <2>3, <2>4, WorksStay DEF Service!Obtain
  <2>6. \A u \in Thread : CallsOn(u)
    BY <1>1, <1>3, <2>1 DEF TypeOK, Calling, CallsOn
  <2>7. CallersWait' BY <1>7, <2>6, CallersStay
  <2>. QED BY <2>5, <2>7 DEF Implemented, Service!Next
<1>. QED BY <1>9, <1>10

(* A thread that holds its connection has nothing on it when it calls, unless *)
(* it has failed; then nothing is sent.                                      *)
LEMMA SetReqSockImplements ==
  ASSUME SetupInv, CallersWait, NEW t \in Thread, SetReqSock(t)
  PROVE  Implemented
<1>1. TypeOK /\ OwnerInv /\ MessageInv BY DEF SetupInv
<1>2. PICK c, l : c = conn[t] /\ l = IF leaving[t] THEN "wait_del" ELSE "wait_reply" OBVIOUS
<1>3. /\ pc[t] = "ready" /\ pc' = [pc EXCEPT ![t] = l] /\ conn' = [conn EXCEPT ![t] = c]
      /\ UNCHANGED <<atSnic, toHost, atHost, broken>>
      /\ \/ broken[c] /\ UNCHANGED toSnic
         \/ ~broken[c] /\ \E m \in Request : toSnic' = [toSnic EXCEPT ![c] = m]
  BY <1>1, <1>2 DEF SetReqSock, PostRequest, At, Goto, TypeOK
<1>4. c \in Conn BY <1>1, <1>2, <1>3 DEF OwnerInv, TypeOK
<1>5. Mine[t] = c /\ Stages[t] = "held" BY <1>2, <1>3, StageIs DEF Mine, Stages
<1>6. l \in Calling /\ Stage(l) \in {"called", "deleting"} BY <1>2, StageIs DEF Calling
<1>7. Service!Moves(t, Stage(l), c) BY <1>1, <1>3, <1>6, ThreadMoves
<1>8. \A d \in Conn \ {c} : Work(d)' = Work(d)
  <2>1. ASSUME NEW d \in Conn, d # c
        PROVE  Work(d)' = Work(d)
    <3>1. toSnic'[d] = toSnic[d] BY <1>1, <1>3, <2>1 DEF TypeOK
    <3>. QED BY <1>3, <3>1, WorkStays
  <2>. QED BY <2>1
<1>9. \/ Work(c) \in Service!Failed /\ Work(c)' = Work(c)
      \/ Work(c) = "none" /\ Work(c)' = "request"
  <2>1. CASE broken[c] /\ UNCHANGED toSnic
    BY <1>3, <1>4, <2>1, WorkValues, WorkStays
  <2>2. ASSUME ~broken[c], NEW m \in Request, toSnic' = [toSnic EXCEPT ![c] = m]
        PROVE  Work(c) = "none" /\ Work(c)' = "request"
    <3>1. Quiet(c) BY <1>1, <1>2, <1>3, <2>2 DEF MessageInv
    <3>2. toSnic'[c] = m BY <1>1, <1>4, <2>2 DEF TypeOK
    <3>. QED BY <1>3, <2>2, <3>1, <3>2 DEF Work, Quiet
  <2>. QED BY <1>3, <2>1, <2>2
<1>10. Service!Call(t)
  <2>1. \E s \in {"called", "deleting"} : Service!Moves(t, s, c) BY <1>6, <1>7
  <2>2. Works[c] = Work(c) BY <1>4 DEF Works
  <2>3. CASE Work(c) \in Service!Failed /\ Work(c)' = Work(c)
    <3>1. UNCHANGED Works BY <1>8, <2>3, WorksStay
    <3>. QED BY <1>5, <2>1, <2>2, <2>3, <3>1 DEF Service!Call
  <2>4. CASE Work(c) = "none" /\ Work(c)' = "request"
    <3>1. Works' = [Works EXCEPT ![c] = "request"] BY <1>4, <1>8, <2>4, WorksAfter
    <3>. QED BY <1>5, <2>1, <2>2, <2>4, <3>1 DEF Service!Call
  <2>. QED BY <1>9, <2>3, <2>4
<1>11. CallersWait'
  <2>1. pc'[t] \in Calling /\ conn'[t] = c BY <1>1, <1>3, <1>6 DEF TypeOK
  <2>2. \A u \in Thread \ {t} : pc'[u] = pc[u] /\ conn'[u] = conn[u]
    BY <1>1, <1>3 DEF TypeOK
  <2>3. Work(c)' # "none" BY <1>9 DEF Service!Failed
  <2>4. RequestHasCaller'
    <3>1. ASSUME NEW d \in Conn, Work(d)' = "request"
          PROVE  \E u \in Thread : conn'[u] = d /\ pc'[u] \in Calling
      <4>1. CASE d = c BY <2>1, <4>1
      <4>2. CASE d # c
        <5>1. Work(d) = "request" BY <1>8, <3>1, <4>2
        <5>2. PICK u \in Thread : conn[u] = d /\ pc[u] \in Calling
          BY <5>1 DEF CallersWait, RequestHasCaller
        <5>. QED BY <1>2, <2>2, <4>2, <5>2
      <4>. QED BY <4>1, <4>2
    <3>. QED BY <3>1 DEF RequestHasCaller, Calling
  <2>5. ASSUME NEW u \in Thread, pc'[u] \in Calling
        PROVE  conn'[u] \in Conn /\ Work(conn[u])' # "none"
    <3>1. CASE u = t BY <1>4, <2>1, <2>3, <3>1
    <3>2. CASE u # t
      <4>1. PICK d \in Conn : d = conn[u] /\ Work(d) # "none"
        BY <2>2, <2>5, <3>2 DEF CallersWait
      <4>2. d # c BY <1>1, <1>2, <1>3, <1>4, <3>2, <4>1 DEF OwnerInv
      <4>3. Work(d)' # "none" BY <1>8, <4>1, <4>2
      <4>4. conn'[u] = d BY <2>2, <3>2, <4>1
      <4>. QED BY <4>3, <4>4
    <3>. QED BY <3>1, <3>2
  <2>. QED BY <2>4, <2>5 DEF CallersWait, Calling
<1>. QED BY <1>10, <1>11 DEF Implemented, Service!Next

(* A call comes back with its reply, or because its connection has failed. *)
LEMMA CallReturnedImplements ==
  ASSUME SetupInv, CallersWait, NEW t \in Thread, CallReturned(t) \/ Disconnect(t)
  PROVE  Implemented
<1>1. TypeOK /\ OwnerInv /\ MessageInv BY DEF SetupInv
<1>2. PICK c, l : c = conn[t] /\ l = IF pc[t] = "wait_reply" THEN "ready" ELSE "disconnect"
  OBVIOUS
<1>3. /\ pc[t] \in Calling
      /\ pc' = [pc EXCEPT ![t] = l] /\ conn' = [conn EXCEPT ![t] = c]
      /\ atHost[c] = "reply" \/ broken[c]
      /\ atHost' = [atHost EXCEPT ![c] = "none"]
      /\ UNCHANGED <<toSnic, atSnic, toHost, broken>>
  BY <1>1, <1>2 DEF CallReturned, Disconnect, At, Goto, TypeOK, Calling
<1>4. c \in Conn BY <1>1, <1>2, <1>3 DEF OwnerInv, TypeOK, Calling
<1>5. atHost'[c] = "none" BY <1>1, <1>3, <1>4 DEF TypeOK
<1>6. \/ Work(c) = "reply" /\ Work(c)' = "none"
      \/ Work(c) \in Service!Failed /\ Work(c)' = Work(c)
  <2>1. CASE broken[c]
    <3>1. Work(c)' = Work(c) BY <1>3, <2>1 DEF Work
    <3>. QED BY <1>4, <2>1, <3>1, WorkValues
  <2>2. CASE ~broken[c]
    <3>1. atHost[c] = "reply" /\ toSnic[c] = "none" /\ atSnic[c] = "none" /\ toHost[c] = "none"
      BY <1>1, <1>3, <1>4, <2>2 DEF MessageInv
    <3>. QED BY <1>3, <1>5, <2>2, <3>1 DEF Work
  <2>. QED BY <2>1, <2>2
<1>7. \A d \in Conn \ {c} : Work(d)' = Work(d)
  <2>1. ASSUME NEW d \in Conn, d # c
        PROVE  Work(d)' = Work(d)
    <3>1. atHost'[d] = atHost[d] BY <1>1, <1>3, <2>1 DEF TypeOK
    <3>. QED BY <1>3, <3>1, WorkStays
  <2>. QED BY <2>1
<1>8. \/ Works[c] = "reply" /\ Works' = [Works EXCEPT ![c] = "none"]
      \/ Works[c] \in Service!Failed /\ UNCHANGED Works
  <2>1. CASE Work(c) = "reply" /\ Work(c)' = "none"
    BY <1>4, <1>7, <2>1, WorksAfter DEF Works
  <2>2. CASE Work(c) \in Service!Failed /\ Work(c)' = Work(c)
    BY <1>4, <1>7, <2>2, WorksStay DEF Works
  <2>. QED BY <1>6, <2>1, <2>2
<1>9. Mine[t] = c BY <1>2, <1>3 DEF Mine
<1>10. Service!Return(t)
  <2>1. CASE pc[t] = "wait_reply"
    <3>1. Stages[t] = "called" BY <2>1, StageIs DEF Stages
    <3>2. Service!Moves(t, "held", c) BY <1>1, <1>2, <1>3, <2>1, ThreadMoves, StageIs
    <3>. QED BY <1>8, <1>9, <3>1, <3>2 DEF Service!Return
  <2>2. CASE pc[t] = "wait_del"
    <3>1. Stages[t] = "deleting" BY <2>2, StageIs DEF Stages
    <3>2. Service!Moves(t, "gone", NoConn)
      BY <1>1, <1>2, <1>3, <2>2, ThreadMoves, StageIs DEF Calling
    <3>. QED BY <1>8, <1>9, <3>1, <3>2 DEF Service!Return
  <2>. QED BY <1>3, <2>1, <2>2 DEF Calling
<1>11. CallersWait'
  <2>1. pc'[t] \notin Calling BY <1>1, <1>2, <1>3 DEF TypeOK, Calling
  <2>2. \A u \in Thread \ {t} : pc'[u] = pc[u] /\ conn'[u] = conn[u]
    BY <1>1, <1>3 DEF TypeOK
  <2>3. RequestHasCaller'
    <3>1. ASSUME NEW d \in Conn, Work(d)' = "request"
          PROVE  \E u \in Thread : conn'[u] = d /\ pc'[u] \in Calling
      <4>1. d # c /\ Work(d) = "request" BY <1>6, <1>7, <3>1 DEF Service!Failed
      <4>2. PICK u \in Thread : conn[u] = d /\ pc[u] \in Calling
        BY <4>1 DEF CallersWait, RequestHasCaller
      <4>. QED BY <1>2, <2>2, <4>1, <4>2
    <3>. QED BY <3>1 DEF RequestHasCaller, Calling
  <2>4. ASSUME NEW u \in Thread, pc'[u] \in Calling
        PROVE  conn'[u] \in Conn /\ Work(conn[u])' # "none"
    <3>1. u # t BY <2>1, <2>4
    <3>2. PICK d \in Conn : d = conn[u] /\ Work(d) # "none"
      BY <2>2, <2>4, <3>1 DEF CallersWait
    <3>3. d # c BY <1>1, <1>2, <1>4, <3>1, <3>2 DEF OwnerInv
    <3>4. Work(d)' # "none" BY <1>7, <3>2, <3>3
    <3>5. conn'[u] = d BY <2>2, <3>1, <3>2
    <3>. QED BY <3>4, <3>5
  <2>. QED BY <2>3, <2>4 DEF CallersWait, Calling
<1>. QED BY <1>10, <1>11 DEF Implemented, Service!Next

(* A thread function returns with nothing under way. *)
LEMMA ThreadReturnsImplements ==
  ASSUME SetupInv, CallersWait, NEW t \in Thread, ThreadReturns(t)
  PROVE  Implemented
<1>1. TypeOK /\ OwnerInv /\ MessageInv BY DEF SetupInv
<1>2. /\ pc[t] \in {"ready", "idle"} /\ pc' = [pc EXCEPT ![t] = "exited"]
      /\ conn' = [conn EXCEPT ![t] = NoConn]
      /\ UNCHANGED <<toSnic, atSnic, toHost, atHost, broken>>
  BY DEF ThreadReturns, At, Goto, wires
<1>3. Service!Moves(t, "gone", NoConn) BY <1>1, <1>2, ThreadMoves, StageIs DEF Calling
<1>4. \/ Stages[t] = "away"
      \/ Stages[t] = "held" /\ Works[Mine[t]] \in Service!Failed \cup {"none"}
  <2>1. CASE pc[t] = "idle" BY <2>1, StageIs DEF Stages
  <2>2. CASE pc[t] = "ready"
    <3>1. PICK c : c = conn[t] OBVIOUS
    <3>2. c \in Conn BY <1>1, <2>2, <3>1 DEF OwnerInv, TypeOK
    <3>3. broken[c] \/ Quiet(c) BY <1>1, <2>2, <3>1 DEF MessageInv
    <3>4. Work(c) \in Service!Failed \cup {"none"}
      BY <3>2, <3>3, WorkValues DEF Work, Quiet
    <3>5. Works[c] = Work(c) BY <3>2 DEF Works
    <3>. QED BY <2>2, <3>1, <3>4, <3>5, StageIs DEF Stages, Mine
  <2>. QED BY <1>2, <2>1, <2>2
<1>5. Service!Abandon(t)
  BY <1>2, <1>3, <1>4, WiresStay, WorksStay DEF Service!Abandon
<1>6. \A u \in Thread : CallsOn(u)
  BY <1>1, <1>2 DEF TypeOK, Calling, CallsOn
<1>7. CallersWait' BY <1>2, <1>6, WiresStay, CallersStay
<1>. QED BY <1>5, <1>7 DEF Implemented, Service!Next

(* The SmartNIC's main thread carries metadata and the answer to NEW only. *)
LEMMA ServerMainImplements ==
  ASSUME SetupInv, CallersWait, ServerMain \/ ServerSetUpFails
  PROVE  Implemented
<1>1. TypeOK /\ MessageInv /\ ServerInv BY DEF SetupInv
<1>2. UNCHANGED <<pc, conn, toSnic, atHost, broken>>
  BY DEF ServerMain, WaitingClientConn, SetupClientResources, AcceptClientConnection,
         WaitEstablished, WaitMetadata, SendServerMetadata, PostRecvReq, PthreadCreate,
         NewRdmaConn, MainEnds, ServerSetUpFails, hostVars, wires
<1>3. CASE UNCHANGED <<atSnic, toHost>>
  BY <1>2, <1>3, WiresStay, ServiceStutters DEF Implemented
<1>4. ASSUME \A c \in Conn :
               /\ atSnic'[c] \in Request <=> atSnic[c] \in Request
               /\ toHost'[c] = "reply" <=> toHost[c] = "reply"
      PROVE  Implemented
  <2>1. \A c \in Conn : Work(c)' = Work(c) BY <1>2, <1>4 DEF Work
  <2>. QED BY <1>2, <2>1, ServiceStutters DEF Implemented
<1>5. CASE WaitMetadata
  <2>1. /\ atSnic[cur] = "metadata" /\ atSnic' = [atSnic EXCEPT ![cur] = "none"]
        /\ UNCHANGED toHost
    BY <1>5 DEF WaitMetadata
  <2>2. \A c \in Conn : atSnic'[c] = IF c = cur THEN "none" ELSE atSnic[c]
    BY <1>1, <2>1 DEF TypeOK
  <2>. QED BY <1>4, <2>1, <2>2
<1>6. CASE SendServerMetadata
  <2>1. /\ spc = "send_metadata" /\ toHost' = [toHost EXCEPT ![cur] = "metadata"]
        /\ UNCHANGED atSnic
    BY <1>6 DEF SendServerMetadata, Serving
  <2>2. toHost[cur] = "none" BY <1>1, <2>1 DEF ServerInv
  <2>3. \A c \in Conn : toHost'[c] = IF c = cur THEN "metadata" ELSE toHost[c]
    BY <1>1, <2>1 DEF TypeOK
  <2>. QED BY <1>4, <2>1, <2>2, <2>3
<1>7. CASE NewRdmaConn
  <2>1. /\ atSnic[Global] = "new" /\ atSnic' = [atSnic EXCEPT ![Global] = "none"]
        /\ toHost' = [toHost EXCEPT ![Global] = "answer"]
    BY <1>7 DEF NewRdmaConn
  <2>2. toHost[Global] = "none" BY <1>1, <2>1, SetupAssumption DEF MessageInv
  <2>3. \A c \in Conn : /\ atSnic'[c] = IF c = Global THEN "none" ELSE atSnic[c]
                        /\ toHost'[c] = IF c = Global THEN "answer" ELSE toHost[c]
    BY <1>1, <2>1 DEF TypeOK
  <2>. QED BY <1>4, <2>1, <2>2, <2>3
<1>. QED
  BY <1>3, <1>5, <1>6, <1>7
  DEF ServerMain, WaitingClientConn, SetupClientResources, AcceptClientConnection,
      WaitEstablished, PostRecvReq, PthreadCreate, MainEnds, ServerSetUpFails, wires

(* A step that changes the messages of one connection only *)
LEMMA OneConnection ==
  ASSUME TypeOK, NEW c \in Conn,
         \A d \in Conn \ {c} : /\ toSnic'[d] = toSnic[d] /\ atSnic'[d] = atSnic[d]
                               /\ toHost'[d] = toHost[d] /\ atHost'[d] = atHost[d]
                               /\ broken'[d] = broken[d]
  PROVE  \A d \in Conn \ {c} : Work(d)' = Work(d)
BY WorkStays

(* A worker has a request only while the request's caller waits, unless the *)
(* connection has failed.                                                   *)
LEMMA WorkerImplements ==
  ASSUME SetupInv, CallersWait, NEW c \in Conn, Worker(c)
  PROVE  Implemented
<1>1. TypeOK /\ OwnerInv /\ MessageInv BY DEF SetupInv
<1>2. CASE WorkerEnds(c)
  <2>1. UNCHANGED <<pc, conn, toSnic, atSnic, toHost, atHost, broken>>
    BY <1>2 DEF WorkerEnds, hostVars, wires
  <2>. QED BY <2>1, WiresStay, ServiceStutters DEF Implemented
<1>3. CASE WorkerServes(c)
  <2>1. /\ atSnic[c] \in Request /\ atSnic' = [atSnic EXCEPT ![c] = "none"]
        /\ toHost' = [toHost EXCEPT ![c] = "reply"]
        /\ UNCHANGED <<pc, conn, toSnic, atHost, broken>>
    BY <1>3 DEF WorkerServes, hostVars
  <2>2. toSnic[c] = "none" BY <1>1, <2>1 DEF MessageInv
  <2>3. atSnic'[c] = "none" /\ toHost'[c] = "reply" BY <1>1, <2>1 DEF TypeOK
  <2>4. \A d \in Conn \ {c} : Work(d)' = Work(d) BY <1>1, <2>1, OneConnection DEF TypeOK
  <2>5. UNCHANGED <<Stages, Mine>> BY <2>1 DEF Stages, Mine
  <2>6. \A u \in Thread : CallsOn(u) BY <2>1 DEF CallsOn
  <2>7. CASE broken[c]
    <3>1. Work(c) = "doubt" /\ Work(c)' = "dead" BY <2>1, <2>3, <2>7 DEF Work
    <3>2. Works[c] = "doubt" /\ Works' = [Works EXCEPT ![c] = "dead"]
      BY <2>4, <3>1, WorksAfter DEF Works
    <3>3. Service!ExecuteLate(c) BY <2>5, <3>2 DEF Service!ExecuteLate
    <3>4. CallersWait' BY <2>4, <2>6, <3>1, CallersStay
    <3>. QED BY <3>3, <3>4 DEF Implemented, Service!Next
  <2>8. CASE ~broken[c]
    <3>1. Work(c) = "request" /\ Work(c)' = "reply" BY <2>1, <2>2, <2>3, <2>8 DEF Work
    <3>2. Works[c] = "request" /\ Works' = [Works EXCEPT ![c] = "reply"]
      BY <2>4, <3>1, WorksAfter DEF Works
    <3>3. PICK t \in Thread : conn[t] = c /\ pc[t] \in Calling
      BY <3>1 DEF CallersWait, RequestHasCaller
    <3>4. Mine[t] = c /\ Stages[t] \in {"called", "deleting"}
      BY <1>1, <3>3, PlaceOf DEF Mine
    <3>5. Service!Execute(c) BY <2>5, <3>2, <3>4 DEF Service!Execute
    <3>6. CallersWait' BY <2>4, <2>6, <3>1, CallersStay
    <3>. QED BY <3>5, <3>6 DEF Implemented, Service!Next
  <2>. QED BY <2>7, <2>8
<1>. QED BY <1>2, <1>3 DEF Worker

(* A message is delivered. *)
LEMMA NetworkImplements ==
  ASSUME SetupInv, CallersWait, NEW c \in Conn,
         CmEstablished(c) \/ CmTimeout(c) \/ DeliverToSnic(c) \/ DeliverToHost(c)
  PROVE  Implemented
<1>1. TypeOK /\ OwnerInv /\ MessageInv BY DEF SetupInv
<1>2. UNCHANGED <<pc, conn, broken>>
  BY DEF CmEstablished, CmTimeout, DeliverToSnic, DeliverToHost, hostVars, wires
<1>3. ASSUME Work(c)' = Work(c), \A d \in Conn \ {c} : Work(d)' = Work(d)
      PROVE  Implemented
  BY <1>2, <1>3, ServiceStutters DEF Implemented
<1>4. CASE CmEstablished(c) \/ CmTimeout(c)
  <2>1. UNCHANGED <<toSnic, atSnic, toHost, atHost, broken>>
    BY <1>4 DEF CmEstablished, CmTimeout, wires
  <2>. QED BY <1>3, <2>1, WiresStay
<1>5. CASE DeliverToSnic(c)
  <2>1. /\ toSnic[c] # "none" /\ toSnic' = [toSnic EXCEPT ![c] = "none"]
        /\ atSnic' = [atSnic EXCEPT ![c] = toSnic[c]] /\ UNCHANGED <<toHost, atHost>>
    BY <1>5 DEF DeliverToSnic
  <2>2. atSnic[c] = "none" /\ ~broken[c] BY <1>1, <2>1 DEF MessageInv
  <2>3. toSnic'[c] = "none" /\ atSnic'[c] = toSnic[c] BY <1>1, <2>1 DEF TypeOK
  <2>4. Work(c)' = Work(c) BY <1>2, <2>1, <2>2, <2>3 DEF Work
  <2>5. \A d \in Conn \ {c} : Work(d)' = Work(d)
    BY <1>1, <1>2, <2>1, OneConnection DEF TypeOK
  <2>. QED BY <1>3, <2>4, <2>5
<1>6. CASE DeliverToHost(c)
  <2>1. /\ toHost[c] # "none" /\ toHost' = [toHost EXCEPT ![c] = "none"]
        /\ atHost' = [atHost EXCEPT ![c] = toHost[c]] /\ UNCHANGED <<toSnic, atSnic>>
    BY <1>6 DEF DeliverToHost
  <2>2. atHost[c] = "none" BY <1>1, <2>1 DEF MessageInv
  <2>3. toHost'[c] = "none" /\ atHost'[c] = toHost[c] BY <1>1, <2>1 DEF TypeOK
  <2>4. Work(c)' = Work(c) BY <1>2, <2>1, <2>2, <2>3 DEF Work
  <2>5. \A d \in Conn \ {c} : Work(d)' = Work(d)
    BY <1>1, <1>2, <2>1, OneConnection DEF TypeOK
  <2>. QED BY <1>3, <2>4, <2>5
<1>. QED BY <1>4, <1>5, <1>6

(* A connection fails with what it carries: a request that has arrived is in *)
(* doubt, and what carries neither request nor reply belongs to nobody yet.  *)
LEMMA ConnectionFails ==
  ASSUME SetupInv, CallersWait, NEW c \in Conn, SendFails(c) \/ RetriesExhausted(c)
  PROVE  Implemented
<1>1. TypeOK /\ OwnerInv /\ MessageInv BY DEF SetupInv
<1>2. /\ toSnic[c] # "none" \/ atSnic[c] # "none" \/ toHost[c] # "none"
      /\ toSnic' = [toSnic EXCEPT ![c] = "none"] /\ broken' = [broken EXCEPT ![c] = TRUE]
      /\ UNCHANGED <<pc, conn, atSnic, toHost, atHost>>
  BY DEF SendFails, RetriesExhausted, hostVars
<1>3. ~broken[c] BY <1>1 DEF SendFails, RetriesExhausted, MessageInv
<1>4. atHost[c] = "none" BY <1>1, <1>2 DEF MessageInv
<1>5. toSnic'[c] = "none" /\ broken'[c] BY <1>1, <1>2 DEF TypeOK
<1>6. Work(c)' \in Service!Failed BY <1>5 DEF Work, Service!Failed
<1>7. \A d \in Conn \ {c} : Work(d)' = Work(d) BY <1>1, <1>2, OneConnection DEF TypeOK
<1>8. Works[c] = Work(c) /\ Works' = [Works EXCEPT ![c] = Work(c)']
  BY <1>7, WorksAfter DEF Works
<1>9. UNCHANGED <<Stages, Mine>> BY <1>2 DEF Stages, Mine
<1>10. CallersWait'
  <2>1. \A u \in Thread : CallsOn(u) BY <1>2 DEF CallsOn
  <2>2. Work(c)' \notin {"request", "none"} BY <1>6 DEF Service!Failed
  <2>. QED BY <1>7, <2>1, <2>2, CallersStay
<1>11. CASE Work(c) = "request"
  <2>1. Service!Fail(c) BY <1>6, <1>8, <1>9, <1>11 DEF Service!Fail
  <2>. QED BY <1>10, <2>1 DEF Implemented, Service!Next
<1>12. CASE Work(c) \in {"reply", "none"}
  <2>1. atSnic[c] \notin Request BY <1>3, <1>12 DEF Work
  <2>2. Work(c)' = "dead" BY <1>2, <1>5, <2>1 DEF Work
  <2>3. Work(c) = "none" => \A t \in Thread : Mine[t] # c
    <3>. SUFFICES ASSUME Work(c) = "none", NEW t \in Thread, Mine[t] = c PROVE FALSE
      OBVIOUS
    <3>1. conn[t] = c /\ pc[t] \in Calling \cup {"ready"} BY DEF Mine
    <3>2. pc[t] # "ready" BY <1>1, <1>2, <1>3, <3>1 DEF MessageInv, Quiet
    <3>. QED BY <3>1, <3>2 DEF CallersWait
  <2>4. Service!Fail(c) BY <1>8, <1>9, <1>12, <2>2, <2>3 DEF Service!Fail
  <2>. QED BY <1>10, <2>4 DEF Implemented, Service!Next
<1>. QED BY <1>3, <1>11, <1>12, WorkValues DEF Service!Failed

(* At first the starter is on its way, and nothing is carried. *)
LEMMA ServiceInitially == Init => CallersWait /\ Service!Init
<1>. SUFFICES ASSUME Init PROVE CallersWait /\ Service!Init
  OBVIOUS
<1>1. \A c \in Conn : Work(c) = "none" BY DEF Init, Work, Request
<1>2. \A t \in Thread : pc[t] = IF t = Starter THEN "prepare" ELSE "unborn" BY DEF Init
<1>3. \A t \in Thread : Stages[t] = IF t = Starter THEN "entering" ELSE "away"
  BY <1>2, StageIs DEF Stages
<1>4. Stages = [t \in Thread |-> IF t = Starter THEN "entering" ELSE "away"]
  BY <1>3 DEF Stages
<1>5. Mine = [t \in Thread |-> NoConn] BY <1>2 DEF Mine, Calling
<1>6. Works = [c \in Conn |-> "none"] BY <1>1 DEF Works
<1>7. CallersWait BY <1>1, <1>2 DEF CallersWait, RequestHasCaller, Calling
<1>8. Service!Init BY <1>4, <1>5, <1>6 DEF Service!Init
<1>. QED BY <1>7, <1>8

(* Every step *)
LEMMA ServiceStep ==
  SetupInv /\ CallersWait /\ [Next]_vars => Implemented
<1>. SUFFICES ASSUME SetupInv, CallersWait, [Next]_vars PROVE Implemented
  OBVIOUS
<1>1. ASSUME NEW t \in Thread, ThreadStep(t) \/ Application(t) \/ SetUpFails(t)
      PROVE  Implemented
  BY <1>1, SetUpImplements, AskNewConnImplements, SetUpFailedImplements, XchangedImplements,
     SetReqSockImplements, CallReturnedImplements, ThreadReturnsImplements
  DEF ThreadStep, Application
<1>2. ASSUME NEW c \in Conn, Worker(c) \/ Network(c) \/ RetriesExhausted(c)
      PROVE  Implemented
  BY <1>2, WorkerImplements, NetworkImplements, ConnectionFails DEF Network
<1>3. CASE UNCHANGED vars
  <2>1. UNCHANGED <<pc, conn, toSnic, atSnic, toHost, atHost, broken>>
    BY <1>3 DEF vars, hostVars, wires
  <2>. QED BY <2>1, WiresStay, ServiceStutters DEF Implemented
<1>. QED BY <1>1, <1>2, <1>3, ServerMainImplements DEF Next, SomethingFails

(* No thread comes back from set_req_sock, with an error or without, while   *)
(* its request is on its way or waits for the worker of a connection that    *)
(* works: what is executed after its caller came back is at most a request   *)
(* in doubt, whose acknowledgements were lost.                               *)
THEOREM RequestsHaveCallers == Spec => []RequestHasCaller
<1>1. SetupInv /\ CallersWait /\ [Next]_vars => CallersWait'
  BY ServiceStep DEF Implemented
<1>2. Init => CallersWait BY ServiceInitially
<1>3. CallersWait => RequestHasCaller BY DEF CallersWait
<1>. QED BY <1>1, <1>2, <1>3, SetupInvariant, PTL DEF Spec

(* For any number of threads, connections and faults, the lock,              *)
(* the handshake and the workers implement the service of connections that   *)
(* ConnService describes.                                                    *)
THEOREM SetupRefinement == Spec => ImplementsConnService
<1>1. SetupInv /\ CallersWait /\ [Next]_vars =>
        CallersWait' /\ [Service!Next]_Service!vars
  BY ServiceStep DEF Implemented
<1>2. Init => CallersWait /\ Service!Init BY ServiceInitially
<1>. QED
  BY <1>1, <1>2, SetupInvariant, PTL DEF Spec, ImplementsConnService, Service!Spec

=============================================================================
