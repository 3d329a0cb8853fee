------------------------------- MODULE HostHook -----------------------------
(***************************************************************************)
(* Which descriptors the hooked calls of the host send to the SmartNIC.    *)
(*                                                                         *)
(* Descriptors made by socket, accept and epoll_create1 are numbers of the *)
(* SmartNIC's kernel; fd_ht of host/hook.c, a table of chained nodes       *)
(* (host/hash_delee.c), remembers them.  A hooked call on a descriptor it  *)
(* finds there goes to the SmartNIC, any other one to the original         *)
(* function.  Threads share the table without a lock, so an update is two  *)
(* steps here: the walk along the chain and the write that follows it.     *)
(***************************************************************************)
EXTENDS Integers, FiniteSets, Functions

CONSTANTS
  Thread,   \* threads of the application
  Fd,       \* descriptor numbers of the SmartNIC's kernel
  LocalFd,  \* descriptor numbers of the host's kernel that are among them
  Hash,     \* hashFunction, on Fd
  Node,     \* memory for nodes of the table
  NULL,
  Garbage   \* what malloc leaves in a field

ASSUME HookAssumption ==
  /\ IsFiniteSet(Thread) /\ IsFiniteSet(Node)
  /\ NULL \notin Node /\ Garbage \notin Node \cup {NULL}
  /\ Fd \subseteq Nat \ {0} /\ LocalFd \subseteq Fd
  /\ Hash \in [Fd -> Nat]
  /\ Thread \cap Nat = {}

Bucket == Range(Hash)
Handle == [fd : Fd, at : {"host", "snic"}]
NodeRecord == [key : Fd \cup {Garbage}, value : Thread \cup Bucket \cup {Garbage},
               next : Node \cup {NULL, Garbage}]

(* The calls that look their descriptor up with searchByKey, the function for *)
(* the table of connections, and those that use fd_searchByKey.  select looks *)
(* up nfds - 1, poll its first descriptor, epoll_ctl the epoll descriptor.    *)
SearchOps == {"connect", "send", "read", "recv", "close"}
ServerOps == {"write", "bind", "listen", "accept"}
WaitOps == {"select", "epoll_ctl", "epoll_wait", "poll"}
OptionOps == {"fcntl", "setsockopt", "getsockopt", "getpeername", "getsockname"}
HookedOps == SearchOps \cup ServerOps \cup WaitOps \cup OptionOps

VARIABLES
  head,       \* fd_ht->table
  node,       \* contents of the nodes
  alloc,      \* nodes that are allocated
  pc, fd,     \* where each thread is, with which descriptor
  new,        \* the node a thread is about to link or to free
  prev,       \* the node its walk ended at, NULL for the head
  snic,       \* descriptors open at the SmartNIC
  host,       \* descriptors open at the host
  app,        \* what the application has opened and not closed
  up,         \* the process has not aborted
  connected,  \* history: connect has inserted the descriptor a second time
  misclosed,  \* history: a local descriptor's close went to the SmartNIC
  raced       \* history: two updates of one chain have overlapped

table == <<head, node, alloc>>
locals == <<pc, fd, new, prev>>
history == <<connected, misclosed, raced>>
vars == <<table, locals, snic, host, app, up, history>>

(* Every variable has its type; a node in use has a link that was set. *)
TypeOK ==
  /\ head \in [Bucket -> Node \cup {NULL}]
  /\ node \in [Node -> NodeRecord]
  /\ alloc \subseteq Node
  /\ \A n \in alloc : node[n].next # Garbage
  /\ pc \in [Thread -> {"idle", "insert", "insert_again", "link", "link_again",
                        "delete", "unlink"}]
  /\ fd \in [Thread -> Fd \cup {NULL}]
  /\ new \in [Thread -> Node \cup {NULL}]
  /\ prev \in [Thread -> Node \cup {NULL}]
  /\ snic \subseteq Fd /\ host \subseteq LocalFd
  /\ app \subseteq Handle
  /\ up \in BOOLEAN
  /\ connected \subseteq Fd /\ misclosed \subseteq Fd
  /\ raced \in BOOLEAN

(* my_main has made the table. *)
Init ==
  /\ head = [b \in Bucket |-> NULL]
  /\ node = [n \in Node |-> [key |-> Garbage, value |-> Garbage, next |-> Garbage]]
  /\ alloc = {}
  /\ pc = [t \in Thread |-> "idle"]
  /\ fd = [t \in Thread |-> NULL] /\ new = fd /\ prev = fd
  /\ snic = {} /\ host = {} /\ app = {}
  /\ up = TRUE
  /\ connected = {} /\ misclosed = {} /\ raced = FALSE

---------------------------------------------------------------------------
(* The table *)

(* The places of a chain: a walk along the links of nodes, from the first, is *)
(* after k of them at Walk(first, nodes)[k].                                  *)
Walk(first, nodes) ==
  LET at[k \in 0 .. Cardinality(Node)] ==
        IF k = 0 THEN first
        ELSE IF at[k - 1] \in Node THEN nodes[at[k - 1]].next ELSE at[k - 1]
  IN  at

PlacesOf(b) == Walk(head[b], node)

Chain(b) == Range(PlacesOf(b)) \cap Node
Ends(b) == PlacesOf(b)[Cardinality(Node)] = NULL

(* The first node of the chain that has the key, with the one before it. *)
Find(b, key) ==
  {f \in (Node \cup {NULL}) \X Node :
     \E k \in 0 .. Cardinality(Node) :
       /\ f[2] = PlacesOf(b)[k] /\ f[1] = (IF k = 0 THEN NULL ELSE PlacesOf(b)[k - 1])
       /\ node[f[2]].key = key
       /\ \A j \in 0 .. k - 1 : node[PlacesOf(b)[j]].key # key}

(* The last node of the chain, NULL if there is none. *)
LastOf(b) ==
  CHOOSE p \in Node \cup {NULL} :
    IF head[b] = NULL THEN p = NULL ELSE p \in Chain(b) /\ node[p].next = NULL

(* Both searches look at the head of the chain only.  fd_searchByKey returns *)
(* the value; searchByKey, which takes the node for one of another type,     *)
(* returns its index.  Zero means that the descriptor is not found.          *)
Routed(op, d) ==
  LET b == Hash[d]
  IN  /\ head[b] # NULL
      /\ node[head[b]].key = d
      /\ IF op \in SearchOps THEN b # 0 ELSE node[head[b]].value # 0

(* Another thread has walked the chain that t is about to change. *)
Races(t) ==
  \E u \in Thread \ {t} : pc[u] \in {"link", "link_again", "unlink"} /\ Hash[fd[u]] = Hash[fd[t]]

NoteRace(t) == raced' = (raced \/ Races(t))

Goto(t, l, d, n, p) ==
  /\ pc' = [pc EXCEPT ![t] = l] /\ fd' = [fd EXCEPT ![t] = d]
  /\ new' = [new EXCEPT ![t] = n] /\ prev' = [prev EXCEPT ![t] = p]

Idle(t) == up /\ pc[t] = "idle"

(* mutant: the new node's link is not set *)
FdInsertWalkNoInit(t) ==
  /\ up /\ pc[t] \in {"insert", "insert_again"}
  /\ Ends(Hash[fd[t]])
  /\ \E n \in Node \ alloc :
       /\ alloc' = alloc \cup {n}
       /\ node' = [node EXCEPT ![n].key = fd[t], ![n].value = t]
       /\ Goto(t, IF pc[t] = "insert" THEN "link" ELSE "link_again", fd[t], n,
               LastOf(Hash[fd[t]]))
  /\ UNCHANGED <<head, snic, host, app, up, history>>

(* fd_insertByValue: a node is made and the end of the chain looked for.  The *)
(* value is the thread, or for connect what searchByKey returned, the index.  *)
(* A walk along a chain without an end never finishes.                        *)
FdInsertWalk(t) ==
  /\ up /\ pc[t] \in {"insert", "insert_again"}
  /\ Ends(Hash[fd[t]])
  /\ \E n \in Node \ alloc :
       /\ alloc' = alloc \cup {n}
       /\ node' = [node EXCEPT ![n] =
                     [key |-> fd[t], next |-> NULL,
                      value |-> IF pc[t] = "insert" THEN t ELSE Hash[fd[t]]]]
       /\ Goto(t, IF pc[t] = "insert" THEN "link" ELSE "link_again", fd[t], n,
               LastOf(Hash[fd[t]]))
  /\ UNCHANGED <<head, snic, host, app, up, history>>

(* mutant: the new node replaces the chain *)
FdInsertLinkAtHead(t) ==
  /\ up /\ pc[t] \in {"link", "link_again"}
  /\ head' = [head EXCEPT ![Hash[fd[t]]] = new[t]]
  /\ app' = IF pc[t] = "link" THEN app \cup {[fd |-> fd[t], at |-> "snic"]} ELSE app
  /\ NoteRace(t)
  /\ Goto(t, "idle", NULL, NULL, NULL)
  /\ UNCHANGED <<node, alloc, snic, host, up, connected, misclosed>>

(* The node is linked, even after a last node that was freed meanwhile, and *)
(* the call returns.                                                        *)
FdInsertLink(t) ==
  /\ up /\ pc[t] \in {"link", "link_again"}
  /\ IF prev[t] = NULL
     THEN head' = [head EXCEPT ![Hash[fd[t]]] = new[t]] /\ UNCHANGED node
     ELSE node' = [node EXCEPT ![prev[t]].next = new[t]] /\ UNCHANGED head
  /\ app' = IF pc[t] = "link" THEN app \cup {[fd |-> fd[t], at |-> "snic"]} ELSE app
  /\ NoteRace(t)
  /\ Goto(t, "idle", NULL, NULL, NULL)
  /\ UNCHANGED <<alloc, snic, host, up, connected, misclosed>>

(* fd_deleteByKey: the first node with the key is looked for. *)
FdDeleteWalk(t) ==
  /\ up /\ pc[t] = "delete"
  /\ LET found == Find(Hash[fd[t]], fd[t])
     IN  \/ \E f \in found : Goto(t, "unlink", fd[t], f[2], f[1])
         \/ found = {} /\ Ends(Hash[fd[t]]) /\ Goto(t, "idle", NULL, NULL, NULL)
  /\ UNCHANGED <<table, snic, host, app, up, history>>

(* mutant: the node is freed, the head still points to it *)
FdDeleteUnlinkNoRelink(t) ==
  /\ up /\ pc[t] = "unlink"
  /\ alloc' = alloc \ {new[t]}
  /\ node' = [node EXCEPT ![new[t]].key = Garbage, ![new[t]].value = Garbage]
  /\ up' \in IF new[t] \in alloc THEN {TRUE} ELSE BOOLEAN
  /\ NoteRace(t)
  /\ Goto(t, "idle", NULL, NULL, NULL)
  /\ UNCHANGED <<head, snic, host, app, connected, misclosed>>

(* It is unlinked and freed.  free overwrites what stands before the link; *)
(* freeing a node twice aborts the process or goes unnoticed.              *)
FdDeleteUnlink(t) ==
  LET freed == [node EXCEPT ![new[t]].key = Garbage, ![new[t]].value = Garbage]
  IN  /\ up /\ pc[t] = "unlink"
      /\ IF prev[t] = NULL
         THEN /\ head' = [head EXCEPT ![Hash[fd[t]]] = node[new[t]].next]
              /\ node' = freed
         ELSE /\ node' = [freed EXCEPT ![prev[t]].next = node[new[t]].next]
              /\ UNCHANGED head
      /\ alloc' = alloc \ {new[t]}
      /\ up' \in IF new[t] \in alloc THEN {TRUE} ELSE BOOLEAN
      /\ NoteRace(t)
      /\ Goto(t, "idle", NULL, NULL, NULL)
      /\ UNCHANGED <<snic, host, app, connected, misclosed>>

---------------------------------------------------------------------------
(* The hooked calls *)

(* The SmartNIC has opened a descriptor, which is put into the table if it *)
(* is above the limit the call checks; otherwise it is forgotten.          *)
NewRemote(t, limit) ==
  \E d \in Fd \ snic :
    /\ snic' = snic \cup {d}
    /\ IF d > limit THEN Goto(t, "insert", d, NULL, NULL) ELSE UNCHANGED locals
    /\ UNCHANGED <<table, host, app, up, history>>

ReqSock(t) == Idle(t) /\ NewRemote(t, 2)

ReqEpollCreate1(t) == Idle(t) /\ NewRemote(t, 0)

ReqAccept(t) ==
  /\ Idle(t)
  /\ \E h \in app : Routed("accept", h.fd)
  /\ NewRemote(t, 0)

(* connect: whatever the SmartNIC answers, the descriptor is inserted again. *)
ReqConnect(t, h) ==
  /\ Idle(t)
  /\ Routed("connect", h.fd)
  /\ connected' = connected \cup {h.fd}
  /\ Goto(t, "insert_again", h.fd, NULL, NULL)
  /\ UNCHANGED <<table, snic, host, app, up, misclosed, raced>>

(* mutant: the descriptor stays in the table *)
ReqCloseNoDelete(t, h) ==
  /\ Idle(t)
  /\ app' = app \ {h}
  /\ IF Routed("close", h.fd)
     THEN snic' = snic \ {h.fd} /\ UNCHANGED host
     ELSE host' = host \ {h.fd} /\ UNCHANGED snic
  /\ UNCHANGED <<locals, table, up, history>>

(* close: the SmartNIC closes the descriptor unless the request fails, and  *)
(* the table forgets it in either case.  A descriptor that is not found is  *)
(* closed at the host.                                                      *)
ReqClose(t, h) ==
  /\ Idle(t)
  /\ app' = app \ {h}
  /\ IF Routed("close", h.fd)
     THEN /\ snic' \in {snic, snic \ {h.fd}}
          /\ misclosed' = IF h.at = "host" THEN misclosed \cup {h.fd} ELSE misclosed
          /\ Goto(t, "delete", h.fd, NULL, NULL)
          /\ UNCHANGED host
     ELSE /\ host' = host \ {h.fd}
          /\ UNCHANGED <<snic, misclosed, locals>>
  /\ UNCHANGED <<table, up, connected, raced>>

(* The application gets a local descriptor from a call that is not hooked. *)
OpenLocal(t) ==
  /\ Idle(t)
  /\ \E d \in LocalFd \ host :
       /\ host' = host \cup {d}
       /\ app' = app \cup {[fd |-> d, at |-> "host"]}
  /\ UNCHANGED <<table, locals, snic, up, history>>

Next ==
  \E t \in Thread :
    \/ FdInsertWalk(t) \/ FdInsertLink(t) \/ FdDeleteWalk(t) \/ FdDeleteUnlink(t)
    \/ ReqSock(t) \/ ReqEpollCreate1(t) \/ ReqAccept(t) \/ OpenLocal(t)
    \/ \E h \in app : ReqConnect(t, h) \/ ReqClose(t, h)

Spec == Init /\ [][Next]_vars

---------------------------------------------------------------------------
(* Properties *)

Busy(d) == \E t \in Thread : fd[t] = d
Held(d) == [fd |-> d, at |-> "snic"] \in app

(* As long as no two updates of a chain overlap, every chain of the table     *)
(* ends and holds allocated nodes of its own bucket only, whatever was        *)
(* inserted before and deleted since (hash_delee.c:419-528).  One overlap     *)
(* ends that for all chains: a node that was freed twice may by then be in    *)
(* the chain of another bucket.                                               *)
ChainsAreSound ==
  ~raced =>
    \A b \in Bucket :
      /\ Ends(b)
      /\ \A n \in Chain(b) : n \in alloc /\ node[n].key \in Fd /\ Hash[node[n].key] = b

(* A descriptor of the SmartNIC that the application holds is found by every  *)
(* hooked call, unless another descriptor hashes to the same chain, its own   *)
(* hash is 0, updates of a chain overlapped, or the close of a local          *)
(* descriptor of the same number removed it: nothing else makes the hooks     *)
(* send the calls elsewhere.                                                  *)
HeldFdIsRouted ==
  \A d \in Fd :
    Held(d) /\ ~Busy(d) /\ d \notin misclosed /\ Hash[d] # 0 /\ ~raced =>
      \/ \E n \in Chain(Hash[d]) : node[n].key # d
      \/ \A op \in HookedOps : Routed(op, d)

(* A descriptor the hooks send to the SmartNIC is open there, unless connect  *)
(* put it into the table twice, updates of a chain overlapped, or the close   *)
(* of a local descriptor of its number closed it at the SmartNIC while        *)
(* another thread was about to enter it.                                      *)
RoutedFdIsOpen ==
  \A d \in Fd :
    (\E op \in HookedOps : Routed(op, d)) =>
      d \in snic \/ Busy(d) \/ d \in connected \cup misclosed \/ raced

---------------------------------------------------------------------------
(* The inductive invariant of the table *)

Walked == {"link", "link_again", "unlink"}
Used == {n \in Node : node[n].next # Garbage}

(* What links and threads refer to has been a node once, also after a race. *)
UsedInv ==
  /\ alloc \subseteq Used
  /\ \A b \in Bucket : head[b] \in Used \cup {NULL}
  /\ \A n \in Used : node[n].next \in Used \cup {NULL}
  /\ \A t \in Thread :
       /\ pc[t] # "idle" => fd[t] \in Fd
       /\ pc[t] \in Walked => new[t] \in Used /\ prev[t] \in Used \cup {NULL}

(* The members are linked in a row that begins at first and ends with NULL. *)
Listed(first, nodes, members) ==
  \E m \in 0 .. Cardinality(Node) : \E s \in [1 .. m -> Node] :
    /\ IsInjective(s) /\ members = Range(s)
    /\ first = IF m = 0 THEN NULL ELSE s[1]
    /\ \A i \in 1 .. m : nodes[s[i]].next = IF i = m THEN NULL ELSE s[i + 1]

NodeOf(b, n) ==
  /\ n \in alloc /\ node[n].key \in Fd /\ Hash[node[n].key] = b
  /\ node[n].value \in Thread \cup {b}

(* Every chain is such a row, of nodes of its bucket. *)
ChainInv ==
  \A b \in Bucket :
    Listed(head[b], node, Chain(b)) /\ \A n \in Chain(b) : NodeOf(b, n)

(* What the walk of an insert found is still so: a new node in no chain and   *)
(* the end of the chain.                                                      *)
LinkInv ==
  \A t \in Thread : pc[t] \in {"link", "link_again"} =>
    LET b == Hash[fd[t]]
    IN  /\ NodeOf(b, new[t]) /\ node[new[t]].key = fd[t] /\ node[new[t]].next = NULL
        /\ \A c \in Bucket : new[t] \notin Chain(c)
        /\ \A u \in Thread \ {t} : pc[u] \in {"link", "link_again"} => new[u] # new[t]
        /\ IF prev[t] = NULL THEN head[b] = NULL
           ELSE prev[t] \in Chain(b) /\ node[prev[t]].next = NULL

(* What the walk of a delete found is still so. *)
UnlinkInv ==
  \A t \in Thread : pc[t] = "unlink" =>
    LET b == Hash[fd[t]]
    IN  /\ new[t] \in Chain(b) /\ node[new[t]].key = fd[t]
        /\ IF prev[t] = NULL THEN head[b] = new[t]
           ELSE prev[t] \in Chain(b) /\ node[prev[t]].next = new[t]

NodesFor(d) == {n \in Chain(Hash[d]) : node[n].key = d}
Inserting(d) == {t \in Thread : pc[t] \in {"insert", "link"} /\ fd[t] = d}
Deleting(d) == {t \in Thread : pc[t] \in {"delete", "unlink"} /\ fd[t] = d}

(* A descriptor has a node for each thread that is about to delete one and   *)
(* for the application that holds it.                                        *)
EnoughNodes ==
  \A d \in Fd \ misclosed :
    Cardinality(NodesFor(d)) >= Cardinality(Deleting(d)) + (IF Held(d) THEN 1 ELSE 0)

(* It has no others while it is closed and one other while it is open. *)
NoSpareNodes ==
  /\ \A d \in Fd \ (misclosed \cup connected) :
       Cardinality(NodesFor(d)) + Cardinality(Inserting(d)) <=
         Cardinality(Deleting(d)) + (IF d \in snic THEN 1 ELSE 0)
  /\ \A t \in Thread : pc[t] \in {"insert_again", "link_again"} => fd[t] \in connected

(* All that holds between the steps of the threads, as long as no two updates *)
(* of a chain have overlapped, and what is left after that.                   *)
TableInv ==
  /\ TypeOK /\ UsedInv
  /\ ~raced => ChainInv /\ LinkInv /\ UnlinkInv /\ EnoughNodes /\ NoSpareNodes

(* The entries of a chain in the order of its links *)
Entries(b) ==
  [i \in 1 .. Cardinality(Chain(b)) |->
     [key |-> node[PlacesOf(b)[i - 1]].key, value |-> node[PlacesOf(b)[i - 1]].value]]

---------------------------------------------------------------------------
(* The table as the calls are meant to see it *)

Update(l) ==
  CASE l \in {"insert", "link"} -> "open"
    [] l \in {"insert_again", "link_again"} -> "connect"
    [] l \in {"delete", "unlink"} -> "close"
    [] OTHER -> "none"

Rows == [b \in Bucket |-> Entries(b)]
Updates == [t \in Thread |-> Update(pc[t])]

Table == INSTANCE FdTable WITH
  ByIndex <- SearchOps, rows <- Rows, op <- Updates, key <- fd,
  overlapped <- raced

(* The unlocked walks and writes along the chains implement a table whose    *)
(* updates are single steps: each takes effect once, when its link is        *)
(* written, on the row as it then is, whatever other threads did to other    *)
(* chains between its walk and its write.  Only two updates of one chain     *)
(* that are under way at once can end that (hash_delee.c:419-528).           *)
ImplementsFdTable == Table!Spec

---------------------------------------------------------------------------
(* The promise of transparency (README.md:5): calls on a local descriptor,   *)
(* when the application holds no other of its number, reach the host.        *)
LocalFdStaysLocal ==
  \A d \in Fd :
    [fd |-> d, at |-> "host"] \in app /\ ~Held(d) /\ ~Busy(d) => ~Routed("write", d)

=============================================================================
