# Formal models of socket_to_rdma

`socket_to_rdma` runs the socket calls of an unmodified program on a SmartNIC.
A library loaded with `LD_PRELOAD` (`host/`) intercepts the calls, writes each
one into a registered buffer and carries it over RDMA; a server (`snic/`)
executes it there and writes the result back. This directory holds TLA+ models
of that machinery, TLC configurations that check them on small instances, and
TLAPS proofs.

## Inventory

| Part | State | Operations | What makes it hard |
|---|---|---|---|
| Socket call over one connection: `set_req_sock`, `post_write_req`, `process_poll_cq_imm` (`host/rdma_client.c`); `process_poll_cq_imm`, `rdma_req_event`, `write_msg_to_client` (`snic/rdma_server.c`); `snic/socket.c` | `req` and `rtn` on both ends, two queue pairs, completion queues and channels | post a receive, write the request, wait, poll, execute, write the reply | two threads and two adapters work on the same buffers; wake-ups; one receive per message; full send queue; failure of the queue pair |
| Connection set-up and tear-down: `get_r_info`, `my_main`, `pthread_exit` (`host/hook.c`); `connect_server`, `client_disconnect_and_clean`; `connect_client_r_info`, `rdma_req_event` NEW/DEL, `global_disconnect_and_cleanup` | thread-local `r_info`, the global connection and its lock, one connection-manager channel, workers | ask for a connection, connect, exchange buffer addresses, start a worker, give back | threads, the lock over a network handshake, events of all connections in one channel, half-finished set-ups |
| Descriptor table: `fd_ht` (`host/hook.c`, `host/hash_delee.c`) | chained hash table from descriptor to thread | lookup in every hook, insert in socket/accept/epoll_create1/connect, delete in close | no lock, two kernels that number descriptors independently, collisions, duplicates |
| Hooks and socket calls: `req_*` (`host/hook.c`), `sock_*` (`snic/socket.c`) | `req` and `rtn`, which are never cleared as a whole | choose the kernel, fill the request, make the call, decode the reply, update `fd_ht` | each call meets what the calls before it left in the buffers; calls on descriptors of both kernels |
| Codecs: `serialize_*`, `deserialize_*` (`rdma_common.c`) | none | pack and unpack the arguments of select, epoll, poll, fcntl, sockopt and addresses | both ends must agree on every offset; lengths that the reader trusts |
| Tables of the SmartNIC: `snic/hash_delee.c` | `rdma_ht`, `sock_ht` | insert by epoll_create1 | never read; `deleteByKey` returns from an empty bucket with the lock held, but nothing calls it |
| Not built or never called: `snic/rdma_sock_linker.c`, `snic/hash_delee.cpp`, `disconnect_and_cleanup`, `global_waiting_client_conn` and others in `snic/rdma_server.c` | | | |
| Example programs: `host/test_client`, `host/test_server` | | | |

The parts meet as follows. A hook looks its descriptor up in the table, takes
the thread's connection from set-up and makes a socket call over it. Set-up
itself makes one call (NEW) over the global connection. Threads share the
table, the global connection and the SmartNIC's main thread; a connection is
used by one thread and one worker only.

Correctness, per part: a call is executed at most once, while the caller waits,
and returns its own result; each message finds a receive and each completion a
woken thread (call). Every thread gets a connection that somebody serves, and
set-ups do not disturb each other (set-up). A call reaches the kernel its
descriptor belongs to (table, hooks), with the application's arguments, and its
results reach the application (hooks, codecs).

## Modules

| Module | Role |
|---|---|
| `Verbs` | external: queue pairs, completion queues and channels as the code uses them |
| `RdmaConn` | one connection, extends `Verbs`; properties and the inductive invariant |
| `SocketCall` | abstract specification of a call, instantiated by `RdmaConn` |
| `RdmaConnProofs`, `RdmaConnInvProofs` | theorems about `RdmaConn` |
| `ConnSetup` | threads, the global lock, the SmartNIC's main thread, workers, one event channel |
| `ConnService` | abstract specification of what threads get from set-up and calls, instantiated by `ConnSetup` |
| `ConnSetupProofs` | theorems about `ConnSetup`, and that it implements `ConnService` |
| `HostHook` | the descriptor table and the routing of the hooks |
| `FdTable` | abstract specification of the table, instantiated by `HostHook` |
| `HostHookProofs`, `FdTableProofs` | theorems about `HostHook`: its invariants; that it implements `FdTable` |
| `Codecs` | the codecs of `rdma_common.c` as operators on bytes |
| `CallArgs` | the hooked calls of one thread from hook to kernel and back, extends `Codecs` |
| `CodecsProofs`, `CallArgsProofs`, `CallDataProofs` | theorems about them: the round trips; routing, values and lengths; arguments and results |
| `MCRdmaConn`, `MCConnSetup`, `MCHostHook`, `MCCallArgs` | constants of the instances |

Definitions that start with "mutant:" in their comment are altered forms of the
definition that follows. Nothing uses them; they are there to show that each
property notices a plausible mistake in the code.

### Verbs and RdmaConn

`req` and `rtn` are records of an operation, a payload, a value and an errno;
payloads are model values, with `Zeroed` for a buffer whose first bytes were
cleared. `hpc` and `wpc` say where the host thread and the worker are. One
action stands for the code between two calls of libibverbs, so every place
where the adapter or the other thread may come in between is an interleaving of
the model. The host: `SetReqSock`, `PostRecvRtn`, `PostWriteReq` and the ENOMEM
loop (`PostWriteReqFull`, `DrainOne`, `Drained`, `RetryPostSend`,
`GiveUpPostSend`), `HostGetCqEvent`, `HostReqNotifyCq`, `HostPoll...`,
`ReturnReply` or `ReturnError`. The worker: `WorkerGetCqEvent`,
`WorkerReqNotifyCq`, `WorkerPoll...`, `PostRecvReq`, `RdmaReqEvent` (the switch
with the socket call, whose outcome is any value and errno its handler can
store), `PostWriteRtn`, and the stores and memsets after the reply.

An RDMA write with immediate is delivered in two steps, first bytes
and the rest with the immediate, because the adapter reads the source and fills
the target over time. The acknowledgement, which completes the send, comes
later. `AckWindow` bounds the messages of one end that are delivered and not
acknowledged. A message without a receive fails the queue pair
(`rnr_retry_count` is 0), which flushes both work queues with errors.

Not modelled: the immediate value and the worker's `sockfd` it sets.

### ConnSetup

`pc` follows a thread through `get_r_info`, `connect_server`, a call and
`pthread_exit`; `spc` follows the SmartNIC's main thread through
`connect_client_r_info`. `chan` is the one `cm_event_channel`. A connection, the
global one included, has a message in flight and a completed receive in each
direction, a number of posted receives at each end and, but for the global one,
a worker. A call of a thread is abstracted to a request and a reply (its detail
is `RdmaConn`). The NEW call is one of these, on the global connection: it goes
out with `PostRequest` as the others do, needs the receive that `PostRecvReq`
posts after the metadata have left, and breaks the global connection when it
comes too early; from then on `get_r_info` returns NULL to every thread
(`NewConnFailed`), with the SmartNIC up and nobody gone.

What fails. A call that allocates, registers, resolves, posts or connects ends a
set-up on either side (`SetUpFails`, `ServerSetUpFails`), and the other side is
not told. A receive that could not be posted (`RepostRecv`) and a worker that
could not be started (`PthreadCreate`, worker `"refused"`) are only logged, after
the host has been told that the connection is ready. A message whose
acknowledgements are lost until `retry_count` is used up (`RetriesExhausted`)
breaks its connection whether it arrived or not: the caller comes back with an
error while the worker may hold the request. A worker or the main thread whose
own send fails returns (`WorkerEnds`, `MainEnds`). The library calls that fail
and the lost acknowledgements are counted in `faults`, bounded by `MaxFaults`;
what follows from the order of steps alone (a message without a receive, a
rejected or timed-out request) is not bounded.

Two facts of the code shape the model. An event of another type than
awaited is acknowledged in `process_rdma_cm_event` and again by the caller,
which frees it twice; the process then aborts or goes on, a nondeterministic
choice. After `pthread_exit` has given its connection back it calls
`original_pthread_exit`, which nothing has looked up, so the process ends; the
end of `my_main` ends it as well. Between DEL and that end other threads still
run, which is where stale events matter.

`CmTimeout` is assumed to be longer than the steps of a server that is about to
accept. `malloc` is taken to succeed, and so is a receive that the host posts on
a connection that works.

What the properties except:

- `KeptConnectionIsServed`: a connection whose worker was refused. The host keeps
  it and a call on it waits for ever; no property can hold of that call.
- `OrderlyUntilFirstLeaves` and `EveryThreadConnects` speak of `Calm`: no thread
  has disconnected and nothing of what `faults` counts has happened. A set-up
  that fails half way leaves the main thread of the SmartNIC waiting for a
  connection that does not come, or an event in the channel for the next one. In
  the calm a thread may still be refused, for one reason: the global connection
  broke on a NEW that met no receive.

`ConnService` says what the threads rely on: one of them at a time is on its way
to a connection, it gets one that nobody else has and that carries nothing, a
request is executed at most once while its caller waits, and a call that came
back without its reply leaves a connection that carries nothing any more. The
exception is a connection whose acknowledgements were lost: the request it
carried is in doubt, may be executed once after its caller came back
(`ExecuteLate`), and is the last one. `Service` in `ConnSetup`
maps to it: `Stages` forgets the steps of the handshake, `Mine` shows a
connection only once `get_r_info` has returned it, and `Works` reads what a
connection carries off the messages in flight and the completed receives, the
messages of the handshake left out; a connection that failed is `"doubt"` while the
worker has its request, `"dead"` otherwise.

### HostHook

The table is modelled with its nodes and links, since the threads update it
without a lock: an insert or a delete is a walk, which ends with a node to link
to or to unlink from, and a write. Each walk is one step; what can go wrong is
that the chain changes between the walk and the write. A freed node keeps its
link and loses its other fields; freeing twice aborts or goes unnoticed.
`hashFunction` is a constant; `MCHostHook` gives the values the code computes.
Of the descriptors from 3 to 63 only 19 and 45 share a bucket, and none below
1024 hashes to 0. That matters because connect, send, read, recv and close use
`searchByKey`, which takes an `FDNode` for a `HashNode` and returns the bucket's
index: bucket 0 would be "not found".

`app` is what the application has opened and not closed, with the kernel the
descriptor belongs to. `raced` says that two updates of one chain have
overlapped. The properties of the chains end there, for all buckets: a node that
was freed twice can be handed out twice and then be in two chains at once. What
they except besides is what the code gets wrong:

- `HeldFdIsRouted`: a search looks at the first node of a bucket only; bucket 0
  means "not found"; close of a local descriptor removes the node of the
  SmartNIC's descriptor with the same number (`misclosed`).
- `RoutedFdIsOpen`: connect inserts the descriptor a second time (`connected`),
  and the close of a local descriptor may close the SmartNIC's one of that number
  while another thread is about to enter it. The latter takes three threads.

`pthread_exit`'s `fd_deleteByValue` is left out: the process ends right after
it. Calls on several descriptors (select, poll, epoll_ctl) are represented by
the one they look up; `CallArgs` has them whole.

What an overlap of two updates does is in the model and in no property: two
inserts walk to the same last node, the second write replaces the first, and a
descriptor that was entered is no longer in its chain. The code has nothing that
would limit this; its locks are comments.

`FdTable` is the table without nodes: each bucket is a row of entries, the
oldest first, and an open, connect or close is one update of one row, made at
some moment while the call is under way. `Table` in `HostHook` maps to it: a row
is the keys and values along a chain (`Entries`), the update under way is read
off `pc`, and `overlapped` is `raced`. `FdTable` keeps the oddities that callers
can see (a search looks at the oldest entry, bucket 0 is "not found" for some
calls, connect enters the descriptor again with another value), so the mapping
is about concurrency and pointers alone. Once two updates of one bucket are
under way, `Overlap` allows anything.

### Codecs and CallArgs

A data array maps offsets to bytes and a field is a sequence of bytes, so that
an overlap of two fields or a wrong offset in the code is one in the model.
`Word` and `AsInt` are an `int` in memory, `FdSet` and `AsFds` an `fd_set`. Each
serializer returns the array after the call, with the bytes it does not write
as they were; each deserializer returns what the code stores through its
pointers. The copies of `rdma_common.c` on host and SmartNIC differ in the
deserializers of epoll_ctl and fcntl only, which the host does not call.

In `CallArgs` a call is three steps. `Req...` is the hook up to the request
(which descriptor it looks up, what it serializes, the header that
`set_req_sock` fills in) or `Original` for a descriptor that is not in `fd_ht`;
`Sock...` is the worker's case with its `sock_` function and any outcome of the
kernel; `...Return` is the hook from the reply on. `req`, `rtn` and the host's
copy `reply` persist from call to call, with the memsets the code has
(`AfterReply`, `ReqWriteReturn`). `ran` and `out` are the kernel call that was
made and its outcome, `got` is what the application sees. `Overrun` is a copy of
a socket option whose length is not one: the process may crash or go on with
what it read.

The two kernels number their descriptors independently, so a number may be open
at both. `open` says what the application has open at each, `meant` which kernel's
descriptors a call is about (`Owners`: either, when both have the number). The
hooks see the number only. `misclosed` are the numbers that a close of a host's
descriptor has taken out of `fd_ht`, `connected` those a connect has entered a
second time.

Abstractions: a reply arrives whole and unchanged (the races of its delivery are
`RdmaConn`'s); an errno is 0 or 1; `fd_ht` is a number of nodes per descriptor
(its chains are `HostHook`'s); a read asks for no more than one reply holds
(`two_chunks` has the other case); a poll has at least one entry; `send` is
`write` and `recv` is `read`, which differ in nothing the model has; the
epoll_wait array of 100 on the SmartNIC has room for the events that are ready.

What the properties except is what the code gets wrong, and each exception
happens in the run:

- `ArgumentsArrive`: the type of a socket, the port of a bind and the backlog are
  constants of the code; an epoll_ctl without an event takes one from leftovers;
  the end of a message that leaves no room for the header is lost although its
  whole length is sent; of fcntl only the command survives (its descriptor
  becomes the flag 0, 1 or 2, an int argument becomes a pointer).
- `SelectArrives`, `SetsReturn`: the flag of select is stored as four bytes where
  the layout has one, over descriptors 0 to 23 of `readfds`; of the sets only
  those before the first NULL arrive, the others are uninitialised.
- `EventsReturn`: the events past the codec's limit are lost while the count is
  not; an epoll_wait that fails decodes an older reply.
- `PollReturns`: when nothing is ready revents keep the application's values.
- `ValueReturns`: connect returns 1; setsockopt and getsockopt (and getpeername,
  which sends the request of getsockopt) return the value of an earlier call.
- `RightKernel`: a call meant for the host goes to the SmartNIC when that has the
  number open too, or when a connect entered it twice; one meant for the SmartNIC
  goes to the host after a close of the host's descriptor of that number. A select
  whose nfds - 1 is in no set goes to the host; a call on descriptors of both
  kernels goes whole to one of them.
- `OverrunNeedsQuery`: getsockopt and getpeername take a length from leftovers
  or from an address.
- No property: which option getsockopt asks for and what getpeername returns, for
  the request carries neither; what an epoll_wait that fails stores, which may be
  more events than the array has room for; getsockname copies the address from the wrong offset, so family
  and port are never right.

## Runs

| Run | Configuration | Checks | Result |
|---|---|---|---|
| `conn` | socket, READ and WRITE, replies of one write, queues of 2, with fairness | `TypeOK`, `NoLostWakeup`, `ReceiveAlwaysPosted`, `ReplyBelongsToCall`, `SendQueueNeverFull`, `SettledInv`, `ExecutedAtMostOnce`, `ImplementsSocketCall`, `CallReturns` | hold |
| `conn_full` | WRITE, select and setsockopt; acknowledgements late, so that send queues fill up | `DrainDropsNoReply`, `IInv`, `ImplementsSafely` | hold |
| `conn_fail` | replies of two writes, so that receives are missing and the queue pairs fail | `CompletionQueueBounded` | holds |
| `setup` | two threads, at most 4 connections and one fault, with fairness | `TypeOK`, `MetadataFindsReceive`, `KeptConnectionIsServed`, `OrderlyUntilFirstLeaves`, `OneSetUpAtATime`, `SetupInv`, `RequestHasCaller`, `EveryThreadConnects`, `ImplementsConnService` | hold |
| `fd_table` | two threads, descriptors 19 and 45, three nodes | `TypeOK`, `ChainsAreSound`, `HeldFdIsRouted`, `RoutedFdIsOpen`, `TableInv`, `ImplementsFdTable` | hold |
| `call_args` | forty calls of 18 kinds in every sequence of three, every outcome of the kernel; 4, 7 and 11 are open at the host, 7, 9 and 25 at the SmartNIC, which may hand out 11 | `TypeOK`, `ArgumentsArrive`, `SelectArrives`, `SetsReturn`, `EventsReturn`, `PollReturns`, `ValueReturns`, `RightKernel`, `OverrunNeedsQuery` | hold |
| `reply_race` | READ and WRITE | `ReplyIntact` | violated: errno and data are changed after the reply was posted |
| `payload_race` | WRITE | `PayloadIntact` | violated: the memset after a WRITE hits the next payload |
| `two_chunks` | READ in two writes | `ReplyBelongsToCall` | violated: the second write answers the next call |
| `ack_twice` | as `setup`, 3 connections, no fault | `AckedOnce` | violated: the DISCONNECTED event of a thread that left is acknowledged twice |
| `first_request` | as `setup`, no fault | `FirstRequestFindsReceive` | violated: the receive is posted after the host was told to go on |
| `stale_route` | one thread, one descriptor | `LocalFdStaysLocal` | violated: connect inserts twice, close deletes once |

Why the bounds are enough. In `RdmaConn` a connection carries one call at a
time, so the state depends on what earlier calls left in the queues; `MaxWR` = 2
lets a queue be empty, partly used and full, and the proofs remove the bound for
all but liveness and replies of several writes. Between them the runs `conn` and
`conn_full` have one call of each kind the handlers tell apart, results are a
failure, 0 and a positive number. In `ConnSetup` two threads are the least that
compete for the lock and leave stale events for one another; 4 connections, one
of them the global one, let both connect and one of them fail and try again. One
fault puts a failure at every place of a set-up or a call; what it leaves behind
meets the other thread. The proofs remove the three bounds for the invariants.
In `HostHook` two descriptors in one bucket and three nodes give a collision
with a duplicate; a behaviour is followed until an overlap of two updates has
been written, for no property says anything of a chain after that. Three threads
(898,314 states) add the closing of a descriptor that a third thread is about to
enter; the invariants hold for them too, and the proofs remove all these bounds.
The branch for a descriptor up to 2 is not reached with these numbers. In
`CallArgs` a call sees of the past only the two buffers and the table, and most
calls overwrite what they read, so sequences of three show how each kind of call
fares with the leftovers of each other kind; the proofs remove that bound for
the properties they cover. Three calls also reach each exception of
`RightKernel`: connect or close a number at one kernel, then use it at the
other. The array has 40 bytes and room for two events, so that the third of
`KernelEvents` is past the codec's limit; an `fd_set` has 4 bytes, of which the
flag spoils three as in the code, with descriptors 7 and 25 on both sides.
`SendQueueNeverFull` is run with `AckWindow` = 1: acknowledgements that arrive
before the next message of the same end does, which a reliable connection with
one call at a time gives in practice and does not guarantee; `conn_full` is the
case without it. The theorem `SendQueuesSuffice` needs only that the window is
smaller than `MaxWR`.

`CHECK_DEADLOCK` is off where the system may really stop: after the host has
ended (`setup`), when a reply was dropped or the queue pair failed
(`conn_full`, `conn_fail`), when all nodes are in use or the process aborted
(`fd_table`), and after the last call or a crash (`call_args`).

Fairness. A thread that can run runs (`HostWait`, `Worker`, `ThreadStep`,
`ServerMain`, `WorkerServes`), messages and acknowledgements of a reliable
connection arrive or fail, the connection manager answers. The application's
own choices (to make a call, to leave) are never assumed. A socket call on the
SmartNIC is assumed to return; a blocking `read` or `accept` that never does is
the application's affair.

## Proofs

`RdmaConnProofs` proves, for every value of the constants allowed by the named
assumptions, `TypeCorrect` and `NoCqOverflow`: the completions in a queue plus
the work requests not yet completed are exactly the slots in use, and those stay
within `MAX_WR` per work queue, so `CQ_CAPACITY` is enough even when everything
is flushed.

`RdmaConnInvProofs` assumes `MaxChunks = 1`, that is, READs that fit one buffer;
`two_chunks` shows that the results fail otherwise. The safety properties are
not inductive: that a completion finds an armed queue depends on who has posted
which receive, which depends on where both threads are. `IInv` has five parts:

- `Healthy`: no queue pair has failed and no error completion exists;
- `OneCallUnderWay`: at most one request or reply is anywhere between the two
  threads, and where the threads are says where it is;
- `ReceivesPosted`: the receives of both ends, for each place of the threads;
- `WakeupToken`: a thread that waits with nothing queued is armed, and an
  event, an armed queue or a thread about to poll stands for each completion;
- `CallCarried`: request and reply buffers agree with the call while it is
  carried.

Each action preserves each part (one lemma per action group), which gives
`InvariantHolds` and from it `WakeupNotLost`, `ReceivesNeverMissed`,
`RepliesBelong`, `DrainIsSafe`, `OnceOnly` (an action property) and
`Refinement`: each step of `RdmaConn` is a step of `SocketCall` or a stutter.

`SendQueuesSuffice` adds `SettledInv`. Both ends leave the completions of their
sends in the queue, and a slot of the send queue is free only when its completion
has been polled, so the slots in use depend on the order in the completion queue:
completions that were there before the other end's message are polled before it,
and behind it come at most the messages that were unacknowledged when it arrived.
Hence an end whose turn it is has at most `AckWindow` slots in use, and the send
queues never fill up if `AckWindow < MaxWR`. That assumption is on the theorem:
`conn_full` is a run in which it fails and the ENOMEM loop is entered.

`ConnSetupProofs` holds for every finite set of threads and every number of
connections. `SetupInv` relates three sequential programs that share no memory
but the lock, the channel and the messages, so each part says what one of them
knows about another:

- `LockInv`: whoever is in set-up has the write lock, but for `my_main`, before
  which there is no other thread (`Starting`);
- `GlobalInv`: the global connection carries NEW and its answer only, and for the
  thread that has the lock;
- `RoomInv`: the bound on connections leaves one for each thread in set-up;
- `OwnerInv`: a connection has one owner, whose place matches the state of the
  connection manager;
- `MessageInv`: one message at a time on a connection (`Quiet` when none);
- `ReceiveInv`: which receives are posted, by messages and places of the threads;
- `ServerInv`: what the main thread of the SmartNIC has done for the connection
  it sets up, and that a thread with a connection has a worker, one that was
  refused, or is about to have one (`Served`);
- `ChannelInv`: a request to connect is in the channel once at most;
- `StepInv`, `OrderInv`: in the `Calm`, the thread in set-up, the SmartNIC and the
  channel are at matching places (`InStep`), so no event of another type than
  awaited is read, and what fails is at most a connection whose message met no
  receive, which leaves nothing behind.

It gives `SetUpIsExclusive`, `MetadataNeverLost`, `KeptIsServed`,
`OrderlyBeforeFirstLeaves` and `SetupTypeCorrect`, which includes that neither
end posts a second receive for its one buffer. That the fourth speaks of the time
before the first disconnect is what `ack_twice` shows to be necessary, and that
it allows a broken global connection, `first_request`.

`SetupRefinement` shows that `ConnSetup` implements `ConnService`, with a lemma
for each kind of step (`...Implements`). Most steps of the handshake are
stutters: their messages are metadata, and the connection is nobody's yet. What
is not one needs `SetupInv`: that the connection obtained carries nothing and
has no other owner is `OwnerInv` and `MessageInv`, that one thread at a time is
entering is `LockInv`. `Execute` needs in addition that a request in the hands
of the worker of a connection that works still has its caller. That is
`RequestHasCaller`, which holds because a call returns on a reply or because its
connection broke, and which is proved relative to `SetupInv`
(`RequestsHaveCallers`). The refinement covers the time after the first
disconnect as well.

`HostHookProofs` holds for finite sets of threads and nodes, any set of
descriptors and any hash function into the naturals (threads and table indexes
are told apart, since both occur as values of a node). `TableInv` has two layers:

- `TypeOK` and `UsedInv` in every state: heads, links and the pointers of threads
  lead to nodes that were filled in once. This survives overlapping updates,
  because free leaves the link in place and an insert sets the link of the node
  that malloc returned.
- Until `raced`: `ChainInv` (a chain is a row of distinct allocated nodes of its
  bucket, and no node is in two), `LinkInv` and `UnlinkInv` (what a walk found is
  still true at the write), `EnoughNodes` and `NoSpareNodes` (a descriptor has a
  node for each delete that is pending and for the application that holds it, and
  no more than that unless connect added one).

The walk is a recursive function; that it passes a row member by member is
proved without an induction rule with an operator parameter, from the least
number at which it would fail (`LeastNumber`, from the well-foundedness of `<`).
The soundness of a write rests on `Alone`: if no overlap is noted, no other
thread is between walk and write in this bucket. The routing is a matter of
counting: a held descriptor that no thread is busy with has at least one node; a
descriptor that is closed, never connected and not misclosed has none. The proof
corrected the properties in two places: soundness was claimed bucket by bucket
after an overlap in another bucket, and `RoutedFdIsOpen` without `misclosed`.
Both had passed the run with two threads.

`FdTableProofs` proves, under the same assumptions, that `HostHook` implements
`FdTable` (`TableRefinement`). An update takes effect when its link is written,
and that write uses what a walk found some steps before. So two things are
needed of the time between:

- `FoundInv`, defined there: the node about to be linked has the value
  of its call, and the node about to be unlinked is still the first of its
  descriptor, at a known place of the row;
- the writes of other threads leave the chain as it is: `EntriesStay` says that
  `Entries` depends on the nodes of the chain only, and `ChainInv` that no node
  is in two chains.

`EntriesInsert` and `EntriesDelete` then turn the two pointer writes into
`Append` and `Without`; a delete that finds nothing, and an unlink, are the two
disjuncts of `Delete`. A step that notes an overlap is a step `Overlap`, for two
threads are then between walk and write in one bucket. `SearchesSeeRows` adds
what callers rely on: a hook finds its descriptor exactly when `FdTable` says
so, in the middle of other updates too.

`CodecsProofs` proves, for every content the array had before, that an int
stored by one end is the int read by the other (`WordRoundTrip`) and that the
codecs of socket options, epoll_ctl, epoll_wait, poll and select return what was
stored, within the limits that the code has: events up to the codec's limit,
poll arrays that fit, sets before the first NULL pointer and without the
descriptors whose bits the flag of select overwrites. A second group of lemmas
says that bytes stay bytes: an int read from any bytes is a 32-bit int, and what
each serializer writes is bytes over bytes.

`CallArgsProofs` and `CallDataProofs` hold for every set of calls, descriptors
and outcomes, and for any number of calls. `CallAssumption` says nothing of which
numbers the two kernels use; `WellTyped` asks that arguments have their C types,
that a read fits one reply, an option the array, and that a poll has an entry and
fits; an `fd_set` nobody initialised is some set. `ByteAssumption` adds that
what the kernel and `va_arg` hand over are bytes, at least as many as the code
copies. The inductive invariants are:

- `TypeInv`: `TypeOK`, and why it lasts: the call under way has yet to add its
  node to `fd_ht`, so the nodes of a descriptor never outnumber the calls by more
  than one; the length in a request is an int; and the worker decodes the entries
  of a poll only for a call of poll, whose number of entries `ArgsInv` knows. It
  needs `ArgsInv` before and `RouteInv` after a step, and gives `CallTypeCorrect`.
- `RouteInv`: `fd_ht` has one node of a number that the SmartNIC has open and none
  of another, but for those that were misclosed or connected; a request under way
  is for a number with a node, and the reply to socket, accept or epoll_create1 is
  a failure or a number that was free. It gives `CallsReachTheirKernel`, also when
  the two kernels use the same numbers.
- `ValueInv`: while a reply is under way its value, errno and bytes are those of
  the kernel call, unless its handler stores none. It gives `OwnOutcomeReturns`.
- `LengthInv`: a request of setsockopt has the length that its own call stored,
  by `SockoptRoundTrip`. It gives `OverrunOnlyInQuery`.
- `ArgsInv`: while a request is under way, decoding it gives the arguments of the
  call, over whatever earlier calls left in the array; once the kernel call was
  made it had them. It gives `ArgumentsAlwaysArrive` and `SelectAlwaysArrives`.
- `OutputInv`: a reply under way decodes to the output of the kernel call. It
  needs `ValueInv`, since the hooks decode depending on the value, and gives
  `EventsAlwaysReturn`, `PollAlwaysReturns` and `SetsAlwaysReturn`.

Only model-checked: liveness (`CallReturns`, `ImplementsSocketCall`,
`EveryThreadConnects`), which needs fairness and ENABLED. Every invariant and
every action property that a passing run checks is stated by a theorem, and so
are the three refinements without fairness (`ImplementsSafely`,
`ImplementsFdTable`, `ImplementsConnService`).
Of replies of several writes only the bound of the completion queues and the
types are proved: the rest is false for them, as `two_chunks` shows.

## Not modelled

- `snic/rdma_sock_linker.c`, `snic/hash_delee.cpp` and the server of an earlier
  design in `snic/rdma_server.c`: not built or never called.
- The tables of the SmartNIC: epoll_create1 writes one, nothing reads them.
- `serialize_select_dt`, `serialize_pollfd`, `serialize_epoll_event_struct` and
  their counterparts: never called. `sock_getpeername`: never requested.
- A `malloc` that fails, a receive that the host cannot post on a connection that
  works, an `ibv_post_send` that fails with another error than ENOMEM (the host
  then exits), `fd_deleteByValue` right before the process ends, the immediate
  value of a request.
- Memory outside the program's objects: the write of a kernel past the 100
  events of `sock_epoll_wait`, the descriptor of a poll without entries, the
  length that accept takes for a pointer, a read longer than a buffer.
- Printing, tracing and the example programs; the latter chose the inputs.

## Plan

1. Done: `RdmaConn`, `ConnSetup`, `HostHook`, `Codecs` and `CallArgs`, the
   abstract specifications `SocketCall`, `ConnService` and `FdTable`, and proofs
   of every invariant and action property that the passing runs check and of the
   refinements without fairness.
2. Left: nothing of the first plan. Several faults in one set-up and three threads
   are covered by the proofs, and for liveness by no run.
