# A verification project for ExerciseServerCode

The repository holds two versions of a small TCP message server for Windows
(`src/Version_1`, `src/Version_2`), each with a test client, and a design note
(`src/diff`) on why the second replaced the first. There are no tests. This
directory models the parts of it whose correctness depends on the order in
which threads, kernel calls and bytes meet: TLA+ modules, TLC configurations
that check them on small instances, and TLAPS proofs of the main results for
all values of the constants.

## 1. The system

### Parts, state, operations

| part | state | operations |
|---|---|---|
| **V2 main thread** (`CWgdServer::StartDispatch`, `CBaseSocket::_AcceptNewSocket`) | listening socket, `m_conn_map` (handle -> `CWGDConn*`, own lock) | `select` on the listening socket; for each accepted handle: create `CBaseSocket` and `CWGDConn`, `AddWgdConn`, `AddEvent` to a thread picked by `rand()` |
| **V2 workers** (`CWorkerThread`) | `m_read_set`, `m_excep_set` (own lock), private copies for `select` | copy, `select`, `FindWgdConn`, `OnRead`; on -1 `RemoveEvent` |
| **V2 connection** (`CWGDConn`, `CSimpleBuffer`) | `m_in_buf` (allocated size, write offset), `m_pBaseSocket` | `OnRead` (FIONREAD, `recv` loop, `ParseBuffer` loop), `DealBuffer` -> `OnReceivedNotify` -> `OnTest` -> `Send`; `OnClose` |
| **V2 client** (`CJSClient`) | `m_fd`, `m_buffer` | main thread: `Connect`, `Send`; detection thread: `select`, `OnRead`, `OnExcept`, `ReConnect` |
| **V1 server** (`CWgdServer`, `CBaseSocket`, `CDispatchTask`) | one set of handle sets, socket map, connection map | main thread selects, accepts and reads; exception (and, in theory, write) events become tasks that name a handle; a task runs `OnClose` in a worker |
| **V1 thread pool** (`CWorkerThread`, `CThreadNotify`) | per worker `m_task_list`, event `m_hEvent`, lock | `AddTask`/`PushTask`; `Execute`: `Wait`, `Reset`, take one task, run it |
| **V1 connection** (`CWGDConn`) | `m_in_buf`, `m_out_buf` | `OnRead` parses one message, `OnWrite` drains `m_out_buf` |
| **V1 client** (`CJSClient`) | `m_fd`, `m_bRunning`, `m_buffer` | main thread: `Connect`, `Send`; detection thread: `select`, `OnRead`, `OnExcept`; what one `OnRead` collects goes to the callback unframed |
| **helpers** | | `CRefObject`, `CStrExplode` (both unused by the servers), `CLock`, `CRWLock`, `CThread`, `OnStatisticEnd` (a counter of messages; Version 2's call is commented out) |

### Interaction

The main thread and the workers share `m_conn_map` and, through it, the
connection objects, with no reference count (`AddRef` is commented out); they
share each worker's handle sets; and they share the kernel's handle table, in
which the integer naming one connection may name another after a close. Client
and server share two byte streams. In Version 1 the main thread and the pool
share the socket map as well.

### What is hard, and what makes each part correct

* **Closing a connection** takes four steps in three places: the kernel handle
  (`BaseSocket.cpp:111`), the socket object (`:113`), the map entry and the
  connection object (`WgdConn.cpp:25`), the bit in the thread's set
  (`ThreadPool.cpp:135`). From the first step on the handle may be given to
  another connection. Correct: no thread follows a deleted object; a lookup by
  handle yields the connection meant; one thread per connection; no closed handle
  in `select`. The last always holds; the others only for connections that were
  not given such a handle, and that nobody else is harmed has to be shown.
* **Hand-over after accept**: registered, then polled by exactly one thread;
  nothing may fall between.
* **The read loop** must end, give a connection up only when its peer is gone,
  and leave nothing behind that only further bytes would bring out.
* **Framing**: whole messages, once each and in order, however the stream is
  cut; the buffer is never overrun.
* **The pool's event** is reset outside the lock: no task run twice or out of
  order, no wake-up for nothing, no task forgotten.
* **V1 closing**: the main thread and any number of workers may close the same
  handle, each looking the socket up in the map by number, and the handle may
  belong to somebody else by the time a task runs. Correct, as far as it can
  be: nobody but the connections a task named (or later owners of their
  handles) is harmed.
* **Client reconnection**: `m_fd` is replaced by one thread while the other is
  in the middle of `Send`.
* **Starvation**: an endless `recv` or `send` loop on one connection holds up
  all connections of its thread.

`PROJECT.json` lists each of these at its line, under `hazards`.

## 2. Modules

| module | models | extends / uses |
|---|---|---|
| `WgdServer` | the threads of the V2 server over the life of connections | |
| `EchoService` | what the V2 server promises its clients, without threads, objects, maps and handles | |
| `MCWgdServer` | symmetry set for TLC | `WgdServer` |
| `WgdServerProofs` | theorems about all handles, the refinement of `EchoService` among them | `WgdServer` |
| `WgdServerRegistryProofs` | theorems about map, objects, sets and requests on handles not given out while being closed | `WgdServerProofs` |
| `WgdConn` | one connection byte by byte: buffer, framing, read loop | `MsgChannel` as abstract specification |
| `MsgChannel` | what a connection promises: sent messages come out whole, once, in order | |
| `MCWgdConn` | TLC wrapper | `WgdConn` |
| `WgdConnProofs` | theorems about the buffer, the place in the stream, the refinement | `WgdConn` |
| `EchoLink` | a V2 client and its worker of the V2 server joined by small kernel buffers | `MsgChannel` as abstract specification |
| `MCEchoLink` | TLC wrapper | `EchoLink` |
| `EchoLinkProofs` | theorems about the link, the refinement of `MsgChannel` among them | `EchoLink` |
| `JSClient` | the V2 client's two threads over successive connections | |
| `MCJSClient` | TLC wrapper | `JSClient` |
| `JSClientProofs` | theorems about sockets, sent messages and replies | `JSClient` |
| `ThreadPool` | task lists, events and workers of the V1 pool | |
| `MCThreadPool` | TLC wrapper | `ThreadPool` |
| `ThreadPoolProofs` | theorems about the pool | `ThreadPool` |
| `WgdServerV1` | the V1 server: main thread, pool threads running exception tasks, both maps, all objects | instantiates `ThreadPool` for the pool |
| `MCWgdServerV1` | symmetry set for TLC | `WgdServerV1` |
| `WgdServerV1Proofs` | theorems about handles no task has named; the pool inside the server | `WgdServerV1`, instantiates `ThreadPoolProofs` |
| `JSClientV1` | the V1 client's two threads | |
| `MCJSClientV1` | TLC wrapper | `JSClientV1` |
| `JSClientV1Proofs` | theorems about what is sent and what is handed over | `JSClientV1` |

Definitions whose name has an underscore and a suffix (`EndOnRead_Early`) and
a comment starting with "Mutant:" are faulty variants of the definition they
are named after. No specification uses them; each shows that some property
notices the fault.

### WgdServer

A connection is named by its `CWGDConn`. One step is one critical section, one
kernel call, or one pass over state no other thread sees. `kernel` is the
kernel's handle table; `liveSockets` and `liveConns` are the allocated
objects, so deletion is explicit. Worker program counters:

`loop` -> (`Sleep` | `CopySets`) -> `select` -> (`Select`) -> `dispatch` ->
(`FindWgdConn`, once per ready handle) -> `onRead` -> `recv`* -> `deal`* ->
`dispatch`, or `onRead` -> `close` -> `delete` -> `remove` -> `removeEvent` ->
`dispatch`, where `close` is the place before `closesocket` and `delete` the one
before `delete this`.

The main thread goes `start` -> `accept` (or `exit`, if the server cannot
listen), and from `accept` through `addConn` and `addEvent` for each connection.

A request stands for one message; the reply OnTest sends goes to whatever
connection the map names *at that time*, over whatever the kernel's handle
then names, as in the code. The same holds for `recv` and FIONREAD: they act
on `kernel[m_socket[...]]`, not on the connection one would like them to.

Actions that dereference a `CWGDConn` or `CBaseSocket` require that it is still
allocated. A thread that holds a pointer to a deleted object has no step, since
the program's behaviour is undefined from there; what is checked and proved is
of the behaviours up to that point.

**Hurried handles.** The kernel may hand out a closed handle again at once, and
`closesocket` comes before the server's own bookkeeping. Nothing in the code
prevents the reuse; Windows documents nothing against it. So `server_safety` and
all proofs allow it. The history variable `hurried` collects the handles given
out while some worker was between its `closesocket` and its `RemoveEvent`. On
those the server loses much: `AddWgdConn` leaves the old map entry in place, so
the new owner's thread looks the handle up and gets the *old* connection, which
another thread is still closing (`server_eager` shows this); in the step before
`delete this` it even reads the new client's requests into the old connection's
buffer. What the properties say is that the harm stays there: on every other
handle pointers are valid and lookups right (`NoStalePointer`), a connection
keeps its thread (`OwnerUnlessHurried`), is found (`EveryConnReachable`), is
polled (`EveryConnPolled`) and has its requests accounted for
(`RequestsConserved`), although both kinds of handles pass through the same map
and the same sets. Three properties hold for all handles: no closed handle is in
a `select` (`PolledHandlesOpen`), no healthy connection is closed
(`HealthyNeverClosed`), and the refinement of `EchoService`.

The constant `EagerReuse = FALSE` leaves hurried handles out: a handle is not
given out while its close is under way, which is what usually happens and what
the code takes for granted. Only `server_liveness` and `server_graceful` use it,
since on a hurried handle a request may well stay unanswered.

**Full sets.** `FD_SET` drops a handle when the set has `FD_SETSIZE` members, and
`AddEvent` does not look: the connection is never polled. `turnedAway` collects
these connections; `EveryConnPolled` says that they are the only ones, that is,
that a set at its limit costs no connection that is already in it.

Left out: the exception set (it always
equals the read set, and exceptional handles trigger no code); the write loop
in `StartDispatch` (nothing puts a handle in a worker's write set) and with it
`CWGDConn::OnWrite`; WSAEINTR, which repeats the call; a `Send` that finds the
kernel's buffer full (see `EchoLink`); accept failing for a connection reset in
the backlog; the fields of the reply.

**EchoService** is the server as its clients see it: per connection a stage
(`new`, `held`, `released`) and three counts, and six actions, none of which
looks at another connection. `Stage` in `WgdServer` computes the stage from
`accepted` and the kernel's table (held: the handle it was accepted on names
it); `Accept` implements `TakeOn`, `DealBuffer` implements `Reply` (or stutters
if the client has gone), `CloseSocket` implements `Release`, and all the rest of
the threads' work stutters. That holds on hurried handles as well. It is a
safety specification: a request read into another connection's buffer may go
unanswered, but no client gets more replies than it sent requests, a reply goes
to a connection that is still held, and no connection is released before its
client hung up.

### WgdConn and MsgChannel

Bytes are positions in the client's stream. The buffer always holds a
contiguous piece of it, `front + 1 .. front + m_write_offset`, because `recv`
appends at `m_write_offset` and `Read` drops a prefix. `SendSome(n)` is one
`send()` call of the client's loop that took `n` bytes. `DataLenAt(p)` is what
a head read at position `p` says: the length the client wrote if a head starts
there, and *any* length otherwise, so an implementation that loses its place is
not rescued by the model. `CJSClient` has the same receiving code over the
same `CSimpleBuffer`.

The channel's `sent` is the sequence of messages whose last byte was sent
(`SentCompletely`); `DealBuffer` implements `Deliver`, the `SendSome` of a last
byte implements `Send`, all other steps stutter.

Left out: `realloc` failing; lengths for which the 32-bit `nTotalSize` wraps
(the repository's clients send at most 1 MiB); the contents of the data.

### JSClient

Sockets are numbered in the order `CreateSocket` makes them and `m_fd` is the
current number, so that a reused handle value still tells two connections
apart. `link` is the kernel's view of each socket. Detection thread:

`select` -> (`OnRead`) -> `recv`* -> `parse`* -> `select`, or `OnRead` ->
`close` -> `create` -> `connect` (`ConnectFails`*) -> `hello` -> `select`.

Both threads run the same `Send`: every round of its loop reads `m_fd` anew, so a
round may fall on the old socket, on a closed one, on one that is still
connecting or on the new one. Reading `m_fd` and the `send()` call that uses it
are one step. A round sends a part (`SendPart`), finds the kernel's buffer full
and repeats (`SendBlocked`, possible at any time on a connection), or ends the
loop: for want of a connection (`SendError`) or with an error that passes
(`SendFails`). `RecvError` ends the read loop on WSAEWOULDBLOCK only while the
socket is non-blocking; after `SetBlocking` the thread waits in `recv`. A buffer
whose front is not a head may be taken for a message of any size (`FrontSizes`).

`OnClose` does not clear `m_buffer`. `NothingReadIsLost` says that the callback
still gets every part that was read, once and in order, whatever connection it
came on, so an unfinished reply spoils what follows it but nothing is lost on
the way. `cut` is the first socket given up with an unfinished reply;
`RepliesWhole` says that up to it only whole replies are handed over, also the
last one of that very socket: the message made of two connections' bytes never
ends on the lost one. From then on the code does hand over such messages.

Left out: the failing first `Connect` (the program exits), `OnExcept` (the
server sends no out-of-band data, and a failed connect is seen by `ReConnect`),
the fixed local port and keep-alive options of `CreateSocket`, and the
destructor. The server's replies are not tied to the messages on `wire`. That
`connect()` on a socket whose new connection was lost at once reports
WSAEISCONN is assumed.

### ThreadPool

Tasks are numbered in the order `AddTask` receives them. `AddTask` is the
critical section of `PushTask`; `Wait` and `Reset` are steps of their own, as
they are made without the lock. The event is a manual-reset one
(`CreateEvent(NULL, TRUE, ...)`), so `Wait` leaves it signalled. What a task
does is not modelled here.

### WgdServerV1

A connection names its `CBaseSocket` and its `CWGDConn`; the listening socket is
an object like the others. `at[t]` says where thread `t` is: the main thread
goes `start` -> `loop` -> `select` -> `dispatch`, from there into `accept` ->
`addSocket` -> `addEvent` -> `onConnect` -> `addConn`, or `onRead` ->
`findConn` -> `recv`* -> `parse`, and either thread kind goes `find` ->
`removeEvent` -> `removeSocket` -> `closesocket` -> `delete` -> `removeConn`
through `OnClose`. The pool's variables and steps are those of `ThreadPool`,
taken by `INSTANCE`; `m_nFd` adds the handle each task names, and `RunTask`,
`OnClose` and the closing steps are what happens inside its `Run`.

Only out-of-band data makes a handle exceptional (nothing is ever put in the
write set, and the only non-blocking `connect` is in dead code). Nobody reads
that data, so every `select` before the handle is closed makes one more task,
for any worker. Handles are reused at once; the step of `closesocket` closes
*whatever the handle names by then*, and the maps erase whatever they hold
under it. A thread about to follow a deleted pointer has no further step, as in
`WgdServer`, and here this does happen.

So the properties say how far the damage goes. A handle is *tainted* once a
task has named it. On any other handle the main thread's unchecked pointers are
valid (`StaleOnlyIfTainted`), no connection is closed without a hang-up
(`HealthyNeverClosed`), no closed handle is left in the set
(`PolledHandlesOpen`), no message is lost or counted twice
(`MessagesConserved`), and a close frees both objects (`CloseFreesBoth`): all
this while workers close connections on the tainted ones, through the same maps
and the same set. `ReadsDealWithOne` is what one `ParseBuffer` per `OnRead`
amounts to: every `OnRead` that finds data deals with exactly one message, its
own or one left behind, unless a reset has discarded what FIONREAD announced.
So of messages that arrive together all but one wait until the client sends
again, which Version 2 mends (`WgdConn.cpp:60`).

`accept` ends when nobody waits or no handle is left (`EndAccept`).

Left out: the byte level (the buffer is the `CSimpleBuffer` of `WgdConn`);
tasks for write and read events and everything only they or dead code reach
(`OnWrite`, `Send`, `ReadFile`, `WriteFile`, `CBaseSocket::Connect`,
`INotify`); handle sets that are full; `accept` failing for a connection reset
in the backlog, and other errors of `accept`. No liveness is stated: a client that closes gracefully stops
the one reading thread for ever (`WgdConn.cpp:198`), the fault `server_graceful`
shows in the same lines of Version 2.

### JSClientV1

The detection thread goes `select` -> `events` -> (`recv`* ) -> `events` ->
`select` until `m_bRunning` is false. `events` holds what `select` reported and
is still to be handled: the read handler comes first, and `OnExcept` may find
the socket closed by it. `main()` does not look at what `Connect` returns, so
without a connection every `Send` fails and there is no detection thread. What
the server sends is numbered; `m_buffer` and `delivered` hold these numbers, so
that a repeated, lost or reordered part shows: `DeliveredOnceInOrder` says that
each call of the callback goes on where the one before it ended. Reading `m_fd`
and using it is one step; the client opens no second socket, so `m_fd` never
names another. Every error of `send()` but WSAEWOULDBLOCK ends the call: for good
when there is no connection (`SendError`), in passing when memory is short
(`SendFails`). `failed` collects the messages a passing error cut short, and
`NoHoleOnTheWire` says that only they leave a gap with something behind it.

### EchoLink

One connection, its client's two threads and its worker, with kernel buffers
smaller than a message in both directions. `SendPart` and `SendReply` are only
possible when there is room: the spinning on WSAEWOULDBLOCK changes nothing and
is left out. The request stays in `m_in_buf` while its reply is sent, as in
`DealBuffer`. The two programs together implement `MsgChannel` from the client
to itself.

The connection ends by a reset at any time, or gracefully when the client
program ends (`End`). Then the worker may meet the end of the stream: in `select`
with nothing to read it closes; at `recv`, inside the loop of
`WgdConn.cpp:48-58`, it never comes back (`Spinning`). `WorkerComesBack` has
exactly this exception, which `server_graceful` shows to be real. What the
worker sends to an ended client is answered by a reset (`Refused`).

Abstracted: every part carries the command it belongs to and its place in the
message, although only the head of a message does in the code, and messages have
fixed lengths, so a receiver that lost its place would not be noticed here; that
it does not lose it is `FrontIsHead` of `WgdConn`. On an open connection `send`
and `recv` meet no error but WSAEWOULDBLOCK. After a reset the client's side goes
on as in `JSClient`; here only the worker's way back to `select` is followed.

## 3. Runs

| run | configuration | result |
|---|---|---|
| `server_safety` | 3 connections, 3 handles, 2 workers, sets for 2 handles, handles reused at once, both kinds of hang-up | 1,353,874 states, passes, with the refinement of `EchoService` |
| `server_liveness` | 2 connections, 2 workers, 2 requests each, abortive hang-ups, fair threads | 119,871 states, passes |
| `server_graceful` | 2 connections, one worker, graceful hang-ups, fair threads | `RequestsAnswered` violated |
| `server_eager` | 2 connections over one handle, 2 workers, reused at once | `HandledByOwner` violated |
| `conn` | up to 3 messages of 2, 3 or 6 bytes, `recv` of 3 bytes, fair worker | 89,361 states, passes, with refinement and liveness |
| `client` | 3 sockets, 2 messages of 2 parts, a reply of 2 parts on each connection, fair detection thread | 1,966,348 states, passes |
| `client_replies` | 3 sockets, 2 replies of 2 parts on each connection, fair detection thread | 202,959 states, passes |
| `pool` | 2 workers, 5 tasks, fair workers | 8,085 states, passes |
| `pool_lost` | one worker, 2 tasks, fair worker | `EveryTaskRuns` violated |
| `v1_server` | 2 connections over 2 handles, one worker, 2 tasks, 2 messages together | 1,739,543 states, passes |
| `v1_client` | 3 messages of 2 parts, room for 2, 3 parts from the server, both ends of a connection, fair threads | 136,120 states, passes, with liveness |
| `echo_link` | 4 requests of 3 parts, replies of 2 parts, room for 2 parts up and 1 down, both ends of a connection, fair threads | 16,359 states, passes, with refinement and liveness |

**Bounds.** In `server_safety` three connections may all be handed to one worker,
whose set has room for two, so a set overflows while both its members are in
use; with three handles every connection may have one of its own or a
predecessor's, so a hurried handle and two others exist side by side. Two workers
are the least in which the owner of a connection and the closer of its
predecessor differ. Symmetry is used only in runs without liveness. In
`v1_server` two connections have two handles: one may be named by tasks, and be
closed by the worker, while the main thread works with the other connection,
and the second owner of a handle may be reached by a late task of the first
(there are two tasks for one exceptional handle). The worker and the main thread
are the two actors that close; a second worker makes the run too long to be kept,
and the theorems hold for any number. Two messages, of one client or one of each,
are the least in which one waits behind another. In `echo_link`
a request does not fit the buffer up, nor a reply the one down, so each end must
make room for the other in the middle of a message. In `conn` head 2, read size 3
and lengths 0, 1, 4 give messages shorter than, equal to and longer than one
`recv`, heads split over two reads, several messages in one read, and a
data-less message. Three client sockets are the least in which a blocking socket
is lost; two replies per connection are the least in which one is merged with
the next, or is finished while the next is cut, and they have a run of their own,
without messages of the main thread, whose `Send` does not touch what is read.
Every bound is a constant (`MaxRequests`, `MaxMessages`, `MaxTasks`, `MaxReplies`,
`MaxArrivals`, `MaxSockets`) in the guard of the client, of its socket() or of
the main thread; the server's own actions are unbounded.

**Deadlock** is checked for the V2 server, whose workers never stop. A connection
ends in `closed`, a pool without tasks waits, and so does a client whose
messages are sent and whose server is silent (or which is at its last socket).
The V1 server exits when it cannot listen, and its threads stop in the model
where they would follow a deleted pointer; the V1 client's threads end with the
connection; the two programs of `echo_link` come to rest when all is answered or
the connection has ended. Those configurations say `CHECK_DEADLOCK FALSE`.
That nobody waits for ever in `echo_link` is `RequestsAnswered` and
`WorkerComesBack`.

**Fairness.** Weak fairness of each worker and of the main thread: threads of
a process the system schedules, all of whose blocking calls have a timeout or
do not block (sockets are non-blocking; `select` has 100 ms). Nothing is
assumed of clients. `Recv` and `RecvError` are parts of one fair `Worker`
action, so no step of a thread is singled out. In the V2 client the fair action of
the detection thread, `Scheduled`, leaves out what depends on the kernel: that it
takes the greeting, or that a `send()` fails in passing. So the thread may spin
in its greeting for as long as the connection is up, and `LossEndsInReconnect`
says only that it gets as far as greeting (`hello`) or polling (`select`) on a
later socket, and that a reset ends the spinning too. `Establish` is fair: a
connection asked for is set up in the end (a server that never listens again
leaves the client in its `connect` loop). In the V1 client both threads are fair,
a passing error is not (`SendFails` need never occur), and nothing is assumed of
the server, not even that it reads. In `EchoLink` the client's two threads and the
worker are fair, and so is `Refused`, the answer of the ended client's system. In
the V1 pool only workers are fair: the main thread may have nothing more to add.

**What the violations show.** They are disagreements between `src/diff` (or a
log message) and the code, listed under `findings`: an endless `recv` loop
after a graceful close; a connection handled by a second thread, to which the
map's old entry led it when its handle was reused before that entry was erased;
a task that stays in the list because two signals became one.

## 4. Proofs

All are for arbitrary constants that satisfy the named assumptions
(`ConstantsAssumption`, `ConnAssumption`, `ClientAssumption`, `PoolAssumption`,
`ServerV1Assumption`, `ClientV1Assumption`, `LinkAssumption`). None of these
restricts the program: they say that sizes and bounds are natural numbers,
positive where a size of zero would mean nothing, and that the names of threads,
handles and connections do not collide.

* **`WgdServerProofs`**: `TypeCorrect`, `HealthyStayOpen`, `PolledStayOpen` and
  `ImplementsService` (`Spec => ServiceSpec`), for hurried handles too. The
  invariant is `OwnershipInv`. Its parts `OwnerInv` and `CopyInv` say that a
  handle in a worker's set or in its copy is open and its owner handed to that
  worker, unless the same worker is about to drop it; `SocketInv` that the kernel's
  table, the map and `m_socket` agree; `ReadyInv` that a worker about to
  close works on a handle whose present owner has hung up (`Peer(w)` is that owner, which on
  a hurried handle is not the connection the worker has looked up); `BufferInv`
  and `CreditInv` bound what is in the buffers by what clients have sent and not
  been answered, also where requests went to the wrong buffer. The properties are
  not inductive without it: that `OnRead` finding nothing means a hang-up depends
  on the handle being the one `select` reported, which depends on nobody else
  having read from it.
* **`WgdServerRegistryProofs`**: `PointersStayValid`, `OneThreadPerConnection`,
  `ConnectionsStayReachable`, `RequestsAccountedFor` and `ConnectionsStayPolled`,
  for any number of handles and any `FD_SETSIZE`. The invariant
  `RegistryInv` relates, for handles that are not hurried, the map, the sets,
  `handedTo` and the workers' pointers at every stage of a connection's life.
  What makes it inductive is that two threads never have the same connection
  there, so a step of a thread on one handle disturbs nothing on another.
* **`WgdConnProofs`**: `StaysInBounds`, `BytesAccountedFor`, `KeepsPlace`,
  `LeavesNothingBehind`, and `ImplementsChannel`: `Spec => ChannelSpec`. The
  invariant `PlaceInv` says that messages lie in the stream end to end, that
  those delivered are a prefix of those sent, and that `front` is where the
  last delivered one ended; `NextHeadHolds` derives that `DataLenAt(front)` is
  exactly the length of the next message.
* **`JSClientProofs`**: `HoldsOneSocket` (from `SocketInv`: a socket is made
  only when the last one is closed); `SendsOnceInOrder`, from `SendInv`: every
  part on any wire lies behind what the main thread sends next, and the wires of
  sockets still to be made are empty; `DeliversWhatIsRead`, from `ReadInv`: the
  last part read is the one just before what is still in the kernel; and
  `RepliesDeliveredWhole`, from `UncutInv` and `CutInv`: as long as nothing was
  cut there is a number `n` such that `m_buffer` begins with the first part of
  reply `n` of the present socket, and what was delivered lies before it;
  afterwards every message is whole or ends on a later socket than `cut`. That `n`
  has to be found again after every read and reconnection; no variable of the
  program holds it.
* **`ThreadPoolProofs`**: `WokenForATask` (from `WakeInv`: a set event and a
  worker past its `Wait` account for different tasks of the list) and
  `RunsInOrder` (every step but `AddTask` leaves the line *executed, in hand,
  in list* as it is).
* **`WgdServerV1Proofs`**: the six properties of `WgdServerV1` besides its type
  invariant (`StalePointersAreTainted`, `OnlyTaintedAreKilled`, `PolledSetSound`,
  `NoMessageLost`, `OneMessagePerRead`, `CloseComplete`). None is inductive. The
  invariant has two layers. `Registry` holds whatever the workers do: tables and
  maps name objects by the handles these objects have, and a worker's socket has
  the handle of a task. So a worker can only disturb handles tasks have named,
  and on every other one the main thread is alone: `CleanInv` says, for each
  place it can be at, which of socket object, connection object, map entries and
  polled set a clean handle still or already has, and that what it is about to
  read is ready. On top of these come `Freed` and `Conserved`, which extend
  `CloseFreesBoth` and `MessagesConserved` to the states before `connect` and
  during a close, and `Pending`: at `parse` there is a message in the buffer,
  which `OneMessagePerRead` needs.

  `ServerTasksInOrder` carries the theorems of `ThreadPoolProofs` over to the
  pool inside the server (by the lemma `ImplementsPool`: its lists and events
  change by the pool's own steps only).
* **`JSClientV1Proofs`**: `NothingBehindAGap`, from `WireInv`: while the
  connection lives the end of the wire is where the present call of `Send` goes on,
  or where the last one stopped (`Upcoming`), so that without a connection a cut
  call is the last to add anything; `EveryPartDeliveredOnce`, from `ReadInv`: the kernel holds
  nothing for a closed or reset socket and nothing is read before `Connect`.
* **`EchoLinkProofs`**: `LinkIsChannel` (`Spec => EchoSpec`): client, worker and
  the two kernel buffers together implement the channel, for any number of
  requests, message sizes and buffer sizes. `LinkInv` says that the three pieces
  of each stream (`up` behind `m_in_buf`; `down` behind `m_buffer`) lie end to
  end and, while the connection is up, that some request `c` is the one at the
  front of `m_in_buf`, with all before `c` answered and `c` as far as the worker
  has got. The lemmas on `Pos` and `Run` (positions in a stream of equal
  messages, and what appending, dropping and taking heads does to a run of
  them) carry the arithmetic.

Every invariant and every refinement that a passing run checks is also proved.
Type invariants of `WgdServer`, `WgdServerV1`, `WgdConn`, `JSClient` and
`ThreadPool` are proved and not repeated in a run, and neither is `HealthyNeverClosed` of `WgdServer`, which is
what `Release` of `EchoService` says.

Only model-checked: the liveness properties (the proof system handles neither
fairness nor `ENABLED`), which are `RequestsAnswered` and `HangUpsReaped` of
`WgdServer`, `EveryMessageDelivered`, `SignalledTaskRuns`, `LossEndsInReconnect`,
`RepliesDelivered`, `LossEndsDetection`, `LossEndsSend`, `ArrivalsDelivered`,
and `RequestsAnswered` and `WorkerComesBack` of `EchoLink`; and the violations.

## 5. Plan

Done: both servers, both clients, the framing, the V1 pool, the link of client
and server, the abstract service, and proofs of all safety properties and
refinements. Left:

1. **Byte level of the V1 connection**, if its one call of `ParseBuffer` per
   `OnRead` is to be seen next to heads split over two reads.
2. **The parts of the liveness arguments that are safety**: that a step of the
   fair thread is possible wherever the liveness properties need one, and a
   measure it lowers, stated as invariants and action properties.
3. **Overflow of a full `fd_set` in the V1 server**, as `WgdServer` has it.

Runs stay at two to three connections, handles and threads; proofs cover the
rest.

## 6. Not modelled

* `CRefObject` and `CStrExplode`: dead code. Every `AddRef` and `ReleaseRef` of
  the servers is commented out, and nothing splits a string.
* `CRWLock`, `CEventThread`, the disabled send thread, and the write paths of
  both servers (`OnWrite`, `m_out_buf`, `CBaseSocket::Send`): nothing reaches
  them. `CLock` is the step boundary of the modules.
* Shutdown: no server thread is ever stopped, so destructors run only at the end
  of the process.
* What the statistics print; Version 1's counter is the sum of `dealt`.
* Memory exhaustion, message lengths near 2^31, and everything listed under
  "left out" above.
* A reconnecting V2 client against small kernel buffers: its detection thread is
  itself in `Send` then, and messages of two threads are mixed on the wire
  before any mutual wait begins.
