------------------------------ MODULE WgdServer ------------------------------
(***************************************************************************)
(* The threads of the Version 2 server (CWgdServer, CThreadPool,           *)
(* CWorkerThread, CBaseSocket, CWGDConn): the main thread accepts          *)
(* connections and hands each socket handle to a worker thread chosen at   *)
(* random; every worker runs select() over its own handle set, finds the   *)
(* connection object of a ready handle in the shared map, reads, answers,  *)
(* and on a hang-up closes the socket, deletes the objects and only then   *)
(* drops the handle from its set.                                          *)
(*                                                                         *)
(* A request is one whole message: how messages are cut out of the byte    *)
(* stream is module WgdConn.  One critical section, kernel call or pass    *)
(* over private state is one step.  A thread about to dereference an       *)
(* object that was already deleted has no step: what the program does      *)
(* from there on is undefined, and NoStalePointer says it never gets       *)
(* there.                                                                  *)
(***************************************************************************)
EXTENDS Naturals, FiniteSets

CONSTANTS
  Conns,       \* the connections clients make, each named by its CWGDConn
  Handles,     \* the socket handles the kernel gives out
  Threads,     \* the worker threads of the pool
  FD_SETSIZE,  \* capacity of an fd_set
  MaxRequests, \* bound: requests a client sends
  CloseKinds,  \* how clients hang up: "fin" gracefully, "rst" abortively
  EagerReuse,  \* may the kernel reuse a handle whose close is under way?
  NoConn, NoHandle, NoThread

ASSUME ConstantsAssumption ==
  /\ NoConn \notin Conns
  /\ NoHandle \notin Handles
  /\ NoThread \notin Threads
  /\ FD_SETSIZE \in Nat
  /\ MaxRequests \in Nat
  /\ CloseKinds \subseteq {"fin", "rst"}
  /\ EagerReuse \in BOOLEAN

VARIABLES
  client,      \* the client's end: "idle", "up", or how it hung up
  sent,        \* requests the client has sent
  inbox,       \* requests in the server kernel's receive buffer
  replies,     \* replies that reached the client
  kernel,      \* the kernel's handle table: which connection a handle names
  accepted,    \* connections accept() has returned
  liveSockets, \* connections whose CBaseSocket is allocated
  liveConns,   \* connections whose CWGDConn is allocated
  m_socket,    \* CBaseSocket::m_socket
  m_in_buf,    \* CWGDConn::m_in_buf, in requests
  m_conn_map,  \* CWgdServer::m_conn_map
  m_read_set,  \* CWorkerThread::m_read_set (m_excep_set always equals it)
  mainPc,      \* main thread: "start", "exit", or where it is in accepting
  newConn,     \* main thread: the connection being set up
  pc,          \* worker: where it is in StartDispatch
  read_set,    \* worker: its private copy of the set
  pConn,       \* worker: the pointer FindWgdConn returned
  handedTo,    \* history: the thread AddEvent gave the connection to
  turnedAway,  \* history: connections FD_SET dropped, the set being full
  hurried      \* history: handles given out while a thread still had to
               \* forget their last connection

historyVars == <<handedTo, turnedAway, hurried>>
clientVars == <<client, sent, inbox, replies>>
heapVars   == <<accepted, liveSockets, liveConns, m_socket>>
mainVars   == <<mainPc, newConn, historyVars>>
workerVars == <<pc, read_set, pConn>>
vars == <<clientVars, kernel, heapVars, m_in_buf, m_conn_map, m_read_set,
          mainVars, workerVars>>

-----------------------------------------------------------------------------
\* Both objects of c may be dereferenced.
Usable(c) == c \in liveConns /\ c \in liveSockets

\* Thread w is inside CWGDConn::OnRead with the pointer pConn[w].
Handling == {"onRead", "recv", "deal", "close"}

\* Thread w has called closesocket and is still to forget the handle.
Forgetting == {"delete", "remove", "removeEvent"}

\* Handles whose close some worker has not finished.
HandlesBeingForgotten ==
  {m_socket[pConn[w]] : w \in {t \in Threads : pc[t] \in Forgetting}}

\* Connections the kernel has set up and accept() has not returned.
Backlog == {c \in Conns : client[c] # "idle"} \ accepted

\* select() reports a handle readable: data, end of stream or an error.
Readable(c) == inbox[c] > 0 \/ client[c] \in {"fin", "rst"}

\* Winsock's FD_SET silently drops the handle when the set is full.
FD_SET(fd, set) == IF Cardinality(set) < FD_SETSIZE THEN set \cup {fd} ELSE set

FD_CLR(fd, set) == set \ {fd}
-----------------------------------------------------------------------------
Init ==
  /\ client = [c \in Conns |-> "idle"]
  /\ sent = [c \in Conns |-> 0]
  /\ inbox = [c \in Conns |-> 0]
  /\ replies = [c \in Conns |-> 0]
  /\ kernel = [h \in Handles |-> NoConn]
  /\ accepted = {} /\ liveSockets = {} /\ liveConns = {}
  /\ m_socket = [c \in Conns |-> NoHandle]
  /\ m_in_buf = [c \in Conns |-> 0]
  /\ m_conn_map = [h \in Handles |-> NoConn]
  /\ m_read_set = [w \in Threads |-> {}]
  /\ mainPc = "start" /\ newConn = NoConn
  /\ handedTo = [c \in Conns |-> NoThread]
  /\ turnedAway = {} /\ hurried = {}
  /\ pc = [w \in Threads |-> "loop"]
  /\ read_set = [w \in Threads |-> {}]
  /\ pConn = [w \in Threads |-> NoConn]
-----------------------------------------------------------------------------
(* The clients and the kernel's side of their connections. *)

\* Before the server listens and after it has exited connect() is refused.
Connect(c) ==
  /\ client[c] = "idle" /\ mainPc \notin {"start", "exit"}
  /\ client' = [client EXCEPT ![c] = "up"]
  /\ UNCHANGED <<sent, inbox, replies, kernel, heapVars, m_in_buf, m_conn_map,
                 m_read_set, mainVars, workerVars>>

Request(c) ==
  /\ client[c] = "up" /\ sent[c] < MaxRequests
  /\ sent' = [sent EXCEPT ![c] = @ + 1]
  /\ inbox' = [inbox EXCEPT ![c] = @ + 1]
  /\ UNCHANGED <<client, replies, kernel, heapVars, m_in_buf, m_conn_map,
                 m_read_set, mainVars, workerVars>>

\* A reset also discards what the kernel had received.
HangUp(c) ==
  /\ client[c] = "up"
  /\ \E kind \in CloseKinds :
       /\ client' = [client EXCEPT ![c] = kind]
       /\ inbox' = IF kind = "rst" THEN [inbox EXCEPT ![c] = 0] ELSE inbox
  /\ UNCHANGED <<sent, replies, kernel, heapVars, m_in_buf, m_conn_map,
                 m_read_set, mainVars, workerVars>>

Client(c) == Connect(c) \/ Request(c) \/ HangUp(c)
-----------------------------------------------------------------------------
(* The main thread: StartWork, then select() on the listening socket and   *)
(* CBaseSocket::_AcceptNewSocket.  The workers run from the constructor on *)
(* and sleep while their sets are empty, so none calls select() before     *)
(* WSAStartup.                                                             *)

\* WSAStartup, socket, bind or listen fails: main() returns.
StartFails ==
  /\ mainPc = "start"
  /\ mainPc' = "exit"
  /\ UNCHANGED <<clientVars, kernel, heapVars, m_in_buf, m_conn_map,
                 m_read_set, newConn, historyVars, workerVars>>

\* CBaseSocket::Listen.  The listening handle is none of Handles: it is in
\* the main thread's own set only and stays open.
Listen ==
  /\ mainPc = "start"
  /\ mainPc' = "accept"
  /\ UNCHANGED <<clientVars, kernel, heapVars, m_in_buf, m_conn_map,
                 m_read_set, newConn, historyVars, workerVars>>

Accept(c, h) ==
  /\ mainPc = "accept"
  /\ c \in Backlog
  /\ kernel[h] = NoConn
  /\ EagerReuse \/ h \notin HandlesBeingForgotten
  /\ kernel' = [kernel EXCEPT ![h] = c]
  /\ accepted' = accepted \cup {c}
  /\ liveSockets' = liveSockets \cup {c}
  /\ liveConns' = liveConns \cup {c}
  /\ m_socket' = [m_socket EXCEPT ![c] = h]
  /\ mainPc' = "addConn" /\ newConn' = c
  /\ hurried' = hurried \cup ({h} \cap HandlesBeingForgotten)
  /\ UNCHANGED <<clientVars, m_in_buf, m_conn_map, m_read_set, handedTo,
                 turnedAway, workerVars>>

\* std::map::insert leaves an entry that is already there.
AddWgdConn ==
  /\ mainPc = "addConn"
  /\ LET fd == m_socket[newConn]
     IN  m_conn_map' = IF m_conn_map[fd] = NoConn
                       THEN [m_conn_map EXCEPT ![fd] = newConn]
                       ELSE m_conn_map
  /\ mainPc' = "addEvent"
  /\ UNCHANGED <<clientVars, kernel, heapVars, m_in_buf, m_read_set, newConn,
                 historyVars, workerVars>>

\* Mutant: the set is emptied before the handle is put in.
AddEvent_Zeroed(w) ==
  /\ mainPc = "addEvent"
  /\ m_read_set' = [m_read_set EXCEPT ![w] = FD_SET(m_socket[newConn], {})]
  /\ handedTo' = [handedTo EXCEPT ![newConn] = w]
  /\ mainPc' = "accept" /\ newConn' = NoConn
  /\ UNCHANGED <<clientVars, kernel, heapVars, m_in_buf, m_conn_map,
                 turnedAway, hurried, workerVars>>

\* CThreadPool::AddEvent: rand() picks the thread.
AddEvent(w) ==
  /\ mainPc = "addEvent"
  /\ LET fd == m_socket[newConn]
     IN  /\ m_read_set' = [m_read_set EXCEPT ![w] = FD_SET(fd, @)]
         /\ turnedAway' = turnedAway \cup
                            (IF fd \in m_read_set'[w] THEN {} ELSE {newConn})
  /\ handedTo' = [handedTo EXCEPT ![newConn] = w]
  /\ mainPc' = "accept" /\ newConn' = NoConn
  /\ UNCHANGED <<clientVars, kernel, heapVars, m_in_buf, m_conn_map, hurried,
                 workerVars>>

Main ==
  \/ StartFails \/ Listen
  \/ \E c \in Conns, h \in Handles : Accept(c, h)
  \/ AddWgdConn
  \/ \E w \in Threads : AddEvent(w)
-----------------------------------------------------------------------------
(* A worker thread: CWorkerThread::StartDispatch.                          *)

\* Nothing registered: Sleep(MIN_TIMER_DURATION) and look again.
Sleep(w) ==
  /\ pc[w] = "loop" /\ m_read_set[w] = {}
  /\ UNCHANGED vars

\* The copy taken under m_lock.
CopySets(w) ==
  /\ pc[w] = "loop" /\ m_read_set[w] # {}
  /\ read_set' = [read_set EXCEPT ![w] = m_read_set[w]]
  /\ pc' = [pc EXCEPT ![w] = "select"]
  /\ UNCHANGED <<clientVars, kernel, heapVars, m_in_buf, m_conn_map,
                 m_read_set, mainVars, pConn>>

\* Mutant: the dispatch loop walks the copy as it was before select().
Select_Unfiltered(w) ==
  /\ pc[w] = "select"
  /\ LET failed == \E h \in read_set[w] : kernel[h] = NoConn
         ready == {h \in read_set[w] : Readable(kernel[h])}
     IN  pc' = [pc EXCEPT ![w] = IF failed \/ ready = {} THEN "loop"
                                                         ELSE "dispatch"]
  /\ UNCHANGED <<clientVars, kernel, heapVars, m_in_buf, m_conn_map,
                 m_read_set, mainVars, read_set, pConn>>

\* One closed handle makes the whole select() fail; on an error and on a
\* timeout alike the thread starts over.
Select(w) ==
  /\ pc[w] = "select"
  /\ LET failed == \E h \in read_set[w] : kernel[h] = NoConn
         ready == IF failed THEN {}
                  ELSE {h \in read_set[w] : Readable(kernel[h])}
     IN  /\ read_set' = [read_set EXCEPT ![w] = ready]
         /\ pc' = [pc EXCEPT ![w] = IF ready = {} THEN "loop" ELSE "dispatch"]
  /\ UNCHANGED <<clientVars, kernel, heapVars, m_in_buf, m_conn_map,
                 m_read_set, mainVars, pConn>>

\* The next handle of the copy is looked up in the shared map.
FindWgdConn(w) ==
  /\ pc[w] = "dispatch"
  /\ \E fd \in read_set[w] :
       /\ read_set' = [read_set EXCEPT ![w] = @ \ {fd}]
       /\ pConn' = [pConn EXCEPT ![w] = m_conn_map[fd]]
       /\ pc' = [pc EXCEPT ![w] = IF m_conn_map[fd] = NoConn THEN "dispatch"
                                                             ELSE "onRead"]
  /\ UNCHANGED <<clientVars, kernel, heapVars, m_in_buf, m_conn_map,
                 m_read_set, mainVars>>

EndDispatch(w) ==
  /\ pc[w] = "dispatch" /\ read_set[w] = {}
  /\ pc' = [pc EXCEPT ![w] = "loop"]
  /\ UNCHANGED <<clientVars, kernel, heapVars, m_in_buf, m_conn_map,
                 m_read_set, mainVars, read_set, pConn>>

\* CWGDConn::OnRead: FIONREAD fails or finds nothing: the peer is gone.
OnRead(w) ==
  /\ pc[w] = "onRead" /\ Usable(pConn[w])
  /\ LET peer == kernel[m_socket[pConn[w]]]
         gone == peer = NoConn \/ client[peer] = "rst" \/ inbox[peer] = 0
     IN  pc' = [pc EXCEPT ![w] = IF gone THEN "close" ELSE "recv"]
  /\ UNCHANGED <<clientVars, kernel, heapVars, m_in_buf, m_conn_map,
                 m_read_set, mainVars, read_set, pConn>>

\* One recv() that returns data.
Recv(w) ==
  /\ pc[w] = "recv" /\ Usable(pConn[w])
  /\ LET peer == kernel[m_socket[pConn[w]]]
     IN  /\ peer # NoConn /\ inbox[peer] > 0
         /\ inbox' = [inbox EXCEPT ![peer] = @ - 1]
  /\ m_in_buf' = [m_in_buf EXCEPT ![pConn[w]] = @ + 1]
  /\ UNCHANGED <<client, sent, replies, kernel, heapVars, m_conn_map,
                 m_read_set, mainVars, workerVars>>

\* recv() reports WSAEWOULDBLOCK or the reset: the loop ends.
RecvError(w) ==
  /\ pc[w] = "recv" /\ Usable(pConn[w])
  /\ LET peer == kernel[m_socket[pConn[w]]]
     IN  peer # NoConn => inbox[peer] = 0 /\ client[peer] # "fin"
  /\ pc' = [pc EXCEPT ![w] = "deal"]
  /\ UNCHANGED <<clientVars, kernel, heapVars, m_in_buf, m_conn_map,
                 m_read_set, mainVars, read_set, pConn>>

\* recv() returns 0 at the end of the stream: not SOCKET_ERROR, so the loop
\* adds 0 to the offset and calls recv() again.
RecvEndOfStream(w) ==
  /\ pc[w] = "recv" /\ Usable(pConn[w])
  /\ LET peer == kernel[m_socket[pConn[w]]]
     IN  peer # NoConn /\ inbox[peer] = 0 /\ client[peer] = "fin"
  /\ UNCHANGED vars

\* Mutant: the message dealt with is not taken out of the buffer.
DealBuffer_NotConsumed(w) ==
  /\ pc[w] = "deal" /\ Usable(pConn[w]) /\ m_in_buf[pConn[w]] > 0
  /\ LET target == m_conn_map[m_socket[pConn[w]]]
         peer == kernel[m_socket[target]]
     IN  /\ target # NoConn /\ Usable(target)
         /\ replies' = IF peer # NoConn /\ client[peer] = "up"
                       THEN [replies EXCEPT ![peer] = @ + 1]
                       ELSE replies
  /\ UNCHANGED <<client, sent, inbox, kernel, heapVars, m_in_buf, m_conn_map,
                 m_read_set, mainVars, workerVars>>

\* Mutant: one ParseBuffer per OnRead instead of a loop.
DealBuffer_Once(w) ==
  /\ pc[w] = "deal" /\ Usable(pConn[w]) /\ m_in_buf[pConn[w]] > 0
  /\ LET target == m_conn_map[m_socket[pConn[w]]]
         peer == kernel[m_socket[target]]
     IN  /\ target # NoConn /\ Usable(target)
         /\ replies' = IF peer # NoConn /\ client[peer] = "up"
                       THEN [replies EXCEPT ![peer] = @ + 1]
                       ELSE replies
  /\ m_in_buf' = [m_in_buf EXCEPT ![pConn[w]] = @ - 1]
  /\ pc' = [pc EXCEPT ![w] = "dispatch"]
  /\ UNCHANGED <<client, sent, inbox, kernel, heapVars, m_conn_map,
                 m_read_set, mainVars, read_set, pConn>>

\* DealBuffer -> OnReceivedNotify -> OnTest: the connection is looked up in
\* the map again, by handle, and the reply is sent on its socket.
DealBuffer(w) ==
  /\ pc[w] = "deal" /\ Usable(pConn[w]) /\ m_in_buf[pConn[w]] > 0
  /\ LET target == m_conn_map[m_socket[pConn[w]]]
         peer == kernel[m_socket[target]]
     IN  /\ target # NoConn /\ Usable(target)
         /\ replies' = IF peer # NoConn /\ client[peer] = "up"
                       THEN [replies EXCEPT ![peer] = @ + 1]
                       ELSE replies
  /\ m_in_buf' = [m_in_buf EXCEPT ![pConn[w]] = @ - 1]
  /\ UNCHANGED <<client, sent, inbox, kernel, heapVars, m_conn_map,
                 m_read_set, mainVars, workerVars>>

EndOnRead(w) ==
  /\ pc[w] = "deal" /\ Usable(pConn[w]) /\ m_in_buf[pConn[w]] = 0
  /\ pc' = [pc EXCEPT ![w] = "dispatch"]
  /\ UNCHANGED <<clientVars, kernel, heapVars, m_in_buf, m_conn_map,
                 m_read_set, mainVars, read_set, pConn>>

\* CWGDConn::OnClose -> CBaseSocket::Close: closesocket.  From here on the
\* kernel may give the handle to another connection.
CloseSocket(w) ==
  /\ pc[w] = "close" /\ Usable(pConn[w])
  /\ kernel' = [kernel EXCEPT ![m_socket[pConn[w]]] = NoConn]
  /\ pc' = [pc EXCEPT ![w] = "delete"]
  /\ UNCHANGED <<clientVars, heapVars, m_in_buf, m_conn_map, m_read_set,
                 mainVars, read_set, pConn>>

\* CBaseSocket::Close: delete this.
DeleteSocket(w) ==
  /\ pc[w] = "delete" /\ pConn[w] \in liveSockets
  /\ liveSockets' = liveSockets \ {pConn[w]}
  /\ pc' = [pc EXCEPT ![w] = "remove"]
  /\ UNCHANGED <<clientVars, kernel, accepted, liveConns, m_socket, m_in_buf,
                 m_conn_map, m_read_set, mainVars, read_set, pConn>>

\* Mutant: the object is deleted but its entry stays in the map.
RemoveWgdConn_KeepsEntry(w) ==
  /\ pc[w] = "remove" /\ pConn[w] \in liveConns
  /\ liveConns' = liveConns \ {m_conn_map[m_socket[pConn[w]]]}
  /\ pc' = [pc EXCEPT ![w] = "removeEvent"]
  /\ UNCHANGED <<clientVars, kernel, accepted, liveSockets, m_socket,
                 m_in_buf, m_conn_map, m_read_set, mainVars, read_set, pConn>>

\* CWGDConn::OnClose, second half: whatever object the map holds under the
\* handle is deleted and the entry erased.
RemoveWgdConn(w) ==
  /\ pc[w] = "remove" /\ pConn[w] \in liveConns
  /\ LET fd == m_socket[pConn[w]]
     IN  /\ liveConns' = liveConns \ {m_conn_map[fd]}
         /\ m_conn_map' = [m_conn_map EXCEPT ![fd] = NoConn]
  /\ pc' = [pc EXCEPT ![w] = "removeEvent"]
  /\ UNCHANGED <<clientVars, kernel, accepted, liveSockets, m_socket,
                 m_in_buf, m_read_set, mainVars, read_set, pConn>>

\* Mutant: the thread does not drop the handle it closed.
RemoveEvent_Forgotten(w) ==
  /\ pc[w] = "removeEvent"
  /\ pc' = [pc EXCEPT ![w] = "dispatch"]
  /\ UNCHANGED <<clientVars, kernel, heapVars, m_in_buf, m_conn_map,
                 m_read_set, mainVars, read_set, pConn>>

\* OnRead returned -1: the thread drops the handle from its own set.
RemoveEvent(w) ==
  /\ pc[w] = "removeEvent"
  /\ m_read_set' = [m_read_set EXCEPT ![w] = FD_CLR(m_socket[pConn[w]], @)]
  /\ pc' = [pc EXCEPT ![w] = "dispatch"]
  /\ UNCHANGED <<clientVars, kernel, heapVars, m_in_buf, m_conn_map,
                 mainVars, read_set, pConn>>

Worker(w) ==
  \/ Sleep(w) \/ CopySets(w) \/ Select(w) \/ FindWgdConn(w) \/ EndDispatch(w)
  \/ OnRead(w) \/ Recv(w) \/ RecvError(w) \/ RecvEndOfStream(w)
  \/ DealBuffer(w) \/ EndOnRead(w)
  \/ CloseSocket(w) \/ DeleteSocket(w) \/ RemoveWgdConn(w) \/ RemoveEvent(w)
-----------------------------------------------------------------------------
Next ==
  \/ \E c \in Conns : Client(c)
  \/ Main
  \/ \E w \in Threads : Worker(w)

Spec == Init /\ [][Next]_vars

\* The operating system runs every thread; nothing obliges a client to act.
FairSpec ==
  /\ Spec
  /\ WF_vars(Main)
  /\ \A w \in Threads : WF_vars(Worker(w))
-----------------------------------------------------------------------------
TypeOK ==
  /\ client \in [Conns -> {"idle", "up", "fin", "rst"}]
  /\ sent \in [Conns -> Nat]
  /\ inbox \in [Conns -> Nat]
  /\ replies \in [Conns -> Nat]
  /\ kernel \in [Handles -> Conns \cup {NoConn}]
  /\ accepted \subseteq Conns
  /\ liveSockets \subseteq Conns
  /\ liveConns \subseteq Conns
  /\ m_socket \in [Conns -> Handles \cup {NoHandle}]
  /\ m_in_buf \in [Conns -> Nat]
  /\ m_conn_map \in [Handles -> Conns \cup {NoConn}]
  /\ m_read_set \in [Threads -> SUBSET Handles]
  /\ mainPc \in {"start", "exit", "accept", "addConn", "addEvent"}
  /\ newConn \in Conns \cup {NoConn}
  /\ handedTo \in [Conns -> Threads \cup {NoThread}]
  /\ turnedAway \subseteq Conns
  /\ hurried \subseteq Handles
  /\ pc \in [Threads -> {"loop", "select", "dispatch"} \cup Handling
                        \cup Forgetting]
  /\ read_set \in [Threads -> SUBSET Handles]
  /\ pConn \in [Threads -> Conns \cup {NoConn}]

\* A thread that got a CWGDConn* from the map finds both objects still
\* allocated at every later dereference, the second lookup by handle in
\* OnTest yields the very connection that asked (it is used unchecked), and
\* the bytes it reads are those of that connection's client: all this as
\* long as the handle was never given out while being closed.
NoStalePointer ==
  \A w \in Threads :
    LET fd == m_socket[pConn[w]]
    IN  /\ pc[w] \in Handling \cup {"delete"} /\ fd \notin hurried
          => Usable(pConn[w]) /\ m_conn_map[fd] = pConn[w]
        /\ pc[w] \in Handling /\ fd \notin hurried => kernel[fd] = pConn[w]
        /\ pc[w] = "remove" /\ fd \notin hurried
          => pConn[w] \in liveConns /\ m_conn_map[fd] = pConn[w]

\* A connection is only ever handled by the thread it was handed to.
HandledByOwner ==
  \A w \in Threads :
    pc[w] \in Handling \cup Forgetting => handedTo[pConn[w]] = w

\* The same for handles never given out while being closed: whatever the
\* kernel and the other threads do with other handles, no second thread comes
\* to the connection.
OwnerUnlessHurried ==
  \A w \in Threads :
    /\ pc[w] \in Handling \cup Forgetting
    /\ m_socket[pConn[w]] \notin hurried
    => handedTo[pConn[w]] = w

\* No thread runs select() over a closed handle, which would fail the call
\* for every connection of that thread.
PolledHandlesOpen ==
  \A w \in Threads :
    pc[w] = "select" => \A h \in read_set[w] : kernel[h] # NoConn

\* The server closes a connection only when the client has hung up: the
\* handle it was accepted on still names it otherwise.
HealthyNeverClosed ==
  \A c \in accepted :
    kernel[m_socket[c]] # c => client[c] \in {"fin", "rst"}

\* Every allocated connection can be found under its own handle, but for the
\* moment between its accept and its registration, unless the handle was
\* given out while being closed: none is lost or shadowed.
EveryConnReachable ==
  \A c \in liveConns :
    \/ m_conn_map[m_socket[c]] = c
    \/ mainPc = "addConn" /\ newConn = c
    \/ m_socket[c] \in hurried

\* A connection FD_SET had room for stays in the set of its thread as long as
\* it is open, whatever connections come and go and however full the sets
\* are, unless its handle was given out while being closed.
EveryConnPolled ==
  \A c \in accepted :
    \/ kernel[m_socket[c]] # c
    \/ newConn = c
    \/ m_socket[c] \in m_read_set[handedTo[c]]
    \/ c \in turnedAway
    \/ m_socket[c] \in hurried

\* Requests of a client that is still there are neither lost nor answered
\* twice nor answered on behalf of another client, unless its handle was
\* given out while being closed: then they may be read into the buffer of the
\* connection that had the handle before.
RequestsConserved ==
  \A c \in Conns :
    client[c] = "up" /\ m_socket[c] \notin hurried
      => sent[c] = inbox[c] + m_in_buf[c] + replies[c]

\* The server's side of a connection, for EchoService: held as long as the
\* handle it was accepted on names it.
Stage == [c \in Conns |-> IF c \notin accepted THEN "new"
                          ELSE IF kernel[m_socket[c]] = c THEN "held"
                          ELSE "released"]

Service == INSTANCE EchoService WITH stage <- Stage

\* Seen from its clients, the server with all its threads, maps and handles
\* does nothing but take connections on, answer requests and release what was
\* hung up, one connection at a time: every step is one of EchoService's.
ServiceSpec == Service!Spec

\* Every request of an accepted client is answered, unless it hangs up.
RequestsAnswered ==
  \A c \in Conns :
    (c \in accepted /\ replies[c] < sent[c])
      ~> (replies[c] = sent[c] \/ client[c] # "up")

\* Once the client has hung up, the server frees both of the connection's
\* objects, and the thread that closed it has forgotten its handle.
HangUpsReaped ==
  \A c \in Conns :
    (c \in accepted /\ client[c] # "up")
      ~> /\ c \notin liveConns /\ c \notin liveSockets
         /\ \A w \in Threads : pc[w] \in Forgetting => pConn[w] # c
=============================================================================
