----------------------------- MODULE WgdServerV1 -----------------------------
(***************************************************************************)
(* The Version 1 server: one thread runs select() over every handle,       *)
(* accepts connections, reads them and closes those whose peer is gone; an *)
(* exceptional handle (a client sent out-of-band data) becomes a task of   *)
(* the thread pool, and the worker that runs the task closes the           *)
(* connection.  Tasks and maps name connections by handle, objects are not *)
(* reference counted, and the kernel may give a closed handle out again at *)
(* once.                                                                   *)
(*                                                                         *)
(* A connection names its CBaseSocket and its CWGDConn; Listener is the    *)
(* listening CBaseSocket.  One critical section or kernel call is one      *)
(* step.  A thread about to dereference a deleted object has no step: what *)
(* the program does from there on is undefined.                            *)
(***************************************************************************)
EXTENDS Naturals, FiniteSets, Sequences, Functions

CONSTANTS
  Conns,        \* the connections clients make
  Handles,      \* the socket handles the kernel gives out
  ListenHandle, \* the one of the listening socket
  Threads,      \* the worker threads of the pool
  MainThread,
  MaxTasks,     \* bound: tasks the main thread adds
  MaxRequests,  \* bound: messages all clients send together
  CloseKinds,   \* how clients hang up: "fin" gracefully, "rst" abortively
  Listener, NoConn, NoHandle

ASSUME ServerV1Assumption ==
  /\ ListenHandle \in Handles /\ NoHandle \notin Handles
  /\ MainThread \notin Threads
  /\ Listener \notin Conns /\ NoConn \notin Conns /\ Listener # NoConn
  /\ MaxTasks \in Nat /\ MaxRequests \in Nat
  /\ CloseKinds \subseteq {"fin", "rst"}

VARIABLES
  client,        \* the client's end: "idle", "up", or how it hung up
  sent,          \* messages the client has sent
  urgent,        \* clients whose out-of-band data the kernel holds
  inbox,         \* messages in the server kernel's receive buffer
  kernel,        \* the kernel's handle table: which socket a handle names
  accepted,      \* connections accept() has returned
  liveSockets,   \* allocated CBaseSocket objects
  liveConns,     \* allocated CWGDConn objects
  m_socket,      \* CBaseSocket::m_socket
  m_pBaseSocket, \* CWGDConn::m_pBaseSocket
  m_in_buf,      \* CWGDConn::m_in_buf, in messages
  dealt,         \* messages dealt with; CWgdServer::m_nCount is the sum
  m_socket_map, m_conn_map, \* CWgdServer's maps, by handle
  m_read_set,    \* CWgdServer::m_read_set (m_excep_set always equals it)
  read_set, excep_set, \* the main thread's copies, as select() left them
  at,            \* where the main thread is; where a worker's task is
  pSocket,       \* the CBaseSocket* a thread works with
  pConn,         \* the CWGDConn* the main thread works with
  m_nFd,         \* CDispatchTask::m_nFd of each task added so far
  added, m_task_list, m_hEvent, pc, pTask, executed \* the pool's

Pool == INSTANCE ThreadPool

clientVars == <<client, sent, urgent>>
socketVars == <<kernel, accepted, liveSockets, m_socket>>
connVars   == <<liveConns, m_pBaseSocket, m_in_buf, dealt>>
serverVars == <<m_socket_map, m_conn_map, m_read_set>>
mainVars   == <<read_set, excep_set, pConn>>
poolVars   == <<added, m_task_list, m_hEvent, pc, pTask, executed, m_nFd>>
vars == <<clientVars, inbox, socketVars, connVars, serverVars, mainVars,
          at, pSocket, poolVars>>

AllThreads == Threads \cup {MainThread}
Sockets == Conns \cup {Listener}

-----------------------------------------------------------------------------
\* Connections the kernel has set up and accept() has not returned.
Backlog == {c \in Conns : client[c] # "idle"} \ accepted

\* select() reports the socket readable.
Readable(s) == IF s = Listener THEN Backlog # {}
               ELSE inbox[s] > 0 \/ client[s] \in {"fin", "rst"}

\* std::map::insert leaves an entry that is already there.
Insert(map, fd, object) ==
  IF map[fd] = NoConn THEN [map EXCEPT ![fd] = object] ELSE map

\* What the handle of pConn's socket object names at present.
Peer == kernel[m_socket[m_pBaseSocket[pConn]]]

\* pConn and its m_pBaseSocket may be dereferenced.
ConnUsable == pConn \in liveConns /\ m_pBaseSocket[pConn] \in liveSockets

\* A thread goes on to another part of the code.
Goto(t, place) == at' = [at EXCEPT ![t] = place]

\* It leaves the function in which its pSocket is a local variable.
Leave(t, place) ==
  /\ Goto(t, place)
  /\ pSocket' = [pSocket EXCEPT ![t] = NoConn]

Init ==
  /\ client = [c \in Conns |-> "idle"]
  /\ sent = [c \in Conns |-> 0] /\ inbox = [c \in Conns |-> 0]
  /\ urgent = {}
  /\ kernel = [h \in Handles |-> NoConn]
  /\ accepted = {} /\ liveSockets = {} /\ liveConns = {}
  /\ m_socket = [s \in Sockets |-> NoHandle]
  /\ m_pBaseSocket = [c \in Conns |-> NoConn]
  /\ m_in_buf = [c \in Conns |-> 0] /\ dealt = [c \in Conns |-> 0]
  /\ m_socket_map = [h \in Handles |-> NoConn]
  /\ m_conn_map = [h \in Handles |-> NoConn]
  /\ m_read_set = {} /\ read_set = {} /\ excep_set = {}
  /\ at = [t \in AllThreads |-> IF t = MainThread THEN "start" ELSE "idle"]
  /\ pSocket = [t \in AllThreads |-> NoConn] /\ pConn = NoConn
  /\ m_nFd = <<>>
  /\ Pool!Init
-----------------------------------------------------------------------------
(* The clients.                                                            *)

\* connect() is refused while the server does not listen.
Connect(c) ==
  /\ client[c] = "idle" /\ kernel[ListenHandle] = Listener
  /\ client' = [client EXCEPT ![c] = "up"]
  /\ UNCHANGED <<sent, urgent, inbox, socketVars, connVars, serverVars,
                 mainVars, at, pSocket, poolVars>>

Request(c) ==
  /\ client[c] = "up" /\ SumFunction(sent) < MaxRequests
  /\ sent' = [sent EXCEPT ![c] = @ + 1]
  /\ inbox' = [inbox EXCEPT ![c] = @ + 1]
  /\ UNCHANGED <<client, urgent, socketVars, connVars, serverVars, mainVars,
                 at, pSocket, poolVars>>

\* Nothing ever reads out-of-band data, so it stays until the close.
SendUrgent(c) ==
  /\ client[c] = "up"
  /\ urgent' = urgent \cup {c}
  /\ UNCHANGED <<client, sent, inbox, socketVars, connVars, serverVars,
                 mainVars, at, pSocket, poolVars>>

\* A reset also discards what the kernel had received.
HangUp(c) ==
  /\ client[c] = "up"
  /\ \E kind \in CloseKinds :
       /\ client' = [client EXCEPT ![c] = kind]
       /\ inbox' = IF kind = "rst" THEN [inbox EXCEPT ![c] = 0] ELSE inbox
       /\ urgent' = IF kind = "rst" THEN urgent \ {c} ELSE urgent
  /\ UNCHANGED <<sent, socketVars, connVars, serverVars, mainVars, at,
                 pSocket, poolVars>>

Client(c) == Connect(c) \/ Request(c) \/ SendUrgent(c) \/ HangUp(c)
-----------------------------------------------------------------------------
(* The main thread: StartWork, StartDispatch.                              *)

\* WSAStartup, socket, bind or listen fails: main() returns.
StartFails ==
  /\ at[MainThread] = "start"
  /\ Goto(MainThread, "exit")
  /\ UNCHANGED <<clientVars, inbox, socketVars, connVars, serverVars,
                 mainVars, pSocket, poolVars>>

\* CBaseSocket::Listen.  The pool's threads run already, without any task.
Listen ==
  /\ at[MainThread] = "start"
  /\ kernel' = [kernel EXCEPT ![ListenHandle] = Listener]
  /\ liveSockets' = liveSockets \cup {Listener}
  /\ m_socket' = [m_socket EXCEPT ![Listener] = ListenHandle]
  /\ m_socket_map' = Insert(m_socket_map, ListenHandle, Listener)
  /\ m_read_set' = m_read_set \cup {ListenHandle}
  /\ Goto(MainThread, "loop")
  /\ UNCHANGED <<clientVars, inbox, accepted, connVars, m_conn_map, mainVars,
                 pSocket, poolVars>>

\* The copies taken under m_lock.
CopySets ==
  /\ at[MainThread] = "loop"
  /\ read_set' = m_read_set /\ excep_set' = m_read_set
  /\ Goto(MainThread, "select")
  /\ UNCHANGED <<clientVars, inbox, socketVars, connVars, serverVars, pConn,
                 pSocket, poolVars>>

\* Mutant: the dispatch loop walks the copy as it was before select().
Select_Unfiltered ==
  /\ at[MainThread] = "select"
  /\ excep_set' = {h \in excep_set : kernel[h] \in urgent}
  /\ Goto(MainThread, "dispatch")
  /\ UNCHANGED <<clientVars, inbox, socketVars, connVars, serverVars,
                 read_set, pConn, pSocket, poolVars>>

\* One closed handle makes the whole select() fail.
Select ==
  /\ at[MainThread] = "select"
  /\ LET failed == \E h \in read_set : kernel[h] = NoConn
     IN  /\ read_set' = {h \in read_set : ~failed /\ Readable(kernel[h])}
         /\ excep_set' = {h \in excep_set : ~failed /\ kernel[h] \in urgent}
  /\ Goto(MainThread, IF read_set' \cup excep_set' = {} THEN "loop"
                                                      ELSE "dispatch")
  /\ UNCHANGED <<clientVars, inbox, socketVars, connVars, serverVars, pConn,
                 pSocket, poolVars>>

\* FindBaseSocket of the next readable handle; the listening socket's OnRead
\* accepts.
FindBaseSocket ==
  /\ at[MainThread] = "dispatch"
  /\ \E fd \in read_set :
       /\ read_set' = read_set \ {fd}
       /\ pSocket' = [pSocket EXCEPT ![MainThread] = m_socket_map[fd]]
       /\ Goto(MainThread, CASE m_socket_map[fd] = NoConn -> "dispatch"
                             [] m_socket_map[fd] = Listener -> "accept"
                             [] OTHER -> "onRead")
  /\ UNCHANGED <<clientVars, inbox, socketVars, connVars, serverVars,
                 excep_set, pConn, poolVars>>

\* A CDispatchTask for the next exceptional handle goes to some worker.
AddTask(w) ==
  /\ at[MainThread] = "dispatch" /\ read_set = {}
  /\ \E fd \in excep_set :
       /\ excep_set' = excep_set \ {fd}
       /\ m_nFd' = Append(m_nFd, fd)
  /\ Pool!AddTask(w)
  /\ UNCHANGED <<clientVars, inbox, socketVars, connVars, serverVars,
                 read_set, pConn, at, pSocket>>

\* Handles that would exceed the bound on tasks are passed over.
EndDispatch ==
  /\ at[MainThread] = "dispatch" /\ read_set = {}
  /\ excep_set = {} \/ added = MaxTasks
  /\ excep_set' = {}
  /\ Goto(MainThread, "loop")
  /\ UNCHANGED <<clientVars, inbox, socketVars, connVars, serverVars,
                 read_set, pConn, pSocket, poolVars>>
-----------------------------------------------------------------------------
(* CBaseSocket::_AcceptNewSocket.                                          *)

Accept(c, h) ==
  /\ at[MainThread] = "accept"
  /\ c \in Backlog /\ kernel[h] = NoConn
  /\ kernel' = [kernel EXCEPT ![h] = c]
  /\ accepted' = accepted \cup {c}
  /\ liveSockets' = liveSockets \cup {c}
  /\ m_socket' = [m_socket EXCEPT ![c] = h]
  /\ pConn' = c
  /\ Goto(MainThread, "addSocket")
  /\ UNCHANGED <<clientVars, inbox, connVars, serverVars, read_set,
                 excep_set, pSocket, poolVars>>

AddBaseSocket ==
  /\ at[MainThread] = "addSocket" /\ pConn \in liveSockets
  /\ m_socket_map' = Insert(m_socket_map, m_socket[pConn], pConn)
  /\ Goto(MainThread, "addEvent")
  /\ UNCHANGED <<clientVars, inbox, socketVars, connVars, m_conn_map,
                 m_read_set, mainVars, pSocket, poolVars>>

AddEvent ==
  /\ at[MainThread] = "addEvent"
  /\ m_read_set' = m_read_set \cup {m_socket[pConn]}
  /\ Goto(MainThread, "onConnect")
  /\ UNCHANGED <<clientVars, inbox, socketVars, connVars, m_socket_map,
                 m_conn_map, mainVars, pSocket, poolVars>>

\* CWgdServer::OnConnect finds the socket object again by its handle.
OnConnect ==
  /\ at[MainThread] = "onConnect"
  /\ liveConns' = liveConns \cup {pConn}
  /\ m_pBaseSocket' =
       [m_pBaseSocket EXCEPT ![pConn] = m_socket_map[m_socket[pConn]]]
  /\ Goto(MainThread, "addConn")
  /\ UNCHANGED <<clientVars, inbox, socketVars, m_in_buf, dealt, serverVars,
                 mainVars, pSocket, poolVars>>

AddWgdConn ==
  /\ at[MainThread] = "addConn"
  /\ m_conn_map' = Insert(m_conn_map, m_socket[pConn], pConn)
  /\ pConn' = NoConn
  /\ Goto(MainThread, "accept")
  /\ UNCHANGED <<clientVars, inbox, socketVars, connVars, m_socket_map,
                 m_read_set, read_set, excep_set, pSocket, poolVars>>

\* accept() fails: nobody is waiting, or the kernel has no handle to give.
EndAccept ==
  /\ at[MainThread] = "accept"
  /\ Backlog = {} \/ \A h \in Handles : kernel[h] # NoConn
  /\ Leave(MainThread, "dispatch")
  /\ UNCHANGED <<clientVars, inbox, socketVars, connVars, serverVars,
                 mainVars, poolVars>>
-----------------------------------------------------------------------------
(* CBaseSocket::OnRead, for a connection.                                  *)

\* FIONREAD fails or finds nothing: the peer is gone.
OnRead ==
  LET s == pSocket[MainThread]
  IN  /\ at[MainThread] = "onRead" /\ s \in liveSockets \ {Listener}
      /\ LET peer == kernel[m_socket[s]]
             gone == peer = NoConn \/ client[peer] = "rst" \/ inbox[peer] = 0
         IN  Goto(MainThread, IF gone THEN "find" ELSE "findConn")
      /\ UNCHANGED <<clientVars, inbox, socketVars, connVars, serverVars,
                     mainVars, pSocket, poolVars>>

\* CWgdServer::OnRead uses what it finds without a check.
FindWgdConn ==
  /\ at[MainThread] = "findConn" /\ pSocket[MainThread] \in liveSockets
  /\ pConn' = m_conn_map[m_socket[pSocket[MainThread]]]
  /\ Goto(MainThread, "recv")
  /\ UNCHANGED <<clientVars, inbox, socketVars, connVars, serverVars,
                 read_set, excep_set, pSocket, poolVars>>

Recv ==
  /\ at[MainThread] = "recv" /\ ConnUsable
  /\ Peer \in Conns /\ inbox[Peer] > 0
  /\ inbox' = [inbox EXCEPT ![Peer] = @ - 1]
  /\ m_in_buf' = [m_in_buf EXCEPT ![pConn] = @ + 1]
  /\ UNCHANGED <<clientVars, socketVars, liveConns, m_pBaseSocket, dealt,
                 serverVars, mainVars, at, pSocket, poolVars>>

\* recv() reports an error, WSAEWOULDBLOCK included: the loop ends.
RecvError ==
  /\ at[MainThread] = "recv" /\ ConnUsable
  /\ Peer # NoConn => inbox[Peer] = 0 /\ client[Peer] # "fin"
  /\ Goto(MainThread, "parse")
  /\ UNCHANGED <<clientVars, inbox, socketVars, connVars, serverVars,
                 mainVars, pSocket, poolVars>>

\* recv() returns 0 at the end of the stream, and the loop goes on.
RecvEndOfStream ==
  /\ at[MainThread] = "recv" /\ ConnUsable
  /\ Peer # NoConn /\ inbox[Peer] = 0 /\ client[Peer] = "fin"
  /\ UNCHANGED vars

\* Mutant: a message that just fills the buffer is taken for incomplete.
ParseBuffer_Strict ==
  /\ at[MainThread] = "parse" /\ ConnUsable
  /\ IF m_in_buf[pConn] <= 1 THEN UNCHANGED <<m_in_buf, dealt>>
     ELSE /\ dealt' = [dealt EXCEPT ![pConn] = @ + 1]
          /\ m_in_buf' = [m_in_buf EXCEPT ![pConn] = @ - 1]
  /\ pConn' = NoConn
  /\ Leave(MainThread, "dispatch")
  /\ UNCHANGED <<clientVars, inbox, socketVars, liveConns, m_pBaseSocket,
                 serverVars, read_set, excep_set, poolVars>>

\* Mutant: the message dealt with stays in the buffer.
ParseBuffer_NotConsumed ==
  /\ at[MainThread] = "parse" /\ ConnUsable
  /\ dealt' = IF m_in_buf[pConn] = 0 THEN dealt
              ELSE [dealt EXCEPT ![pConn] = @ + 1]
  /\ pConn' = NoConn
  /\ Leave(MainThread, "dispatch")
  /\ UNCHANGED <<clientVars, inbox, socketVars, liveConns, m_pBaseSocket,
                 m_in_buf, serverVars, read_set, excep_set, poolVars>>

\* ParseBuffer is called once: at most one message is dealt with
\* (OnStatisticEnd counts it) and dropped from the buffer.
ParseBuffer ==
  /\ at[MainThread] = "parse" /\ ConnUsable
  /\ IF m_in_buf[pConn] = 0 THEN UNCHANGED <<m_in_buf, dealt>>
     ELSE /\ dealt' = [dealt EXCEPT ![pConn] = @ + 1]
          /\ m_in_buf' = [m_in_buf EXCEPT ![pConn] = @ - 1]
  /\ pConn' = NoConn
  /\ Leave(MainThread, "dispatch")
  /\ UNCHANGED <<clientVars, inbox, socketVars, liveConns, m_pBaseSocket,
                 serverVars, read_set, excep_set, poolVars>>
-----------------------------------------------------------------------------
(* CWgdServer::OnClose and CBaseSocket::Close, which the main thread and   *)
(* the workers run.                                                        *)

\* Where OnClose returns to.
Return(t) == IF t = MainThread THEN "dispatch" ELSE "done"

\* OnClose looks the socket object up (again) by its handle.
CloseFind(t) ==
  /\ at[t] = "find"
  /\ LET s == m_socket_map[m_socket[pSocket[t]]]
     IN  /\ pSocket' = [pSocket EXCEPT ![t] = s]
         /\ Goto(t, IF s = NoConn THEN Return(t) ELSE "removeEvent")
  /\ UNCHANGED <<clientVars, inbox, socketVars, connVars, serverVars,
                 mainVars, poolVars>>

\* Mutant: the handle stays in the set.
RemoveEvent_Forgotten(t) ==
  /\ at[t] = "removeEvent" /\ pSocket[t] \in liveSockets
  /\ Goto(t, "removeSocket")
  /\ UNCHANGED <<clientVars, inbox, socketVars, connVars, serverVars,
                 mainVars, pSocket, poolVars>>

RemoveEvent(t) ==
  /\ at[t] = "removeEvent" /\ pSocket[t] \in liveSockets
  /\ m_read_set' = m_read_set \ {m_socket[pSocket[t]]}
  /\ Goto(t, "removeSocket")
  /\ UNCHANGED <<clientVars, inbox, socketVars, connVars, m_socket_map,
                 m_conn_map, mainVars, pSocket, poolVars>>

RemoveBaseSocket(t) ==
  /\ at[t] = "removeSocket" /\ pSocket[t] \in liveSockets
  /\ m_socket_map' = [m_socket_map EXCEPT ![m_socket[pSocket[t]]] = NoConn]
  /\ Goto(t, "closesocket")
  /\ UNCHANGED <<clientVars, inbox, socketVars, connVars, m_conn_map,
                 m_read_set, mainVars, pSocket, poolVars>>

\* Whatever the handle names by now is closed.
CloseSocket(t) ==
  /\ at[t] = "closesocket" /\ pSocket[t] \in liveSockets
  /\ kernel' = [kernel EXCEPT ![m_socket[pSocket[t]]] = NoConn]
  /\ Goto(t, "delete")
  /\ UNCHANGED <<clientVars, inbox, accepted, liveSockets, m_socket,
                 connVars, serverVars, mainVars, pSocket, poolVars>>

\* Mutant: the object is not deleted.
DeleteSocket_Leaked(t) ==
  /\ at[t] = "delete" /\ pSocket[t] \in liveSockets
  /\ Goto(t, "removeConn")
  /\ UNCHANGED <<clientVars, inbox, socketVars, connVars, serverVars,
                 mainVars, pSocket, poolVars>>

DeleteSocket(t) ==
  /\ at[t] = "delete" /\ pSocket[t] \in liveSockets
  /\ liveSockets' = liveSockets \ {pSocket[t]}
  /\ Goto(t, "removeConn")
  /\ UNCHANGED <<clientVars, inbox, kernel, accepted, m_socket, connVars,
                 serverVars, mainVars, pSocket, poolVars>>

\* Mutant: the object is deleted but its entry stays in the map.
RemoveWgdConn_KeepsEntry(t) ==
  /\ at[t] = "removeConn"
  /\ liveConns' = liveConns \ {m_conn_map[m_socket[pSocket[t]]]}
  /\ Leave(t, Return(t))
  /\ UNCHANGED <<clientVars, inbox, socketVars, m_pBaseSocket, m_in_buf,
                 dealt, serverVars, mainVars, poolVars>>

\* Whatever connection the handle has by now is deleted.
RemoveWgdConn(t) ==
  /\ at[t] = "removeConn"
  /\ LET fd == m_socket[pSocket[t]]
     IN  /\ liveConns' = liveConns \ {m_conn_map[fd]}
         /\ m_conn_map' = [m_conn_map EXCEPT ![fd] = NoConn]
  /\ Leave(t, Return(t))
  /\ UNCHANGED <<clientVars, inbox, socketVars, m_pBaseSocket, m_in_buf,
                 dealt, m_socket_map, m_read_set, mainVars, poolVars>>

Close(t) ==
  \/ CloseFind(t) \/ RemoveEvent(t) \/ RemoveBaseSocket(t) \/ CloseSocket(t)
  \/ DeleteSocket(t) \/ RemoveWgdConn(t)

Main ==
  \/ StartFails \/ Listen \/ CopySets \/ Select \/ FindBaseSocket
  \/ \E w \in Threads : AddTask(w)
  \/ EndDispatch
  \/ \E c \in Conns, h \in Handles : Accept(c, h)
  \/ AddBaseSocket \/ AddEvent \/ OnConnect \/ AddWgdConn \/ EndAccept
  \/ OnRead \/ FindWgdConn \/ Recv \/ RecvError \/ RecvEndOfStream
  \/ ParseBuffer \/ Close(MainThread)
-----------------------------------------------------------------------------
(* A worker thread: the pool's steps around CDispatchTask::run.            *)

\* FindBaseSocket of the task's handle.
RunTask(w) ==
  /\ pc[w] = "run" /\ pTask[w] # Pool!NoTask /\ at[w] = "idle"
  /\ LET s == m_socket_map[m_nFd[pTask[w]]]
     IN  /\ pSocket' = [pSocket EXCEPT ![w] = s]
         /\ Goto(w, IF s = NoConn THEN "done" ELSE "onClose")
  /\ UNCHANGED <<clientVars, inbox, socketVars, connVars, serverVars,
                 mainVars, poolVars>>

\* CBaseSocket::OnClose passes its handle to CWgdServer::OnClose.
OnClose(w) ==
  /\ at[w] = "onClose" /\ pSocket[w] \in liveSockets
  /\ Goto(w, "find")
  /\ UNCHANGED <<clientVars, inbox, socketVars, connVars, serverVars,
                 mainVars, pSocket, poolVars>>

\* run() returns and the task is deleted.
EndTask(w) ==
  /\ pTask[w] = Pool!NoTask \/ at[w] = "done"
  /\ Pool!Run(w)
  /\ Goto(w, "idle")
  /\ UNCHANGED <<clientVars, inbox, socketVars, connVars, serverVars,
                 mainVars, pSocket, m_nFd>>

\* The worker waits for its event and takes a task.
GetTask(w) ==
  /\ Pool!Wait(w) \/ Pool!Reset(w) \/ Pool!Take(w)
  /\ UNCHANGED <<clientVars, inbox, socketVars, connVars, serverVars,
                 mainVars, at, pSocket, m_nFd>>

Worker(w) == GetTask(w) \/ RunTask(w) \/ OnClose(w) \/ Close(w) \/ EndTask(w)
-----------------------------------------------------------------------------
Next ==
  \/ \E c \in Conns : Client(c)
  \/ Main
  \/ \E w \in Threads : Worker(w)

Spec == Init /\ [][Next]_vars
-----------------------------------------------------------------------------
TypeOK ==
  /\ client \in [Conns -> {"idle", "up", "fin", "rst"}]
  /\ sent \in [Conns -> Nat] /\ inbox \in [Conns -> Nat]
  /\ urgent \subseteq Conns
  /\ kernel \in [Handles -> Sockets \cup {NoConn}]
  /\ accepted \subseteq Conns
  /\ liveSockets \subseteq Sockets /\ liveConns \subseteq Conns
  /\ m_socket \in [Sockets -> Handles \cup {NoHandle}]
  /\ m_pBaseSocket \in [Conns -> Sockets \cup {NoConn}]
  /\ m_in_buf \in [Conns -> Nat] /\ dealt \in [Conns -> Nat]
  /\ m_socket_map \in [Handles -> Sockets \cup {NoConn}]
  /\ m_conn_map \in [Handles -> Conns \cup {NoConn}]
  /\ m_read_set \subseteq Handles
  /\ read_set \subseteq Handles /\ excep_set \subseteq Handles
  /\ at \in [AllThreads -> {"start", "exit", "loop", "select", "dispatch",
               "onRead", "accept", "addSocket", "addEvent", "onConnect",
               "addConn", "findConn", "recv", "parse", "idle", "onClose",
               "find", "removeEvent", "removeSocket", "closesocket", "delete",
               "removeConn", "done"}]
  /\ pSocket \in [AllThreads -> Sockets \cup {NoConn}]
  /\ pConn \in Conns \cup {NoConn}
  /\ m_nFd \in Seq(Handles) /\ Len(m_nFd) = added
  /\ Pool!TypeOK

\* Handles that some task has named.
Tainted == {m_nFd[k] : k \in DOMAIN m_nFd}

\* The main thread is about to use the objects it found.
MainHolds == at[MainThread] \in {"onRead", "findConn", "recv", "parse"}

\* Only a handle an exception task has named can leave the main thread with
\* a pointer to a deleted object or with no connection at all: whatever the
\* workers delete, and however handles are reused, a connection on any other
\* handle is found alive.
StaleOnlyIfTainted ==
  MainHolds /\ m_socket[pSocket[MainThread]] \notin Tainted =>
    /\ pSocket[MainThread] \in liveSockets
    /\ at[MainThread] \in {"recv", "parse"} =>
         /\ ConnUsable
         /\ m_pBaseSocket[pConn] = pSocket[MainThread]
    /\ at[MainThread] = "findConn" =>
         m_conn_map[m_socket[pSocket[MainThread]]] # NoConn

\* The server closes a connection only when its client hung up or sent
\* out-of-band data, or when a task named its handle: late tasks reach
\* nobody but a later owner of the handle they name.
HealthyNeverClosed ==
  \A c \in accepted :
    kernel[m_socket[c]] # c =>
      client[c] \in {"fin", "rst"} \/ m_socket[c] \in Tainted

\* A closed handle, which makes select() fail for every connection, stays in
\* the set only if a task named it: its own, or that of an earlier owner.
PolledHandlesOpen ==
  \A h \in m_read_set : kernel[h] = NoConn => h \in Tainted

\* Messages of a live client are in the kernel, in the buffer or dealt with,
\* each once, as long as no task named its handle.
MessagesConserved ==
  \A c \in Conns :
    client[c] = "up" /\ (c \in accepted => m_socket[c] \notin Tainted) =>
      sent[c] = inbox[c] + m_in_buf[c] + dealt[c]

\* Every OnRead of a connection that has data deals with exactly one message,
\* its own or one an earlier OnRead left behind: ParseBuffer runs once, so of
\* messages that came together the later ones wait, each for an OnRead of its
\* own.  A reset between FIONREAD and recv() may leave nothing to deal with.
ReadsDealWithOne ==
  [][at[MainThread] = "parse" /\ at'[MainThread] # "parse"
       /\ m_socket[pSocket[MainThread]] \notin Tainted
       /\ client[pConn] # "rst"
     => dealt'[pConn] = dealt[pConn] + 1]_vars

\* A connection whose handle was closed keeps neither of its objects once the
\* thread that closed it is through, unless a task named the handle.
CloseFreesBoth ==
  \A c \in accepted :
    kernel[m_socket[c]] # c /\ m_socket[c] \notin Tainted =>
      \/ c \notin liveSockets \cup liveConns
      \/ \E t \in AllThreads :
           pSocket[t] = c /\ at[t] \in {"delete", "removeConn"}
=============================================================================
