-------------------------- MODULE WgdServerV1Proofs --------------------------
(***************************************************************************)
(* Theorems about WgdServerV1, for any connections, handles and workers.   *)
(*                                                                         *)
(* What the workers do, they do to handles some task has named; on every   *)
(* other handle the main thread is alone, and the maps, the set it polls,  *)
(* the kernel and the objects agree up to the step it is at.               *)
(***************************************************************************)
EXTENDS WgdServerV1, SequenceTheorems, TLAPS

USE ServerV1Assumption

Main0 == {"start", "exit"}
Accepting == {"addSocket", "addEvent", "onConnect", "addConn"}
Holding == {"onRead", "findConn", "recv", "parse"}
Closing == {"find", "removeEvent", "removeSocket", "closesocket", "delete",
            "removeConn"}

-----------------------------------------------------------------------------
(* What holds whatever the workers do.                                     *)

\* Tasks in hand or in a list were added.
TasksAdded ==
  \A w \in Threads :
    /\ pTask[w] \in 0 .. added
    /\ \A k \in DOMAIN m_task_list[w] : m_task_list[w][k] \in 1 .. added

\* A socket keeps the handle it got, and no connection gets the listener's.
Handed ==
  /\ \A c \in accepted : m_socket[c] \in Handles \ {ListenHandle}
  /\ m_socket[Listener] \in {ListenHandle, NoHandle}

\* The kernel and both maps name sockets and connections by their handles.
Named ==
  \A h \in Handles :
    /\ kernel[h] # NoConn =>
         kernel[h] \in accepted \cup {Listener} /\ m_socket[kernel[h]] = h
    /\ m_socket_map[h] # NoConn =>
         /\ m_socket_map[h] \in accepted \cup {Listener}
         /\ m_socket[m_socket_map[h]] = h
    /\ m_conn_map[h] # NoConn =>
         m_conn_map[h] \in accepted /\ m_socket[m_conn_map[h]] = h

\* A connection's socket object has the connection's handle.
Based ==
  \A c \in Conns :
    m_pBaseSocket[c] # NoConn =>
      /\ c \in accepted /\ m_pBaseSocket[c] \in accepted
      /\ m_socket[m_pBaseSocket[c]] = m_socket[c]

\* The listening socket is never closed and never in a task.
Listening ==
  /\ IF at[MainThread] \in Main0
     THEN accepted = {} /\ m_read_set = {}
     ELSE kernel[ListenHandle] = Listener
  /\ at[MainThread] # "select" => ListenHandle \notin excep_set
  /\ ListenHandle \notin Tainted

\* A worker's socket has the handle of a task.
WorkersTainted ==
  \A w \in Threads :
    at[w] \notin {"idle", "done"} =>
      /\ at[w] \in Closing \cup {"onClose"}
      /\ pSocket[w] \in accepted /\ m_socket[pSocket[w]] \in Tainted

\* What the main thread works with.
MainPlace ==
  /\ at[MainThread] \in Main0 \cup Accepting \cup Holding \cup Closing
                          \cup {"loop", "select", "dispatch", "accept"}
  /\ at[MainThread] \in Accepting => pConn \in accepted
  /\ at[MainThread] \in Holding \cup Closing =>
       /\ pSocket[MainThread] \in accepted
       /\ m_socket[pSocket[MainThread]] \notin read_set
  /\ at[MainThread] \in {"recv", "parse"} /\ pConn # NoConn =>
       /\ pConn \in accepted
       /\ m_socket[pConn] = m_socket[pSocket[MainThread]]

Registry ==
  /\ TypeOK /\ TasksAdded /\ Handed /\ Named /\ Based
  /\ Listening /\ WorkersTainted /\ MainPlace

-----------------------------------------------------------------------------
(* What holds of a handle no task has named.                               *)

Clean == Handles \ (Tainted \cup {ListenHandle})

\* The main thread is accepting c, or closing it, and at one of the places.
AcceptingAt(c, places) == pConn = c /\ at[MainThread] \in places
ClosingAt(c, places) == pSocket[MainThread] = c /\ at[MainThread] \in places

\* The socket object, the connection object, the maps and the polled set of
\* an open handle, as far as the main thread has got with it.
OpenClean ==
  \A h \in Clean :
    kernel[h] # NoConn =>
      LET c == kernel[h]
      IN  /\ c \in liveSockets
          /\ m_socket_map[h] =
               IF AcceptingAt(c, {"addSocket"}) \/ ClosingAt(c, {"closesocket"})
               THEN NoConn ELSE c
          /\ h \in m_read_set <=>
               ~ (\/ AcceptingAt(c, {"addSocket", "addEvent"})
                  \/ ClosingAt(c, {"removeSocket", "closesocket"}))
          /\ \/ AcceptingAt(c, {"addSocket", "addEvent", "onConnect"})
             \/ c \in liveConns /\ m_pBaseSocket[c] = c
          /\ m_conn_map[h] = IF AcceptingAt(c, Accepting) THEN NoConn ELSE c

\* Nothing is left of a handle that is not open, but for the connection that
\* is being deleted.
FreeClean ==
  \A h \in Clean :
    kernel[h] = NoConn =>
      /\ m_socket_map[h] = NoConn /\ h \notin m_read_set
      /\ m_conn_map[h] # NoConn =>
           ClosingAt(m_conn_map[h], {"delete", "removeConn"})

\* The main thread's handle, its socket and its connection belong together.
MainClean ==
  /\ at[MainThread] \in Accepting /\ m_socket[pConn] \in Clean =>
       kernel[m_socket[pConn]] = pConn /\ m_socket[pConn] \notin read_set
  /\ at[MainThread] \in Holding \cup Closing
       /\ m_socket[pSocket[MainThread]] \in Clean =>
       kernel[m_socket[pSocket[MainThread]]] =
         IF at[MainThread] \in {"delete", "removeConn"} THEN NoConn
         ELSE pSocket[MainThread]
  /\ at[MainThread] \in {"recv", "parse"}
       /\ m_socket[pSocket[MainThread]] \in Clean =>
       pConn = pSocket[MainThread]
  /\ at[MainThread] \in {"delete", "removeConn"}
       /\ m_socket[pSocket[MainThread]] \in Clean =>
       m_conn_map[m_socket[pSocket[MainThread]]] = pSocket[MainThread]
  /\ at[MainThread] = "removeConn" => pSocket[MainThread] \notin liveSockets

\* FIONREAD will find something, or the client hung up.
Ready(c) == inbox[c] > 0 \/ client[c] \in {"fin", "rst"}

\* Handles select() reported are open and ready until they are read, and what
\* the main thread closes has been hung up.
ReadyClean ==
  /\ \A h \in read_set \cap Clean :
       kernel[h] # NoConn /\ (at[MainThread] # "select" => Ready(kernel[h]))
  /\ at[MainThread] = "onRead" /\ m_socket[pSocket[MainThread]] \in Clean =>
       Ready(pSocket[MainThread])
  /\ at[MainThread] \in Closing /\ m_socket[pSocket[MainThread]] \in Clean =>
       client[pSocket[MainThread]] \in {"fin", "rst"}

CleanInv == OpenClean /\ FreeClean /\ MainClean /\ ReadyClean

\* A closed connection keeps neither object once the main thread is through.
Freed ==
  \A c \in accepted :
    m_socket[c] \in Clean /\ kernel[m_socket[c]] # c =>
      \/ c \notin liveSockets \cup liveConns
      \/ ClosingAt(c, {"delete", "removeConn"})

\* MessagesConserved, before the client connects and after it has closed, too.
Conserved ==
  \A c \in Conns :
    client[c] # "rst" /\ (c \in accepted => m_socket[c] \notin Tainted) =>
      sent[c] = inbox[c] + m_in_buf[c] + dealt[c]

\* What OnRead found, unless a reset discarded it, is in the kernel until
\* recv() takes it, and in the buffer when ParseBuffer is called.
Pending ==
  LET s == pSocket[MainThread]
  IN  m_socket[s] \in Clean /\ client[s] # "rst" =>
        /\ at[MainThread] = "findConn" => inbox[s] > 0
        /\ at[MainThread] = "recv" => inbox[s] + m_in_buf[s] > 0
        /\ at[MainThread] = "parse" => m_in_buf[s] > 0

IInv ==
  /\ Registry /\ CleanInv
  /\ HealthyNeverClosed /\ Freed /\ Conserved /\ Pending

-----------------------------------------------------------------------------
(* The registry, step by step.                                             *)

LEMMA RegistryInit == Init => Registry
BY DEF Init, Registry, TypeOK, TasksAdded, Handed, Named, Based, Listening,
   WorkersTainted, MainPlace, Tainted, Main0, Accepting, Holding, Closing,
   Sockets, AllThreads, Pool!Init, Pool!TypeOK, Pool!NoTask

\* Steps of the clients, and what the main thread reads and deals with, leave
\* the registry alone.
LEMMA RegistryFrame ==
  ASSUME Registry, TypeOK',
         UNCHANGED <<socketVars, liveConns, m_pBaseSocket, serverVars,
                     mainVars, at, pSocket, poolVars>>
  PROVE  Registry'
BY DEF Registry, TasksAdded, Handed, Named, Based, Listening, WorkersTainted,
   MainPlace, Tainted, socketVars, serverVars, mainVars, poolVars

\* A worker's socket keeps its handle, and the handle stays named; so only a
\* worker that goes on, or takes another socket, matters.
LEMMA WorkersStep ==
  ASSUME WorkersTainted, accepted \subseteq accepted',
         Tainted \subseteq Tainted',
         \A c \in accepted : m_socket'[c] = m_socket[c],
         \A w \in Threads :
           \/ at'[w] = at[w] /\ pSocket'[w] = pSocket[w]
           \/ at'[w] \in {"idle", "done"}
           \/ /\ at'[w] \in Closing \cup {"onClose"}
              /\ pSocket'[w] \in accepted /\ m_socket[pSocket'[w]] \in Tainted
  PROVE  WorkersTainted'
BY DEF WorkersTainted

LEMMA PoolFrame ==
  ASSUME Pool!TypeOK, UNCHANGED poolVars
  PROVE  Pool!TypeOK'
BY DEF Pool!TypeOK, poolVars

LEMMA TypeClient ==
  ASSUME Registry, NEW c \in Conns, Client(c)
  PROVE  TypeOK'
<1> USE DEF Registry, TypeOK, clientVars, socketVars, connVars, serverVars,
        mainVars, poolVars
<1>1. CASE Connect(c)
  BY <1>1, PoolFrame DEF Connect
<1>2. CASE Request(c)
  BY <1>2, PoolFrame, SMTT(30) DEF Request
<1>3. CASE SendUrgent(c)
  BY <1>3, PoolFrame DEF SendUrgent
<1>4. CASE HangUp(c)
  BY <1>4, PoolFrame DEF HangUp
<1> QED BY <1>1, <1>2, <1>3, <1>4 DEF Client

\* Who closes has a connection's socket, and a worker one whose handle a task
\* has named.
LEMMA CloseHolds ==
  ASSUME Registry, NEW t \in AllThreads, at[t] \in Closing
  PROVE  /\ pSocket[t] \in accepted
         /\ m_socket[pSocket[t]] \in Handles \ {ListenHandle}
         /\ t # MainThread => m_socket[pSocket[t]] \in Tainted
BY DEF Registry, Handed, WorkersTainted, MainPlace, AllThreads, Closing

LEMMA TypeClose ==
  ASSUME Registry, NEW t \in AllThreads, Close(t)
  PROVE  TypeOK'
<1> USE DEF Registry, TypeOK, clientVars, socketVars, connVars, serverVars,
        mainVars, poolVars, Goto, Leave
<1>1. CASE CloseFind(t)
  BY <1>1, PoolFrame, CloseHolds DEF CloseFind, Return, Closing
<1>2. CASE RemoveEvent(t)
  BY <1>2, PoolFrame DEF RemoveEvent
<1>3. CASE RemoveBaseSocket(t)
  BY <1>3, PoolFrame DEF RemoveBaseSocket
<1>4. CASE CloseSocket(t)
  BY <1>4, PoolFrame DEF CloseSocket
<1>5. CASE DeleteSocket(t)
  BY <1>5, PoolFrame DEF DeleteSocket
<1>6. CASE RemoveWgdConn(t)
  BY <1>6, PoolFrame DEF RemoveWgdConn, Return
<1> QED BY <1>1, <1>2, <1>3, <1>4, <1>5, <1>6 DEF Close
LEMMA TypeMain ==
  ASSUME Registry, Main
  PROVE  TypeOK'
<1> USE DEF Registry, TypeOK, clientVars, socketVars, connVars, serverVars,
        mainVars, poolVars, Goto, Leave, Sockets, AllThreads
<1>1. CASE StartFails
  BY <1>1, PoolFrame DEF StartFails
<1>2. CASE Listen
  BY <1>2, PoolFrame DEF Listen, Insert
<1>3. CASE CopySets
  BY <1>3, PoolFrame DEF CopySets
<1>4. CASE Select
  BY <1>4, PoolFrame DEF Select
<1>5. CASE FindBaseSocket
  BY <1>5, PoolFrame DEF FindBaseSocket
<1>6. ASSUME NEW w \in Threads, AddTask(w)
      PROVE  TypeOK'
  <2>1. Pool!TypeOK'
    BY <1>6 DEF AddTask, Pool!AddTask, Pool!TypeOK, Pool!NoTask
  <2> QED BY <1>6, <2>1 DEF AddTask, Pool!AddTask
<1>7. CASE EndDispatch
  BY <1>7, PoolFrame DEF EndDispatch
<1>8. ASSUME NEW c \in Conns, NEW h \in Handles, Accept(c, h)
      PROVE  TypeOK'
  BY <1>8, PoolFrame DEF Accept, Backlog
<1>9. CASE AddBaseSocket
  BY <1>9, PoolFrame DEF AddBaseSocket, Insert, MainPlace, Accepting, Handed
<1>10. CASE AddEvent
  BY <1>10, PoolFrame DEF AddEvent, MainPlace, Accepting, Handed
<1>11. CASE OnConnect
  BY <1>11, PoolFrame DEF OnConnect, MainPlace, Accepting, Handed
<1>12. CASE AddWgdConn
  BY <1>12, PoolFrame DEF AddWgdConn, Insert, MainPlace, Accepting, Handed
<1>13. CASE EndAccept
  BY <1>13, PoolFrame DEF EndAccept
<1>14. CASE OnRead
  BY <1>14, PoolFrame DEF OnRead, MainPlace, Holding, Handed
<1>15. CASE FindWgdConn
  BY <1>15, PoolFrame DEF FindWgdConn, MainPlace, Holding, Handed
<1>16. CASE Recv
  <2>1. Peer \in Conns /\ inbox[Peer] - 1 \in Nat
    BY <1>16 DEF Recv
  <2>2. inbox' = [inbox EXCEPT ![Peer] = inbox[Peer] - 1]
    BY <1>16 DEF Recv
  <2>3. inbox' \in [Conns -> Nat]
    BY <2>1, <2>2
  <2>4. m_in_buf' \in [Conns -> Nat]
    BY <1>16 DEF Recv, ConnUsable
  <2> QED BY <1>16, <2>3, <2>4, PoolFrame DEF Recv
<1>17. CASE RecvError
  BY <1>17, PoolFrame DEF RecvError
<1>18. CASE RecvEndOfStream
  BY <1>18, PoolFrame DEF RecvEndOfStream, vars
<1>19. CASE ParseBuffer
  <2>1. pConn \in Conns
    BY <1>19 DEF ParseBuffer, ConnUsable
  <2>2. m_in_buf' \in [Conns -> Nat] /\ dealt' \in [Conns -> Nat]
    <3>1. CASE m_in_buf[pConn] = 0
      BY <1>19, <3>1 DEF ParseBuffer
    <3>2. CASE m_in_buf[pConn] # 0
      <4>1. m_in_buf[pConn] - 1 \in Nat /\ dealt[pConn] + 1 \in Nat
        BY <2>1, <3>2
      <4>2. /\ dealt' = [dealt EXCEPT ![pConn] = dealt[pConn] + 1]
            /\ m_in_buf' = [m_in_buf EXCEPT ![pConn] = m_in_buf[pConn] - 1]
        BY <1>19, <3>2 DEF ParseBuffer
      <4> QED BY <4>1, <4>2
    <3> QED BY <3>1, <3>2
  <2> QED BY <1>19, <2>2, PoolFrame DEF ParseBuffer
<1>20. CASE Close(MainThread)
  BY <1>20, TypeClose DEF AllThreads
<1> QED BY <1>1, <1>2, <1>3, <1>4, <1>5, <1>6, <1>7, <1>8, <1>9, <1>10, <1>11,
        <1>12, <1>13, <1>14, <1>15, <1>16, <1>17, <1>18, <1>19, <1>20 DEF Main

LEMMA TypeWorker ==
  ASSUME Registry, NEW w \in Threads, Worker(w)
  PROVE  TypeOK'
<1> USE DEF Registry, TypeOK, clientVars, socketVars, connVars, serverVars,
        mainVars, poolVars, Goto, Leave, Sockets, AllThreads
<1>1. CASE RunTask(w)
  <2>1. m_nFd[pTask[w]] \in Handles
    BY <1>1 DEF RunTask, TasksAdded, Pool!NoTask
  <2> QED BY <1>1, <2>1, PoolFrame DEF RunTask
<1>2. CASE OnClose(w)
  BY <1>2, PoolFrame DEF OnClose
<1>3. CASE EndTask(w)
  <2>1. Pool!TypeOK'
    BY <1>3 DEF EndTask, Pool!Run, Pool!TypeOK, Pool!NoTask
  <2> QED BY <1>3, <2>1 DEF EndTask, Pool!Run
<1>4. CASE GetTask(w)
  <2>1. CASE Pool!Wait(w)
    <3>1. Pool!TypeOK'
      BY <2>1 DEF Pool!Wait, Pool!TypeOK, Pool!NoTask
    <3> QED BY <1>4, <2>1, <3>1 DEF GetTask, Pool!Wait
  <2>2. CASE Pool!Reset(w)
    <3>1. Pool!TypeOK'
      BY <2>2 DEF Pool!Reset, Pool!TypeOK, Pool!NoTask
    <3> QED BY <1>4, <2>2, <3>1 DEF GetTask, Pool!Reset
  <2>3. CASE Pool!Take(w)
    <3>1. Pool!TypeOK'
      <4>1. CASE m_task_list[w] = <<>>
        BY <2>3, <4>1 DEF Pool!Take, Pool!TypeOK, Pool!NoTask
      <4>2. CASE m_task_list[w] # <<>>
        <5>1. /\ Head(m_task_list[w]) \in Nat \ {0}
              /\ Tail(m_task_list[w]) \in Seq(Nat \ {0})
          BY <4>2 DEF Pool!TypeOK, Pool!NoTask
        <5>2. /\ m_task_list' =
                    [m_task_list EXCEPT ![w] = Tail(m_task_list[w])]
              /\ pTask' = [pTask EXCEPT ![w] = Head(m_task_list[w])]
              /\ pc' = [pc EXCEPT ![w] = "run"]
              /\ UNCHANGED <<added, m_hEvent, executed>>
          BY <2>3, <4>2 DEF Pool!Take
        <5> QED BY <5>1, <5>2 DEF Pool!TypeOK, Pool!NoTask
      <4> QED BY <4>1, <4>2
    <3> QED BY <1>4, <2>3, <3>1 DEF GetTask, Pool!Take
  <2> QED BY <1>4, <2>1, <2>2, <2>3 DEF GetTask
<1>5. CASE Close(w)
  BY <1>5, TypeClose DEF AllThreads
<1> QED BY <1>1, <1>2, <1>3, <1>4, <1>5 DEF Worker

LEMMA RegistryClient ==
  ASSUME Registry, NEW c \in Conns, Client(c)
  PROVE  Registry'
<1>1. TypeOK'
  BY TypeClient
<1> USE DEF Registry, MainPlace, clientVars, socketVars, connVars, serverVars,
        mainVars
<1>2. UNCHANGED <<socketVars, connVars, serverVars, mainVars, at, pSocket,
                  poolVars>>
  BY DEF Client, Connect, Request, SendUrgent, HangUp
<1> QED BY <1>1, <1>2, RegistryFrame

LEMMA RegistryMain ==
  ASSUME Registry, Main, ~Close(MainThread)
  PROVE  Registry'
<1>0. TypeOK'
  BY TypeMain
<1> USE DEF Registry, TypeOK, TasksAdded, Handed, Named, Based, Listening,
        MainPlace, Tainted, Main0, Accepting, Holding, Closing, Sockets,
        AllThreads, Goto, Leave, clientVars, socketVars, connVars, serverVars,
        mainVars, poolVars
<1>1. CASE StartFails
  <2>1. WorkersTainted'
    BY <1>1, WorkersStep DEF StartFails
  <2> QED BY <1>0, <1>1, <2>1 DEF StartFails
<1>2. CASE Listen
  <2>1. WorkersTainted'
    BY <1>2, WorkersStep DEF Listen
  <2> QED BY <1>0, <1>2, <2>1 DEF Listen, Insert
<1>3. CASE CopySets
  <2>1. WorkersTainted'
    BY <1>3, WorkersStep DEF CopySets
  <2> QED BY <1>0, <1>3, <2>1 DEF CopySets
<1>4. CASE Select
  <2>1. WorkersTainted'
    BY <1>4, WorkersStep DEF Select
  <2> QED BY <1>0, <1>4, <2>1 DEF Select
<1>5. CASE FindBaseSocket
  <2>1. WorkersTainted'
    BY <1>5, WorkersStep DEF FindBaseSocket
  <2> QED BY <1>0, <1>5, <2>1 DEF FindBaseSocket
<1>6. ASSUME NEW w \in Threads, AddTask(w)
      PROVE  Registry'
  <2>1. WorkersTainted'
    BY <1>6, WorkersStep DEF AddTask
  <2> QED BY <1>0, <1>6, <2>1, SMTT(30) DEF AddTask, Pool!AddTask
<1>7. CASE EndDispatch
  <2>1. WorkersTainted'
    BY <1>7, WorkersStep DEF EndDispatch
  <2> QED BY <1>0, <1>7, <2>1 DEF EndDispatch
<1>8. ASSUME NEW c \in Conns, NEW h \in Handles, Accept(c, h)
      PROVE  Registry'
  <2>1. WorkersTainted'
    BY <1>8, WorkersStep DEF Accept, Backlog
  <2> QED BY <1>0, <1>8, <2>1, SMTT(30) DEF Accept, Backlog
<1>9. CASE AddBaseSocket
  <2>1. WorkersTainted'
    BY <1>9, WorkersStep DEF AddBaseSocket
  <2> QED BY <1>0, <1>9, <2>1 DEF AddBaseSocket, Insert
<1>10. CASE AddEvent
  <2>1. WorkersTainted'
    BY <1>10, WorkersStep DEF AddEvent
  <2> QED BY <1>0, <1>10, <2>1 DEF AddEvent
<1>11. CASE OnConnect
  <2>1. WorkersTainted'
    BY <1>11, WorkersStep DEF OnConnect
  <2> QED BY <1>0, <1>11, <2>1 DEF OnConnect
<1>12. CASE AddWgdConn
  <2>1. WorkersTainted'
    BY <1>12, WorkersStep DEF AddWgdConn
  <2> QED BY <1>0, <1>12, <2>1 DEF AddWgdConn, Insert
<1>13. CASE EndAccept
  <2>1. WorkersTainted'
    BY <1>13, WorkersStep DEF EndAccept
  <2> QED BY <1>0, <1>13, <2>1 DEF EndAccept
<1>14. CASE OnRead
  <2>1. WorkersTainted'
    BY <1>14, WorkersStep DEF OnRead
  <2> QED BY <1>0, <1>14, <2>1 DEF OnRead
<1>15. CASE FindWgdConn
  <2>1. WorkersTainted'
    BY <1>15, WorkersStep DEF FindWgdConn
  <2> QED BY <1>0, <1>15, <2>1 DEF FindWgdConn
<1>16. CASE Recv
  BY <1>0, <1>16, RegistryFrame DEF Recv
<1>17. CASE RecvError
  <2>1. WorkersTainted'
    BY <1>17, WorkersStep DEF RecvError
  <2> QED BY <1>0, <1>17, <2>1 DEF RecvError, ConnUsable
<1>18. CASE RecvEndOfStream
  <2>1. WorkersTainted'
    BY <1>18, WorkersStep DEF RecvEndOfStream, vars
  <2> QED BY <1>0, <1>18, <2>1 DEF RecvEndOfStream, vars
<1>19. CASE ParseBuffer
  <2>1. WorkersTainted'
    BY <1>19, WorkersStep DEF ParseBuffer
  <2> QED BY <1>0, <1>19, <2>1, SMTT(30) DEF ParseBuffer, ConnUsable
<1> QED BY <1>1, <1>2, <1>3, <1>4, <1>5, <1>6, <1>7, <1>8, <1>9, <1>10, <1>11,
        <1>12, <1>13, <1>14, <1>15, <1>16, <1>17, <1>18, <1>19 DEF Main

LEMMA RegistryClose ==
  ASSUME Registry, NEW t \in AllThreads, Close(t)
  PROVE  Registry'
<1>0. TypeOK'
  BY TypeClose
<1> USE DEF Registry, TypeOK, TasksAdded, Handed, Named, Based, Listening,
        MainPlace, Tainted, Main0, Accepting, Holding, Closing, Sockets,
        AllThreads, Goto, Leave, clientVars, socketVars, connVars, serverVars,
        mainVars, poolVars
<1>1. CASE CloseFind(t)
  <2>1. /\ pSocket[t] \in accepted
        /\ m_socket[pSocket[t]] \in Handles \ {ListenHandle}
        /\ t # MainThread => m_socket[pSocket[t]] \in Tainted
    BY <1>1, CloseHolds DEF CloseFind
  <2>2. WorkersTainted'
    BY <1>1, <2>1, WorkersStep DEF CloseFind, Return
  <2> QED BY <1>0, <1>1, <2>1, <2>2, SMTT(30) DEF CloseFind, Return
<1>2. CASE RemoveEvent(t)
  <2>1. /\ pSocket[t] \in accepted
        /\ m_socket[pSocket[t]] \in Handles \ {ListenHandle}
        /\ t # MainThread => m_socket[pSocket[t]] \in Tainted
    BY <1>2, CloseHolds DEF RemoveEvent
  <2>2. WorkersTainted'
    BY <1>2, <2>1, WorkersStep DEF RemoveEvent
  <2> QED BY <1>0, <1>2, <2>1, <2>2 DEF RemoveEvent
<1>3. CASE RemoveBaseSocket(t)
  <2>1. /\ pSocket[t] \in accepted
        /\ m_socket[pSocket[t]] \in Handles \ {ListenHandle}
        /\ t # MainThread => m_socket[pSocket[t]] \in Tainted
    BY <1>3, CloseHolds DEF RemoveBaseSocket
  <2>2. WorkersTainted'
    BY <1>3, <2>1, WorkersStep DEF RemoveBaseSocket
  <2>3. TasksAdded' /\ Handed' /\ Based' /\ Listening' /\ MainPlace'
    BY <1>3, <2>1 DEF RemoveBaseSocket
  <2>4. Named'
    BY <1>3, <2>1 DEF RemoveBaseSocket
  <2> QED BY <1>0, <2>2, <2>3, <2>4
<1>4. CASE CloseSocket(t)
  <2>1. /\ pSocket[t] \in accepted
        /\ m_socket[pSocket[t]] \in Handles \ {ListenHandle}
        /\ t # MainThread => m_socket[pSocket[t]] \in Tainted
    BY <1>4, CloseHolds DEF CloseSocket
  <2>2. WorkersTainted'
    BY <1>4, <2>1, WorkersStep DEF CloseSocket
  <2> QED BY <1>0, <1>4, <2>1, <2>2, SMTT(30) DEF CloseSocket
<1>5. CASE DeleteSocket(t)
  <2>1. /\ pSocket[t] \in accepted
        /\ m_socket[pSocket[t]] \in Handles \ {ListenHandle}
        /\ t # MainThread => m_socket[pSocket[t]] \in Tainted
    BY <1>5, CloseHolds DEF DeleteSocket
  <2>2. WorkersTainted'
    BY <1>5, <2>1, WorkersStep DEF DeleteSocket
  <2> QED BY <1>0, <1>5, <2>1, <2>2, SMTT(30) DEF DeleteSocket
<1>6. CASE RemoveWgdConn(t)
  <2>1. /\ pSocket[t] \in accepted
        /\ m_socket[pSocket[t]] \in Handles \ {ListenHandle}
        /\ t # MainThread => m_socket[pSocket[t]] \in Tainted
    BY <1>6, CloseHolds DEF RemoveWgdConn
  <2>2. WorkersTainted'
    BY <1>6, <2>1, WorkersStep DEF RemoveWgdConn, Return
  <2> QED BY <1>0, <1>6, <2>1, <2>2, SMTT(30) DEF RemoveWgdConn, Return
<1> QED BY <1>1, <1>2, <1>3, <1>4, <1>5, <1>6 DEF Close

LEMMA RegistryWorker ==
  ASSUME Registry, NEW w \in Threads, Worker(w)
  PROVE  Registry'
<1>0. TypeOK'
  BY TypeWorker
<1> USE DEF Registry, TypeOK, TasksAdded, Handed, Named, Based, Listening,
        MainPlace, Tainted, Main0, Accepting, Holding, Closing, Sockets,
        AllThreads, Goto, Leave, clientVars, socketVars, connVars, serverVars,
        mainVars, poolVars
<1>1. CASE RunTask(w)
  <2>0. m_nFd[pTask[w]] \in Tainted
    BY <1>1 DEF RunTask, Pool!NoTask
  <2>1. WorkersTainted'
    BY <1>1, <2>0, WorkersStep DEF RunTask, WorkersTainted
  <2> QED BY <1>0, <1>1, <2>1 DEF RunTask
<1>2. CASE OnClose(w)
  <2>1. WorkersTainted'
    BY <1>2, WorkersStep, SMTT(30) DEF OnClose, WorkersTainted
  <2> QED BY <1>0, <1>2, <2>1 DEF OnClose
<1>3. CASE EndTask(w)
  <2>1. WorkersTainted'
    BY <1>3, WorkersStep DEF EndTask, Pool!Run, WorkersTainted
  <2>2. TasksAdded'
    BY <1>3 DEF EndTask, Pool!Run, Pool!TypeOK, Pool!NoTask
  <2> QED BY <1>0, <1>3, <2>1, <2>2 DEF EndTask, Pool!Run
<1>4. CASE GetTask(w)
  <2>1. WorkersTainted'
    BY <1>4, WorkersStep DEF GetTask, Pool!Wait, Pool!Reset, Pool!Take
  <2>2. TasksAdded'
    <3>1. CASE Pool!Wait(w) \/ Pool!Reset(w)
      BY <1>4, <3>1 DEF GetTask, Pool!Wait, Pool!Reset
    <3>2. CASE Pool!Take(w)
      <4>1. CASE m_task_list[w] = <<>>
        <5>1. /\ UNCHANGED <<m_task_list, added>>
              /\ pTask' = [pTask EXCEPT ![w] = 0]
          BY <3>2, <4>1 DEF Pool!Take, Pool!NoTask
        <5> QED BY <5>1 DEF Pool!TypeOK
      <4>2. CASE m_task_list[w] # <<>>
        <5> DEFINE l == m_task_list[w]
        <5>1. l \in Seq(Nat \ {0}) /\ l # <<>>
          BY <4>2 DEF Pool!TypeOK, Pool!NoTask
        <5>2. /\ Head(l) = l[1] /\ 1 \in DOMAIN l
              /\ \A k \in DOMAIN Tail(l) :
                   Tail(l)[k] = l[k+1] /\ k+1 \in DOMAIN l
          BY <5>1, SMTT(30)
        <5>3. /\ m_task_list' = [m_task_list EXCEPT ![w] = Tail(l)]
              /\ pTask' = [pTask EXCEPT ![w] = Head(l)]
              /\ added' = added
          BY <3>2, <4>2 DEF Pool!Take
        <5> QED BY <5>2, <5>3, SMTT(30) DEF Pool!TypeOK
      <4> QED BY <4>1, <4>2
    <3> QED BY <1>4, <3>1, <3>2 DEF GetTask
  <2> QED BY <1>0, <1>4, <2>1, <2>2, SMTT(30) DEF GetTask
<1>5. CASE Close(w)
  BY <1>5, RegistryClose DEF AllThreads
<1> QED BY <1>1, <1>2, <1>3, <1>4, <1>5 DEF Worker

LEMMA RegistryStep == Registry /\ [Next]_vars => Registry'
<1> SUFFICES ASSUME Registry, [Next]_vars
             PROVE  Registry'
  OBVIOUS
<1>1. CASE UNCHANGED vars
  BY <1>1 DEF vars, Registry, TypeOK, TasksAdded, Handed, Named, Based,
     Listening, WorkersTainted, MainPlace, Tainted, clientVars, socketVars,
     connVars, serverVars, mainVars, poolVars, Pool!TypeOK
<1>2. CASE Close(MainThread)
  BY <1>2, RegistryClose DEF AllThreads
<1> QED BY <1>1, <1>2, RegistryClient, RegistryMain, RegistryWorker DEF Next
-----------------------------------------------------------------------------
(* Clean handles, step by step.                                            *)

LEMMA CleanOwners ==
  ASSUME Registry, NEW h \in Clean
  PROVE  /\ h \in Handles /\ h # ListenHandle /\ h \notin Tainted
         /\ kernel[h] # NoConn => kernel[h] \in accepted
         /\ m_socket_map[h] # NoConn => m_socket_map[h] \in accepted
BY DEF Registry, Handed, Named, Clean

\* Clean handles fare as before when nothing happens to the main thread, to
\* their entries or to their connections, but that clients send or hang up.
LEMMA CleanFrame ==
  ASSUME Registry, CleanInv,
         UNCHANGED <<at[MainThread], pSocket[MainThread], pConn, read_set,
                     accepted, m_socket, m_pBaseSocket, m_nFd>>,
         \A h \in Clean :
           /\ UNCHANGED <<kernel[h], m_socket_map[h], m_conn_map[h]>>
           /\ h \in m_read_set' <=> h \in m_read_set,
         \A c \in accepted :
           m_socket[c] \in Clean =>
             /\ c \in liveSockets' <=> c \in liveSockets
             /\ c \in liveConns' <=> c \in liveConns,
         liveSockets' \subseteq liveSockets,
         \A c \in Conns : /\ Ready(c) => Ready(c)'
                          /\ client[c] \in {"fin", "rst"} =>
                               client'[c] = client[c]
  PROVE  CleanInv'
<1> USE DEF Registry, Named, Listening, MainPlace, Clean, Tainted
<1>1. Clean' = Clean
  OBVIOUS
<1> HIDE DEF Clean
<1>2. OpenClean'
  BY <1>1 DEF CleanInv, OpenClean, AcceptingAt, ClosingAt, Clean
<1>3. FreeClean'
  BY <1>1 DEF CleanInv, FreeClean, ClosingAt, Clean
<1>4. MainClean'
  BY <1>1 DEF CleanInv, MainClean, Clean
<1>5. ReadyClean'
  <2> USE DEF CleanInv, ReadyClean
  <2>1. \A h \in read_set \cap Clean :
          kernel[h] \in Conns /\ kernel'[h] = kernel[h]
    BY CleanOwners DEF TypeOK
  <2>2. at[MainThread] \in Holding \cup Closing => pSocket[MainThread] \in Conns
    BY DEF TypeOK
  <2> HIDE DEF Ready
  <2>3. (\A h \in read_set \cap Clean :
           /\ kernel[h] # NoConn
           /\ at[MainThread] # "select" => Ready(kernel[h]))'
    BY <1>1, <2>1 DEF Ready
  <2> QED BY <1>1, <2>2, <2>3 DEF Holding, Closing, Ready
<1> QED BY <1>2, <1>3, <1>4, <1>5 DEF CleanInv

LEMMA CleanClient ==
  ASSUME Registry, CleanInv, NEW c \in Conns, Client(c)
  PROVE  CleanInv'
<1>1. UNCHANGED <<socketVars, connVars, serverVars, mainVars, at, pSocket,
                  poolVars>>
  BY DEF Client, Connect, Request, SendUrgent, HangUp
<1>2. \A d \in Conns : /\ Ready(d) => Ready(d)'
                       /\ client[d] \in {"fin", "rst"} => client'[d] = client[d]
  <2> USE DEF Registry, TypeOK, Ready
  <2>1. CASE Connect(c)
    BY <2>1 DEF Connect
  <2>2. CASE Request(c)
    BY <2>2 DEF Request
  <2>3. CASE SendUrgent(c)
    BY <2>3 DEF SendUrgent
  <2>4. CASE HangUp(c)
    BY <2>4 DEF HangUp
  <2> QED BY <2>1, <2>2, <2>3, <2>4 DEF Client
<1> QED BY <1>1, <1>2, CleanFrame
        DEF socketVars, connVars, serverVars, mainVars, poolVars

\* A worker leaves clean handles, their objects and the main thread alone.
LEMMA WorkerFrame ==
  ASSUME Registry, NEW w \in Threads, Worker(w)
  PROVE  /\ UNCHANGED <<clientVars, inbox, accepted, m_socket, m_pBaseSocket,
                       m_in_buf, dealt, mainVars, m_nFd, at[MainThread],
                       pSocket[MainThread]>>
         /\ \A h \in Clean :
              /\ UNCHANGED <<kernel[h], m_socket_map[h], m_conn_map[h]>>
              /\ h \in m_read_set' <=> h \in m_read_set
         /\ \A c \in accepted :
              m_socket[c] \in Clean =>
                /\ c \in liveSockets' <=> c \in liveSockets
                /\ c \in liveConns' <=> c \in liveConns
         /\ liveSockets' \subseteq liveSockets
<1> USE DEF clientVars, socketVars, connVars, serverVars, mainVars, poolVars,
            Goto, Leave
<1>0. /\ w # MainThread /\ w \in AllThreads /\ MainThread \in AllThreads
      /\ at = [t \in AllThreads |-> at[t]]
      /\ pSocket = [t \in AllThreads |-> pSocket[t]]
  BY DEF Registry, TypeOK, AllThreads
<1>1. CASE RunTask(w) \/ OnClose(w) \/ EndTask(w) \/ GetTask(w)
  BY <1>0, <1>1 DEF RunTask, OnClose, EndTask, GetTask
<1>2. CASE Close(w)
  <2> DEFINE h == m_socket[pSocket[w]]
  <2>1. /\ UNCHANGED <<clientVars, inbox, accepted, m_socket, m_pBaseSocket,
                       m_in_buf, dealt, mainVars, m_nFd, at[MainThread],
                       pSocket[MainThread]>>
        /\ at[w] \in Closing
    BY <1>0, <1>2 DEF Close, CloseFind, RemoveEvent, RemoveBaseSocket,
       CloseSocket, DeleteSocket, RemoveWgdConn, Closing
  <2>2. pSocket[w] \in accepted /\ h \in Tainted /\ h \in Handles
    BY <1>0, <2>1, CloseHolds
  <2>3. \A g \in Clean :
          /\ UNCHANGED <<kernel[g], m_socket_map[g], m_conn_map[g]>>
          /\ g \in m_read_set' <=> g \in m_read_set
    <3>1. \A g \in Clean : g # h /\ g \in Handles
      BY <2>2 DEF Clean
    <3>2. /\ kernel' = kernel \/ kernel' = [kernel EXCEPT ![h] = NoConn]
          /\ m_socket_map' = m_socket_map
               \/ m_socket_map' = [m_socket_map EXCEPT ![h] = NoConn]
          /\ m_conn_map' = m_conn_map
               \/ m_conn_map' = [m_conn_map EXCEPT ![h] = NoConn]
          /\ m_read_set' = m_read_set \/ m_read_set' = m_read_set \ {h}
      BY <1>2 DEF Close, CloseFind, RemoveEvent, RemoveBaseSocket,
         CloseSocket, DeleteSocket, RemoveWgdConn
    <3> QED BY <3>1, <3>2 DEF Registry, TypeOK
  <2>4. /\ \/ liveSockets' = liveSockets
           \/ liveSockets' = liveSockets \ {pSocket[w]}
        /\ liveConns' = liveConns \/ liveConns' = liveConns \ {m_conn_map[h]}
    BY <1>2 DEF Close, CloseFind, RemoveEvent, RemoveBaseSocket,
       CloseSocket, DeleteSocket, RemoveWgdConn
  <2>5. \A c \in accepted :
          m_socket[c] \in Clean =>
            /\ c \in liveSockets' <=> c \in liveSockets
            /\ c \in liveConns' <=> c \in liveConns
    <3> SUFFICES ASSUME NEW c \in accepted, m_socket[c] \in Clean
                 PROVE  /\ c \in liveSockets' <=> c \in liveSockets
                        /\ c \in liveConns' <=> c \in liveConns
      OBVIOUS
    <3>1. c # pSocket[w]
      BY <2>2 DEF Clean
    <3>2. c # m_conn_map[h]
      <4>1. c # NoConn /\ m_socket[c] # h
        BY <2>2 DEF Clean, Registry, TypeOK
      <4> QED BY <2>2, <4>1 DEF Registry, Named
    <3> QED BY <2>4, <3>1, <3>2
  <2> QED BY <2>1, <2>3, <2>4, <2>5
<1> QED BY <1>1, <1>2 DEF Worker

LEMMA CleanWorker ==
  ASSUME Registry, CleanInv, NEW w \in Threads, Worker(w)
  PROVE  CleanInv'
BY WorkerFrame, CleanFrame DEF Ready, clientVars, mainVars

LEMMA CleanMain ==
  ASSUME Registry, CleanInv, Main, ~Close(MainThread)
  PROVE  CleanInv'
<1> USE DEF Registry, TypeOK, Handed, Named, Listening, MainPlace, Tainted,
        Clean, CleanInv, OpenClean, FreeClean, MainClean, ReadyClean, Ready,
        AcceptingAt, ClosingAt, Main0, Accepting, Holding, Closing, Sockets,
        AllThreads, Goto, Leave, clientVars, socketVars, connVars, serverVars,
        mainVars, poolVars
<1>1. CASE StartFails
  BY <1>1 DEF StartFails
<1>2. CASE Listen
  BY <1>2 DEF Listen, Insert
<1>3. CASE CopySets
  BY <1>3 DEF CopySets
<1>4. CASE Select
  BY <1>4 DEF Select, Readable
<1>5. CASE FindBaseSocket
  <2> PICK fd \in read_set :
        /\ read_set' = read_set \ {fd}
        /\ pSocket' = [pSocket EXCEPT ![MainThread] = m_socket_map[fd]]
        /\ at' = [at EXCEPT ![MainThread] =
                   CASE m_socket_map[fd] = NoConn -> "dispatch"
                     [] m_socket_map[fd] = Listener -> "accept"
                     [] OTHER -> "onRead"]
    BY <1>5 DEF FindBaseSocket
  <2> DEFINE s == m_socket_map[fd]
  <2>1. /\ UNCHANGED <<clientVars, inbox, socketVars, connVars, serverVars,
                       excep_set, pConn, poolVars>>
        /\ at[MainThread] = "dispatch"
    BY <1>5 DEF FindBaseSocket
  <2>2. at'[MainThread] \in {"dispatch", "accept", "onRead"}
    OBVIOUS
  <2>3. at'[MainThread] = "onRead" => s # NoConn /\ s # Listener
    OBVIOUS
  <2>4. fd \in Clean /\ s # NoConn => s = kernel[fd] /\ Ready(s)
    BY <2>1
  <2> HIDE DEF s
  <2>5. OpenClean' /\ FreeClean'
    BY <2>1, <2>2
  <2>6. ReadyClean' /\ MainClean'
    BY <2>1, <2>2, <2>3, <2>4 DEF s
  <2> QED BY <2>5, <2>6
<1>6. ASSUME NEW w \in Threads, AddTask(w)
      PROVE  CleanInv'
  BY <1>6 DEF AddTask, Pool!AddTask
<1>7. CASE EndDispatch
  BY <1>7 DEF EndDispatch
<1>8. ASSUME NEW c \in Conns, NEW h \in Handles, Accept(c, h)
      PROVE  CleanInv'
  BY <1>8, SMTT(30) DEF Accept, Backlog
<1>9. CASE AddBaseSocket
  BY <1>9 DEF AddBaseSocket, Insert
<1>10. CASE AddEvent
  BY <1>10 DEF AddEvent
<1>11. CASE OnConnect
  BY <1>11 DEF OnConnect, Based
<1>12. CASE AddWgdConn
  BY <1>12 DEF AddWgdConn, Insert
<1>13. CASE EndAccept
  BY <1>13 DEF EndAccept
<1>14. CASE OnRead
  BY <1>14 DEF OnRead
<1>15. CASE FindWgdConn
  <2> DEFINE h == m_socket[pSocket[MainThread]]
  <2>1. h \in Clean => m_conn_map[h] = pSocket[MainThread]
    <3>1. at[MainThread] = "findConn" /\ pSocket[MainThread] \in accepted
      BY <1>15 DEF FindWgdConn
    <3>2. h \in Clean => kernel[h] = pSocket[MainThread] /\ kernel[h] # NoConn
      BY <3>1
    <3> QED BY <3>1, <3>2
  <2>2. /\ UNCHANGED <<clientVars, inbox, socketVars, connVars, serverVars,
                       read_set, excep_set, pSocket, poolVars>>
        /\ at[MainThread] = "findConn" /\ pConn' = m_conn_map[h]
        /\ at' = [at EXCEPT ![MainThread] = "recv"]
    BY <1>15 DEF FindWgdConn
  <2>3. OpenClean' /\ FreeClean'
    BY <2>2
  <2>4. MainClean' /\ ReadyClean'
    BY <2>1, <2>2
  <2> QED BY <2>3, <2>4
<1>16. CASE Recv
  <2>1. /\ UNCHANGED <<clientVars, socketVars, liveConns, m_pBaseSocket,
                       serverVars, mainVars, at, pSocket, poolVars>>
        /\ at[MainThread] = "recv" /\ pConn \in liveConns /\ Peer \in Conns
        /\ m_pBaseSocket[pConn] \in liveSockets
        /\ inbox' = [inbox EXCEPT ![Peer] = @ - 1]
    BY <1>16 DEF Recv, ConnUsable
  <2>2. m_socket[Peer] \notin read_set
    BY <2>1, SMTT(30) DEF Peer, Based
  <2>3. OpenClean' /\ FreeClean' /\ MainClean'
    BY <2>1
  <2>4. ReadyClean'
    BY <2>1, <2>2
  <2> QED BY <2>3, <2>4
<1>17. CASE RecvError
  BY <1>17 DEF RecvError, ConnUsable
<1>18. CASE RecvEndOfStream
  BY <1>18 DEF RecvEndOfStream, vars
<1>19. CASE ParseBuffer
  BY <1>19 DEF ParseBuffer, ConnUsable
<1> QED BY <1>1, <1>2, <1>3, <1>4, <1>5, <1>6, <1>7, <1>8, <1>9, <1>10, <1>11,
        <1>12, <1>13, <1>14, <1>15, <1>16, <1>17, <1>18, <1>19 DEF Main

LEMMA CleanClose ==
  ASSUME Registry, CleanInv, Close(MainThread)
  PROVE  CleanInv'
<1> USE DEF Registry, TypeOK, Handed, Named, Listening, MainPlace, Tainted,
        Clean, CleanInv, OpenClean, FreeClean, MainClean, ReadyClean, Ready,
        AcceptingAt, ClosingAt, Main0, Accepting, Holding, Closing, Sockets,
        AllThreads, Goto, Leave, clientVars, socketVars, connVars, serverVars,
        mainVars, poolVars
<1>1. CASE CloseFind(MainThread)
  <2> DEFINE h == m_socket[pSocket[MainThread]]
  <2>1. /\ UNCHANGED <<clientVars, inbox, socketVars, connVars, serverVars,
                       mainVars, poolVars>>
        /\ at[MainThread] = "find"
        /\ pSocket' = [pSocket EXCEPT ![MainThread] = m_socket_map[h]]
        /\ at' = [at EXCEPT ![MainThread] =
                    IF m_socket_map[h] = NoConn THEN "dispatch"
                    ELSE "removeEvent"]
    BY <1>1 DEF CloseFind, Return
  <2>2. m_socket_map[h] # NoConn => m_socket[m_socket_map[h]] = h
    BY <2>1
  <2>3. h \in Clean => m_socket_map[h] = pSocket[MainThread]
    BY <2>1
  <2>4. OpenClean' /\ FreeClean'
    BY <2>1
  <2>5. MainClean'
    <3>1. CASE m_socket_map[h] = NoConn
      BY <2>1, <3>1
    <3>2. CASE m_socket_map[h] # NoConn
      <4>1. /\ at'[MainThread] = "removeEvent"
            /\ m_socket'[pSocket'[MainThread]] = h
            /\ h \in Clean => pSocket'[MainThread] = pSocket[MainThread]
        BY <2>1, <2>2, <2>3, <3>2
      <4>2. h \in Clean => kernel[h] = pSocket[MainThread]
        BY <2>1
      <4>3. Clean' = Clean /\ kernel' = kernel
        BY <2>1
      <4> HIDE DEF h, Clean
      <4> QED BY <4>1, <4>2, <4>3
    <3> QED BY <3>1, <3>2
  <2>6. ReadyClean'
    BY <2>1, <2>2, <2>3
  <2> QED BY <2>4, <2>5, <2>6
<1>2. CASE RemoveEvent(MainThread)
  BY <1>2 DEF RemoveEvent
<1>3. CASE RemoveBaseSocket(MainThread)
  BY <1>3 DEF RemoveBaseSocket
<1>4. CASE CloseSocket(MainThread)
  <2> DEFINE s == pSocket[MainThread]
  <2>1. /\ UNCHANGED <<clientVars, inbox, accepted, liveSockets, m_socket,
                       connVars, serverVars, mainVars, pSocket, poolVars>>
        /\ at[MainThread] = "closesocket"
        /\ kernel' = [kernel EXCEPT ![m_socket[s]] = NoConn]
        /\ at' = [at EXCEPT ![MainThread] = "delete"]
    BY <1>4 DEF CloseSocket
  <2>2. OpenClean'
    BY <2>1
  <2>3. FreeClean'
    BY <2>1
  <2>4. MainClean' 
    BY <2>1
  <2>5. ReadyClean'
    BY <2>1
  <2> QED BY <2>2, <2>3, <2>4, <2>5
<1>5. CASE DeleteSocket(MainThread)
  BY <1>5 DEF DeleteSocket
<1>6. CASE RemoveWgdConn(MainThread)
  BY <1>6 DEF RemoveWgdConn, Return
<1> QED BY <1>1, <1>2, <1>3, <1>4, <1>5, <1>6 DEF Close

-----------------------------------------------------------------------------
(* What follows of the connections.                                        *)

LEMMA KernelSteps ==
  ASSUME [Next]_vars
  PROVE  \/ UNCHANGED <<kernel, m_socket, accepted>>
         \/ Listen
         \/ \E c \in Conns, h \in Handles : Accept(c, h)
         \/ \E t \in AllThreads : CloseSocket(t)
<1> USE DEF socketVars, vars
<1>1. ASSUME NEW c \in Conns, Client(c)
      PROVE  UNCHANGED <<kernel, m_socket, accepted>>
  BY <1>1 DEF Client, Connect, Request, SendUrgent, HangUp
<1>2. ASSUME NEW t \in AllThreads, Close(t)
      PROVE  UNCHANGED <<kernel, m_socket, accepted>> \/ CloseSocket(t)
  BY <1>2 DEF Close, CloseFind, RemoveEvent, RemoveBaseSocket, DeleteSocket,
     RemoveWgdConn
<1>3. CASE Main /\ ~Close(MainThread)
  BY <1>3 DEF Main, StartFails, CopySets, Select, FindBaseSocket, AddTask,
     EndDispatch, AddBaseSocket, AddEvent, OnConnect, AddWgdConn, EndAccept,
     OnRead, FindWgdConn, Recv, RecvError, RecvEndOfStream, ParseBuffer
<1>4. ASSUME NEW w \in Threads, Worker(w)
      PROVE  UNCHANGED <<kernel, m_socket, accepted>> \/ Close(w)
  BY <1>4 DEF Worker, RunTask, OnClose, EndTask, GetTask
<1> QED BY <1>1, <1>2, <1>3, <1>4 DEF Next, AllThreads

\* Only clients change their state, and only AddTask names another handle.
LEMMA ClientSteps ==
  ASSUME Registry, [Next]_vars
  PROVE  /\ \A c \in Conns :
              client[c] \in {"fin", "rst"} => client'[c] = client[c]
         /\ Tainted \subseteq Tainted'
<1> USE DEF clientVars, poolVars, vars, Tainted
<1>1. ASSUME NEW c \in Conns, Client(c)
      PROVE  /\ m_nFd' = m_nFd
             /\ \A d \in Conns :
                  client[d] \in {"fin", "rst"} => client'[d] = client[d]
  BY <1>1 DEF Registry, TypeOK, Client, Connect, Request, SendUrgent, HangUp
<1>2. ASSUME NEW t \in AllThreads, Close(t)
      PROVE  UNCHANGED <<client, m_nFd>>
  BY <1>2 DEF Close, CloseFind, RemoveEvent, RemoveBaseSocket, CloseSocket,
     DeleteSocket, RemoveWgdConn
<1>3. ASSUME NEW w \in Threads, AddTask(w)
      PROVE  client' = client /\ Tainted \subseteq Tainted'
  BY <1>3 DEF AddTask, Registry, TypeOK
<1>4. CASE Main /\ ~Close(MainThread) /\ ~(\E w \in Threads : AddTask(w))
  BY <1>4 DEF Main, StartFails, Listen, CopySets, Select, FindBaseSocket,
     EndDispatch, Accept, AddBaseSocket, AddEvent, OnConnect, AddWgdConn,
     EndAccept, OnRead, FindWgdConn, Recv, RecvError, RecvEndOfStream,
     ParseBuffer
<1>5. ASSUME NEW w \in Threads, Worker(w)
      PROVE  UNCHANGED <<client, m_nFd>> \/ Close(w)
  BY <1>5 DEF Worker, RunTask, OnClose, EndTask, GetTask
<1> QED BY <1>1, <1>2, <1>3, <1>4, <1>5 DEF Next, AllThreads, Main

LEMMA HealthyStep ==
  ASSUME Registry, CleanInv, HealthyNeverClosed, [Next]_vars
  PROVE  HealthyNeverClosed'
<1> USE DEF HealthyNeverClosed
<1>0. /\ \A c \in Conns : client[c] \in {"fin", "rst"} => client'[c] = client[c]
      /\ Tainted \subseteq Tainted' /\ accepted \subseteq Conns
      /\ kernel = [h \in Handles |-> kernel[h]]
  BY ClientSteps DEF Registry, TypeOK
<1>1. CASE UNCHANGED <<kernel, m_socket, accepted>>
  BY <1>0, <1>1
<1>2. CASE Listen
  BY <1>0, <1>2 DEF Listen, Registry, Listening, Main0
<1>3. ASSUME NEW c \in Conns, NEW h \in Handles, Accept(c, h)
      PROVE  HealthyNeverClosed'
  <2>1. /\ kernel' = [kernel EXCEPT ![h] = c] /\ kernel[h] = NoConn
        /\ m_socket' = [m_socket EXCEPT ![c] = h]
        /\ accepted' = accepted \cup {c} /\ c \notin accepted
    BY <1>3 DEF Accept, Backlog
  <2>2. m_socket'[c] = h /\ kernel'[h] = c
    BY <1>0, <2>1 DEF Registry, TypeOK, Sockets
  <2>3. \A d \in accepted :
          m_socket'[d] = m_socket[d] /\ m_socket[d] \in Handles /\ d # NoConn
    BY <1>0, <2>1 DEF Registry, Handed
  <2> QED BY <1>0, <2>1, <2>2, <2>3
<1>4. ASSUME NEW t \in AllThreads, CloseSocket(t)
      PROVE  HealthyNeverClosed'
  <2> DEFINE s == pSocket[t]
             h == m_socket[s]
  <2>1. /\ s \in accepted /\ h \in Handles \ {ListenHandle}
        /\ t # MainThread => h \in Tainted
    BY <1>4, CloseHolds DEF CloseSocket, Closing
  <2>2. h \notin Tainted => kernel[h] = s /\ client[s] \in {"fin", "rst"}
    BY <1>4, <2>1 DEF CloseSocket, CleanInv, MainClean, ReadyClean, Clean,
       Closing
  <2>3. /\ kernel' = [kernel EXCEPT ![h] = NoConn]
        /\ UNCHANGED <<m_socket, accepted>>
    BY <1>4 DEF CloseSocket
  <2> QED BY <1>0, <2>1, <2>2, <2>3
<1> QED BY <1>1, <1>2, <1>3, <1>4, KernelSteps

LEMMA FreedStep ==
  ASSUME Registry, CleanInv, Freed, [Next]_vars
  PROVE  Freed'
<1>0. Clean' \subseteq Clean
  BY ClientSteps DEF Clean
<1> USE DEF Freed, ClosingAt, Goto, Leave, clientVars, socketVars, connVars,
        mainVars, vars
<1>1. ASSUME NEW c \in Conns, Client(c)
      PROVE  Freed'
  <2>1. UNCHANGED <<socketVars, connVars, at, pSocket>>
    BY <1>1 DEF Client, Connect, Request, SendUrgent, HangUp
  <2> QED BY <1>0, <2>1
<1>2. ASSUME NEW w \in Threads, Worker(w)
      PROVE  Freed'
  BY <1>0, <1>2, WorkerFrame DEF Registry, Handed, Clean
<1>3. CASE Main
  <2> USE DEF Registry, TypeOK, Sockets, AllThreads
  <2>1. ASSUME NEW c \in Conns, NEW h \in Handles, Accept(c, h)
        PROVE  Freed'
    BY <1>0, <2>1 DEF Accept, Backlog, Handed
  <2>2. CASE Listen
    BY <1>0, <2>2 DEF Listen, Listening, Main0
  <2>3. CASE OnConnect
    BY <1>0, <2>3 DEF OnConnect, MainPlace, CleanInv, MainClean, Accepting
  <2>4. CASE CloseSocket(MainThread)
    BY <1>0, <2>4, CloseHolds DEF CloseSocket, Closing, CleanInv, MainClean,
       Clean
  <2>5. CASE DeleteSocket(MainThread)
    BY <1>0, <2>5 DEF DeleteSocket
  <2>6. CASE RemoveWgdConn(MainThread)
    BY <1>0, <2>6 DEF RemoveWgdConn, CleanInv, MainClean, Closing, Clean
  <2>7. ASSUME /\ UNCHANGED <<socketVars, liveConns>>
               /\ at[MainThread] \notin {"delete", "removeConn"}
        PROVE  Freed'
    BY <1>0, <2>7
  <2>8. CASE CloseFind(MainThread) \/ RemoveEvent(MainThread)
             \/ RemoveBaseSocket(MainThread)
    BY <2>7, <2>8 DEF CloseFind, RemoveEvent, RemoveBaseSocket
  <2>9. CASE \/ StartFails \/ CopySets \/ Select \/ FindBaseSocket
             \/ (\E w \in Threads : AddTask(w)) \/ EndDispatch
             \/ AddBaseSocket \/ AddEvent \/ AddWgdConn \/ EndAccept
    BY <2>7, <2>9 DEF StartFails, CopySets, Select, FindBaseSocket, AddTask,
       EndDispatch, AddBaseSocket, AddEvent, AddWgdConn, EndAccept
  <2>10. CASE \/ OnRead \/ FindWgdConn \/ Recv \/ RecvError
              \/ RecvEndOfStream \/ ParseBuffer
    BY <2>7, <2>10 DEF OnRead, FindWgdConn, Recv, RecvError, RecvEndOfStream,
       ParseBuffer
  <2> QED BY <1>3, <2>1, <2>2, <2>3, <2>4, <2>5, <2>6, <2>8, <2>9, <2>10
          DEF Main, Close
<1>4. CASE UNCHANGED vars
  BY <1>0, <1>4
<1> QED BY <1>1, <1>2, <1>3, <1>4 DEF Next

LEMMA ConservedStep ==
  ASSUME Registry, CleanInv, Conserved, [Next]_vars
  PROVE  Conserved'
<1>0. /\ Tainted \subseteq Tainted' /\ accepted \subseteq Conns
      /\ sent \in [Conns -> Nat] /\ inbox \in [Conns -> Nat]
      /\ m_in_buf \in [Conns -> Nat] /\ dealt \in [Conns -> Nat]
  BY ClientSteps DEF Registry, TypeOK
<1> USE DEF Conserved
<1>1. ASSUME UNCHANGED <<client, sent, inbox, m_in_buf, dealt, accepted,
                         m_socket>>
      PROVE  Conserved'
  BY <1>0, <1>1
<1>2. ASSUME NEW c \in Conns, Client(c)
      PROVE  Conserved'
  <2>0. /\ UNCHANGED <<m_in_buf, dealt, accepted, m_socket>>
        /\ client \in [Conns -> {"idle", "up", "fin", "rst"}]
    BY <1>2 DEF Client, Connect, Request, SendUrgent, HangUp, connVars,
       socketVars, Registry, TypeOK
  <2>1. CASE Connect(c)
    BY <1>0, <2>0, <2>1 DEF Connect
  <2>2. CASE Request(c)
    <3>1. /\ sent' = [sent EXCEPT ![c] = sent[c] + 1]
          /\ inbox' = [inbox EXCEPT ![c] = inbox[c] + 1]
          /\ client' = client
      BY <2>2 DEF Request
    <3> QED BY <1>0, <2>0, <3>1
  <2>3. CASE SendUrgent(c)
    BY <1>0, <2>0, <2>3 DEF SendUrgent
  <2>4. CASE HangUp(c)
    BY <1>0, <2>0, <2>4 DEF HangUp
  <2> QED BY <1>2, <2>1, <2>2, <2>3, <2>4 DEF Client
<1>3. ASSUME NEW w \in Threads, Worker(w)
      PROVE  Conserved'
  BY <1>1, <1>3, WorkerFrame DEF clientVars
<1>4. CASE Main
  <2>1. ASSUME NEW c \in Conns, NEW h \in Handles, Accept(c, h)
        PROVE  Conserved'
    BY <1>0, <2>1 DEF Accept, Backlog, clientVars, connVars, poolVars, Registry,
       TypeOK, Sockets
  <2>2. CASE Recv
    <3>1. /\ UNCHANGED <<client, sent, dealt, accepted, m_socket>>
          /\ at[MainThread] = "recv" /\ pConn \in liveConns /\ Peer \in Conns
          /\ inbox[Peer] > 0
          /\ inbox' = [inbox EXCEPT ![Peer] = inbox[Peer] - 1]
          /\ m_in_buf' = [m_in_buf EXCEPT ![pConn] = m_in_buf[pConn] + 1]
          /\ m_pBaseSocket[pConn] \in liveSockets
      BY <2>2 DEF Recv, ConnUsable, clientVars, socketVars
    <3> DEFINE h == m_socket[pSocket[MainThread]]
    <3>2. /\ pConn \in accepted /\ m_socket[pConn] = h
          /\ h \in Handles \ {ListenHandle}
      BY <3>1 DEF Registry, MainPlace, Handed, Holding, TypeOK
    <3>3. Peer = kernel[h] /\ Peer # NoConn /\ Peer # Listener
      <4>1. m_pBaseSocket[pConn] # NoConn
        BY <3>1 DEF Registry, TypeOK, Sockets
      <4>2. m_socket[m_pBaseSocket[pConn]] = h
        BY <3>1, <3>2, <4>1 DEF Registry, Based, TypeOK
      <4> QED BY <3>1, <4>2 DEF Peer
    <3>4. Peer \in accepted /\ m_socket[Peer] = h
      BY <3>2, <3>3 DEF Registry, Named
    <3>5. h \notin Tainted => Peer = pConn
      <4> SUFFICES ASSUME h \in Clean
                   PROVE  Peer = pConn
        BY <3>2 DEF Clean
      <4>1. pConn = pSocket[MainThread] /\ kernel[h] = pConn
        BY <3>1 DEF CleanInv, MainClean, Holding
      <4> HIDE DEF h
      <4> QED BY <3>2, <3>3, <4>1
    <3> QED BY <1>0, <3>1, <3>2, <3>4, <3>5
  <2>3. CASE ParseBuffer
    <3>1. /\ UNCHANGED <<client, sent, inbox, accepted, m_socket>>
          /\ \/ UNCHANGED <<m_in_buf, dealt>>
             \/ /\ dealt' = [dealt EXCEPT ![pConn] = dealt[pConn] + 1]
                /\ m_in_buf' = [m_in_buf EXCEPT ![pConn] = m_in_buf[pConn] - 1]
      BY <2>3 DEF ParseBuffer, clientVars, socketVars
    <3> QED BY <1>0, <3>1
  <2>4. CASE Listen
    BY <1>0, <2>4 DEF Listen, clientVars, connVars, Registry, Listening, Main0
  <2> USE DEF clientVars, connVars, socketVars, vars
  <2>5. CASE Close(MainThread)
    BY <1>1, <2>5 DEF Close, CloseFind, RemoveEvent, RemoveBaseSocket,
       CloseSocket, DeleteSocket, RemoveWgdConn
  <2>6. CASE \/ StartFails \/ CopySets \/ Select \/ FindBaseSocket
             \/ (\E w \in Threads : AddTask(w)) \/ EndDispatch
             \/ AddBaseSocket \/ AddEvent \/ OnConnect \/ AddWgdConn
    BY <1>1, <2>6 DEF StartFails, CopySets, Select, FindBaseSocket, AddTask,
       EndDispatch, AddBaseSocket, AddEvent, OnConnect, AddWgdConn
  <2>7. CASE \/ EndAccept \/ OnRead \/ FindWgdConn \/ RecvError
             \/ RecvEndOfStream
    BY <1>1, <2>7 DEF EndAccept, OnRead, FindWgdConn, RecvError, RecvEndOfStream
  <2> QED BY <1>4, <2>1, <2>2, <2>3, <2>4, <2>5, <2>6, <2>7 DEF Main
<1>5. CASE UNCHANGED vars
  BY <1>1, <1>5 DEF vars, clientVars, connVars, socketVars
<1> QED BY <1>2, <1>3, <1>4, <1>5 DEF Next

LEMMA PendingStep ==
  ASSUME Registry, CleanInv, Pending, [Next]_vars
  PROVE  Pending'
<1> DEFINE s == pSocket[MainThread]
<1>0. /\ Clean' \subseteq Clean /\ MainThread \in AllThreads
      /\ client \in [Conns -> {"idle", "up", "fin", "rst"}]
      /\ inbox \in [Conns -> Nat] /\ m_in_buf \in [Conns -> Nat]
      /\ at = [t \in AllThreads |-> at[t]]
      /\ pSocket = [t \in AllThreads |-> pSocket[t]]
      /\ \A c \in Conns : client[c] = "rst" => client'[c] = "rst"
  BY ClientSteps DEF Clean, Registry, TypeOK, AllThreads
<1>a. at[MainThread] \in {"onRead", "findConn", "recv", "parse"} =>
        /\ s \in accepted /\ s \in Conns
        /\ m_socket[s] \in Clean => kernel[m_socket[s]] = s /\ s # NoConn
  BY DEF Registry, TypeOK, MainPlace, Holding, CleanInv, MainClean
<1>b. /\ at[MainThread] \in {"recv", "parse"} /\ m_socket[s] \in Clean =>
           pConn = s
      /\ at[MainThread] \in {"onRead", "findConn", "recv", "parse"}
           /\ m_socket[s] \in Clean => m_pBaseSocket[s] = s
  BY <1>a DEF CleanInv, MainClean, OpenClean, AcceptingAt, Accepting
<1> USE DEF Pending, Goto, Leave, clientVars, socketVars, connVars, mainVars,
            vars
<1>1. ASSUME at'[MainThread] \notin {"findConn", "recv", "parse"}
      PROVE  Pending'
  BY <1>1
<1>2. ASSUME UNCHANGED <<inbox, m_in_buf, at[MainThread], m_socket,
                         pSocket[MainThread]>>
      PROVE  Pending'
  BY <1>0, <1>1, <1>2, <1>a
<1>3. ASSUME NEW c \in Conns, Client(c)
      PROVE  Pending'
  <2>1. UNCHANGED <<m_in_buf, at, m_socket, pSocket>>
    BY <1>3 DEF Client, Connect, Request, SendUrgent, HangUp
  <2>2. \A d \in Conns : client'[d] # "rst" =>
          client[d] # "rst" /\ inbox'[d] \in Nat /\ inbox'[d] >= inbox[d]
    BY <1>0, <1>3 DEF Client, Connect, Request, SendUrgent, HangUp
  <2> QED BY <1>0, <1>1, <1>a, <2>1, <2>2
<1>4. ASSUME NEW w \in Threads, Worker(w)
      PROVE  Pending'
  BY <1>2, <1>4, WorkerFrame
<1>5. CASE OnRead
  <2>1. /\ UNCHANGED <<client, inbox, m_in_buf, m_socket, pSocket>>
        /\ at[MainThread] = "onRead" /\ s \in liveSockets
        /\ at'[MainThread] \in {"find", "findConn"}
        /\ at'[MainThread] = "findConn" => inbox[kernel[m_socket[s]]] # 0
    BY <1>0, <1>5 DEF OnRead
  <2> QED BY <1>0, <1>a, <2>1
<1>6. CASE FindWgdConn
  <2>1. /\ UNCHANGED <<client, inbox, m_in_buf, m_socket, pSocket>>
        /\ at[MainThread] = "findConn" /\ at'[MainThread] = "recv"
    BY <1>0, <1>6 DEF FindWgdConn
  <2> QED BY <1>0, <1>a, <2>1
<1>7. CASE Recv
  <2>1. /\ UNCHANGED <<client, at, m_socket, pSocket>>
        /\ at[MainThread] = "recv" /\ pConn \in liveConns /\ Peer \in Conns
        /\ inbox[Peer] > 0
        /\ inbox' = [inbox EXCEPT ![Peer] = inbox[Peer] - 1]
        /\ m_in_buf' = [m_in_buf EXCEPT ![pConn] = m_in_buf[pConn] + 1]
    BY <1>7 DEF Recv, ConnUsable
  <2>2. m_socket[s] \in Clean => pConn = s /\ Peer = s
    BY <1>a, <1>b, <2>1 DEF Peer
  <2> QED BY <1>0, <1>a, <2>1, <2>2
<1>8. CASE RecvError
  <2>1. /\ UNCHANGED <<client, inbox, m_in_buf, m_socket, pSocket>>
        /\ at[MainThread] = "recv" /\ at'[MainThread] = "parse"
        /\ Peer # NoConn => inbox[Peer] = 0
    BY <1>0, <1>8 DEF RecvError
  <2>2. m_socket[s] \in Clean => Peer = s /\ s # NoConn
    BY <1>a, <1>b, <2>1 DEF Peer
  <2> QED BY <1>0, <1>a, <2>1, <2>2
<1>9. CASE RecvEndOfStream
  BY <1>2, <1>9 DEF RecvEndOfStream
<1>10. CASE Close(MainThread)
  BY <1>0, <1>1, <1>10 DEF Close, CloseFind, RemoveEvent, RemoveBaseSocket,
     CloseSocket, DeleteSocket, RemoveWgdConn, Return
<1>11. CASE StartFails \/ Listen \/ CopySets \/ Select \/ EndDispatch
  BY <1>0, <1>1, <1>11 DEF StartFails, Listen, CopySets, Select, EndDispatch
<1>12. CASE FindBaseSocket
  BY <1>0, <1>1, <1>12 DEF FindBaseSocket
<1>13. ASSUME NEW w \in Threads, AddTask(w)
       PROVE  Pending'
  BY <1>0, <1>1, <1>13 DEF AddTask
<1>14. CASE \/ (\E c \in Conns, h \in Handles : Accept(c, h))
            \/ AddBaseSocket \/ AddEvent \/ OnConnect \/ AddWgdConn \/ EndAccept
            \/ ParseBuffer
  BY <1>0, <1>1, <1>14 DEF Accept, AddBaseSocket, AddEvent, OnConnect,
     AddWgdConn, EndAccept, ParseBuffer
<1>15. CASE UNCHANGED vars
  BY <1>2, <1>15
<1> QED BY <1>3, <1>4, <1>5, <1>6, <1>7, <1>8, <1>9, <1>10, <1>11, <1>12,
           <1>13, <1>14, <1>15 DEF Next, Main

LEMMA CleanStep ==
  ASSUME Registry, CleanInv, [Next]_vars
  PROVE  CleanInv'
<1>1. CASE UNCHANGED vars
  BY <1>1, CleanFrame DEF vars, clientVars, socketVars, connVars, serverVars,
     mainVars, poolVars, Ready
<1> QED BY <1>1, CleanClient, CleanWorker, CleanMain, CleanClose DEF Next

LEMMA Inductive == Spec => []IInv
<1>1. Init => IInv
  <2>1. Init => Registry
    BY RegistryInit
  <2>2. Init => CleanInv
    BY DEF Init, CleanInv, OpenClean, FreeClean, MainClean, ReadyClean, Clean,
       Accepting, Holding, Closing, AllThreads
  <2>3. Init =>
          HealthyNeverClosed /\ Freed /\ Conserved /\ Pending
    BY DEF Init, HealthyNeverClosed, Freed, Conserved, Pending, AllThreads
  <2> QED BY <2>1, <2>2, <2>3 DEF IInv
<1>2. IInv /\ [Next]_vars => IInv'
  BY RegistryStep, CleanStep, HealthyStep, FreedStep, ConservedStep,
     PendingStep DEF IInv
<1> QED BY <1>1, <1>2, PTL DEF Spec

-----------------------------------------------------------------------------
\* Every reachable state is of the declared types.
THEOREM TypeCorrect == Spec => []TypeOK
<1>1. IInv => TypeOK
  BY DEF IInv, Registry
<1> QED BY <1>1, Inductive, PTL

\* Whatever handles workers close and the kernel gives out again, a connection
\* on a handle no task has named is found alive, with the socket object the
\* main thread holds.
THEOREM StalePointersAreTainted == Spec => []StaleOnlyIfTainted
<1>1. IInv => StaleOnlyIfTainted
  <2> SUFFICES ASSUME IInv, MainHolds,
                      m_socket[pSocket[MainThread]] \notin Tainted
               PROVE  /\ pSocket[MainThread] \in liveSockets
                      /\ at[MainThread] \in {"recv", "parse"} =>
                           /\ ConnUsable
                           /\ m_pBaseSocket[pConn] = pSocket[MainThread]
                      /\ at[MainThread] = "findConn" =>
                           m_conn_map[m_socket[pSocket[MainThread]]] # NoConn
    BY DEF StaleOnlyIfTainted
  <2> DEFINE s == pSocket[MainThread]
             h == m_socket[s]
  <2>1. s \in accepted /\ s # NoConn /\ h \in Clean /\ kernel[h] = s
    BY DEF MainHolds, IInv, Registry, TypeOK, MainPlace, Handed, Clean, Holding,
       CleanInv, MainClean
  <2>2. at[MainThread] \notin Accepting
    BY DEF MainHolds, Accepting
  <2>3. /\ s \in liveSockets /\ m_conn_map[h] = s
        /\ s \in liveConns /\ m_pBaseSocket[s] = s
    BY <2>1, <2>2 DEF IInv, CleanInv, OpenClean, AcceptingAt, Accepting
  <2>4. at[MainThread] \in {"recv", "parse"} => pConn = s
    BY <2>1 DEF IInv, CleanInv, MainClean
  <2> QED BY <2>1, <2>3, <2>4 DEF ConnUsable
<1> QED BY <1>1, Inductive, PTL

\* The server closes only what its client gave up, except on handles tasks
\* have named.
THEOREM OnlyTaintedAreKilled == Spec => []HealthyNeverClosed
<1>1. IInv => HealthyNeverClosed
  BY DEF IInv
<1> QED BY <1>1, Inductive, PTL

\* select() can fail on a closed handle only if a task named the handle.
THEOREM PolledSetSound == Spec => []PolledHandlesOpen
<1>1. IInv => PolledHandlesOpen
  BY DEF IInv, CleanInv, FreeClean, Clean, PolledHandlesOpen, Registry, TypeOK,
     Listening
<1> QED BY <1>1, Inductive, PTL

\* No message of a live client is lost or dealt with twice.
THEOREM NoMessageLost == Spec => []MessagesConserved
<1>1. IInv => MessagesConserved
  BY DEF IInv, Conserved, MessagesConserved
<1> QED BY <1>1, Inductive, PTL

\* OnRead of a connection on a handle no task has named deals with exactly
\* one message, whatever workers do to other handles, unless a reset
\* discarded what OnRead had found.
THEOREM OneMessagePerRead == Spec => ReadsDealWithOne
<1>1. ASSUME IInv, [Next]_vars, at[MainThread] = "parse",
             at'[MainThread] # "parse",
             m_socket[pSocket[MainThread]] \notin Tainted,
             client[pConn] # "rst"
      PROVE  dealt'[pConn] = dealt[pConn] + 1
  <2> DEFINE s == pSocket[MainThread]
  <2>1. s \in accepted /\ m_socket[s] \in Clean /\ s \in Conns
    BY <1>1 DEF IInv, Registry, TypeOK, MainPlace, Holding, Handed, Clean
  <2>2. pConn = s
    BY <1>1, <2>1 DEF IInv, CleanInv, MainClean
  <2>3. m_in_buf[s] > 0 /\ dealt \in [Conns -> Nat]
        /\ m_in_buf \in [Conns -> Nat]
    BY <1>1, <2>1, <2>2 DEF IInv, Pending, Registry, TypeOK
  <2>4. ParseBuffer
    <3> USE DEF Goto, Leave
    <3>0. /\ at = [t \in AllThreads |-> at[t]]
          /\ MainThread \in AllThreads /\ MainThread \notin Threads
      BY <1>1 DEF IInv, Registry, TypeOK, AllThreads
    <3>1. ~UNCHANGED vars /\ ~(\E c \in Conns : Client(c))
      BY <1>1 DEF vars, Client, Connect, Request, SendUrgent, HangUp
    <3>2. ~(\E w \in Threads : Worker(w))
      BY <1>1, WorkerFrame DEF IInv
    <3>3. ~Close(MainThread)
      BY <1>1 DEF Close, CloseFind, RemoveEvent, RemoveBaseSocket,
         CloseSocket, DeleteSocket, RemoveWgdConn
    <3> QED BY <1>1, <3>1, <3>2, <3>3 DEF Next, Main, StartFails, Listen,
            CopySets, Select, FindBaseSocket, AddTask, EndDispatch, Accept,
            AddBaseSocket, AddEvent, OnConnect, AddWgdConn, EndAccept,
            OnRead, FindWgdConn, Recv, RecvError, RecvEndOfStream
  <2> QED BY <2>1, <2>2, <2>3, <2>4 DEF ParseBuffer
<1>2. IInv /\ [Next]_vars =>
        [at[MainThread] = "parse" /\ at'[MainThread] # "parse"
           /\ m_socket[pSocket[MainThread]] \notin Tainted
           /\ client[pConn] # "rst"
         => dealt'[pConn] = dealt[pConn] + 1]_vars
  BY <1>1
<1> QED BY <1>2, Inductive, PTL DEF Spec, ReadsDealWithOne

\* Neither object of a closed connection outlives the thread that closes it.
THEOREM CloseComplete == Spec => []CloseFreesBoth
<1>1. IInv => CloseFreesBoth
  BY DEF IInv, Registry, Handed, Freed, ClosingAt, CloseFreesBoth, Clean,
     AllThreads
<1> QED BY <1>1, Inductive, PTL

-----------------------------------------------------------------------------
(* The pool inside the server is the pool ThreadPool specifies.            *)

PoolResults == INSTANCE ThreadPoolProofs

LEMMA PoolStep == [Next]_vars => [Pool!Next]_(Pool!vars)
<1> SUFFICES ASSUME [Next]_vars PROVE [Pool!Next]_(Pool!vars)
  OBVIOUS
<1>1. UNCHANGED poolVars => UNCHANGED Pool!vars
  BY DEF poolVars, Pool!vars
<1>2. ASSUME NEW t \in AllThreads, Close(t)
      PROVE  UNCHANGED poolVars
  BY <1>2 DEF Close, CloseFind, RemoveEvent, RemoveBaseSocket, CloseSocket,
     DeleteSocket, RemoveWgdConn
<1>3. CASE \E c \in Conns : Client(c)
  BY <1>1, <1>3 DEF Client, Connect, Request, SendUrgent, HangUp
<1>4. CASE Main
  <2>1. CASE \E w \in Threads : AddTask(w)
    BY <2>1 DEF AddTask, Pool!Next
  <2>2. CASE Close(MainThread)
    BY <1>1, <1>2, <2>2 DEF AllThreads
  <2>3. CASE RecvEndOfStream
    BY <1>1, <2>3 DEF RecvEndOfStream, vars
  <2> QED
    BY <1>1, <1>4, <2>1, <2>2, <2>3 DEF Main, StartFails, Listen, CopySets,
       Select, FindBaseSocket, EndDispatch, Accept, AddBaseSocket, AddEvent,
       OnConnect, AddWgdConn, EndAccept, OnRead, FindWgdConn, Recv, RecvError,
       ParseBuffer
<1>5. ASSUME NEW w \in Threads, Worker(w)
      PROVE  [Pool!Next]_(Pool!vars)
  <2>1. CASE GetTask(w)
    BY <2>1 DEF GetTask, Pool!Next, Pool!Execute
  <2>2. CASE EndTask(w)
    BY <2>2 DEF EndTask, Pool!Next, Pool!Execute
  <2> QED
    BY <1>1, <1>2, <1>5, <2>1, <2>2 DEF Worker, RunTask, OnClose, AllThreads
<1>6. CASE UNCHANGED vars
  BY <1>1, <1>6 DEF vars
<1> QED BY <1>3, <1>4, <1>5, <1>6 DEF Next

\* Whatever the server does around it, and whatever tasks do, its threads use
\* their task lists and events as the pool's specification says.
LEMMA ImplementsPool == Spec => Pool!Spec
<1>1. Init => Pool!Init
  BY DEF Init
<1> QED BY <1>1, PoolStep, PTL DEF Spec, Pool!Spec

\* Pool and PoolResults are two instances of one module.
LEMMA SamePool ==
  /\ Pool!Spec <=> PoolResults!Spec
  /\ Pool!TasksInOrder <=> PoolResults!TasksInOrder
  /\ Pool!NeverWokenInVain <=> PoolResults!NeverWokenInVain
<1>1. Pool!Init <=> PoolResults!Init
  BY DEF Pool!Init, PoolResults!Init, Pool!NoTask, PoolResults!NoTask
<1>2. [Pool!Next]_(Pool!vars) <=> [PoolResults!Next]_(PoolResults!vars)
  BY DEF Pool!vars, PoolResults!vars, Pool!NoTask, PoolResults!NoTask,
     Pool!Next, PoolResults!Next, Pool!Execute, PoolResults!Execute,
     Pool!AddTask, PoolResults!AddTask, Pool!Wait, PoolResults!Wait,
     Pool!Reset, PoolResults!Reset, Pool!Take, PoolResults!Take,
     Pool!Run, PoolResults!Run
<1>3. Pool!Spec <=> PoolResults!Spec
  BY <1>1, <1>2, PTL DEF Pool!Spec, PoolResults!Spec
<1>4. Pool!TasksInOrder <=> PoolResults!TasksInOrder
  BY DEF Pool!TasksInOrder, PoolResults!TasksInOrder, Pool!TasksOf,
     PoolResults!TasksOf, Pool!NoTask, PoolResults!NoTask
<1>5. Pool!NeverWokenInVain <=> PoolResults!NeverWokenInVain
  BY DEF Pool!NeverWokenInVain, PoolResults!NeverWokenInVain
<1> QED BY <1>3, <1>4, <1>5

\* The server's workers run their tasks once each, in the order in which the
\* main thread added them, and one that was woken finds a task.
THEOREM ServerTasksInOrder ==
  Spec => [](Pool!TasksInOrder /\ Pool!NeverWokenInVain)
<1>1. PoolResults!PoolAssumption
  BY ServerV1Assumption DEF PoolResults!PoolAssumption
<1>2. PoolResults!Spec => []PoolResults!TasksInOrder
  BY <1>1, PoolResults!RunsInOrder
<1>3. PoolResults!Spec => []PoolResults!NeverWokenInVain
  BY <1>1, PoolResults!WokenForATask
<1> QED BY <1>2, <1>3, ImplementsPool, SamePool, PTL
=============================================================================
