----------------------- MODULE WgdServerRegistryProofs -----------------------
(***************************************************************************)
(* Theorems about WgdServer's map, objects and handle sets.  The kernel    *)
(* may give out a handle before the thread that closed it has forgotten    *)
(* it; for such a handle (it is in hurried) they promise nothing, and for  *)
(* every other handle they hold whatever happens to the hurried ones.      *)
(***************************************************************************)
EXTENDS WgdServerProofs

USE ConstantsAssumption

\* A handle being forgotten is still closed, and by the thread that owned it.
ForgottenInv ==
  \A w \in Threads :
    pc[w] \in Forgetting /\ m_socket[pConn[w]] \notin hurried
      => kernel[m_socket[pConn[w]]] = NoConn /\ handedTo[pConn[w]] = w

\* The heap and the map: an open connection has both objects, an object of a
\* closed one is about to be deleted, the map holds allocated objects only,
\* and a new connection finds its place in the map free.
HeapInv ==
  /\ liveConns \subseteq accepted
  /\ \A c \in accepted :
       m_socket[c] \notin hurried /\ kernel[m_socket[c]] = c => Usable(c)
  /\ \A c \in liveConns :
       m_socket[c] \notin hurried /\ kernel[m_socket[c]] # c
         => \E w \in Threads : pc[w] \in {"delete", "remove"} /\ pConn[w] = c
  /\ \A h \in Handles \ hurried :
       m_conn_map[h] # NoConn => m_conn_map[h] \in liveConns
  /\ mainPc = "addConn" /\ m_socket[newConn] \notin hurried
       => m_conn_map[m_socket[newConn]] = NoConn

RegistryInv ==
  /\ OwnershipInv
  /\ ForgottenInv
  /\ HeapInv
  /\ EveryConnReachable
  /\ NoStalePointer

LEMMA RegistryInit == Init => RegistryInv
BY OwnershipInit DEF Init, RegistryInv, ForgottenInv, HeapInv,
   EveryConnReachable, NoStalePointer, Handling, Forgetting

LEMMA RegistryClient ==
  ASSUME RegistryInv, NEW c \in Conns, Client(c)
  PROVE  RegistryInv'
<1>1. OwnershipInv'
  BY OwnershipClient DEF RegistryInv
<1>2. UNCHANGED <<kernel, heapVars, m_conn_map, m_read_set, mainVars,
                  workerVars>>
  BY DEF Client, Connect, Request, HangUp
<1>3. ForgottenInv' /\ HeapInv' /\ EveryConnReachable' /\ NoStalePointer'
  BY <1>2 DEF RegistryInv, ForgottenInv, HeapInv, EveryConnReachable,
     NoStalePointer, Usable, heapVars, mainVars, historyVars, workerVars
<1> QED BY <1>1, <1>3 DEF RegistryInv

LEMMA RegistryMain ==
  ASSUME RegistryInv, Main
  PROVE  RegistryInv'
<1> USE DEF RegistryInv, ForgottenInv, HeapInv, EveryConnReachable,
        NoStalePointer, Usable, OwnershipInv, SocketInv, HandOverInv, TypeInv,
        TypeOK, SettingUp, Handling, Forgetting, clientVars, heapVars, mainVars,
        historyVars, workerVars
<1>0. OwnershipInv'
  BY OwnershipMain
<1>1. ASSUME NEW c \in Conns, NEW h \in Handles, Accept(c, h)
      PROVE  RegistryInv'
  <2>1. /\ c \notin accepted /\ kernel[h] = NoConn
        /\ hurried \subseteq hurried'
        /\ h \notin hurried' =>
             \A w \in Threads : pc[w] \in Forgetting => m_socket[pConn[w]] # h
    BY <1>1 DEF Accept, Backlog, HandlesBeingForgotten
  <2>2. h \notin hurried' => m_conn_map[h] = NoConn
    BY <2>1
  <2>3. \A w \in Threads : pc[w] \in Handling \cup Forgetting => pConn[w] # c
    BY <2>1 DEF CopyInv
  <2>4. \A w \in Threads :
          pc[w] \in Handling => m_socket[pConn[w]] # h
    BY <2>1, HandlerOwns DEF Peer
  <2>5. ForgottenInv'
    BY <1>1, <2>1, <2>3 DEF Accept, CopyInv
  <2>6. NoStalePointer'
    BY <1>1, <2>1, <2>3, <2>4 DEF Accept, CopyInv
  <2>7. HeapInv' /\ EveryConnReachable'
    BY <1>1, <2>1, <2>2, <2>3 DEF Accept
  <2> QED BY <1>0, <2>5, <2>6, <2>7
<1>2. CASE AddWgdConn
  BY <1>0, <1>2 DEF AddWgdConn
<1>3. ASSUME NEW t \in Threads, AddEvent(t)
      PROVE  RegistryInv'
  <2>1. \A w \in Threads :
          /\ pc[w] \in Handling \cup Forgetting
          /\ m_socket[pConn[w]] \notin hurried
          => pConn[w] # newConn
    BY <1>3, HandlerOwns DEF AddEvent, CopyInv, Peer
  <2>2. ForgottenInv' /\ NoStalePointer'
    BY <1>3, <2>1 DEF AddEvent
  <2>3. HeapInv' /\ EveryConnReachable'
    BY <1>3 DEF AddEvent
  <2> QED BY <1>0, <2>2, <2>3
<1>4. CASE StartFails \/ Listen
  BY <1>0, <1>4 DEF StartFails, Listen
<1> QED BY <1>1, <1>2, <1>3, <1>4 DEF Main

\* What the thread at work on a handle never given out too early knows.
LEMMA HandlerKnows ==
  ASSUME RegistryInv, NEW w \in Threads, pc[w] \in Handling,
         m_socket[pConn[w]] \notin hurried
  PROVE  Peer(w) = pConn[w] /\ handedTo[pConn[w]] = w
BY HandlerOwns DEF RegistryInv, NoStalePointer, Peer

\* Nobody else is at work on a handle a thread is busy with, if the handle
\* was never given out too early.
LEMMA BusyApart ==
  ASSUME RegistryInv, NEW v \in Threads, NEW w \in Threads, v # w,
         pc[v] \in Handling \cup Forgetting,
         pc[w] \in Handling \cup Forgetting,
         m_socket[pConn[v]] \notin hurried
  PROVE  pConn[v] # pConn[w]
<1>1. ASSUME NEW u \in Threads, pc[u] \in Handling \cup Forgetting,
             m_socket[pConn[u]] \notin hurried
      PROVE  handedTo[pConn[u]] = u
  BY <1>1, HandlerKnows DEF RegistryInv, ForgottenInv
<1> QED BY <1>1

LEMMA RegistryWorker ==
  ASSUME RegistryInv, NEW t \in Threads, Worker(t)
  PROVE  RegistryInv'
<1> USE DEF RegistryInv, ForgottenInv, HeapInv, EveryConnReachable,
        NoStalePointer, Usable, OwnershipInv, SocketInv, HandOverInv, TypeInv,
        TypeOK, SettingUp, Handling, Forgetting, clientVars, heapVars, mainVars,
        historyVars, workerVars
<1>0. OwnershipInv'
  BY OwnershipWorker
<1>1. CASE Sleep(t)
  BY <1>0, <1>1 DEF Sleep, vars
<1>2. CASE CopySets(t)
  BY <1>0, <1>2 DEF CopySets
<1>3. CASE Select(t)
  BY <1>0, <1>3 DEF Select
<1>4. CASE FindWgdConn(t)
  <2> PICK fd \in read_set[t] :
        /\ pConn' = [pConn EXCEPT ![t] = m_conn_map[fd]]
        /\ pc' = [pc EXCEPT ![t] = IF m_conn_map[fd] = NoConn THEN "dispatch"
                                                             ELSE "onRead"]
    BY <1>4 DEF FindWgdConn
  <2>1. fd \in Handles /\ kernel[fd] \in Conns /\ kernel[fd] # NoConn
    BY CopyOwned
  <2>2. m_conn_map[fd] # NoConn /\ fd \notin hurried
          => m_conn_map[fd] = kernel[fd] /\ m_socket[kernel[fd]] = fd
    BY <2>1, CopyOwned
  <2>3. UNCHANGED <<clientVars, kernel, heapVars, m_in_buf, m_conn_map,
                    m_read_set, mainVars>> /\ pc[t] = "dispatch"
    BY <1>4 DEF FindWgdConn
  <2>4. NoStalePointer'
    BY <2>1, <2>2, <2>3
  <2>5. ForgottenInv'
    BY <2>3
  <2>6. HeapInv' /\ EveryConnReachable'
    BY <2>3
  <2> QED BY <1>0, <2>4, <2>5, <2>6
<1>5. CASE EndDispatch(t)
  BY <1>0, <1>5 DEF EndDispatch
<1>6. CASE OnRead(t)
  BY <1>0, <1>6 DEF OnRead
<1>7. CASE Recv(t)
  BY <1>0, <1>7 DEF Recv
<1>8. CASE RecvError(t)
  BY <1>0, <1>8 DEF RecvError
<1>9. CASE RecvEndOfStream(t)
  BY <1>0, <1>9 DEF RecvEndOfStream, vars
<1>10. CASE DealBuffer(t)
  <2>1. UNCHANGED <<client, sent, inbox, kernel, heapVars, m_conn_map,
                    m_read_set, mainVars, workerVars>>
    BY <1>10 DEF DealBuffer
  <2> QED BY <1>0, <2>1
<1>11. CASE EndOnRead(t)
  BY <1>0, <1>11 DEF EndOnRead
<1>12. CASE CloseSocket(t)
  <2> DEFINE p == pConn[t]
             fd == m_socket[p]
  <2>1. /\ p \in Conns /\ fd \in Handles /\ pc[t] = "close"
        /\ kernel[fd] # NoConn
        /\ fd \notin hurried => kernel[fd] = p /\ handedTo[p] = t
    BY <1>12, HandlerOwns DEF CloseSocket, Peer
  <2>2. /\ kernel' = [kernel EXCEPT ![fd] = NoConn]
        /\ pc' = [pc EXCEPT ![t] = "delete"]
        /\ UNCHANGED <<clientVars, heapVars, m_in_buf, m_conn_map, m_read_set,
                       mainVars, read_set, pConn>>
    BY <1>12 DEF CloseSocket
  <2>3. ForgottenInv'
    BY <2>1, <2>2
  <2>4. \A w \in Threads : w # t /\ pc[w] \in Handling =>
          m_socket[pConn[w]] # fd
    BY <2>1, HandlersApart
  <2>5. NoStalePointer'
    BY <2>1, <2>2, <2>4
  <2>6. EveryConnReachable'
    BY <2>2
  <2>7. HeapInv'
    BY <2>1, <2>2
  <2> QED BY <1>0, <2>3, <2>5, <2>6, <2>7
<1>13. CASE DeleteSocket(t)
  <2> DEFINE p == pConn[t]
             fd == m_socket[p]
  <2>1. /\ pc[t] = "delete" /\ p \in Conns /\ fd \in Handles
        /\ fd \notin hurried => kernel[fd] = NoConn
    BY <1>13 DEF DeleteSocket, CopyInv
  <2>2. /\ liveSockets' = liveSockets \ {p}
        /\ pc' = [pc EXCEPT ![t] = "remove"]
        /\ UNCHANGED <<clientVars, kernel, accepted, liveConns, m_socket,
                       m_in_buf, m_conn_map, m_read_set, mainVars, read_set,
                       pConn>>
    BY <1>13 DEF DeleteSocket
  <2>3. ForgottenInv'
    BY <2>1, <2>2
  <2>4. NoStalePointer'
    BY <2>1, <2>2, BusyApart
  <2>5. HeapInv' /\ EveryConnReachable'
    BY <2>1, <2>2
  <2> QED BY <1>0, <2>3, <2>4, <2>5
<1>14. CASE RemoveWgdConn(t)
  <2> DEFINE p == pConn[t]
             fd == m_socket[p]
  <2>1. /\ pc[t] = "remove" /\ p \in Conns /\ fd \in Handles
        /\ fd \notin hurried => kernel[fd] = NoConn /\ m_conn_map[fd] = p
    BY <1>14 DEF RemoveWgdConn, CopyInv
  <2>2. /\ liveConns' = liveConns \ {m_conn_map[fd]}
        /\ m_conn_map' = [m_conn_map EXCEPT ![fd] = NoConn]
        /\ pc' = [pc EXCEPT ![t] = "removeEvent"]
        /\ UNCHANGED <<clientVars, kernel, accepted, liveSockets, m_socket,
                       m_in_buf, m_read_set, mainVars, read_set, pConn>>
    BY <1>14 DEF RemoveWgdConn
  <2>3. m_conn_map[fd] # NoConn => m_socket[m_conn_map[fd]] = fd
    BY <2>1
  <2>4. \A c \in liveConns : m_socket[c] = fd /\ fd \notin hurried
          => m_conn_map[fd] = c \/ (mainPc = "addConn" /\ newConn = c)
    BY <2>1
  <2>5. mainPc = "addConn" /\ m_socket[newConn] = fd => fd \in hurried
    BY <2>1
  <2>6. \A w \in Threads :
          /\ w # t /\ pc[w] \in Handling \cup {"delete", "remove"}
          /\ m_socket[pConn[w]] \notin hurried
          => m_socket[pConn[w]] # fd
    <3>1. SUFFICES ASSUME NEW w \in Threads, w # t, fd \notin hurried,
                          pc[w] \in Handling \cup {"delete", "remove"},
                          m_socket[pConn[w]] = fd
                   PROVE  FALSE
      OBVIOUS
    <3>2. m_conn_map[fd] = pConn[w]
      BY <3>1
    <3>3. pConn[w] = p
      BY <2>1, <3>1, <3>2
    <3> QED BY <2>1, <3>1, <3>3, BusyApart
  <2>7. ForgottenInv'
    BY <2>1, <2>2
  <2>8. NoStalePointer'
    BY <2>1, <2>2, <2>3, <2>6
  <2>9. EveryConnReachable'
    BY <2>1, <2>2, <2>4, <2>5
  <2>10. HeapInv'
    <3>1. liveConns' \subseteq accepted'
      BY <2>2
    <3>2. \A c \in accepted' :
            m_socket'[c] \notin hurried' /\ kernel'[m_socket'[c]] = c
              => Usable(c)'
      BY <2>1, <2>2, <2>3
    <3>3. \A c \in liveConns' :
            m_socket'[c] \notin hurried' /\ kernel'[m_socket'[c]] # c
              => \E w \in Threads : /\ pc'[w] \in {"delete", "remove"}
                                    /\ pConn'[w] = c
      BY <2>1, <2>2
    <3>4. \A h \in Handles \ hurried' :
            m_conn_map'[h] # NoConn => m_conn_map'[h] \in liveConns'
      BY <2>1, <2>2, <2>3
    <3>5. mainPc' = "addConn" /\ m_socket'[newConn'] \notin hurried'
            => m_conn_map'[m_socket'[newConn']] = NoConn
      BY <2>1, <2>2
    <3> QED BY <3>1, <3>2, <3>3, <3>4, <3>5
  <2> QED BY <1>0, <2>7, <2>8, <2>9, <2>10
<1>15. CASE RemoveEvent(t)
  BY <1>0, <1>15 DEF RemoveEvent, FD_CLR
<1> QED BY <1>1, <1>2, <1>3, <1>4, <1>5, <1>6, <1>7, <1>8, <1>9, <1>10, <1>11,
        <1>12, <1>13, <1>14, <1>15 DEF Worker

LEMMA RegistryHolds == Spec => []RegistryInv
<1>1. RegistryInv /\ [Next]_vars => RegistryInv'
  <2> SUFFICES ASSUME RegistryInv, [Next]_vars
               PROVE  RegistryInv'
    OBVIOUS
  <2>1. CASE UNCHANGED vars
    <3> USE <2>1 DEF vars, clientVars, heapVars, mainVars, historyVars,
            workerVars, RegistryInv
    <3>1. OwnershipInv'
      BY OwnershipStutter
    <3>2. ForgottenInv' /\ HeapInv' /\ EveryConnReachable' /\ NoStalePointer'
      BY DEF ForgottenInv, HeapInv, EveryConnReachable, NoStalePointer, Usable
    <3> QED BY <3>1, <3>2
  <2> QED BY <2>1, RegistryClient, RegistryMain, RegistryWorker DEF Next
<1> QED BY RegistryInit, <1>1, PTL DEF Spec
-----------------------------------------------------------------------------
\* A thread that took a CWGDConn* from the map finds both objects allocated
\* and registered at every later use, and reads that connection's bytes,
\* unless the handle was given out while being closed.
THEOREM PointersStayValid == Spec => []NoStalePointer
<1>1. RegistryInv => NoStalePointer
  BY DEF RegistryInv
<1> QED BY RegistryHolds, <1>1, PTL

\* A connection is handled by one thread from beginning to end, the one it
\* was handed to, unless its handle was given out while being closed.
THEOREM OneThreadPerConnection == Spec => []OwnerUnlessHurried
<1>1. RegistryInv => OwnerUnlessHurried
  BY HandlerKnows DEF RegistryInv, ForgottenInv, OwnerUnlessHurried
<1> QED BY RegistryHolds, <1>1, PTL

\* Every allocated connection is found under its handle once registered,
\* unless the handle was given out while being closed: for all others insert
\* never meets an old entry.
THEOREM ConnectionsStayReachable == Spec => []EveryConnReachable
<1>1. RegistryInv => EveryConnReachable
  BY DEF RegistryInv
<1> QED BY RegistryHolds, <1>1, PTL
-----------------------------------------------------------------------------
(* The conservation of requests.                                           *)

\* RequestsConserved, also for clients yet to connect.
CountInv ==
  \A c \in Conns :
    client[c] \notin {"fin", "rst"} /\ m_socket[c] \notin hurried =>
      sent[c] = inbox[c] + m_in_buf[c] + replies[c]

LEMMA CountStep ==
  ASSUME RegistryInv, CountInv, [Next]_vars
  PROVE  CountInv'
<1> USE DEF RegistryInv, OwnershipInv, TypeInv, TypeOK, clientVars, heapVars,
        mainVars, historyVars, workerVars
<1>0. TypeInv'
  BY TypeClient, TypeMain, TypeWorker DEF Next, vars, SettingUp
<1>1. CASE UNCHANGED <<clientVars, m_in_buf, m_socket, hurried>>
  BY <1>1 DEF CountInv
<1>2. ASSUME NEW c \in Conns, Client(c)
      PROVE  CountInv'
  BY <1>2 DEF CountInv, Client, Connect, Request, HangUp
<1>3. ASSUME NEW c \in Conns, NEW h \in Handles, Accept(c, h)
      PROVE  CountInv'
  BY <1>3 DEF CountInv, Accept, Backlog
<1>4. ASSUME NEW t \in Threads, Recv(t)
      PROVE  CountInv'
  <2> DEFINE p == pConn[t]
             peer == Peer(t)
  <2>1. /\ p \in Conns /\ peer \in Conns /\ m_socket[p] = m_socket[peer]
        /\ m_socket[p] \notin hurried => peer = p
    BY <1>4, HandlerOwns, HandlerKnows DEF Recv, Handling
  <2>2. /\ inbox[peer] > 0
        /\ inbox' = [inbox EXCEPT ![peer] = @ - 1]
        /\ m_in_buf' = [m_in_buf EXCEPT ![p] = @ + 1]
        /\ UNCHANGED <<client, sent, replies, m_socket, hurried>>
    BY <1>4 DEF Recv, Peer
  <2> HIDE DEF p, peer
  <2>3. ASSUME NEW c \in Conns, c \notin {p, peer}
        PROVE  inbox'[c] = inbox[c] /\ m_in_buf'[c] = m_in_buf[c]
    BY <2>1, <2>2, <2>3
  <2>4. peer = p => /\ inbox'[p] = inbox[p] - 1
                    /\ m_in_buf'[p] = m_in_buf[p] + 1
    BY <2>1, <2>2
  <2> QED BY <2>1, <2>2, <2>3, <2>4 DEF CountInv
<1>5. ASSUME NEW t \in Threads, DealBuffer(t)
      PROVE  CountInv'
  <2> DEFINE p == pConn[t]
             peer == Peer(t)
  <2>1. /\ p \in Conns /\ peer \in Conns /\ peer # NoConn
        /\ m_socket[p] \in Handles /\ m_socket[p] = m_socket[peer]
        /\ m_socket[p] \notin hurried => peer = p
        /\ client[peer] # "idle"
    BY <1>5, HandlerOwns, HandlerKnows DEF DealBuffer, Handling, HandOverInv
  <2>2. m_socket[m_conn_map[m_socket[p]]] = m_socket[p]
    BY <1>5, <2>1 DEF DealBuffer, SocketInv
  <2>3. /\ m_in_buf[p] > 0
        /\ m_in_buf' = [m_in_buf EXCEPT ![p] = @ - 1]
        /\ replies' = IF client[peer] = "up"
                      THEN [replies EXCEPT ![peer] = @ + 1] ELSE replies
        /\ UNCHANGED <<client, sent, inbox, m_socket, hurried>>
    BY <1>5, <2>1, <2>2 DEF DealBuffer, Peer
  <2> HIDE DEF p, peer
  <2>4. ASSUME NEW c \in Conns, c \notin {p, peer}
        PROVE  replies'[c] = replies[c] /\ m_in_buf'[c] = m_in_buf[c]
    BY <2>1, <2>3, <2>4
  <2>5. peer = p /\ client[p] = "up" => /\ replies'[p] = replies[p] + 1
                                        /\ m_in_buf'[p] = m_in_buf[p] - 1
    BY <2>1, <2>3
  <2> QED BY <2>1, <2>3, <2>4, <2>5 DEF CountInv
<1>6. ASSUME NEW t \in Threads, Worker(t)
      PROVE  CountInv'
  BY <1>1, <1>4, <1>5, <1>6
  DEF Worker, Sleep, CopySets, Select, FindWgdConn, EndDispatch, OnRead,
      RecvError, RecvEndOfStream, EndOnRead, CloseSocket, DeleteSocket,
      RemoveWgdConn, RemoveEvent, vars
<1>7. CASE Main
  BY <1>1, <1>3, <1>7 DEF Main, StartFails, Listen, AddWgdConn, AddEvent
<1> QED BY <1>1, <1>2, <1>6, <1>7 DEF Next, vars

\* The requests of a client that is there are all in the kernel, in the
\* connection's buffer or answered, each in one place, unless its handle was
\* given out while being closed.
THEOREM RequestsAccountedFor == Spec => []RequestsConserved
<1>1. Init => CountInv
  BY DEF Init, CountInv
<1>2. RegistryInv /\ CountInv /\ [Next]_vars => CountInv'
  BY CountStep
<1>3. CountInv => RequestsConserved
  BY DEF CountInv, RequestsConserved
<1> QED BY RegistryHolds, <1>1, <1>2, <1>3, PTL DEF Spec
-----------------------------------------------------------------------------
(* Registration with select().                                             *)

PolledInv ==
  /\ EveryConnPolled
  /\ ~SettingUp => newConn = NoConn

LEMMA PolledStep ==
  ASSUME RegistryInv, PolledInv, [Next]_vars
  PROVE  PolledInv'
<1> USE DEF PolledInv, SettingUp, EveryConnPolled, heapVars, mainVars,
        historyVars
<1>1. CASE UNCHANGED <<kernel, accepted, m_socket, m_read_set, mainVars>>
  BY <1>1
<1>2. ASSUME NEW c \in Conns, NEW h \in Handles, Accept(c, h)
      PROVE  PolledInv'
  <2>1. c \notin accepted /\ newConn = NoConn
    BY <1>2 DEF Accept, Backlog
  <2> QED BY <1>2, <2>1 DEF Accept, RegistryInv, OwnershipInv, TypeInv, TypeOK
<1>3. CASE AddWgdConn
  BY <1>3 DEF AddWgdConn
<1>4. ASSUME NEW t \in Threads, AddEvent(t)
      PROVE  PolledInv'
  <2> DEFINE fd == m_socket[newConn]
  <2>1. /\ newConn \in Conns /\ fd \in Handles
        /\ m_read_set \in [Threads -> SUBSET Handles]
        /\ handedTo \in [Conns -> Threads \cup {NoThread}]
        /\ accepted \subseteq Conns
    BY <1>4 DEF AddEvent, RegistryInv, OwnershipInv, TypeInv, TypeOK
  <2>2. /\ m_read_set' = [m_read_set EXCEPT ![t] = FD_SET(fd, @)]
        /\ turnedAway' = turnedAway \cup
                           (IF fd \in m_read_set'[t] THEN {} ELSE {newConn})
        /\ handedTo' = [handedTo EXCEPT ![newConn] = t]
        /\ mainPc' = "accept" /\ newConn' = NoConn
        /\ UNCHANGED <<kernel, heapVars, hurried>>
    BY <1>4 DEF AddEvent
  <2>3. \A w \in Threads : m_read_set[w] \subseteq m_read_set'[w]
    BY <2>1, <2>2 DEF FD_SET
  <2> HIDE DEF fd
  <2>4. ASSUME NEW c \in accepted, kernel[m_socket[c]] = c,
               m_socket[c] \notin hurried, c \notin turnedAway'
        PROVE  m_socket[c] \in m_read_set'[handedTo'[c]]
    <3>1. CASE c = newConn
      BY <2>1, <2>2, <2>4, <3>1 DEF fd
    <3>2. CASE c # newConn
      <4>1. m_socket[c] \in m_read_set[handedTo[c]] /\ handedTo'[c] = handedTo[c]
        BY <2>1, <2>2, <2>4, <3>2
      <4> QED BY <2>1, <2>2, <2>3, <4>1 DEF FD_SET
    <3> QED BY <3>1, <3>2
  <2> QED BY <2>2, <2>4
<1>5. ASSUME NEW t \in Threads, CloseSocket(t)
      PROVE  PolledInv'
  BY <1>5, HandlerOwns
  DEF CloseSocket, RegistryInv, OwnershipInv, TypeInv, TypeOK, Handling
<1>6. ASSUME NEW t \in Threads, DeleteSocket(t) \/ RemoveWgdConn(t)
      PROVE  PolledInv'
  BY <1>6 DEF DeleteSocket, RemoveWgdConn
<1>7. ASSUME NEW t \in Threads, RemoveEvent(t)
      PROVE  PolledInv'
  <2>1. \A c \in accepted :
          m_socket[c] \notin hurried /\ kernel[m_socket[c]] = c
            => m_socket[c] # m_socket[pConn[t]]
    BY <1>7 DEF RemoveEvent, RegistryInv, ForgottenInv, OwnershipInv,
       TypeInv, TypeOK, Forgetting
  <2> QED
    BY <1>7, <2>1
    DEF RemoveEvent, FD_CLR, RegistryInv, OwnershipInv, TypeInv, TypeOK
<1>8. ASSUME NEW t \in Threads, Worker(t)
      PROVE  PolledInv'
  BY <1>1, <1>5, <1>6, <1>7, <1>8
  DEF Worker, Sleep, CopySets, Select, FindWgdConn, EndDispatch, OnRead, Recv,
      RecvError, RecvEndOfStream, DealBuffer, EndOnRead, vars
<1>9. ASSUME NEW c \in Conns, Client(c)
      PROVE  PolledInv'
  BY <1>1, <1>9 DEF Client, Connect, Request, HangUp
<1>10. CASE StartFails \/ Listen
  BY <1>10 DEF StartFails, Listen
<1> QED BY <1>1, <1>2, <1>3, <1>4, <1>8, <1>9, <1>10 DEF Next, Main, vars

\* A connection FD_SET had room for stays in its thread's set as long as it
\* is open, however many connections come and go and however small an fd_set
\* is, unless its handle was given out while being closed.
THEOREM ConnectionsStayPolled == Spec => []EveryConnPolled
<1>1. Init => PolledInv
  BY DEF Init, PolledInv, EveryConnPolled
<1>2. RegistryInv /\ PolledInv /\ [Next]_vars => PolledInv'
  BY PolledStep
<1>3. PolledInv => EveryConnPolled
  BY DEF PolledInv
<1> QED BY RegistryHolds, <1>1, <1>2, <1>3, PTL DEF Spec
=============================================================================
