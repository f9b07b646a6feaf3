--------------------------- MODULE WgdServerProofs ---------------------------
(***************************************************************************)
(* Theorems about WgdServer that hold whatever the kernel does with the    *)
(* handles of sockets being closed.                                        *)
(***************************************************************************)
EXTENDS WgdServer, TLAPS

USE ConstantsAssumption

-----------------------------------------------------------------------------
(* Type correctness.  TypeOK alone is not inductive: the main thread uses  *)
(* the socket of newConn.                                                  *)

\* The main thread is between accept() and the end of the hand-over.
SettingUp == mainPc \in {"addConn", "addEvent"}

TypeInv ==
  /\ TypeOK
  /\ liveSockets \subseteq accepted
  /\ \A c \in Conns : c \in accepted <=> m_socket[c] \in Handles
  /\ SettingUp => newConn \in accepted

LEMMA TypeInit == Init => TypeInv
BY DEF Init, TypeInv, TypeOK, SettingUp

LEMMA TypeClient ==
  ASSUME TypeInv, NEW c \in Conns, Client(c)
  PROVE  TypeInv'
<1> USE DEF TypeInv, TypeOK, SettingUp, heapVars, mainVars, historyVars,
        workerVars
<1>1. CASE Connect(c)
  BY <1>1 DEF Connect
<1>2. CASE Request(c)
  BY <1>2 DEF Request
<1>3. CASE HangUp(c)
  BY <1>3 DEF HangUp
<1> QED BY <1>1, <1>2, <1>3 DEF Client

LEMMA TypeMain ==
  ASSUME TypeInv, Main
  PROVE  TypeInv'
<1> USE DEF TypeInv, TypeOK, SettingUp
<1>1. ASSUME NEW c \in Conns, NEW h \in Handles, Accept(c, h)
      PROVE  TypeInv'
  BY <1>1 DEF Accept, Backlog, HandlesBeingForgotten, clientVars, workerVars
<1>2. CASE AddWgdConn
  <2>1. m_socket[newConn] \in Handles
    BY <1>2 DEF AddWgdConn
  <2> QED BY <1>2, <2>1 DEF AddWgdConn, clientVars, heapVars, historyVars,
         workerVars
<1>3. ASSUME NEW w \in Threads, AddEvent(w)
      PROVE  TypeInv'
  BY <1>3 DEF AddEvent, FD_SET, clientVars, heapVars, workerVars
<1>4. CASE StartFails \/ Listen
  BY <1>4 DEF StartFails, Listen, clientVars, heapVars, historyVars,
             workerVars
<1> QED BY <1>1, <1>2, <1>3, <1>4 DEF Main

LEMMA TypeWorker ==
  ASSUME TypeInv, NEW w \in Threads, Worker(w)
  PROVE  TypeInv'
<1> USE DEF TypeInv, TypeOK, SettingUp, Handling, Forgetting,
        clientVars, heapVars, mainVars, historyVars, workerVars
<1>1. CASE Sleep(w)
  BY <1>1 DEF Sleep, vars
<1>2. CASE CopySets(w)
  BY <1>2 DEF CopySets
<1>3. CASE Select(w)
  BY <1>3 DEF Select
<1>4. CASE FindWgdConn(w)
  BY <1>4 DEF FindWgdConn
<1>5. CASE EndDispatch(w)
  BY <1>5 DEF EndDispatch
<1>6. CASE OnRead(w)
  BY <1>6 DEF OnRead
<1>7. CASE Recv(w)
  <2> DEFINE p == pConn[w]
             peer == kernel[m_socket[p]]
  <2>1. p \in Conns /\ peer \in Conns /\ inbox[peer] - 1 \in Nat
    BY <1>7 DEF Recv, Usable
  <2>2. /\ inbox' = [inbox EXCEPT ![peer] = @ - 1]
        /\ m_in_buf' = [m_in_buf EXCEPT ![p] = @ + 1]
    BY <1>7 DEF Recv
  <2> HIDE DEF p, peer
  <2>3. inbox' \in [Conns -> Nat] /\ m_in_buf' \in [Conns -> Nat]
    BY <2>1, <2>2
  <2> QED BY <1>7, <2>3 DEF Recv
<1>8. CASE RecvError(w)
  BY <1>8 DEF RecvError
<1>9. CASE RecvEndOfStream(w)
  BY <1>9 DEF RecvEndOfStream, vars
<1>10. CASE DealBuffer(w)
  <2> DEFINE p == pConn[w]
             peer == kernel[m_socket[m_conn_map[m_socket[p]]]]
  <2>1. p \in Conns /\ m_in_buf[p] > 0 /\ peer \in Conns \cup {NoConn}
    BY <1>10 DEF DealBuffer, Usable
  <2>2. /\ m_in_buf' = [m_in_buf EXCEPT ![p] = @ - 1]
        /\ replies' = IF peer # NoConn /\ client[peer] = "up"
                      THEN [replies EXCEPT ![peer] = @ + 1] ELSE replies
    BY <1>10 DEF DealBuffer
  <2> HIDE DEF p, peer
  <2>3. m_in_buf' \in [Conns -> Nat]
    BY <2>1, <2>2
  <2>4. replies' \in [Conns -> Nat]
    <3>1. CASE peer # NoConn /\ client[peer] = "up"
      <4>1. replies' = [replies EXCEPT ![peer] = @ + 1]
        BY <2>2, <3>1
      <4> QED BY <2>1, <3>1, <4>1
    <3>2. CASE ~(peer # NoConn /\ client[peer] = "up")
      BY <2>2, <3>2
    <3> QED BY <3>1, <3>2
  <2> QED BY <1>10, <2>3, <2>4 DEF DealBuffer
<1>11. CASE EndOnRead(w)
  BY <1>11 DEF EndOnRead
<1>12. CASE CloseSocket(w)
  BY <1>12 DEF CloseSocket
<1>13. CASE DeleteSocket(w)
  BY <1>13 DEF DeleteSocket
<1>14. CASE RemoveWgdConn(w)
  BY <1>14 DEF RemoveWgdConn
<1>15. CASE RemoveEvent(w)
  BY <1>15 DEF RemoveEvent, FD_CLR
<1> QED BY <1>1, <1>2, <1>3, <1>4, <1>5, <1>6, <1>7, <1>8, <1>9, <1>10,
           <1>11, <1>12, <1>13, <1>14, <1>15 DEF Worker

LEMMA TypeInvHolds == Spec => []TypeInv
<1>1. TypeInv /\ [Next]_vars => TypeInv'
  <2> SUFFICES ASSUME TypeInv, [Next]_vars
               PROVE  TypeInv'
    OBVIOUS
  <2>1. CASE UNCHANGED vars
    BY <2>1 DEF vars, clientVars, heapVars, mainVars, historyVars, workerVars,
               TypeInv, TypeOK, SettingUp
  <2> QED BY <2>1, TypeClient, TypeMain, TypeWorker DEF Next
<1> QED BY TypeInit, <1>1, PTL DEF Spec

\* Every reachable state is of the declared types: all assignments of the
\* server's threads stay in range, message counts never go below zero.
THEOREM TypeCorrect == Spec => []TypeOK
<1>1. TypeInv => TypeOK
  BY DEF TypeInv
<1> QED BY TypeInvHolds, <1>1, PTL
-----------------------------------------------------------------------------
(* Who owns a handle.                                                      *)

\* Thread w has closed h and is still to drop it from its set.
Forgets(w, h) == pc[w] \in Forgetting /\ m_socket[pConn[w]] = h

\* The kernel's table and the map hold a connection under its own handle only.
SocketInv ==
  \A h \in Handles :
    /\ kernel[h] # NoConn => kernel[h] \in accepted /\ m_socket[kernel[h]] = h
    /\ m_conn_map[h] # NoConn => /\ m_conn_map[h] \in accepted
                                /\ m_socket[m_conn_map[h]] = h

\* A connection is handed to a thread by AddEvent and not before; until then
\* it is the main thread's and open.
HandOverInv ==
  /\ \A c \in Conns \ accepted : handedTo[c] = NoThread
  /\ SettingUp => /\ kernel[m_socket[newConn]] = newConn
                  /\ handedTo[newConn] = NoThread
  /\ \A c \in accepted : client[c] # "idle"

\* A handle in a thread's set, unless being forgotten, is the open handle of
\* a connection handed to that thread.
OwnerInv ==
  \A w \in Threads : \A h \in m_read_set[w] :
    Forgets(w, h) \/ (kernel[h] # NoConn /\ handedTo[kernel[h]] = w)

\* A thread's private copy is part of its set and does not hold the handle
\* the thread is busy with.
CopyInv ==
  \A w \in Threads :
    /\ read_set[w] \subseteq m_read_set[w]
    /\ pc[w] \in Handling \cup Forgetting =>
         pConn[w] \in accepted /\ m_socket[pConn[w]] \notin read_set[w]
    /\ pc[w] \in Handling => m_socket[pConn[w]] \in m_read_set[w]

\* The connection whose bytes thread w reads: the one the kernel's table has
\* under the handle, whichever object the thread found there.
Peer(w) == kernel[m_socket[pConn[w]]]

\* What select() said of a handle stays true until the handle is dealt with.
ReadyInv ==
  \A w \in Threads :
    /\ pc[w] \in {"dispatch"} \cup Handling \cup Forgetting =>
         \A h \in read_set[w] : Readable(kernel[h])
    /\ pc[w] = "onRead" => Readable(Peer(w))
    /\ pc[w] = "close" => client[Peer(w)] \in {"fin", "rst"}

\* Only the thread reading into a buffer finds anything in it.
BufferInv ==
  \A c \in Conns :
    m_in_buf[c] = 0 \/ \E w \in Threads : /\ pc[w] \in {"recv", "deal"}
                                         /\ pConn[w] = c

\* No client is owed fewer requests than the server still holds of it: each
\* may be in the kernel or in the buffer the thread at work reads into, even
\* if that is the buffer of the connection that had the handle before.
CreditInv ==
  /\ \A c \in Conns : replies[c] + inbox[c] <= sent[c]
  /\ \A w \in Threads :
       pc[w] \in {"recv", "deal"} =>
         replies[Peer(w)] + inbox[Peer(w)] + m_in_buf[pConn[w]]
           <= sent[Peer(w)]

OwnershipInv ==
  /\ TypeInv
  /\ SocketInv
  /\ HandOverInv
  /\ OwnerInv
  /\ CopyInv
  /\ ReadyInv
  /\ HealthyNeverClosed
  /\ BufferInv
  /\ CreditInv

LEMMA OwnershipInit == Init => OwnershipInv
BY TypeInit DEF Init, OwnershipInv, SocketInv, HandOverInv, OwnerInv, CopyInv,
   ReadyInv, HealthyNeverClosed, BufferInv, CreditInv, SettingUp, Handling,
   Forgetting

\* A thread at work on a handle owns the connection that has it.
LEMMA HandlerOwns ==
  ASSUME OwnershipInv, NEW w \in Threads, pc[w] \in Handling
  PROVE  /\ pConn[w] \in Conns
         /\ m_socket[pConn[w]] \in Handles
         /\ Peer(w) \in Conns
         /\ Peer(w) # NoConn
         /\ Peer(w) \in accepted
         /\ m_socket[Peer(w)] = m_socket[pConn[w]]
         /\ handedTo[Peer(w)] = w
BY DEF OwnershipInv, TypeInv, TypeOK, SocketInv, OwnerInv, CopyInv, Handling,
       Forgetting, Forgets, Peer

\* The handles in a thread's private copy are open and its own.
LEMMA CopyOwned ==
  ASSUME OwnershipInv, NEW w \in Threads, NEW h \in read_set[w]
  PROVE  /\ h \in Handles
         /\ kernel[h] # NoConn
         /\ kernel[h] \in Conns
         /\ m_socket[kernel[h]] = h
         /\ handedTo[kernel[h]] = w
         /\ ~Forgets(w, h)
BY DEF OwnershipInv, TypeInv, TypeOK, SocketInv, OwnerInv, CopyInv, Handling,
       Forgetting, Forgets

\* Two threads are never at work on one handle, nor on one connection.
LEMMA HandlersApart ==
  ASSUME OwnershipInv,
         NEW v \in Threads, pc[v] \in Handling,
         NEW w \in Threads, pc[w] \in Handling, v # w
  PROVE  Peer(v) # Peer(w) /\ m_socket[pConn[v]] # m_socket[pConn[w]]
BY HandlerOwns DEF Peer

LEMMA OwnershipClient ==
  ASSUME OwnershipInv, NEW c \in Conns, Client(c)
  PROVE  OwnershipInv'
<1> USE DEF OwnershipInv, TypeInv, TypeOK, SettingUp, Handling, Forgetting,
        clientVars, heapVars, mainVars, historyVars, workerVars
<1>0. TypeInv'
  BY TypeClient
<1>1. /\ UNCHANGED <<replies, kernel, heapVars, m_in_buf, m_conn_map,
                     m_read_set, mainVars, workerVars>>
      /\ \A d \in Conns :
           /\ client[d] \in {"fin", "rst"} => client'[d] = client[d]
           /\ client[d] # "idle" => client'[d] # "idle"
           /\ inbox'[d] - inbox[d] <= sent'[d] - sent[d]
           /\ inbox'[d] < inbox[d] => client'[d] = "rst"
  BY DEF Client, Connect, Request, HangUp
<1>2. SocketInv' /\ HandOverInv' /\ OwnerInv' /\ CopyInv' /\ BufferInv'
  BY <1>1 DEF SocketInv, HandOverInv, OwnerInv, CopyInv, BufferInv, Forgets
<1>3. \A d \in Conns : Readable(d) => Readable(d)'
  BY <1>0, <1>1 DEF Readable
<1>4. HealthyNeverClosed'
  BY <1>1 DEF HealthyNeverClosed
<1>5. ReadyInv'
  <2>1. \A w \in Threads : Peer(w)' = Peer(w)
    BY <1>1 DEF Peer
  <2> QED BY <1>1, <1>3, <2>1, CopyOwned, HandlerOwns DEF ReadyInv, Readable
<1>6. CreditInv'
  <2>1. \A w \in Threads : Peer(w)' = Peer(w)
    BY <1>1 DEF Peer
  <2>2. \A d \in Conns : replies'[d] + inbox'[d] <= sent'[d]
    BY <1>0, <1>1 DEF CreditInv
  <2>3. ASSUME NEW w \in Threads, pc'[w] \in {"recv", "deal"}
        PROVE  replies'[Peer(w)] + inbox'[Peer(w)] + m_in_buf'[pConn[w]]
                 <= sent'[Peer(w)]
    <3>1. pConn[w] \in Conns /\ Peer(w) \in Conns
      BY <1>1, <2>3, HandlerOwns
    <3> QED BY <1>0, <1>1, <2>3, <3>1 DEF CreditInv
  <2> QED BY <1>1, <2>1, <2>2, <2>3 DEF CreditInv
<1> QED BY <1>0, <1>2, <1>4, <1>5, <1>6

LEMMA OwnershipMain ==
  ASSUME OwnershipInv, Main
  PROVE  OwnershipInv'
<1> USE DEF OwnershipInv, SocketInv, HandOverInv, OwnerInv, CopyInv, ReadyInv,
        HealthyNeverClosed, BufferInv, CreditInv, TypeInv, TypeOK, SettingUp,
        Forgets, Peer, Readable, Handling, Forgetting, clientVars, heapVars,
        mainVars, historyVars, workerVars
<1>0. TypeInv'
  BY TypeMain
<1>1. ASSUME NEW c \in Conns, NEW h \in Handles, Accept(c, h)
      PROVE  OwnershipInv'
  <2>1. SocketInv' /\ HandOverInv' /\ HealthyNeverClosed'
    BY <1>1 DEF Accept, Backlog
  <2>2. OwnerInv' /\ CopyInv' /\ BufferInv'
    BY <1>1 DEF Accept, Backlog
  <2>3. \A w \in Threads : pc[w] \in Handling => Peer(w)' = Peer(w)
    BY <1>1, HandlerOwns DEF Accept, Backlog
  <2>4. ReadyInv'
    <3>1. \A w \in Threads : \A g \in read_set[w] : kernel'[g] = kernel[g]
      BY <1>1, CopyOwned DEF Accept
    <3> QED BY <1>1, <2>3, <3>1 DEF Accept, Backlog
  <2>5. CreditInv'
    BY <1>1, <2>3 DEF Accept
  <2> QED BY <1>0, <2>1, <2>2, <2>4, <2>5
<1>2. CASE AddWgdConn
  BY <1>0, <1>2 DEF AddWgdConn
<1>3. ASSUME NEW t \in Threads, AddEvent(t)
      PROVE  OwnershipInv'
  BY <1>0, <1>3 DEF AddEvent, FD_SET
<1>4. CASE StartFails \/ Listen
  BY <1>0, <1>4 DEF StartFails, Listen
<1> QED BY <1>1, <1>2, <1>3, <1>4 DEF Main

LEMMA OwnershipWorker ==
  ASSUME OwnershipInv, NEW t \in Threads, Worker(t)
  PROVE  OwnershipInv'
<1> USE DEF OwnershipInv, SocketInv, HandOverInv, OwnerInv, CopyInv, ReadyInv,
        HealthyNeverClosed, BufferInv, CreditInv, TypeInv, TypeOK, SettingUp,
        Forgets, Peer, Readable, Handling, Forgetting, clientVars, heapVars,
        mainVars, historyVars, workerVars
<1>0. TypeInv'
  BY TypeWorker
<1>1. CASE Sleep(t)
  BY <1>0, <1>1 DEF Sleep, vars
<1>2. CASE CopySets(t)
  BY <1>0, <1>2 DEF CopySets
<1>3. CASE Select(t)
  BY <1>0, <1>3 DEF Select
<1>4. CASE FindWgdConn(t)
  <2> PICK fd \in read_set[t] :
        /\ read_set' = [read_set EXCEPT ![t] = @ \ {fd}]
        /\ pConn' = [pConn EXCEPT ![t] = m_conn_map[fd]]
        /\ pc' = [pc EXCEPT ![t] = IF m_conn_map[fd] = NoConn THEN "dispatch"
                                                             ELSE "onRead"]
    BY <1>4 DEF FindWgdConn
  <2>1. /\ fd \in Handles /\ kernel[fd] \in Conns
        /\ m_conn_map[fd] # NoConn => /\ m_conn_map[fd] \in accepted
                                     /\ m_socket[m_conn_map[fd]] = fd
    BY CopyOwned
  <2>2. /\ UNCHANGED <<clientVars, kernel, heapVars, m_in_buf, m_conn_map,
                       m_read_set, mainVars>>
        /\ pc[t] = "dispatch"
    BY <1>4 DEF FindWgdConn
  <2>3. ReadyInv'
    BY <2>1, <2>2
  <2>4. OwnerInv' /\ CopyInv'
    BY <2>1, <2>2
  <2>5. BufferInv'
    BY <2>1, <2>2
  <2>6. CreditInv'
    <3>1. \A w \in Threads : pc'[w] \in {"recv", "deal"} => w # t
      BY <2>2
    <3>2. \A w \in Threads : w # t => /\ pc'[w] = pc[w]
                                      /\ pConn'[w] = pConn[w]
      BY <2>1, <2>2
    <3> QED BY <2>2, <3>1, <3>2
  <2>7. SocketInv' /\ HandOverInv' /\ HealthyNeverClosed'
    BY <2>2
  <2> QED BY <1>0, <2>3, <2>4, <2>5, <2>6, <2>7
<1>5. CASE EndDispatch(t)
  BY <1>0, <1>5 DEF EndDispatch
<1>6. CASE OnRead(t)
  <2>1. pc[t] = "onRead" /\ Peer(t) \in Conns /\ pConn[t] \in Conns
    BY <1>6, HandlerOwns DEF OnRead
  <2>2. m_in_buf[pConn[t]] = 0
    BY <2>1, HandlersApart
  <2>3. CreditInv'
    BY <1>6, <2>1, <2>2 DEF OnRead
  <2>4. ReadyInv'
    BY <1>6, <2>1 DEF OnRead
  <2>5. BufferInv'
    BY <1>6 DEF OnRead
  <2> QED BY <1>0, <1>6, <2>3, <2>4, <2>5 DEF OnRead
<1>7. CASE Recv(t)
  <2> DEFINE p == pConn[t]
             peer == Peer(t)
  <2>1. /\ p \in Conns /\ peer \in Conns /\ pc[t] = "recv"
        /\ inbox[peer] > 0
        /\ inbox' = [inbox EXCEPT ![peer] = @ - 1]
        /\ m_in_buf' = [m_in_buf EXCEPT ![p] = @ + 1]
    BY <1>7, HandlerOwns DEF Recv
  <2>2. UNCHANGED <<client, sent, replies, kernel, heapVars, m_conn_map,
                    m_read_set, mainVars, workerVars>>
    BY <1>7 DEF Recv
  <2>3. \A w \in Threads : Peer(w)' = Peer(w)
    BY <2>2
  <2>4. \A w \in Threads :
          w # t /\ pc[w] \in Handling => Peer(w) # peer /\ pConn[w] # p
    BY <2>1, HandlersApart
  <2>5. \A w \in Threads : \A g \in read_set[w] : kernel[g] # peer
    BY <2>1, CopyOwned, HandlerOwns
  <2>6. BufferInv'
    BY <2>1, <2>2
  <2> HIDE DEF p, peer
  <2>7. ReadyInv'
    <3>1. \A c \in Conns : c # peer => inbox'[c] = inbox[c]
      BY <2>1
    <3>2. \A w \in Threads : \A g \in read_set[w] : kernel[g] \in Conns
      BY CopyOwned
    <3>3. \A w \in Threads : pc[w] \in Handling => Peer(w) \in Conns
      BY HandlerOwns
    <3> QED BY <2>1, <2>2, <2>3, <2>4, <2>5, <3>1, <3>2, <3>3
  <2>8. CreditInv'
    <3>1. \A c \in Conns : replies'[c] + inbox'[c] <= sent'[c]
      BY <2>1, <2>2
    <3>2. ASSUME NEW w \in Threads, pc'[w] \in {"recv", "deal"}
          PROVE  replies'[Peer(w)] + inbox'[Peer(w)] + m_in_buf'[pConn[w]]
                   <= sent'[Peer(w)]
      <4>1. pc[w] \in {"recv", "deal"} /\ Peer(w) \in Conns /\ pConn[w] \in Conns
        BY <2>2, <3>2, HandlerOwns
      <4>2. CASE w = t
        BY <2>1, <2>2, <4>1, <4>2 DEF p, peer
      <4>3. CASE w # t
        BY <2>1, <2>2, <2>4, <4>1, <4>3
      <4> QED BY <4>2, <4>3
    <3> QED BY <2>2, <2>3, <3>1, <3>2
  <2> QED BY <1>0, <2>2, <2>6, <2>7, <2>8
<1>8. CASE RecvError(t)
  BY <1>0, <1>8 DEF RecvError
<1>9. CASE RecvEndOfStream(t)
  BY <1>0, <1>9 DEF RecvEndOfStream, vars
<1>10. CASE DealBuffer(t)
  <2> DEFINE p == pConn[t]
             peer == Peer(t)
  <2>1. /\ p \in Conns /\ peer \in Conns /\ pc[t] = "deal"
        /\ m_in_buf[p] > 0
        /\ m_in_buf' = [m_in_buf EXCEPT ![p] = @ - 1]
        /\ replies' = IF client[peer] = "up"
                      THEN [replies EXCEPT ![peer] = @ + 1] ELSE replies
    <3> DEFINE target == m_conn_map[m_socket[p]]
    <3>1. /\ p \in Conns /\ peer \in Conns /\ m_socket[p] \in Handles
          /\ peer # NoConn
      BY <1>10, HandlerOwns DEF DealBuffer
    <3>2. target # NoConn
      BY <1>10 DEF DealBuffer
    <3>3. m_socket[target] = m_socket[p]
      BY <3>1, <3>2 DEF SocketInv
    <3> QED BY <1>10, <3>1, <3>3 DEF DealBuffer
  <2>2. UNCHANGED <<client, sent, inbox, kernel, heapVars, m_conn_map,
                    m_read_set, mainVars, workerVars>>
    BY <1>10 DEF DealBuffer
  <2>3. \A w \in Threads : Peer(w)' = Peer(w)
    BY <2>2
  <2>4. \A w \in Threads :
          w # t /\ pc[w] \in Handling => Peer(w) # peer /\ pConn[w] # p
    BY <2>1, HandlersApart
  <2>5. replies[peer] + inbox[peer] + m_in_buf[p] <= sent[peer]
    BY <2>1
  <2>6. BufferInv'
    BY <2>1, <2>2
  <2> HIDE DEF p, peer
  <2>7. CreditInv'
    <3>1. ASSUME NEW c \in Conns PROVE replies'[c] + inbox'[c] <= sent'[c]
      <4>1. CASE c = peer
        BY <1>0, <2>1, <2>2, <2>5, <4>1
      <4>2. CASE c # peer
        BY <2>1, <2>2, <4>2
      <4> QED BY <4>1, <4>2
    <3>2. ASSUME NEW w \in Threads, pc'[w] \in {"recv", "deal"}
          PROVE  replies'[Peer(w)] + inbox'[Peer(w)] + m_in_buf'[pConn[w]]
                   <= sent'[Peer(w)]
      <4>1. pc[w] \in {"recv", "deal"} /\ Peer(w) \in Conns /\ pConn[w] \in Conns
        BY <2>2, <3>2, HandlerOwns
      <4>2. CASE w = t
        BY <2>1, <2>2, <2>5, <4>1, <4>2 DEF p, peer
      <4>3. CASE w # t
        BY <2>1, <2>2, <2>4, <4>1, <4>3
      <4> QED BY <4>2, <4>3
    <3> QED BY <2>2, <2>3, <3>1, <3>2
  <2>8. ReadyInv' /\ SocketInv' /\ HandOverInv' /\ HealthyNeverClosed'
    BY <2>2
  <2>9. OwnerInv' /\ CopyInv'
    BY <2>2
  <2> QED BY <1>0, <2>6, <2>7, <2>8, <2>9
<1>11. CASE EndOnRead(t)
  BY <1>0, <1>11 DEF EndOnRead
<1>12. CASE CloseSocket(t)
  <2> DEFINE fd == m_socket[pConn[t]]
             peer == Peer(t)
  <2>1. /\ fd \in Handles /\ peer \in Conns /\ kernel[fd] = peer
        /\ m_socket[peer] = fd /\ handedTo[peer] = t /\ peer # NoConn
        /\ client[peer] \in {"fin", "rst"}
        /\ fd \notin read_set[t] /\ pc[t] = "close"
    BY <1>12, HandlerOwns DEF CloseSocket
  <2>2. /\ kernel' = [kernel EXCEPT ![fd] = NoConn]
        /\ pc' = [pc EXCEPT ![t] = "delete"]
        /\ UNCHANGED <<clientVars, heapVars, m_in_buf, m_conn_map, m_read_set,
                       read_set, pConn, mainVars>>
    BY <1>12 DEF CloseSocket
  <2>3. CopyInv' /\ BufferInv'
    BY <1>12 DEF CloseSocket
  <2>4. OwnerInv'
    <3> SUFFICES ASSUME NEW w \in Threads, NEW h \in m_read_set[w]
                 PROVE  \/ Forgets(w, h)'
                        \/ kernel'[h] # NoConn /\ handedTo'[kernel'[h]] = w
      BY <2>2
    <3>1. CASE Forgets(w, h)
      BY <2>2, <3>1
    <3>2. CASE ~Forgets(w, h) /\ h # fd
      BY <2>1, <2>2, <3>2
    <3>3. CASE ~Forgets(w, h) /\ h = fd
      BY <2>1, <2>2, <3>3
    <3> QED BY <3>1, <3>2, <3>3
  <2>5. \A w \in Threads : \A g \in read_set[w] : kernel'[g] = kernel[g]
    BY <2>1, <2>2, CopyOwned
  <2>6. \A w \in Threads : w # t /\ pc[w] \in Handling => Peer(w)' = Peer(w)
    BY <2>1, <2>2, HandlersApart
  <2> HIDE DEF fd, peer
  <2>7. SocketInv' /\ HandOverInv' /\ HealthyNeverClosed'
    BY <2>1, <2>2
  <2>8. ReadyInv' /\ CreditInv'
    BY <2>1, <2>2, <2>5, <2>6
  <2> QED BY <1>0, <2>3, <2>4, <2>7, <2>8
<1>13. CASE DeleteSocket(t)
  BY <1>0, <1>13 DEF DeleteSocket
<1>14. CASE RemoveWgdConn(t)
  BY <1>0, <1>14 DEF RemoveWgdConn
<1>15. CASE RemoveEvent(t)
  BY <1>0, <1>15 DEF RemoveEvent, FD_CLR
<1> QED BY <1>1, <1>2, <1>3, <1>4, <1>5, <1>6, <1>7, <1>8, <1>9,
           <1>10, <1>11, <1>12, <1>13, <1>14, <1>15 DEF Worker

LEMMA OwnershipStutter ==
  ASSUME OwnershipInv, UNCHANGED vars
  PROVE  OwnershipInv'
<1> USE DEF vars, clientVars, heapVars, mainVars, historyVars, workerVars
<1>1. TypeInv'
  BY DEF OwnershipInv, TypeInv, TypeOK, SettingUp
<1>2. SocketInv' /\ HandOverInv' /\ CopyInv'
  BY DEF OwnershipInv, SocketInv, HandOverInv, CopyInv, SettingUp
<1>3. OwnerInv' /\ ReadyInv' /\ HealthyNeverClosed'
  BY DEF OwnershipInv, OwnerInv, ReadyInv, HealthyNeverClosed, Forgets, Peer,
         Readable
<1>4. BufferInv' /\ CreditInv'
  BY DEF OwnershipInv, BufferInv, CreditInv, Peer
<1> QED BY <1>1, <1>2, <1>3, <1>4 DEF OwnershipInv

LEMMA OwnershipHolds == Spec => []OwnershipInv
<1>1. OwnershipInv /\ [Next]_vars => OwnershipInv'
  <2> SUFFICES ASSUME OwnershipInv, [Next]_vars
               PROVE  OwnershipInv'
    OBVIOUS
  <2>1. CASE UNCHANGED vars
    BY <2>1, OwnershipStutter
  <2> QED BY <2>1, OwnershipClient, OwnershipMain, OwnershipWorker DEF Next
<1> QED BY OwnershipInit, <1>1, PTL DEF Spec
-----------------------------------------------------------------------------
\* The server closes a connection only when its client has hung up: what
\* select() reported is still true when FIONREAD is asked, since nobody else
\* reads from the connection in between.
THEOREM HealthyStayOpen == Spec => []HealthyNeverClosed
<1>1. OwnershipInv => HealthyNeverClosed
  BY DEF OwnershipInv
<1> QED BY OwnershipHolds, <1>1, PTL

\* No thread runs select() over a closed handle, so that no select() call of
\* a worker fails for the sake of another connection.
THEOREM PolledStayOpen == Spec => []PolledHandlesOpen
<1>1. OwnershipInv => PolledHandlesOpen
  BY CopyOwned DEF PolledHandlesOpen
<1> QED BY OwnershipHolds, <1>1, PTL
-----------------------------------------------------------------------------
(* The server implements EchoService.                                      *)

\* A step that leaves alone the clients' ends and what accept() and
\* closesocket do is none of the service's steps.
LEMMA ServiceStutter ==
  ASSUME UNCHANGED <<client, sent, replies, accepted, m_socket, kernel>>
  PROVE  UNCHANGED Service!vars
BY DEF Service!vars, Stage

LEMMA ServiceClient ==
  ASSUME OwnershipInv, NEW c \in Conns, Client(c)
  PROVE  Service!Next
<1>1. CASE Connect(c)
  BY <1>1 DEF Connect, heapVars, Stage, Service!Connect, Service!Next
<1>2. CASE Request(c)
  BY <1>2 DEF Request, heapVars, Stage, Service!Request, Service!Next
<1>3. CASE HangUp(c)
  <2>1. \E kind \in {"fin", "rst"} : client' = [client EXCEPT ![c] = kind]
    BY <1>3, ConstantsAssumption DEF HangUp
  <2> QED BY <1>3, <2>1 DEF HangUp, heapVars, Stage, Service!HangUp,
          Service!Next
<1> QED BY <1>1, <1>2, <1>3 DEF Client

\* accept() takes a connection on; what the main thread does next with the
\* map and the sets shows to nobody.
LEMMA ServiceMain ==
  ASSUME OwnershipInv, Main
  PROVE  Service!Next \/ UNCHANGED Service!vars
<1>1. ASSUME NEW c \in Conns, NEW h \in Handles, Accept(c, h)
      PROVE  Service!TakeOn(c)
  <2>1. client[c] # "idle" /\ c \notin accepted
    BY <1>1 DEF Accept, Backlog
  <2>2. Stage[c] = "new"
    BY <2>1 DEF Stage
  <2>3. Stage' = [Stage EXCEPT ![c] = "held"]
    <3>1. \A d \in accepted : kernel'[m_socket'[d]] = d
                             <=> kernel[m_socket[d]] = d
      BY <1>1, <2>1 DEF Accept, OwnershipInv, TypeInv, TypeOK
    <3>2. kernel'[m_socket'[c]] = c /\ accepted' = accepted \cup {c}
      BY <1>1 DEF Accept, OwnershipInv, TypeInv, TypeOK
    <3> QED BY <2>1, <3>1, <3>2 DEF Stage
  <2> QED BY <1>1, <2>1, <2>2, <2>3 DEF Accept, clientVars, Service!TakeOn
<1>2. CASE AddWgdConn
  BY <1>2, ServiceStutter DEF AddWgdConn, clientVars, heapVars
<1>3. ASSUME NEW w \in Threads, AddEvent(w)
      PROVE  UNCHANGED Service!vars
  BY <1>3, ServiceStutter DEF AddEvent, clientVars, heapVars
<1>4. CASE StartFails \/ Listen
  BY <1>4, ServiceStutter DEF StartFails, Listen, clientVars, heapVars
<1> QED BY <1>1, <1>2, <1>3, <1>4 DEF Main, Service!Next

\* The thread in OnTest answers the client whose bytes it read, also when it
\* does so through an older connection's object, so the reply is one of those
\* still owed.
LEMMA ServiceDeal ==
  ASSUME OwnershipInv, NEW w \in Threads, DealBuffer(w)
  PROVE  Service!Next \/ UNCHANGED Service!vars
<1> DEFINE p == pConn[w]
           peer == Peer(w)
           target == m_conn_map[m_socket[p]]
<1>1. /\ p \in Conns /\ peer \in Conns /\ peer # NoConn /\ peer \in accepted
      /\ m_socket[p] \in Handles /\ m_socket[peer] = m_socket[p]
  BY HandlerOwns DEF DealBuffer, Handling
<1>2. m_socket[target] = m_socket[p]
  BY <1>1 DEF DealBuffer, OwnershipInv, SocketInv
<1>3. replies' = IF client[peer] = "up" THEN [replies EXCEPT ![peer] = @ + 1]
                 ELSE replies
  BY <1>1, <1>2 DEF DealBuffer, Peer
<1>4. UNCHANGED <<client, sent, accepted, m_socket, kernel>>
  BY DEF DealBuffer, heapVars
<1>5. replies[peer] + inbox[peer] + m_in_buf[p] <= sent[peer] /\ m_in_buf[p] > 0
  BY DEF DealBuffer, OwnershipInv, CreditInv
<1>6. Stage[peer] = "held"
  BY <1>1 DEF Stage, Peer
<1> HIDE DEF p, peer, target
<1>7. CASE client[peer] = "up"
  <2>1. replies[peer] < sent[peer]
    BY <1>1, <1>5 DEF OwnershipInv, TypeInv, TypeOK
  <2>2. Stage' = Stage
    BY <1>4 DEF Stage
  <2>3. Service!Reply(peer)
    BY <1>3, <1>4, <1>6, <1>7, <2>1, <2>2 DEF Service!Reply
  <2> QED BY <1>1, <2>3 DEF Service!Next
<1>8. CASE client[peer] # "up"
  BY <1>3, <1>4, <1>8, ServiceStutter
<1> QED BY <1>7, <1>8

\* closesocket is only reached for a client that has hung up, and closes that
\* client's connection whichever object the thread holds.
LEMMA ServiceClose ==
  ASSUME OwnershipInv, NEW w \in Threads, CloseSocket(w)
  PROVE  Service!Next
<1> DEFINE p == Peer(w)
           fd == m_socket[pConn[w]]
<1>1. /\ p \in Conns /\ p \in accepted /\ p # NoConn
      /\ fd \in Handles /\ m_socket[p] = fd /\ kernel[fd] = p
  BY HandlerOwns DEF CloseSocket, Handling, Peer
<1>2. client[p] \in {"fin", "rst"}
  BY DEF CloseSocket, OwnershipInv, ReadyInv
<1>3. /\ kernel' = [kernel EXCEPT ![fd] = NoConn]
      /\ UNCHANGED <<clientVars, accepted, m_socket>>
  BY DEF CloseSocket, heapVars
<1> HIDE DEF p, fd
<1>4. \A d \in accepted : d # p => (kernel'[m_socket[d]] = d
                                    <=> kernel[m_socket[d]] = d)
  BY <1>1, <1>3, ConstantsAssumption DEF OwnershipInv, TypeInv, TypeOK
<1>5. kernel'[m_socket[p]] # p
  BY <1>1, <1>3 DEF OwnershipInv, TypeInv, TypeOK
<1>6. Stage[p] = "held" /\ Stage' = [Stage EXCEPT ![p] = "released"]
  BY <1>1, <1>3, <1>4, <1>5 DEF Stage
<1>7. Service!Release(p)
  BY <1>2, <1>3, <1>6 DEF clientVars, Service!Release
<1> QED BY <1>1, <1>7 DEF Service!Next

LEMMA ServiceWorker ==
  ASSUME OwnershipInv, NEW w \in Threads, Worker(w)
  PROVE  Service!Next \/ UNCHANGED Service!vars
<1>1. CASE Sleep(w) \/ RecvEndOfStream(w)
  BY <1>1, ServiceStutter
     DEF Sleep, RecvEndOfStream, vars, clientVars, heapVars
<1>2. CASE CopySets(w) \/ Select(w) \/ FindWgdConn(w) \/ EndDispatch(w)
  BY <1>2, ServiceStutter
     DEF CopySets, Select, FindWgdConn, EndDispatch, clientVars, heapVars
<1>3. CASE OnRead(w) \/ Recv(w) \/ RecvError(w) \/ EndOnRead(w)
  BY <1>3, ServiceStutter
     DEF OnRead, Recv, RecvError, EndOnRead, clientVars, heapVars
<1>4. CASE DeleteSocket(w) \/ RemoveWgdConn(w) \/ RemoveEvent(w)
  BY <1>4, ServiceStutter
     DEF DeleteSocket, RemoveWgdConn, RemoveEvent, clientVars, heapVars
<1> QED BY <1>1, <1>2, <1>3, <1>4, ServiceDeal, ServiceClose DEF Worker

\* Seen from its clients the server, with any number of threads, connections
\* and handles and handles reused at any moment, only ever takes connections
\* on, answers requests still owed and releases what was hung up.
THEOREM ImplementsService == Spec => ServiceSpec
<1>1. Init => Service!Init
  BY DEF Init, Service!Init, Stage
<1>2. OwnershipInv /\ [Next]_vars => [Service!Next]_(Service!vars)
  <2> SUFFICES ASSUME OwnershipInv, [Next]_vars
               PROVE  Service!Next \/ UNCHANGED Service!vars
    OBVIOUS
  <2>1. CASE UNCHANGED vars
    BY <2>1, ServiceStutter DEF vars, clientVars, heapVars
  <2> QED BY <2>1, ServiceClient, ServiceMain, ServiceWorker DEF Next
<1> QED BY <1>1, <1>2, OwnershipHolds, PTL DEF Spec, ServiceSpec, Service!Spec
=============================================================================
