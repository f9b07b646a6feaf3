--------------------------- MODULE JSClientProofs ---------------------------
(***************************************************************************)
(* Theorems about JSClient, for any number of sockets, messages, replies   *)
(* and parts.                                                              *)
(***************************************************************************)
EXTENDS JSClient, SequenceTheorems, TLAPS

\* Length of the longest stream a server sends.
Stream == MaxReplies * ReplySize

LEMMA StreamNat == Stream \in Nat
BY ClientAssumption DEF Stream

\* A receive buffer holds no more than was received.
CountInv == \A k \in Sockets : avail[k] <= received[k] /\ received[k] <= Stream

\* What a thread is sending.
SendState ==
  [msg : 0 .. MaxMessages, done : 0 .. SendParts, of : 0 .. SendParts]

LEMMA SendStates ==
  /\ NotSending \in SendState
  /\ \A m \in 0 .. MaxMessages, d, n \in 0 .. SendParts :
       [msg |-> m, done |-> d, of |-> n] \in SendState
  /\ \A s \in SendState :
       /\ s.msg \in 0 .. MaxMessages
       /\ s.done \in 0 .. SendParts /\ s.of \in 0 .. SendParts
       /\ \A d \in 0 .. SendParts : [s EXCEPT !.done = d] \in SendState
BY ClientAssumption DEF SendState, NotSending, Hello

LEMMA NextPart ==
  ASSUME NEW d \in 0 .. SendParts, NEW n \in 0 .. SendParts, d < n
  PROVE  d + 1 \in 1 .. SendParts
BY ClientAssumption

LEMMA TypeStep == TypeOK /\ CountInv /\ [Next]_vars => TypeOK' /\ CountInv'
<1> SUFFICES ASSUME TypeOK, CountInv, [Next]_vars
             PROVE  TypeOK' /\ CountInv'
  OBVIOUS
<1> USE DEF TypeOK, CountInv, Threads
<1>1. CASE Network
  <2>1. ASSUME NEW k \in Sockets, Arrive(k)
        PROVE  TypeOK' /\ CountInv'
    <3>1. received[k] < Stream
      BY <2>1 DEF Arrive, Stream
    <3>2. /\ avail' = [avail EXCEPT ![k] = avail[k] + 1]
          /\ received' = [received EXCEPT ![k] = received[k] + 1]
      BY <2>1 DEF Arrive
    <3>3. avail' \in [Sockets -> Nat] /\ received' \in [Sockets -> Nat]
      <4>1. avail \in [Sockets -> Nat] /\ received \in [Sockets -> Nat]
        OBVIOUS
      <4>2. avail[k] + 1 \in Nat /\ received[k] + 1 \in Nat
        BY <4>1, SMTT(20)
      <4> QED BY <3>2, <4>1, <4>2
    <3>4. CountInv'
      BY <3>1, <3>2, StreamNat, SMTT(20)
    <3> QED BY <2>1, <3>3, <3>4 DEF Arrive, sendVars, readVars
  <2>2. ASSUME NEW k \in Sockets, Lose(k)
        PROVE  TypeOK' /\ CountInv'
    <3>1. PICK kind \in {"fin", "rst"} :
            /\ link' = [link EXCEPT ![k] = kind]
            /\ avail' = IF kind = "rst" THEN [avail EXCEPT ![k] = 0] ELSE avail
      BY <2>2, ClientAssumption DEF Lose
    <3>2. link' \in [Sockets -> {"none", "new", "up", "fin", "rst", "closed"}]
      BY <3>1
    <3>3. /\ avail' \in [Sockets -> Nat]
          /\ \A j \in Sockets : avail'[j] <= avail[j]
      BY <3>1, SMTT(20)
    <3> QED BY <2>2, <3>2, <3>3, StreamNat DEF Lose, sendVars, readVars
  <2>3. CASE Establish
    BY <2>3 DEF Establish, sendVars, readVars
  <2> QED BY <1>1, <2>1, <2>2, <2>3 DEF Network
<1>2. ASSUME NEW t \in Threads, SendPart(t)
      PROVE  TypeOK' /\ CountInv'
  <2> DEFINE e == [msg |-> sending[t].msg, part |-> sending[t].done + 1]
  <2>1. sending[t] \in SendState
    BY DEF SendState
  <2>2. sending[t].done + 1 \in 1 .. SendParts
    <3>1. /\ sending[t].done \in 0 .. SendParts
          /\ sending[t].of \in 0 .. SendParts
      BY <2>1, SendStates
    <3>2. sending[t].done < sending[t].of
      BY <1>2 DEF SendPart
    <3> QED BY <3>1, <3>2, NextPart
  <2>3. e \in Part
    BY <2>1, <2>2, SendStates DEF Part
  <2> HIDE DEF e
  <2>4. wire' \in [Sockets -> Seq(Part)]
    <3>1. wire' = [wire EXCEPT ![m_fd] = Append(@, e)]
      BY <1>2 DEF SendPart, e
    <3> QED BY <2>3, <3>1
  <2>5. sending' \in [Threads -> SendState]
    <3>1. sending \in [Threads -> SendState]
      BY DEF SendState
    <3>2. [sending[t] EXCEPT !.done = sending[t].done + 1] \in SendState
      <4>1. sending[t].done + 1 \in 0 .. SendParts
        BY <2>2, ClientAssumption
      <4> QED BY <2>1, <4>1, SendStates
    <3>3. \/ sending' = [sending EXCEPT ![t] = NotSending]
          \/ sending' = [sending EXCEPT ![t] =
                           [sending[t] EXCEPT !.done = sending[t].done + 1]]
      BY <1>2, <3>1 DEF SendPart
    <3> QED BY <3>1, <3>2, <3>3, SendStates
  <2> QED BY <1>2, <2>4, <2>5 DEF SendPart, SendState, netVars, readVars
<1>3. ASSUME NEW t \in Threads, SendError(t) \/ SendFails(t)
      PROVE  TypeOK' /\ CountInv'
  <2>1. sending' \in [Threads -> SendState]
    BY <1>3, SendStates DEF SendError, SendFails, SendState
  <2> QED BY <1>3, <2>1 DEF SendError, SendFails, SendState, netVars, readVars
<1>4. CASE CallSend
  <2>1. called + 1 \in 0 .. MaxMessages
    BY <1>4, ClientAssumption DEF CallSend
  <2>2. sending' \in [Threads -> SendState]
    <3>1. sending \in [Threads -> SendState]
      BY DEF SendState
    <3>2. [msg |-> called + 1, done |-> 0, of |-> SendParts] \in SendState
      BY <2>1, ClientAssumption DEF SendState
    <3>3. sending' = [sending EXCEPT !["main"] =
                       [msg |-> called + 1, done |-> 0, of |-> SendParts]]
      BY <1>4 DEF CallSend
    <3> QED BY <3>1, <3>2, <3>3
  <2> QED BY <1>4, <2>1, <2>2 DEF CallSend, SendState, netVars, readVars
<1>5. CASE Recv
  <2>1. received[m_fd] - avail[m_fd] + 1 \in 1 .. Stream
    BY <1>5, StreamNat DEF Recv
  <2>2. m_buffer' \in Seq(ReplyPart)
    <3>1. [sock |-> m_fd, pos |-> received[m_fd] - avail[m_fd] + 1]
            \in ReplyPart
      BY <2>1 DEF ReplyPart, Stream
    <3> QED BY <1>5, <3>1 DEF Recv
  <2>3. avail' \in [Sockets -> Nat] /\ \A k \in Sockets : avail'[k] <= avail[k]
    <3>1. /\ avail' = [avail EXCEPT ![m_fd] = avail[m_fd] - 1]
          /\ avail[m_fd] \in Nat /\ avail[m_fd] > 0
      BY <1>5 DEF Recv
    <3> QED BY <3>1
  <2>4. CountInv'
    <3>1. \A k \in Sockets : avail[k] \in Nat /\ avail'[k] \in Nat
      BY <2>3
    <3> QED BY <1>5, <2>3, <3>1 DEF Recv
  <2> QED BY <1>5, <2>2, <2>3, <2>4 DEF Recv, sendVars
<1>6. CASE DealBuffer
  <2>1. PICK size \in FrontSizes :
          /\ size <= Len(m_buffer)
          /\ delivered' = Append(delivered, SubSeq(m_buffer, 1, size))
          /\ m_buffer' = SubSeq(m_buffer, size + 1, Len(m_buffer))
    BY <1>6 DEF DealBuffer
  <2>2. size \in Nat \ {0} /\ Len(m_buffer) \in Nat
    BY ClientAssumption, LenProperties DEF FrontSizes
  <2>3. \A i \in 1 .. Len(m_buffer) : m_buffer[i] \in ReplyPart
    BY ElementOfSeq
  <2>4. SubSeq(m_buffer, 1, size) \in Seq(ReplyPart)
    BY <2>1, <2>2, <2>3, SubSeqProperties
  <2>5. SubSeq(m_buffer, size + 1, Len(m_buffer)) \in Seq(ReplyPart)
    BY <2>1, <2>2, <2>3, SubSeqProperties
  <2>6. delivered' \in Seq(Seq(ReplyPart)) /\ m_buffer' \in Seq(ReplyPart)
    BY <2>1, <2>4, <2>5, AppendProperties
  <2> QED BY <1>6, <2>6 DEF DealBuffer, netVars, sendVars
<1>7. CASE CloseSocket
  <2>1. CutNow \in 0 .. MaxSockets
    BY ClientAssumption DEF CutNow, Sockets
  <2> QED BY <1>7, <2>1, StreamNat DEF CloseSocket, sendVars
<1>8. CASE CreateSocket
  <2>1. m_fd + 1 \in Sockets
    BY <1>8, ClientAssumption DEF CreateSocket, Sockets
  <2>2. link' \in [Sockets -> {"none", "new", "up", "fin", "rst", "closed"}]
    BY <1>8, <2>1 DEF CreateSocket
  <2> QED BY <1>8, <2>1, <2>2 DEF CreateSocket, sendVars, readVars
<1>9. CASE Connected
  <2>1. [msg |-> Hello, done |-> 0, of |-> 1] \in SendState
    BY ClientAssumption DEF SendState, Hello
  <2>2. sending' \in [Threads -> SendState]
    BY <1>9, <2>1 DEF Connected, SendState
  <2> QED BY <1>9, <2>2 DEF Connected, SendState, netVars, readVars
<1>10. CASE SetBlocking
  BY <1>10 DEF SetBlocking, netVars, sendVars, readVars
<1>11. CASE OnRead \/ RecvError \/ EndOnRead
  BY <1>11 DEF OnRead, RecvError, EndOnRead, netVars, sendVars, readVars
<1>12. CASE UNCHANGED vars
  BY <1>12 DEF vars, netVars, sendVars, readVars
<1> QED
  BY <1>1, <1>2, <1>3, <1>4, <1>5, <1>6, <1>7, <1>8, <1>9, <1>10, <1>11, <1>12
  DEF Next, Main, Detect, Send, SendBlocked, RecvEndOfStream, ConnectFails

LEMMA TypeAlways == Spec => [](TypeOK /\ CountInv)
<1>1. Init => TypeOK /\ CountInv
  <2> SUFFICES ASSUME Init
               PROVE  TypeOK /\ CountInv
    OBVIOUS
  <2>1. m_fd \in Sockets /\ called \in 0 .. MaxMessages
    BY ClientAssumption DEF Init, Sockets
  <2>2. sending \in [Threads -> SendState]
    BY SendStates DEF Init
  <2>3. /\ wire \in [Sockets -> Seq(Part)] /\ m_buffer \in Seq(ReplyPart)
        /\ delivered \in Seq(Seq(ReplyPart))
    BY EmptySeq DEF Init
  <2>4. CountInv
    BY StreamNat DEF Init, CountInv
  <2>5. cut \in 0 .. MaxSockets
    BY ClientAssumption DEF Init
  <2> QED BY <2>1, <2>2, <2>3, <2>4, <2>5 DEF Init, TypeOK, SendState
<1> QED BY <1>1, TypeStep, PTL DEF Spec

\* Every reachable state is of the declared types; in particular no part of a
\* message beyond its last one is ever sent.
THEOREM TypeCorrect == Spec => []TypeOK
BY TypeAlways, PTL
-----------------------------------------------------------------------------
(* One open socket.                                                        *)

\* The detection thread makes a socket only when it has closed the last one.
SocketInv ==
  /\ OneSocketOpen
  /\ pc = "create" => link[m_fd] = "closed"

LEMMA SocketStep == TypeOK /\ SocketInv /\ [Next]_vars => SocketInv'
<1> SUFFICES ASSUME TypeOK, SocketInv, [Next]_vars
             PROVE  SocketInv'
  OBVIOUS
<1> USE DEF TypeOK, SocketInv, OneSocketOpen
<1>1. CASE Network
  <2>1. ASSUME NEW k \in Sockets, Lose(k)
        PROVE  SocketInv'
    <3>1. k = m_fd
      BY <2>1 DEF Lose, Sockets
    <3> QED BY <2>1, <3>1 DEF Lose
  <2>2. ASSUME NEW k \in Sockets, Arrive(k)
        PROVE  SocketInv'
    BY <2>2 DEF Arrive
  <2>3. CASE Establish
    BY <2>3 DEF Establish, Sockets
  <2> QED BY <1>1, <2>1, <2>2, <2>3 DEF Network
<1>2. CASE Main \/ Send("detect")
  BY <1>2 DEF Main, CallSend, Send, SendPart, SendBlocked, SendFails,
              SendError, netVars, vars
<1>3. CASE CloseSocket
  BY <1>3 DEF CloseSocket, Sockets
<1>4. CASE CreateSocket
  BY <1>4, ClientAssumption DEF CreateSocket, Sockets
<1>5. CASE Recv \/ DealBuffer
  BY <1>5 DEF Recv, DealBuffer, netVars
<1>6. CASE OnRead \/ RecvError \/ EndOnRead \/ Connected \/ SetBlocking
  BY <1>6 DEF OnRead, RecvError, EndOnRead, Connected, SetBlocking, netVars
<1>7. CASE UNCHANGED vars
  BY <1>7 DEF vars, netVars
<1> QED
  BY <1>1, <1>2, <1>3, <1>4, <1>5, <1>6, <1>7
  DEF Next, Detect, RecvEndOfStream, ConnectFails

\* Over any number of reconnections the client holds at most one open socket.
THEOREM HoldsOneSocket == Spec => []OneSocketOpen
<1>1. Init => SocketInv
  BY ClientAssumption DEF Init, SocketInv, OneSocketOpen, Sockets
<1>2. SocketInv => OneSocketOpen
  BY DEF SocketInv
<1> QED BY <1>1, <1>2, TypeAlways, SocketStep, PTL DEF Spec
-----------------------------------------------------------------------------
(* What the main thread sends.                                             *)

\* Part p comes before what the main thread sends after its n-th call of Send
\* when it is inside Send with s.
Behind(p, n, s) ==
  p.msg # Hello =>
    /\ p.msg <= n
    /\ s # NotSending /\ p.msg = n => p.part <= s.done

\* The main thread is inside Send with its last message only, nothing was
\* sent on sockets still to be made, and all parts sent lie behind.
SendInv ==
  /\ SentOnceInOrder
  /\ sending["detect"].msg = Hello
  /\ sending["main"] # NotSending => sending["main"].msg = called
  /\ \A k \in Sockets : k > m_fd => wire[k] = <<>>
  /\ \A k \in Sockets : \A i \in DOMAIN wire[k] :
       Behind(wire[k][i], called, sending["main"])

LEMMA AppendOne ==
  ASSUME NEW s \in Seq(Part), NEW e
  PROVE  /\ DOMAIN Append(s, e) = DOMAIN s \cup {Len(s) + 1}
         /\ \A i \in DOMAIN s : Append(s, e)[i] = s[i] /\ i < Len(s) + 1
         /\ Append(s, e)[Len(s) + 1] = e
         /\ DOMAIN s \subseteq Nat /\ Len(s) \in Nat
OBVIOUS

LEMMA SendStep == TypeOK /\ SendInv /\ [Next]_vars => SendInv'
<1> SUFFICES ASSUME TypeOK, SendInv, [Next]_vars
             PROVE  SendInv'
  OBVIOUS
<1>1. CASE SendPart("main")
  <2> DEFINE e == [msg |-> sending["main"].msg,
                   part |-> sending["main"].done + 1]
             s == wire[m_fd]
  <2>1. /\ m_fd \in Sockets /\ s \in Seq(Part)
        /\ wire' = [wire EXCEPT ![m_fd] = Append(s, e)]
        /\ UNCHANGED <<m_fd, called>>
    BY <1>1 DEF SendPart, TypeOK
  <2>2. /\ sending["main"] # NotSending /\ e.msg = called
        /\ e.part = sending["main"].done + 1 /\ sending["main"].done \in Nat
    BY <1>1 DEF SendPart, NotSending, SendInv, TypeOK, Threads
  <2>3. \A k \in Sockets : \A i \in DOMAIN wire[k] :
          wire[k][i].msg # Hello => After(wire[k][i], e)
    <3> SUFFICES ASSUME NEW k \in Sockets, NEW i \in DOMAIN wire[k],
                        wire[k][i].msg # Hello
                 PROVE  After(wire[k][i], e)
      OBVIOUS
    <3>1. wire[k][i] \in Part
      BY DEF TypeOK
    <3>2. Behind(wire[k][i], called, sending["main"])
      BY DEF SendInv
    <3>3. /\ wire[k][i].msg \in Nat /\ wire[k][i].part \in Nat
          /\ called \in Nat
      BY <3>1 DEF Part, TypeOK
    <3> QED BY <2>2, <3>2, <3>3 DEF Behind, After
  <2> QED
    <3>1. SentOnceInOrder'
      <4> SUFFICES ASSUME NEW k1 \in Sockets, NEW k2 \in Sockets,
                          NEW i1 \in DOMAIN wire'[k1],
                          NEW i2 \in DOMAIN wire'[k2],
                          wire'[k1][i1].msg # Hello, wire'[k2][i2].msg # Hello,
                          k1 < k2 \/ (k1 = k2 /\ i1 < i2)
                   PROVE  After(wire'[k1][i1], wire'[k2][i2])
        BY DEF SentOnceInOrder
      <4> HIDE DEF e, s
      <4>1. CASE i1 \in DOMAIN wire[k1] /\ i2 \in DOMAIN wire[k2]
        <5>1. wire'[k1][i1] = wire[k1][i1] /\ wire'[k2][i2] = wire[k2][i2]
          BY <2>1, <4>1, AppendOne DEF s, TypeOK
        <5> QED BY <4>1, <5>1 DEF SendInv, SentOnceInOrder
      <4>2. CASE i2 \notin DOMAIN wire[k2]
        <5>1. k2 = m_fd /\ i2 = Len(s) + 1 /\ wire'[k2][i2] = e
          BY <2>1, <4>2, AppendOne DEF s, TypeOK
        <5>2. i1 \in DOMAIN wire[k1] /\ wire'[k1][i1] = wire[k1][i1]
          BY <2>1, <5>1, AppendOne DEF s, TypeOK, Sockets
        <5> QED BY <2>3, <5>1, <5>2
      <4>3. CASE i1 \notin DOMAIN wire[k1] /\ i2 \in DOMAIN wire[k2]
        <5>1. k1 = m_fd /\ i1 = Len(s) + 1
          BY <2>1, <4>3, AppendOne DEF s, TypeOK
        <5>2. CASE k2 = m_fd
          BY <2>1, <4>3, <5>1, <5>2, AppendOne DEF s
        <5>3. CASE k2 > m_fd
          BY <4>3, <5>3, EmptySeq DEF SendInv
        <5> QED BY <5>1, <5>2, <5>3 DEF Sockets
      <4> QED BY <4>1, <4>2, <4>3
    <3>2. \A k \in Sockets : \A i \in DOMAIN wire'[k] :
            Behind(wire'[k][i], called', sending'["main"])
      <4> SUFFICES ASSUME NEW k \in Sockets, NEW i \in DOMAIN wire'[k]
                   PROVE  Behind(wire'[k][i], called', sending'["main"])
        OBVIOUS
      <4>1. sending'["main"] = NotSending
              \/ sending'["main"].done = sending["main"].done + 1
        BY <1>1 DEF SendPart, TypeOK, Threads
      <4> HIDE DEF e, s
      <4>2. CASE i \in DOMAIN wire[k]
        <5>1. wire'[k][i] = wire[k][i]
          BY <2>1, <4>2, AppendOne DEF TypeOK, s
        <5>2. wire[k][i] \in Part
          BY <4>2 DEF TypeOK
        <5>3. Behind(wire[k][i], called, sending["main"])
          BY <4>2 DEF SendInv
        <5>4. wire[k][i].msg \in Nat /\ wire[k][i].part \in Nat
          BY <5>2 DEF Part
        <5> QED BY <2>1, <2>2, <4>1, <5>1, <5>3, <5>4 DEF Behind
      <4>3. CASE i \notin DOMAIN wire[k]
        <5>1. wire'[k][i] = e
          BY <2>1, <4>3, AppendOne DEF TypeOK, s
        <5>2. called \in Nat
          BY DEF TypeOK
        <5> QED BY <2>1, <2>2, <4>1, <5>1, <5>2 DEF Behind
      <4> QED BY <4>2, <4>3
    <3>3. /\ sending'["detect"].msg = Hello
          /\ sending'["main"] # NotSending => sending'["main"].msg = called
      <4>1. \/ sending' = [sending EXCEPT !["main"] = NotSending]
            \/ sending' = [sending EXCEPT !["main"] =
                   [sending["main"] EXCEPT !.done = sending["main"].done + 1]]
        BY <1>1 DEF SendPart, TypeOK, Threads
      <4>2. /\ sending["main"] # NotSending /\ sending["main"].msg = called
            /\ sending["detect"].msg = Hello
        BY <2>2 DEF SendInv
      <4>3. sending["main"] \in SendState /\ DOMAIN sending = Threads
        BY DEF TypeOK, Threads, SendState
      <4> QED BY <4>1, <4>2, <4>3 DEF SendState, Threads
    <3>4. \A k \in Sockets : k > m_fd => wire'[k] = <<>>
      BY <2>1 DEF SendInv, TypeOK, Sockets
    <3> QED BY <2>1, <3>1, <3>2, <3>3, <3>4 DEF SendInv
<1>2. CASE SendPart("detect")
  <2> DEFINE e == [msg |-> sending["detect"].msg,
                   part |-> sending["detect"].done + 1]
             s == wire[m_fd]
  <2>1. /\ m_fd \in Sockets /\ s \in Seq(Part) /\ e.msg = Hello
        /\ wire' = [wire EXCEPT ![m_fd] = Append(s, e)]
        /\ UNCHANGED <<m_fd, called>> /\ sending'["main"] = sending["main"]
        /\ sending'["detect"].msg = Hello
    BY <1>2 DEF SendPart, SendInv, TypeOK, NotSending, Threads
  <2> HIDE DEF e
  <2>2. ASSUME NEW k \in Sockets, NEW i \in DOMAIN wire'[k],
               wire'[k][i].msg # Hello
        PROVE  i \in DOMAIN wire[k] /\ wire'[k][i] = wire[k][i]
    BY <2>1, <2>2, AppendOne DEF TypeOK
  <2>3. SentOnceInOrder'
    BY <2>2 DEF SendInv, SentOnceInOrder, After
  <2>4. \A k \in Sockets : \A i \in DOMAIN wire'[k] :
          Behind(wire'[k][i], called', sending'["main"])
    BY <2>1, <2>2 DEF SendInv, Behind
  <2>5. \A k \in Sockets : k > m_fd => wire'[k] = <<>>
    BY <2>1 DEF SendInv, TypeOK, Sockets
  <2> QED BY <2>1, <2>3, <2>4, <2>5 DEF SendInv
<1>3. CASE CallSend
  <2>1. /\ called' = called + 1 /\ called \in Nat
        /\ sending'["main"].msg = called'
        /\ sending'["detect"] = sending["detect"]
        /\ UNCHANGED <<m_fd, wire>>
    BY <1>3 DEF CallSend, TypeOK, Threads
  <2>2. \A k \in Sockets : \A i \in DOMAIN wire[k] :
          Behind(wire[k][i], called', sending'["main"])
    <3> SUFFICES ASSUME NEW k \in Sockets, NEW i \in DOMAIN wire[k]
                 PROVE  Behind(wire[k][i], called', sending'["main"])
      OBVIOUS
    <3>1. wire[k][i] \in Part /\ Behind(wire[k][i], called, sending["main"])
      BY DEF TypeOK, SendInv
    <3> QED BY <2>1, <3>1 DEF Behind, Part
  <2> QED BY <2>1, <2>2 DEF SendInv, SentOnceInOrder
<1>4. CASE CreateSocket
  <2>1. m_fd' = m_fd + 1 /\ m_fd \in Nat /\ UNCHANGED <<wire, sending, called>>
    BY <1>4 DEF CreateSocket, TypeOK, Sockets, sendVars
  <2> QED BY <2>1 DEF SendInv, SentOnceInOrder, Behind, Sockets
<1>5. ASSUME NEW t \in Threads, SendError(t) \/ SendFails(t)
      PROVE  SendInv'
  <2>1. /\ UNCHANGED <<m_fd, wire, called>>
        /\ sending'["main"] \in {sending["main"], NotSending}
        /\ sending'["detect"].msg = Hello
    BY <1>5 DEF SendError, SendFails, SendInv, TypeOK, Threads, NotSending
  <2> QED BY <2>1 DEF SendInv, SentOnceInOrder, Behind
<1>6. CASE Connected
  <2>1. /\ UNCHANGED <<m_fd, wire, called>>
        /\ sending'["main"] = sending["main"]
        /\ sending'["detect"].msg = Hello
    BY <1>6 DEF Connected, TypeOK, Threads
  <2> QED BY <2>1 DEF SendInv, SentOnceInOrder, Behind
<1>7. CASE UNCHANGED <<m_fd, wire, called, sending>>
  BY <1>7 DEF SendInv, SentOnceInOrder, Behind
<1> QED
  <2>1. CASE Network
    BY <1>7, <2>1 DEF Network, Arrive, Lose, Establish, sendVars
  <2>2. CASE Main
    BY <1>1, <1>3, <1>5, <1>7, <2>2
    DEF Main, Send, SendBlocked, Threads, vars, sendVars
  <2>3. CASE Detect
    BY <1>2, <1>4, <1>5, <1>6, <1>7, <2>3
    DEF Detect, OnRead, Recv, RecvError, RecvEndOfStream, DealBuffer,
        EndOnRead, CloseSocket, ConnectFails, SetBlocking, Send, SendBlocked,
        Threads, sendVars, vars
  <2>4. CASE UNCHANGED vars
    BY <1>7, <2>4 DEF vars, sendVars
  <2> QED BY <2>1, <2>2, <2>3, <2>4 DEF Next

\* Whatever connections come and go under a running Send, no part of a message
\* of the main thread is sent twice or before an earlier one.
THEOREM SendsOnceInOrder == Spec => []SentOnceInOrder
<1>1. Init => SendInv
  BY ClientAssumption, EmptySeq
  DEF Init, SendInv, SentOnceInOrder, Threads, NotSending, Hello
<1>2. SendInv => SentOnceInOrder
  BY DEF SendInv
<1> QED BY <1>1, <1>2, TypeAlways, SendStep, PTL DEF Spec
-----------------------------------------------------------------------------
(* What onData gets.                                                       *)

\* Parts of a server's stream before its n-th reply.
Before(n) == (n - 1) * ReplySize

\* Part i of that reply and what follows it, on socket k.
StreamPart(k, n, i) == [sock |-> k, pos |-> Before(n) + i]

\* The connection of the present socket was neither reset nor closed.
Alive == link[m_fd] \notin {"rst", "closed"}

\* p is the last part read: it came on the present socket, or nothing has
\* been read there.
LastRead(p) ==
  /\ p.sock \in 1 .. m_fd
  /\ Alive => IF p.sock = m_fd THEN p.pos = received[m_fd] - avail[m_fd]
                               ELSE received[m_fd] = avail[m_fd]

\* m_buffer ends with the last part read or, when it is empty, the last
\* message does; and nothing is received on a socket still to be made, nor kept
\* for one that was reset or closed.
ReadInv ==
  /\ NothingReadIsLost
  /\ IF m_buffer # <<>> THEN LastRead(Last(m_buffer))
     ELSE IF delivered # <<>> THEN LastRead(Last(Last(delivered)))
     ELSE Alive => received[m_fd] = avail[m_fd]
  /\ \A k \in Sockets : k > m_fd => received[k] = 0 /\ avail[k] = 0
  /\ avail[m_fd] > 0 => Alive

\* Is m one of the replies the servers send?
Whole(m) == \E k \in Sockets, n \in 1 .. MaxReplies : m = Reply(k, n)

\* The next reply onData is to get is number n on the present socket:
\* m_buffer starts there and goes up to the last part read.
Kept(n) ==
  /\ \A i \in DOMAIN m_buffer : m_buffer[i] = StreamPart(m_fd, n, i)
  /\ Alive => Before(n) + Len(m_buffer) = received[m_fd] - avail[m_fd]

\* Before a reply is cut, all that onData got is whole and what is left when
\* OnRead is done is less than a reply.
UncutInv ==
  /\ \A j \in DOMAIN delivered : Whole(delivered[j])
  /\ \E n \in Nat \ {0} : Kept(n)
  /\ pc \notin {"recv", "parse"} => Len(m_buffer) < ReplySize
  /\ pc = "create" => m_buffer = <<>>

\* After that, a message is whole or ends on a later socket; m_buffer holds
\* parts of later sockets, behind the unfinished reply as long as that is
\* there.
CutInv ==
  /\ cut < m_fd \/ (cut = m_fd /\ pc = "create")
  /\ \A j \in DOMAIN delivered :
       Whole(delivered[j]) \/ Last(delivered[j]).sock > cut
  /\ \/ \A i \in DOMAIN m_buffer : m_buffer[i].sock > cut
     \/ /\ m_buffer # <<>> /\ IsHead(Head(m_buffer))
        /\ \A i \in DOMAIN m_buffer : i >= ReplySize => m_buffer[i].sock > cut

BufferInv == IF cut = 0 THEN UncutInv ELSE CutInv

LEMMA BeforeNext ==
  ASSUME NEW n \in Nat \ {0}
  PROVE  /\ Before(n) \in Nat /\ Before(1) = 0
         /\ Before(n + 1) = Before(n) + ReplySize
BY ClientAssumption DEF Before

\* Replies are ordered as their numbers are.
LEMMA BeforeOrder ==
  ASSUME NEW m \in Nat \ {0}, NEW n \in Nat \ {0}, m < n
  PROVE  Before(m) + ReplySize <= Before(n)
<1> DEFINE j == n - m
<1>1. j \in Nat \ {0} /\ n = m + j
  OBVIOUS
<1>2. j * ReplySize >= ReplySize
  BY <1>1, ClientAssumption
<1>3. Before(n) = Before(m) + j * ReplySize
  BY <1>1, ClientAssumption DEF Before
<1>4. Before(m) \in Nat /\ j * ReplySize \in Nat /\ ReplySize \in Nat
  BY <1>1, BeforeNext, ClientAssumption
<1> HIDE DEF j
<1> QED BY <1>2, <1>3, <1>4

LEMMA DroppedElements ==
  ASSUME NEW s \in Seq(ReplyPart), NEW n \in 0 .. Len(s)
  PROVE  LET a == SubSeq(s, n + 1, Len(s))
         IN  /\ Len(a) = Len(s) - n /\ DOMAIN a = 1 .. Len(s) - n
             /\ \A i \in 1 .. Len(s) - n : a[i] = s[i + n]
BY SubSeqProperties

\* The first part of a reply is a head.
LEMMA HeadOfReply ==
  ASSUME NEW k, NEW n \in Nat \ {0}
  PROVE  IsHead(StreamPart(k, n, 1))
<1> DEFINE q == n - 1
<1>1. q \in Nat /\ ReplySize \in Nat \ {0}
  BY ClientAssumption
<1>2. (q * ReplySize + 1) % ReplySize = 1 % ReplySize
  <2>1. CASE ReplySize = 1
    BY <1>1, <2>1
  <2>2. CASE ReplySize > 1
    <3>1. 1 \in 0 .. ReplySize - 1
      BY <1>1, <2>2
    <3>2. \A x \in Nat : x = q * ReplySize + 1 =>
             x \div ReplySize = q /\ x % ReplySize = 1
      BY <1>1, <3>1
    <3>3. 1 % ReplySize = 1
      BY <1>1, <2>2
    <3>4. q * ReplySize + 1 \in Nat
      BY <1>1
    <3> QED BY <3>2, <3>3, <3>4
  <2> QED BY <1>1, <2>1, <2>2
<1>3. StreamPart(k, n, 1).pos = q * ReplySize + 1
  BY DEF StreamPart, Before
<1> QED BY <1>2, <1>3 DEF IsHead

\* A part behind the last one keeps the stream unbroken.
LEMMA UnbrokenAppend ==
  ASSUME NEW s \in Seq(ReplyPart), NEW e, Unbroken(s),
         s # <<>> => Follows(Last(s), e)
  PROVE  /\ Unbroken(Append(s, e)) /\ Append(s, e) # <<>>
         /\ Last(Append(s, e)) = e
         /\ Head(Append(s, e)) = IF s = <<>> THEN e ELSE Head(s)
<1> DEFINE a == Append(s, e)
<1>1. /\ Len(a) = Len(s) + 1 /\ a[Len(s) + 1] = e /\ Len(s) \in Nat
      /\ \A i \in 1 .. Len(s) : a[i] = s[i]
      /\ a # <<>> /\ Head(a) = a[1]
  <2>1. a[Len(s) + 1] = e /\ \A i \in 1 .. Len(s) : a[i] = s[i]
    OBVIOUS
  <2>2. Len(a) = Len(s) + 1 /\ Len(s) \in Nat
    OBVIOUS
  <2>3. a # <<>>
    OBVIOUS
  <2>4. Head(a) = a[1]
    BY DEF Head
  <2> QED BY <2>1, <2>2, <2>3, <2>4
<1>2. s = <<>> => Len(s) = 0
  OBVIOUS
<1>3. s # <<>> => Len(s) \in 1 .. Len(s) /\ 1 \in 1 .. Len(s) /\ Head(s) = s[1]
  <2>1. s # <<>> => Len(s) # 0
    BY EmptySeq
  <2>2. s # <<>> => Head(s) = s[1]
    OBVIOUS
  <2> QED BY <1>1, <2>1, <2>2
<1> HIDE DEF a
<1>4. Unbroken(a)
  <2> SUFFICES ASSUME NEW i \in 1 .. Len(s)
               PROVE  Follows(a[i], a[i + 1])
    BY <1>1 DEF Unbroken
  <2>1. CASE i = Len(s)
    <3>1. s # <<>> /\ a[i] = Last(s) /\ a[i + 1] = e
      BY <1>1, <1>2, <2>1 DEF Last
    <3> QED BY <3>1
  <2>2. CASE i < Len(s)
    <3>1. i \in 1 .. Len(s) - 1 /\ i + 1 \in 1 .. Len(s)
      BY <1>1, <2>2
    <3>2. a[i] = s[i] /\ a[i + 1] = s[i + 1]
      BY <1>1, <3>1
    <3> QED BY <3>1, <3>2 DEF Unbroken
  <2> QED BY <1>1, <2>1, <2>2
<1>5. Last(a) = e
  BY <1>1 DEF Last
<1>6. Head(a) = IF s = <<>> THEN e ELSE Head(s)
  BY <1>1, <1>2, <1>3
<1> QED BY <1>1, <1>4, <1>5, <1>6 DEF a

\* Both pieces of an unbroken stream are unbroken, and the second follows.
LEMMA UnbrokenSplit ==
  ASSUME NEW s \in Seq(ReplyPart), NEW n \in 1 .. Len(s), Unbroken(s)
  PROVE  LET a == SubSeq(s, 1, n)
             b == SubSeq(s, n + 1, Len(s))
         IN  /\ a # <<>> /\ Unbroken(a) /\ Unbroken(b)
             /\ Head(a) = Head(s) /\ Last(a) = s[n]
             /\ IF b = <<>> THEN Last(a) = Last(s)
                ELSE Follows(Last(a), Head(b)) /\ Last(b) = Last(s)
<1> DEFINE a == SubSeq(s, 1, n)
           b == SubSeq(s, n + 1, Len(s))
<1>1. /\ Len(a) = n /\ a # <<>> /\ Head(a) = a[1] /\ Head(s) = s[1]
      /\ \A i \in 1 .. n : a[i] = s[i]
  BY SubSeqProperties
<1>2. /\ Len(b) = Len(s) - n /\ Len(s) \in Nat /\ n \in Nat \ {0}
      /\ \A i \in 1 .. Len(s) - n : b[i] = s[i + n]
  BY DroppedElements
<1>3. /\ b = <<>> => Len(b) = 0
      /\ b # <<>> => Len(b) # 0 /\ Head(b) = b[1]
  BY SubSeqProperties
<1> HIDE DEF a, b
<1>4. Unbroken(a)
  <2> SUFFICES ASSUME NEW i \in 1 .. n - 1
               PROVE  Follows(a[i], a[i + 1])
    BY <1>1 DEF Unbroken
  <2>1. i \in 1 .. Len(s) - 1 /\ i \in 1 .. n /\ i + 1 \in 1 .. n
    BY <1>2
  <2> QED BY <1>1, <2>1 DEF Unbroken
<1>5. Unbroken(b)
  <2> SUFFICES ASSUME NEW i \in 1 .. Len(s) - n - 1
               PROVE  Follows(b[i], b[i + 1])
    BY <1>2 DEF Unbroken
  <2>1. /\ i \in 1 .. Len(s) - n /\ i + 1 \in 1 .. Len(s) - n
        /\ i + n \in 1 .. Len(s) - 1 /\ (i + 1) + n = (i + n) + 1
    BY <1>2
  <2>2. b[i] = s[i + n] /\ b[i + 1] = s[(i + n) + 1]
    BY <1>2, <2>1
  <2> QED BY <2>1, <2>2 DEF Unbroken
<1>6. Last(a) = s[n]
  BY <1>1, <1>2 DEF Last
<1>7. CASE b = <<>>
  <2>1. n = Len(s)
    BY <1>2, <1>3, <1>7
  <2> QED BY <1>1, <1>4, <1>5, <1>6, <1>7, <2>1 DEF a, b, Last
<1>8. CASE b # <<>>
  <2>1. n \in 1 .. Len(s) - 1 /\ 1 \in 1 .. Len(s) - n
        /\ Len(s) - n \in 1 .. Len(s) - n /\ (Len(s) - n) + n = Len(s)
        /\ 1 + n = n + 1
    BY <1>2, <1>3, <1>8
  <2>2. Head(b) = s[n + 1]
    BY <1>2, <1>3, <1>8, <2>1
  <2>3. Last(b) = Last(s)
    BY <1>2, <2>1 DEF Last
  <2>4. Follows(s[n], s[n + 1])
    BY <2>1 DEF Unbroken
  <2> QED BY <1>1, <1>4, <1>5, <1>6, <1>8, <2>2, <2>3, <2>4 DEF a, b
<1> QED BY <1>7, <1>8

LEMMA ReadFacts ==
  ASSUME TypeOK
  PROVE  /\ m_fd \in Sockets /\ m_fd \in Nat
         /\ DOMAIN link = Sockets /\ DOMAIN avail = Sockets
         /\ DOMAIN received = Sockets
         /\ \A k \in Sockets :
              avail[k] \in Nat /\ received[k] \in Nat /\ k \in Nat
         /\ m_buffer \in Seq(ReplyPart) /\ Len(m_buffer) \in Nat
         /\ DOMAIN m_buffer = 1 .. Len(m_buffer)
<1>1. /\ m_fd \in Sockets /\ avail \in [Sockets -> Nat]
      /\ received \in [Sockets -> Nat] /\ DOMAIN link = Sockets
  BY DEF TypeOK
<1>2. m_buffer \in Seq(ReplyPart)
  BY DEF TypeOK
<1>3. Len(m_buffer) \in Nat /\ DOMAIN m_buffer = 1 .. Len(m_buffer)
  BY <1>2, LenProperties
<1>4. \A k \in Sockets : k \in Nat
  BY DEF Sockets
<1> QED BY <1>1, <1>2, <1>3, <1>4

\* What the network and the detection thread do to the sockets when nothing is
\* read: the present one has received as much more as there is more to read,
\* unless its connection is gone.
Unread ==
  /\ \A k \in Sockets : k > m_fd => received'[k] = 0 /\ avail'[k] = 0
  /\ avail'[m_fd] > 0 => Alive'
  /\ Alive' =>
       /\ Alive
       /\ received'[m_fd] - avail'[m_fd] = received[m_fd] - avail[m_fd]
       /\ received'[m_fd] = avail'[m_fd] <=> received[m_fd] = avail[m_fd]

LEMMA NetworkStep ==
  ASSUME TypeOK, SocketInv, ReadInv, Network
  PROVE  Unread /\ UNCHANGED <<m_fd, readVars, pc>>
<1>0. /\ m_fd \in Sockets /\ m_fd \in Nat
      /\ DOMAIN link = Sockets /\ DOMAIN avail = Sockets
      /\ DOMAIN received = Sockets
      /\ \A k \in Sockets : avail[k] \in Nat /\ received[k] \in Nat /\ k \in Nat
  BY ReadFacts
<1>1. ASSUME NEW k \in Sockets, Arrive(k)
      PROVE  Unread /\ UNCHANGED <<m_fd, readVars, pc>>
  <2>1. /\ link[k] = "up" /\ UNCHANGED <<m_fd, link, pc, readVars>>
        /\ avail' = [avail EXCEPT ![k] = avail[k] + 1]
        /\ received' = [received EXCEPT ![k] = received[k] + 1]
    BY <1>1 DEF Arrive
  <2>2. k = m_fd
    BY <1>0, <2>1 DEF SocketInv, OneSocketOpen
  <2>3. \A j \in Sockets : j > m_fd => received'[j] = 0 /\ avail'[j] = 0
    BY <1>0, <2>1, <2>2 DEF ReadInv
  <2>4. Alive' /\ Alive
    BY <2>1, <2>2 DEF Alive
  <2>5. avail'[m_fd] = avail[m_fd] + 1 /\ received'[m_fd] = received[m_fd] + 1
    BY <1>0, <2>1, <2>2
  <2> QED BY <1>0, <2>1, <2>3, <2>4, <2>5 DEF Unread
<1>2. ASSUME NEW k \in Sockets, Lose(k)
      PROVE  Unread /\ UNCHANGED <<m_fd, readVars, pc>>
  <2>1. PICK kind \in {"fin", "rst"} :
          /\ link' = [link EXCEPT ![k] = kind]
          /\ avail' = IF kind = "rst" THEN [avail EXCEPT ![k] = 0] ELSE avail
    BY <1>2, ClientAssumption DEF Lose
  <2>2. link[k] = "up" /\ UNCHANGED <<m_fd, received, pc, readVars>>
    BY <1>2 DEF Lose
  <2>3. k = m_fd
    BY <1>0, <2>2 DEF SocketInv, OneSocketOpen
  <2>4. CASE kind = "fin"
    BY <1>0, <2>1, <2>2, <2>3, <2>4 DEF ReadInv, Unread, Alive
  <2>5. CASE kind = "rst"
    <3>1. ~Alive' /\ avail'[m_fd] = 0
      BY <1>0, <2>1, <2>2, <2>3, <2>5 DEF Alive
    <3>2. \A j \in Sockets : j > m_fd => received'[j] = 0 /\ avail'[j] = 0
      BY <1>0, <2>1, <2>2, <2>3, <2>5 DEF ReadInv
    <3> QED BY <2>2, <3>1, <3>2 DEF Unread
  <2> QED BY <2>4, <2>5
<1>3. CASE Establish
  <2>1. /\ link[m_fd] = "new" /\ link' = [link EXCEPT ![m_fd] = "up"]
        /\ UNCHANGED <<m_fd, avail, received, pc, readVars>>
    BY <1>3 DEF Establish
  <2> QED BY <1>0, <2>1 DEF ReadInv, Unread, Alive
<1> QED BY <1>1, <1>2, <1>3 DEF Network

\* A step that reads nothing and hands nothing over.
LEMMA ReadQuiet ==
  ASSUME TypeOK, ReadInv, Unread, UNCHANGED <<m_fd, m_buffer, delivered>>
  PROVE  ReadInv'
<1>1. \A p : LastRead(p) => LastRead(p)'
  BY DEF LastRead, Unread
<1>2. NothingReadIsLost'
  BY DEF ReadInv, NothingReadIsLost
<1>3. (IF m_buffer # <<>> THEN LastRead(Last(m_buffer))
       ELSE IF delivered # <<>> THEN LastRead(Last(Last(delivered)))
       ELSE Alive => received[m_fd] = avail[m_fd])'
  <2>1. CASE m_buffer # <<>>
    BY <1>1, <2>1 DEF ReadInv
  <2>2. CASE m_buffer = <<>> /\ delivered # <<>>
    BY <1>1, <2>2 DEF ReadInv
  <2>3. CASE m_buffer = <<>> /\ delivered = <<>>
    BY <2>3 DEF ReadInv, Unread
  <2> QED BY <2>1, <2>2, <2>3
<1> QED BY <1>2, <1>3 DEF ReadInv, Unread

\* Every step that is neither of the network nor reads, deals with a message
\* or changes sockets.
Elsewhere ==
  Main \/ Send("detect") \/ OnRead \/ RecvError \/ EndOnRead \/ Connected
    \/ SetBlocking \/ UNCHANGED vars

LEMMA ElsewhereStep ==
  Elsewhere => UNCHANGED <<m_fd, netVars, readVars>>
BY DEF Elsewhere, Main, CallSend, Send, SendPart, SendBlocked, SendFails,
       SendError, OnRead, RecvError, EndOnRead, Connected, SetBlocking, vars

LEMMA StepCases ==
  [Next]_vars => Network \/ Recv \/ DealBuffer \/ CloseSocket \/ CreateSocket
                   \/ Elsewhere
BY DEF Next, Detect, RecvEndOfStream, ConnectFails, Elsewhere

\* m_buffer and the messages delivered make one stream.
LEMMA ReadStep ==
  TypeOK /\ SocketInv /\ ReadInv /\ [Next]_vars => ReadInv'
<1> SUFFICES ASSUME TypeOK, SocketInv, ReadInv, [Next]_vars
             PROVE  ReadInv'
  OBVIOUS
<1>0. /\ m_fd \in Sockets /\ m_fd \in Nat
      /\ DOMAIN link = Sockets /\ DOMAIN avail = Sockets
      /\ DOMAIN received = Sockets
      /\ \A k \in Sockets : avail[k] \in Nat /\ received[k] \in Nat /\ k \in Nat
      /\ m_buffer \in Seq(ReplyPart) /\ Len(m_buffer) \in Nat
      /\ DOMAIN m_buffer = 1 .. Len(m_buffer)
  BY ReadFacts
<1>1. CASE Network
  BY <1>1, NetworkStep, ReadQuiet DEF readVars
<1>2. CASE Elsewhere
  <2>1. UNCHANGED <<m_fd, netVars, readVars>>
    BY <1>2, ElsewhereStep
  <2>2. Unread
    BY <2>1 DEF Unread, ReadInv, Alive, netVars
  <2> QED BY <2>1, <2>2, ReadQuiet DEF readVars
<1>3. CASE Recv
  <2>1. PICK e :
          /\ e = [sock |-> m_fd, pos |-> received[m_fd] - avail[m_fd] + 1]
          /\ avail[m_fd] > 0
          /\ avail' = [avail EXCEPT ![m_fd] = avail[m_fd] - 1]
          /\ m_buffer' = Append(m_buffer, e)
          /\ UNCHANGED <<m_fd, link, received, delivered>>
    BY <1>3 DEF Recv
  <2>2. Alive /\ Alive'
    BY <2>1 DEF ReadInv, Alive
  <2>3. /\ avail'[m_fd] = avail[m_fd] - 1
        /\ \A k \in Sockets : k > m_fd => avail'[k] = avail[k]
    BY <1>0, <2>1
  <2>4. \A p : LastRead(p) => Follows(p, e)
    <3> SUFFICES ASSUME NEW p, LastRead(p)
                 PROVE  Follows(p, e)
      OBVIOUS
    <3>1. CASE p.sock = m_fd
      BY <2>1, <2>2, <3>1 DEF LastRead, Follows
    <3>2. CASE p.sock # m_fd
      <4>1. received[m_fd] = avail[m_fd] /\ p.sock \in 1 .. m_fd
        BY <2>2, <3>2 DEF LastRead
      <4>2. e.pos = 1
        BY <1>0, <2>1, <4>1
      <4>3. e.sock = m_fd /\ m_fd > p.sock
        BY <1>0, <2>1, <3>2, <4>1
      <4> QED BY <3>2, <4>1, <4>2, <4>3 DEF Follows
    <3> QED BY <3>1, <3>2
  <2>5. LastRead(e)'
    <3>1. received[m_fd] - avail[m_fd] + 1 = received[m_fd] - (avail[m_fd] - 1)
      BY <1>0
    <3>2. m_fd \in 1 .. m_fd
      BY <1>0 DEF Sockets
    <3> QED BY <1>0, <2>1, <2>3, <3>1, <3>2 DEF LastRead
  <2>6. /\ Unbroken(m_buffer') /\ m_buffer' # <<>> /\ Last(m_buffer') = e
        /\ Head(m_buffer') = IF m_buffer = <<>> THEN e ELSE Head(m_buffer)
    <3>1. Unbroken(m_buffer) /\ (m_buffer # <<>> => Follows(Last(m_buffer), e))
      BY <2>4 DEF ReadInv, NothingReadIsLost
    <3> QED BY <1>0, <2>1, <3>1, UnbrokenAppend
  <2>7. delivered # <<>> => Follows(Last(Last(delivered)), Head(m_buffer'))
    <3>1. CASE m_buffer = <<>>
      BY <2>4, <2>6, <3>1 DEF ReadInv
    <3>2. CASE m_buffer # <<>>
      BY <2>6, <3>2 DEF ReadInv, NothingReadIsLost
    <3> QED BY <3>1, <3>2
  <2>8. NothingReadIsLost'
    BY <2>1, <2>6, <2>7 DEF ReadInv, NothingReadIsLost, Last
  <2>9. LastRead(Last(m_buffer))'
    BY <2>5, <2>6
  <2>10. \A k \in Sockets : k > m_fd' => received'[k] = 0 /\ avail'[k] = 0
    BY <2>1, <2>3 DEF ReadInv
  <2> QED BY <2>2, <2>6, <2>8, <2>9, <2>10 DEF ReadInv
<1>4. CASE DealBuffer
  <2>1. PICK size \in FrontSizes :
          /\ size <= Len(m_buffer)
          /\ delivered' = Append(delivered, SubSeq(m_buffer, 1, size))
          /\ m_buffer' = SubSeq(m_buffer, size + 1, Len(m_buffer))
    BY <1>4 DEF DealBuffer
  <2>2. UNCHANGED <<m_fd, netVars>>
    BY <1>4 DEF DealBuffer
  <2>3. size \in 1 .. Len(m_buffer)
    BY <1>0, <2>1, ClientAssumption DEF FrontSizes
  <2>4. PICK m : m = SubSeq(m_buffer, 1, size)
    OBVIOUS
  <2>5. /\ m_buffer # <<>> /\ Unbroken(m_buffer)
        /\ delivered # <<>> => Follows(Last(Last(delivered)), Head(m_buffer))
        /\ LastRead(Last(m_buffer))
    <3>1. m_buffer # <<>>
      BY <1>0, <2>3
    <3> QED BY <3>1 DEF ReadInv, NothingReadIsLost
  <2>6. /\ m # <<>> /\ Unbroken(m) /\ Unbroken(m_buffer')
        /\ Head(m) = Head(m_buffer)
        /\ IF m_buffer' = <<>> THEN Last(m) = Last(m_buffer)
           ELSE /\ Follows(Last(m), Head(m_buffer'))
                /\ Last(m_buffer') = Last(m_buffer)
    BY <1>0, <2>1, <2>3, <2>4, <2>5, UnbrokenSplit
  <2>7. /\ Len(delivered) \in Nat /\ DOMAIN delivered = 1 .. Len(delivered)
        /\ delivered = <<>> <=> Len(delivered) = 0
        /\ delivered' = Append(delivered, m) /\ delivered' # <<>>
        /\ Len(delivered') = Len(delivered) + 1
        /\ DOMAIN delivered' = 1 .. Len(delivered) + 1
        /\ delivered'[Len(delivered) + 1] = m
        /\ \A j \in 1 .. Len(delivered) : delivered'[j] = delivered[j]
    <3>1. delivered \in Seq(Seq(ReplyPart))
      BY DEF TypeOK
    <3>2. m \in Seq(ReplyPart)
      BY <1>0, <2>3, <2>4, SubSeqProperties
    <3>3. delivered' = Append(delivered, m)
      BY <2>1, <2>4
    <3>4. delivered = <<>> <=> Len(delivered) = 0
      BY <3>1, EmptySeq
    <3>5. Append(delivered, m) # <<>>
      BY <3>1, <3>2, AppendProperties
    <3> QED BY <3>1, <3>2, <3>3, <3>4, <3>5, AppendProperties
  <2>8. \A j \in DOMAIN delivered' :
          delivered'[j] # <<>> /\ Unbroken(delivered'[j])
    BY <2>6, <2>7 DEF ReadInv, NothingReadIsLost
  <2>9. ASSUME NEW j \in 1 .. Len(delivered') - 1
        PROVE  Follows(Last(delivered'[j]), Head(delivered'[j + 1]))
    <3>1. j \in 1 .. Len(delivered) /\ delivered'[j] = delivered[j]
      BY <2>7
    <3>2. CASE j = Len(delivered)
      <4>1. delivered # <<>> /\ delivered'[j + 1] = m
        BY <2>7, <3>1, <3>2
      <4> QED BY <2>5, <2>6, <3>1, <3>2, <4>1 DEF Last
    <3>3. CASE j < Len(delivered)
      <4>1. j \in 1 .. Len(delivered) - 1 /\ j + 1 \in 1 .. Len(delivered)
        BY <2>7, <3>1, <3>3
      <4> QED BY <2>7, <3>1, <4>1 DEF ReadInv, NothingReadIsLost
    <3>4. j = Len(delivered) \/ j < Len(delivered)
      <4>1. \A n \in Nat : \A i \in 1 .. n : i = n \/ i < n
        OBVIOUS
      <4>2. Len(delivered) \in Nat /\ j \in 1 .. Len(delivered)
        BY <2>7, <3>1
      <4> QED BY <4>1, <4>2
    <3> QED BY <3>2, <3>3, <3>4
  <2>10. Last(delivered') = m
    BY <2>7 DEF Last
  <2>11. NothingReadIsLost'
    BY <2>6, <2>8, <2>9, <2>10 DEF NothingReadIsLost
  <2>12. \A p : LastRead(p) => LastRead(p)'
    BY <2>2 DEF LastRead, Alive, netVars
  <2>13. (IF m_buffer # <<>> THEN LastRead(Last(m_buffer))
          ELSE IF delivered # <<>> THEN LastRead(Last(Last(delivered)))
          ELSE Alive => received[m_fd] = avail[m_fd])'
    <3>1. CASE m_buffer' = <<>>
      <4>1. LastRead(Last(m))'
        BY <2>5, <2>6, <2>12, <3>1
      <4> QED BY <2>7, <2>10, <3>1, <4>1
    <3>2. CASE m_buffer' # <<>>
      <4>1. LastRead(Last(m_buffer))'
        <5>1. Last(m_buffer') = Last(m_buffer) /\ LastRead(Last(m_buffer))
          BY <2>5, <2>6, <3>2
        <5> QED BY <2>12, <5>1
      <4> QED BY <3>2, <4>1
    <3> QED BY <3>1, <3>2
  <2> QED BY <2>2, <2>11, <2>13 DEF ReadInv, netVars, Alive
<1>5. CASE CloseSocket
  <2>1. /\ link' = [link EXCEPT ![m_fd] = "closed"]
        /\ avail' = [avail EXCEPT ![m_fd] = 0]
        /\ UNCHANGED <<m_fd, received, m_buffer, delivered>>
    BY <1>5 DEF CloseSocket
  <2>2. ~Alive' /\ avail'[m_fd] = 0
    BY <1>0, <2>1 DEF Alive
  <2>3. \A k \in Sockets : k > m_fd => received'[k] = 0 /\ avail'[k] = 0
    BY <1>0, <2>1 DEF ReadInv
  <2> QED BY <2>1, <2>2, <2>3, ReadQuiet DEF Unread
<1>6. CASE CreateSocket
  <2>1. /\ m_fd < MaxSockets /\ m_fd' = m_fd + 1
        /\ UNCHANGED <<avail, received, readVars>>
    BY <1>6 DEF CreateSocket
  <2>2. m_fd' \in Sockets /\ m_fd' > m_fd
    BY <1>0, <2>1, ClientAssumption DEF Sockets
  <2>3. /\ received'[m_fd'] = 0 /\ avail'[m_fd'] = 0
        /\ \A k \in Sockets : k > m_fd' => received'[k] = 0 /\ avail'[k] = 0
    BY <1>0, <2>1, <2>2 DEF ReadInv
  <2>4. NothingReadIsLost'
    BY <2>1 DEF ReadInv, NothingReadIsLost, readVars
  <2>5. ASSUME NEW p, LastRead(p)
        PROVE  LastRead(p)'
    <3>1. p.sock \in 1 .. m_fd' /\ p.sock # m_fd'
      BY <1>0, <2>1, <2>5 DEF LastRead
    <3> QED BY <2>3, <3>1 DEF LastRead
  <2>6. (IF m_buffer # <<>> THEN LastRead(Last(m_buffer))
         ELSE IF delivered # <<>> THEN LastRead(Last(Last(delivered)))
         ELSE Alive => received[m_fd] = avail[m_fd])'
    <3>1. CASE m_buffer # <<>>
      BY <2>1, <2>5, <3>1 DEF ReadInv, readVars
    <3>2. CASE m_buffer = <<>> /\ delivered # <<>>
      BY <2>1, <2>5, <3>2 DEF ReadInv, readVars
    <3>3. CASE m_buffer = <<>> /\ delivered = <<>>
      BY <2>1, <2>3, <3>3 DEF readVars
    <3> QED BY <3>1, <3>2, <3>3
  <2>7. avail'[m_fd'] > 0 => Alive'
    BY <2>3
  <2> QED BY <2>3, <2>4, <2>6, <2>7 DEF ReadInv
<1> QED BY <1>1, <1>2, <1>3, <1>4, <1>5, <1>6, StepCases

LEMMA ReadInit == Init => ReadInv
<1> SUFFICES ASSUME Init
             PROVE  ReadInv
  OBVIOUS
<1>1. /\ m_fd = 1 /\ 1 \in Sockets /\ avail[1] = 0 /\ received[1] = 0
      /\ m_buffer = <<>> /\ delivered = <<>>
      /\ \A k \in Sockets : received[k] = 0 /\ avail[k] = 0
  BY ClientAssumption DEF Init, Sockets
<1>2. NothingReadIsLost
  BY <1>1 DEF NothingReadIsLost, Unbroken
<1> QED BY <1>1, <1>2 DEF ReadInv

\* onData gets every part recv() returned, each once and in order, over any
\* number of reconnections and however messages split and merge.
THEOREM DeliversWhatIsRead == Spec => []NothingReadIsLost
<1>1. Init => SocketInv
  BY ClientAssumption DEF Init, SocketInv, OneSocketOpen, Sockets
<1>2. ReadInv => NothingReadIsLost
  BY DEF ReadInv
<1> QED
  BY <1>1, <1>2, ReadInit, TypeAlways, SocketStep, ReadStep, PTL DEF Spec

\* A step that leaves m_buffer and what was delivered alone.
LEMMA BufferQuiet ==
  ASSUME TypeOK, BufferInv, UNCHANGED <<m_fd, readVars>>,
         Alive' => /\ Alive
                  /\ received'[m_fd] - avail'[m_fd]
                       = received[m_fd] - avail[m_fd],
         \/ pc' = pc
         \/ pc \notin {"create", "parse", "recv"} /\ pc' # "create"
         \/ pc # "create" /\ pc' \in {"recv", "parse"}
         \/ pc # "create" /\ pc' # "create"
              /\ (cut = 0 => Len(m_buffer) < ReplySize)
  PROVE  BufferInv'
<1>1. \A n \in Nat \ {0} : Kept(n) => Kept(n)'
  BY DEF Kept, readVars
<1>2. \A m : Whole(m) => Whole(m)'
  BY DEF Whole
<1>3. CASE cut = 0
  BY <1>1, <1>2, <1>3 DEF BufferInv, UncutInv, readVars
<1>4. CASE cut # 0
  BY <1>2, <1>4 DEF BufferInv, CutInv, readVars
<1> QED BY <1>3, <1>4

\* What is left when ParseBuffer returns -1 is less than a reply, if it starts
\* with the head of one.
LEMMA EndOnReadStep ==
  ASSUME TypeOK, BufferInv, EndOnRead
  PROVE  cut = 0 => Len(m_buffer) < ReplySize
<1> SUFFICES ASSUME cut = 0
             PROVE  Len(m_buffer) < ReplySize
  OBVIOUS
<1>1. PICK n \in Nat \ {0} : Kept(n)
  BY DEF BufferInv, UncutInv
<1>2. m_buffer \in Seq(ReplyPart) /\ Len(m_buffer) \in Nat
  BY ReadFacts
<1>3. CASE m_buffer = <<>>
  <2>1. Len(m_buffer) = 0
    BY <1>3, EmptySeq
  <2> QED BY <2>1, ClientAssumption
<1>4. CASE m_buffer # <<>>
  <2>1. 1 \in DOMAIN m_buffer /\ Head(m_buffer) = m_buffer[1]
    BY <1>2, <1>4
  <2>2. IsHead(Head(m_buffer))
    BY <1>1, <2>1, HeadOfReply DEF Kept
  <2>3. FrontSizes = {ReplySize}
    BY <1>4, <2>2 DEF FrontSizes
  <2> QED BY <2>3 DEF EndOnRead
<1> QED BY <1>3, <1>4

\* recv() puts the next part of the stream behind m_buffer.
LEMMA RecvStep ==
  ASSUME TypeOK, ReadInv, BufferInv, Recv
  PROVE  BufferInv'
<1>0. /\ m_fd \in Sockets /\ m_fd \in Nat
      /\ \A k \in Sockets : avail[k] \in Nat /\ received[k] \in Nat /\ k \in Nat
      /\ m_buffer \in Seq(ReplyPart) /\ Len(m_buffer) \in Nat
      /\ DOMAIN m_buffer = 1 .. Len(m_buffer) /\ DOMAIN avail = Sockets
      /\ cut \in Nat
  BY ReadFacts DEF TypeOK
<1>1. PICK e :
        /\ e = [sock |-> m_fd, pos |-> received[m_fd] - avail[m_fd] + 1]
        /\ pc = "recv" /\ pc' = pc /\ avail[m_fd] > 0
        /\ avail' = [avail EXCEPT ![m_fd] = avail[m_fd] - 1]
        /\ m_buffer' = Append(m_buffer, e)
        /\ UNCHANGED <<m_fd, link, received, delivered, cut>>
  BY DEF Recv
<1>2. Alive /\ avail'[m_fd] = avail[m_fd] - 1
  BY <1>0, <1>1 DEF ReadInv, Alive
<1>3. /\ Len(m_buffer') = Len(m_buffer) + 1
      /\ DOMAIN m_buffer' = 1 .. Len(m_buffer) + 1
      /\ m_buffer'[Len(m_buffer) + 1] = e
      /\ \A i \in 1 .. Len(m_buffer) : m_buffer'[i] = m_buffer[i]
  BY <1>0, <1>1
<1>4. \A i \in 1 .. Len(m_buffer) + 1 :
        i \in 1 .. Len(m_buffer) \/ i = Len(m_buffer) + 1
  BY <1>0
<1>5. CASE cut = 0
  <2>1. PICK n \in Nat \ {0} : Kept(n)
    BY <1>5 DEF BufferInv, UncutInv
  <2>2. Before(n) + Len(m_buffer) = received[m_fd] - avail[m_fd]
    BY <1>2, <2>1 DEF Kept
  <2>3. Before(n) \in Nat
    BY BeforeNext
  <2>4. received[m_fd] - avail[m_fd] + 1 = Before(n) + (Len(m_buffer) + 1)
    BY <1>0, <2>2, <2>3
  <2>5. e = StreamPart(m_fd, n, Len(m_buffer) + 1)
    BY <1>1, <2>4 DEF StreamPart
  <2>6. \A i \in DOMAIN m_buffer' : m_buffer'[i] = StreamPart(m_fd, n, i)
    BY <1>0, <1>3, <1>4, <2>1, <2>5, Zenon DEF Kept
  <2>7. Before(n) + Len(m_buffer') = received[m_fd] - avail'[m_fd]
    <3>1. Len(m_buffer') = Len(m_buffer) + 1 /\ Len(m_buffer) \in Nat
      BY <1>0, <1>3
    <3>2. avail[m_fd] \in Nat /\ received[m_fd] \in Nat
      BY <1>0
    <3> QED BY <1>2, <2>2, <2>3, <3>1, <3>2
  <2>8. Kept(n)'
    BY <1>1, <2>6, <2>7 DEF Kept, StreamPart, Before
  <2> QED BY <1>1, <1>5, <2>8 DEF BufferInv, UncutInv, Whole
<1>6. CASE cut # 0
  <2>1. cut < m_fd /\ e.sock = m_fd
    BY <1>1, <1>6 DEF BufferInv, CutInv
  <2>2. CASE \A i \in DOMAIN m_buffer : m_buffer[i].sock > cut
    <3>1. \A i \in DOMAIN m_buffer' : m_buffer'[i].sock > cut
      BY <1>0, <1>3, <1>4, <2>1, <2>2
    <3> QED BY <1>1, <1>6, <2>1, <3>1 DEF BufferInv, CutInv, Whole
  <2>3. CASE /\ m_buffer # <<>> /\ IsHead(Head(m_buffer))
             /\ \A i \in DOMAIN m_buffer :
                  i >= ReplySize => m_buffer[i].sock > cut
    <3>1. m_buffer' # <<>> /\ Head(m_buffer') = Head(m_buffer)
      <4>1. 1 \in 1 .. Len(m_buffer) /\ Head(m_buffer) = m_buffer[1]
        BY <1>0, <2>3
      <4>2. m_buffer' # <<>> /\ Head(m_buffer') = m_buffer'[1]
        BY <1>0, <1>1, <1>3 DEF Head
      <4> QED BY <1>3, <4>1, <4>2
    <3>2. \A i \in DOMAIN m_buffer' :
            i >= ReplySize => m_buffer'[i].sock > cut
      BY <1>0, <1>3, <1>4, <2>1, <2>3
    <3>3. IsHead(Head(m_buffer'))
      BY <2>3, <3>1
    <3> QED BY <1>1, <1>6, <2>1, <3>1, <3>2, <3>3
            DEF BufferInv, CutInv, Whole, IsHead
  <2> QED BY <1>6, <2>2, <2>3 DEF BufferInv, CutInv
<1> QED BY <1>5, <1>6

\* A message handed to onData before a reply is cut is the next whole reply.
LEMMA DealUncut ==
  ASSUME TypeOK, BufferInv, DealBuffer, cut = 0
  PROVE  BufferInv'
<1>0. /\ m_fd \in Sockets /\ m_fd \in Nat
      /\ m_buffer \in Seq(ReplyPart) /\ Len(m_buffer) \in Nat
      /\ DOMAIN m_buffer = 1 .. Len(m_buffer)
      /\ avail[m_fd] \in Nat /\ received[m_fd] \in Nat
  BY ReadFacts
<1>1. PICK size \in FrontSizes :
        /\ size <= Len(m_buffer)
        /\ delivered' = Append(delivered, SubSeq(m_buffer, 1, size))
        /\ m_buffer' = SubSeq(m_buffer, size + 1, Len(m_buffer))
  BY DEF DealBuffer
<1>2. pc = "parse" /\ UNCHANGED <<m_fd, netVars, pc, cut>>
  BY DEF DealBuffer
<1>3. PICK n \in Nat \ {0} : Kept(n)
  BY DEF BufferInv, UncutInv
<1>4. size = ReplySize
  <2>1. size \in Nat \ {0}
    BY <1>1, ClientAssumption DEF FrontSizes
  <2>2. /\ m_buffer # <<>> /\ 1 \in DOMAIN m_buffer
        /\ Head(m_buffer) = m_buffer[1]
    BY <1>0, <1>1, <2>1
  <2>3. Head(m_buffer) = StreamPart(m_fd, n, 1)
    BY <1>3, <2>2 DEF Kept
  <2>4. IsHead(Head(m_buffer))
    BY <2>3, HeadOfReply
  <2> QED BY <1>1, <2>2, <2>4 DEF FrontSizes
<1>5. ReplySize \in 1 .. Len(m_buffer) /\ ReplySize \in Nat \ {0}
  BY <1>0, <1>1, <1>4, ClientAssumption
<1>6. \A i \in 1 .. Len(m_buffer) : m_buffer[i] = StreamPart(m_fd, n, i)
  BY <1>0, <1>3 DEF Kept
<1>7. SubSeq(m_buffer, 1, ReplySize) = Reply(m_fd, n)
  <2> DEFINE a == SubSeq(m_buffer, 1, ReplySize)
  <2>1. /\ a \in Seq(ReplyPart) /\ DOMAIN a = 1 .. ReplySize
        /\ Len(a) = ReplySize
        /\ \A i \in 1 .. ReplySize : a[i] = m_buffer[i]
    BY <1>0, <1>5, SubSeqProperties
  <2>2. \A i \in 1 .. ReplySize : a[i] = StreamPart(m_fd, n, i)
    BY <1>0, <1>5, <1>6, <2>1
  <2> HIDE DEF a
  <2>3. a = [i \in 1 .. ReplySize |-> a[i]]
    BY <2>1
  <2> QED BY <2>2, <2>3 DEF a, Reply, StreamPart, Before
<1>8. n \in 1 .. MaxReplies
  <2>1. m_buffer[ReplySize] \in ReplyPart
    BY <1>0, <1>5, ElementOfSeq
  <2>2. Before(n) + ReplySize <= MaxReplies * ReplySize
    <3>1. m_buffer[ReplySize] = StreamPart(m_fd, n, ReplySize)
      BY <1>5, <1>6
    <3>2. m_buffer[ReplySize].pos \in 1 .. MaxReplies * ReplySize
      BY <2>1 DEF ReplyPart
    <3>3. m_buffer[ReplySize].pos = Before(n) + ReplySize
      BY <3>1 DEF StreamPart
    <3> QED BY <3>2, <3>3, ClientAssumption
  <2>3. CASE n > MaxReplies
    <3>1. MaxReplies + 1 \in Nat \ {0} /\ n \in Nat \ {0}
      BY ClientAssumption
    <3>2. Before(MaxReplies + 1) <= Before(n)
      <4>1. CASE n = MaxReplies + 1
        BY <3>1, <4>1, BeforeNext
      <4>2. CASE MaxReplies + 1 < n
        <5>1. Before(MaxReplies + 1) + ReplySize <= Before(n)
          BY <3>1, <4>2, BeforeOrder
        <5>2. Before(MaxReplies + 1) \in Nat /\ Before(n) \in Nat
          BY <3>1, BeforeNext
        <5> QED BY <1>5, <5>1, <5>2
      <4> QED BY <2>3, <4>1, <4>2, ClientAssumption
    <3>3. Before(MaxReplies + 1) = MaxReplies * ReplySize
      BY ClientAssumption DEF Before
    <3>4. Before(n) \in Nat /\ MaxReplies * ReplySize \in Nat
      BY BeforeNext, ClientAssumption
    <3> QED BY <1>5, <2>2, <3>2, <3>3, <3>4
  <2> QED BY <2>3, ClientAssumption
<1>9. /\ delivered' = Append(delivered, Reply(m_fd, n))
      /\ Len(delivered) \in Nat
      /\ DOMAIN delivered' = 1 .. Len(delivered) + 1
      /\ delivered'[Len(delivered) + 1] = Reply(m_fd, n)
      /\ DOMAIN delivered = 1 .. Len(delivered)
      /\ \A j \in 1 .. Len(delivered) : delivered'[j] = delivered[j]
  BY <1>1, <1>4, <1>7 DEF TypeOK
<1>10. Kept(n + 1)'
  <2>1. Before(n + 1) = Before(n) + ReplySize /\ Before(n) \in Nat
    BY BeforeNext
  <2>2. /\ Len(m_buffer') = Len(m_buffer) - ReplySize
        /\ DOMAIN m_buffer' = 1 .. Len(m_buffer) - ReplySize
        /\ \A i \in 1 .. Len(m_buffer) - ReplySize :
             m_buffer'[i] = m_buffer[i + ReplySize]
    <3>1. m_buffer \in Seq(ReplyPart) /\ ReplySize \in 0 .. Len(m_buffer)
      BY <1>0, <1>5
    <3>2. m_buffer' = SubSeq(m_buffer, ReplySize + 1, Len(m_buffer))
      BY <1>1, <1>4
    <3> QED BY <3>1, <3>2, DroppedElements
  <2>3. \A i \in DOMAIN m_buffer' :
          m_buffer'[i] = StreamPart(m_fd, n + 1, i)
    <3> SUFFICES ASSUME NEW i \in 1 .. Len(m_buffer) - ReplySize
                 PROVE  m_buffer'[i] = StreamPart(m_fd, n + 1, i)
      BY <2>2
    <3>1. i + ReplySize \in 1 .. Len(m_buffer)
      BY <1>0, <1>5
    <3>2. m_buffer'[i] = StreamPart(m_fd, n, i + ReplySize)
      BY <1>6, <2>2, <3>1
    <3>3. Before(n) + (i + ReplySize) = Before(n + 1) + i
      BY <1>5, <2>1
    <3> QED BY <3>2, <3>3 DEF StreamPart
  <2>4. Alive =>
          Before(n + 1) + Len(m_buffer') = received[m_fd] - avail[m_fd]
    <3>1. Alive =>
            Before(n) + Len(m_buffer) = received[m_fd] - avail[m_fd]
      BY <1>3 DEF Kept
    <3>2. Before(n + 1) + Len(m_buffer') = Before(n) + Len(m_buffer)
      BY <1>0, <1>5, <2>1, <2>2
    <3> QED BY <3>1, <3>2
  <2> QED BY <1>2, <2>3, <2>4 DEF Kept, netVars, StreamPart, Before, Alive
<1>11. \A j \in DOMAIN delivered' : Whole(delivered'[j])
  <2>1. Whole(Reply(m_fd, n))
    BY <1>0, <1>8 DEF Whole
  <2>2. \A j \in 1 .. Len(delivered) + 1 :
          j \in 1 .. Len(delivered) \/ j = Len(delivered) + 1
    BY <1>9
  <2> QED BY <1>9, <2>1, <2>2 DEF BufferInv, UncutInv
<1>12. n + 1 \in Nat \ {0}
  OBVIOUS
<1> QED BY <1>2, <1>10, <1>11, <1>12 DEF BufferInv, UncutInv, Whole, Reply

\* A message handed to onData after a reply was cut ends on a later socket.
LEMMA DealCut ==
  ASSUME TypeOK, BufferInv, DealBuffer, cut # 0
  PROVE  BufferInv'
<1>0. /\ m_buffer \in Seq(ReplyPart) /\ Len(m_buffer) \in Nat
      /\ DOMAIN m_buffer = 1 .. Len(m_buffer)
  BY ReadFacts
<1>1. PICK size \in FrontSizes :
        /\ size <= Len(m_buffer)
        /\ delivered' = Append(delivered, SubSeq(m_buffer, 1, size))
        /\ m_buffer' = SubSeq(m_buffer, size + 1, Len(m_buffer))
  BY DEF DealBuffer
<1>2. UNCHANGED <<m_fd, pc, cut>>
  BY DEF DealBuffer
<1>3. size \in 1 .. Len(m_buffer)
  BY <1>0, <1>1, ClientAssumption DEF FrontSizes
<1>4. \A i \in size .. Len(m_buffer) : m_buffer[i].sock > cut
  <2>1. CASE \A i \in DOMAIN m_buffer : m_buffer[i].sock > cut
    BY <1>0, <1>3, <2>1
  <2>2. CASE /\ m_buffer # <<>> /\ IsHead(Head(m_buffer))
             /\ \A i \in DOMAIN m_buffer :
                  i >= ReplySize => m_buffer[i].sock > cut
    <3>1. size = ReplySize
      BY <1>1, <2>2 DEF FrontSizes
    <3> QED BY <1>0, <1>3, <2>2, <3>1
  <2> QED BY <2>1, <2>2 DEF BufferInv, CutInv
<1>5. PICK m : m = SubSeq(m_buffer, 1, size)
  OBVIOUS
<1>6. m \in Seq(ReplyPart) /\ Last(m) = m_buffer[size]
  <2>1. Len(m) = size /\ \A i \in 1 .. size : m[i] = m_buffer[i]
    BY <1>0, <1>3, <1>5, SubSeqProperties
  <2> QED BY <1>0, <1>3, <1>5, <2>1, SubSeqProperties DEF Last
<1>7. Last(m).sock > cut
  BY <1>0, <1>3, <1>4, <1>6
<1>8. \A j \in DOMAIN delivered' :
        Whole(delivered'[j]) \/ Last(delivered'[j]).sock > cut
  <2>1. delivered \in Seq(Seq(ReplyPart)) /\ delivered' = Append(delivered, m)
    BY <1>1, <1>5 DEF TypeOK
  <2>2. \A j \in DOMAIN delivered' :
          \/ j \in DOMAIN delivered /\ delivered'[j] = delivered[j]
          \/ delivered'[j] = m
    BY <1>6, <2>1, AppendProperties
  <2> QED BY <1>7, <2>2 DEF BufferInv, CutInv
<1>9. \A i \in DOMAIN m_buffer' : m_buffer'[i].sock > cut
  <2>1. /\ DOMAIN m_buffer' = 1 .. Len(m_buffer) - size
        /\ \A i \in 1 .. Len(m_buffer) - size :
             m_buffer'[i] = m_buffer[i + size]
    BY <1>0, <1>1, <1>3, DroppedElements
  <2>2. \A i \in 1 .. Len(m_buffer) - size :
          i + size \in size .. Len(m_buffer)
    BY <1>0, <1>3
  <2> QED BY <1>4, <2>1, <2>2
<1> QED BY <1>2, <1>8, <1>9 DEF BufferInv, CutInv, Whole

\* The socket given up first with an unfinished reply is the one cut names.
LEMMA CloseStep ==
  ASSUME TypeOK, BufferInv, CloseSocket
  PROVE  BufferInv'
<1>0. /\ m_fd \in Sockets /\ m_fd \in Nat \ {0} /\ cut \in Nat
      /\ m_buffer \in Seq(ReplyPart) /\ Len(m_buffer) \in Nat
      /\ DOMAIN m_buffer = 1 .. Len(m_buffer) /\ DOMAIN link = Sockets
  BY ReadFacts DEF Sockets, TypeOK
<1>1. /\ link' = [link EXCEPT ![m_fd] = "closed"] /\ cut' = CutNow
      /\ pc = "close" /\ pc' = "create"
      /\ UNCHANGED <<m_fd, received, m_buffer, delivered>>
  BY DEF CloseSocket
<1>2. ~Alive'
  BY <1>0, <1>1 DEF Alive
<1>3. \A n \in Nat \ {0} : Kept(n) => Kept(n)'
  BY <1>1, <1>2 DEF Kept
<1>4. CASE cut = 0 /\ m_buffer = <<>>
  BY <1>1, <1>3, <1>4 DEF BufferInv, UncutInv, CutNow, Whole
<1>5. CASE cut = 0 /\ m_buffer # <<>>
  <2>1. cut' = m_fd
    BY <1>1, <1>5 DEF CutNow
  <2>2. IsHead(Head(m_buffer))
    <3>1. PICK n \in Nat \ {0} : Kept(n)
      BY <1>5 DEF BufferInv, UncutInv
    <3>2. 1 \in DOMAIN m_buffer /\ Head(m_buffer) = m_buffer[1]
      BY <1>0, <1>5
    <3> QED BY <3>1, <3>2, HeadOfReply DEF Kept
  <2>3. Len(m_buffer) < ReplySize
    BY <1>1, <1>5 DEF BufferInv, UncutInv
  <2>4. \A i \in DOMAIN m_buffer : ~(i >= ReplySize)
    BY <1>0, <2>3, ClientAssumption
  <2>5. \A j \in DOMAIN delivered : Whole(delivered[j])
    BY <1>5 DEF BufferInv, UncutInv
  <2> QED BY <1>0, <1>1, <1>5, <2>1, <2>2, <2>4, <2>5
          DEF BufferInv, CutInv, Whole, IsHead
<1>6. CASE cut # 0
  BY <1>1, <1>6 DEF BufferInv, CutInv, CutNow, Whole
<1> QED BY <1>0, <1>4, <1>5, <1>6

LEMMA CreateStep ==
  ASSUME TypeOK, ReadInv, BufferInv, CreateSocket
  PROVE  BufferInv'
<1>0. m_fd \in Sockets /\ m_fd \in Nat \ {0} /\ cut \in Nat
  BY ReadFacts DEF Sockets, TypeOK
<1>1. /\ pc = "create" /\ pc' = "connect" /\ m_fd < MaxSockets
      /\ m_fd' = m_fd + 1 /\ UNCHANGED <<avail, received, readVars>>
  BY DEF CreateSocket
<1>2. m_fd' \in Sockets /\ m_fd' > m_fd
  BY <1>0, <1>1, ClientAssumption DEF Sockets
<1>3. CASE cut = 0
  <2>1. m_buffer' = <<>> /\ Len(m_buffer') = 0 /\ DOMAIN m_buffer' = {}
    BY <1>1, <1>3 DEF BufferInv, UncutInv, readVars
  <2>2. received'[m_fd'] = 0 /\ avail'[m_fd'] = 0 /\ Before(1) = 0
    BY <1>1, <1>2, BeforeNext DEF ReadInv
  <2>3. Kept(1)'
    BY <2>1, <2>2 DEF Kept, Before
  <2>4. Len(m_buffer') < ReplySize
    BY <2>1, ClientAssumption
  <2> QED BY <1>1, <1>3, <2>3, <2>4 DEF BufferInv, UncutInv, Whole, readVars
<1>4. CASE cut # 0
  <2>1. cut < m_fd'
    BY <1>0, <1>1, <1>4 DEF BufferInv, CutInv
  <2> QED BY <1>1, <1>4, <2>1 DEF BufferInv, CutInv, Whole, readVars
<1> QED BY <1>3, <1>4

LEMMA BufferStep ==
  TypeOK /\ SocketInv /\ ReadInv /\ BufferInv /\ [Next]_vars => BufferInv'
<1> SUFFICES ASSUME TypeOK, SocketInv, ReadInv, BufferInv, [Next]_vars
             PROVE  BufferInv'
  OBVIOUS
<1>1. CASE Network
  BY <1>1, NetworkStep, BufferQuiet DEF Unread
<1>2. CASE Elsewhere
  <2>1. UNCHANGED <<m_fd, netVars, readVars>>
    BY <1>2, ElsewhereStep
  <2>2. EndOnRead => (cut = 0 => Len(m_buffer) < ReplySize)
    BY EndOnReadStep
  <2>3. \/ pc' = pc
        \/ pc \notin {"create", "parse", "recv"} /\ pc' # "create"
        \/ pc # "create" /\ pc' \in {"recv", "parse"}
        \/ pc # "create" /\ pc' # "create"
              /\ (cut = 0 => Len(m_buffer) < ReplySize)
    BY <1>2, <2>2
    DEF Elsewhere, Main, CallSend, Send, SendPart, SendBlocked, SendFails,
        SendError, OnRead, RecvError, EndOnRead, Connected, SetBlocking, vars
  <2> QED BY <2>1, <2>3, BufferQuiet DEF netVars, Alive
<1> QED
  BY <1>1, <1>2, StepCases, RecvStep, DealUncut, DealCut, CloseStep, CreateStep

\* Up to and with the first socket given up in the middle of a reply, onData
\* gets whole replies: the message an unfinished reply spoils never ends on the
\* socket that was lost, and none after it does.
THEOREM RepliesDeliveredWhole == Spec => []RepliesWhole
<1>1. Init => SocketInv /\ ReadInv /\ BufferInv
  <2> SUFFICES ASSUME Init
               PROVE  SocketInv /\ ReadInv /\ BufferInv
    OBVIOUS
  <2>1. /\ m_fd = 1 /\ 1 \in Sockets /\ avail[1] = 0 /\ received[1] = 0
        /\ m_buffer = <<>> /\ delivered = <<>> /\ cut = 0 /\ pc = "select"
    BY ClientAssumption DEF Init, Sockets
  <2>2. Before(1) = 0 /\ Len(m_buffer) = 0 /\ DOMAIN m_buffer = {}
    BY <2>1, BeforeNext
  <2>3. Kept(1)
    BY <2>1, <2>2 DEF Kept
  <2>4. BufferInv
    BY <2>1, <2>2, <2>3, ClientAssumption DEF BufferInv, UncutInv
  <2>5. SocketInv
    BY ClientAssumption DEF Init, SocketInv, OneSocketOpen, Sockets
  <2> QED BY <2>4, <2>5, ReadInit
<1>2. TypeOK /\ ReadInv /\ BufferInv => RepliesWhole
  <2> SUFFICES ASSUME TypeOK, ReadInv, BufferInv, NEW j \in DOMAIN delivered,
                      cut = 0 \/ Last(delivered[j]).sock <= cut,
                      ~Whole(delivered[j])
               PROVE  FALSE
    BY DEF RepliesWhole, Whole
  <2>1. cut # 0 /\ Last(delivered[j]).sock > cut
    BY DEF BufferInv, UncutInv, CutInv
  <2>2. delivered[j] \in Seq(ReplyPart) /\ delivered[j] # <<>>
    BY DEF TypeOK, ReadInv, NothingReadIsLost
  <2>3. Len(delivered[j]) \in 1 .. Len(delivered[j])
    BY <2>2, EmptySeq, LenProperties
  <2>4. Last(delivered[j]) \in ReplyPart
    BY <2>2, <2>3, ElementOfSeq DEF Last
  <2>5. Last(delivered[j]).sock \in Nat /\ cut \in Nat
    BY <2>4 DEF ReplyPart, Sockets, TypeOK
  <2> QED BY <2>1, <2>5
<1> QED
  BY <1>1, <1>2, TypeAlways, SocketStep, ReadStep, BufferStep, PTL DEF Spec
=============================================================================
