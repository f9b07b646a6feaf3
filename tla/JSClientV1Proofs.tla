-------------------------- MODULE JSClientV1Proofs --------------------------
(***************************************************************************)
(* Theorems about JSClientV1, for any number of messages, arrivals, parts  *)
(* and buffer sizes.                                                       *)
(***************************************************************************)
EXTENDS JSClientV1, SequenceTheorems, TLAPS

USE ClientV1Assumption

\* Inside Send some part of the latest message is left.
InSend == mainPc = "send" => called \in 1 .. MaxMessages /\ done < SendParts

LEMMA TypeStep == TypeOK /\ InSend /\ [Next]_vars => TypeOK' /\ InSend'
<1> SUFFICES ASSUME TypeOK, InSend, [Next]_vars
             PROVE  TypeOK' /\ InSend'
  OBVIOUS
<1> USE DEF TypeOK, InSend, serverVars, sendVars, readVars
<1>1. CASE Arrive
  BY <1>1 DEF Arrive
<1>2. CASE SendUrgent \/ Drain
  <2>1. CASE SendUrgent
    BY <2>1 DEF SendUrgent
  <2>2. CASE Drain
    BY <2>2 DEF Drain
  <2> QED BY <1>2, <2>1, <2>2
<1>3. CASE Lose
  BY <1>3 DEF Lose
<1>4. CASE Connect \/ ConnectFails
  BY <1>4 DEF Connect, ConnectFails
<1>5. CASE CallSend
  BY <1>5 DEF CallSend
<1>6. CASE SendPart
  <2>1. /\ done + 1 \in 1 .. SendParts /\ unread + 1 \in 0 .. SendBuffer
        /\ called \in 1 .. MaxMessages
    BY <1>6 DEF SendPart
  <2>2. [msg |-> called, part |-> done + 1]
          \in [msg : 1 .. MaxMessages, part : 1 .. SendParts]
    BY <2>1
  <2>3. /\ done' = done + 1 /\ unread' = unread + 1
        /\ wire' = Append(wire, [msg |-> called, part |-> done + 1])
        /\ mainPc' = IF done + 1 = SendParts THEN "next" ELSE "send"
        /\ UNCHANGED <<serverVars, open, avail, called, failed, m_bRunning, pc,
                       events, readVars>>
    BY <1>6 DEF SendPart
  <2> QED BY <2>1, <2>2, <2>3
<1>7. CASE SendWouldBlock \/ SendError \/ SendFails
  BY <1>7 DEF SendWouldBlock, SendError, SendFails, vars
<1>8. CASE Select \/ EndDetect \/ EndRound
  BY <1>8 DEF Select, EndDetect, EndRound
<1>9. CASE OnReadLost
  BY <1>9 DEF OnReadLost, CloseSocket
<1>10. CASE OnRead
  BY <1>10 DEF OnRead
<1>11. CASE Recv
  BY <1>11 DEF Recv
<1>12. CASE EndOnRead
  <2>1. delivered' \in Seq(Seq(1 .. MaxArrivals))
    <3>1. CASE m_buffer = <<>>
      BY <1>12, <3>1 DEF EndOnRead
    <3>2. CASE m_buffer # <<>>
      <4>1. delivered' = Append(delivered, m_buffer)
        BY <1>12, <3>2 DEF EndOnRead
      <4> QED BY <4>1
    <3> QED BY <3>1, <3>2
  <2> QED BY <1>12, <2>1 DEF EndOnRead
<1>13. CASE OnExcept
  <2>1. events' \subseteq {"read", "except"}
    <3>1. events' = {}
      BY <1>13 DEF OnExcept
    <3> QED BY <3>1, Zenon
  <2>2. /\ UNCHANGED <<serverVars, unread, sendVars, mainPc, pc, readVars>>
        /\ open' \in BOOLEAN /\ m_bRunning' \in BOOLEAN
        /\ avail' \in 0 .. received
    <3>1. /\ UNCHANGED <<serverVars, unread, sendVars, mainPc, pc, readVars>>
          /\ open' = FALSE /\ m_bRunning' = FALSE /\ avail' = 0
      BY <1>13 DEF OnExcept, CloseSocket
    <3>2. avail' \in 0 .. received
      <4>1. 0 \in 0 .. received
        OBVIOUS
      <4> QED BY <3>1, <4>1, Zenon
    <3>3. open' \in BOOLEAN /\ m_bRunning' \in BOOLEAN
      BY <3>1, Zenon
    <3> QED BY <3>1, <3>2, <3>3, Zenon
  <2> QED BY <2>1, <2>2
<1>14. CASE UNCHANGED vars
  BY <1>14 DEF vars
<1> QED BY <1>1, <1>2, <1>3, <1>4, <1>5, <1>6, <1>7, <1>8, <1>9, <1>10, <1>11,
           <1>12, <1>13, <1>14 DEF Next, Server, Main, Detect

LEMMA TypeAlways == Spec => [](TypeOK /\ InSend)
<1>1. Init => TypeOK /\ InSend
  <2> SUFFICES ASSUME Init
               PROVE  TypeOK /\ InSend
    OBVIOUS
  <2>1. events \subseteq {"read", "except"}
    <3>1. events = {}
      BY DEF Init
    <3> QED BY <3>1, Zenon
  <2>2. /\ open \in BOOLEAN /\ urgent \in BOOLEAN /\ m_bRunning \in BOOLEAN
        /\ server = "none" /\ received = 0 /\ avail = 0 /\ unread = 0
        /\ wire = <<>> /\ called = 0 /\ done = 0 /\ mainPc = "connect"
        /\ failed \subseteq 1 .. MaxMessages
        /\ pc = "none" /\ m_buffer = <<>> /\ delivered = <<>>
    BY DEF Init
  <2> QED BY <2>1, <2>2 DEF TypeOK, InSend
<1> QED BY <1>1, TypeStep, PTL DEF Spec

\* Every reachable state is of the declared types: no part beyond a message's
\* last is sent, and no part beyond those that arrived is read.
THEOREM TypeCorrect == Spec => []TypeOK
BY TypeAlways, PTL

-----------------------------------------------------------------------------
(* The wire.                                                               *)

\* The last part of a wire, and the part main() sends next if it can.
End(w) == IF w = <<>> THEN [msg |-> 0, part |-> SendParts] ELSE w[Len(w)]

Upcoming == IF mainPc = "send" THEN [msg |-> called, part |-> done + 1]
                               ELSE [msg |-> called + 1, part |-> 1]

\* As long as there is a connection, the next part may be sent.
WireInv ==
  /\ NoHoleOnTheWire
  /\ mainPc = "connect" => called = 0 /\ wire = <<>> /\ server = "none"
  /\ mainPc # "connect" /\ Connected => NextTo(End(wire), Upcoming)

\* A wire without holes has none when another message has failed.
LEMMA FailedGrows ==
  ASSUME failed \subseteq failed', UNCHANGED wire, NoHoleOnTheWire
  PROVE  NoHoleOnTheWire'
BY DEF NoHoleOnTheWire, NextTo, Previous

LEMMA WireStep == TypeOK /\ InSend /\ WireInv /\ [Next]_vars => WireInv'
<1> SUFFICES ASSUME TypeOK, InSend, WireInv, [Next]_vars
             PROVE  WireInv'
  OBVIOUS
<1> USE DEF TypeOK, InSend, WireInv, serverVars, sendVars, readVars
<1>1. ASSUME UNCHANGED <<sendVars, mainPc>>, Connected' => Connected,
             mainPc = "connect" => server' = server
      PROVE  WireInv'
  BY <1>1 DEF NoHoleOnTheWire, NextTo, Previous, Upcoming, End
<1>2. CASE Server
  BY <1>1, <1>2 DEF Server, Arrive, SendUrgent, Drain, Lose, Connected
<1>3. CASE Connect
  <2>1. called = 0 /\ wire = <<>> /\ UNCHANGED sendVars /\ mainPc' = "next"
    BY <1>3 DEF Connect
  <2>2. NextTo([msg |-> 0, part |-> SendParts], [msg |-> 1, part |-> 1])'
    BY DEF NextTo
  <2>3. (End(wire) = [msg |-> 0, part |-> SendParts])'
    BY <2>1 DEF End
  <2>4. (Upcoming = [msg |-> 1, part |-> 1])'
    BY <2>1 DEF Upcoming
  <2> QED BY <2>1, <2>2, <2>3, <2>4, FailedGrows
<1>4. CASE ConnectFails
  BY <1>4, FailedGrows DEF ConnectFails, Connected
<1>5. CASE CallSend
  <2>1. /\ UNCHANGED <<wire, failed, server, open>> /\ called' = called + 1
        /\ mainPc = "next" /\ mainPc' = "send" /\ done' = 0
    BY <1>5 DEF CallSend
  <2>2. Upcoming' = Upcoming
    BY <2>1 DEF Upcoming
  <2>3. Connected => NextTo(End(wire), Upcoming)'
    BY <2>1, <2>2 DEF NextTo, End
  <2> QED BY <2>1, <2>3, FailedGrows DEF Connected
<1>6. CASE SendPart
  <2>1. PICK e :
          /\ e = [msg |-> called, part |-> done + 1]
          /\ wire' = Append(wire, e) /\ done' = done + 1
          /\ mainPc' = IF done + 1 = SendParts THEN "next" ELSE "send"
          /\ UNCHANGED <<server, open, called, failed>> /\ Connected
          /\ mainPc = "send"
    BY <1>6 DEF SendPart
  <2>2. NextTo(End(wire), e)
    BY <2>1 DEF Upcoming
  <2>3. /\ DOMAIN wire' = 1 .. Len(wire) + 1 /\ Len(wire) \in Nat
        /\ Len(wire') = Len(wire) + 1 /\ wire'[Len(wire) + 1] = e
        /\ \A i \in 1 .. Len(wire) : wire'[i] = wire[i]
    BY <2>1
  <2> HIDE DEF TypeOK
  <2>9. (wire = <<>> <=> Len(wire) = 0) /\ wire' # <<>>
    <3>1. wire \in Seq([msg : 1 .. MaxMessages, part : 1 .. SendParts])
      BY DEF TypeOK
    <3>2. Append(wire, e) # <<>>
      BY <3>1
    <3> QED BY <2>1, <3>1, <3>2, EmptySeq
  <2>4. ASSUME NEW i \in 1 .. Len(wire) + 1
        PROVE  NextTo(Previous(i), wire[i])'
    <3>1. CASE i = Len(wire) + 1
      <4>1. Previous(i)' = End(wire)
        <5>1. i = 1 <=> wire = <<>>
          BY <2>3, <2>9, <3>1
        <5>2. i # 1 => i - 1 = Len(wire) /\ i - 1 \in 1 .. Len(wire)
          BY <2>3, <3>1
        <5> QED BY <2>3, <5>1, <5>2 DEF Previous, End
      <4> QED BY <2>1, <2>2, <2>3, <3>1, <4>1 DEF NextTo
    <3>2. CASE i \in 1 .. Len(wire)
      <4>1. Previous(i)' = Previous(i)
        <5>1. i # 1 => i - 1 \in 1 .. Len(wire)
          BY <2>3, <3>2
        <5> QED BY <2>3, <5>1 DEF Previous
      <4>2. NextTo(Previous(i), wire[i])
        BY <3>2 DEF NoHoleOnTheWire
      <4> QED BY <2>1, <2>3, <3>2, <4>1, <4>2 DEF NextTo
    <3> QED BY <2>3, <3>1, <3>2
  <2>5. End(wire)' = e
    BY <2>3, <2>9 DEF End
  <2>6. NextTo(e, Upcoming)'
    BY <2>1 DEF NextTo, Upcoming
  <2>7. NoHoleOnTheWire'
    BY <2>3, <2>4 DEF NoHoleOnTheWire
  <2> QED BY <2>1, <2>5, <2>6, <2>7
<1>7. CASE SendFails
  <2>1. /\ mainPc = "send" /\ mainPc' = "next" /\ Connected
        /\ failed' = failed \cup {called} /\ UNCHANGED <<wire, called, done>>
    BY <1>7 DEF SendFails
  <2>2. PICK p : p = End(wire)
    OBVIOUS
  <2>3. NextTo(p, [msg |-> called, part |-> done + 1])
    BY <2>1, <2>2 DEF Upcoming
  <2>4. NextTo(p, [msg |-> called + 1, part |-> 1])'
    <3>1. p.msg \in Nat /\ called \in Nat
      <4>1. CASE wire = <<>>
        BY <2>2, <4>1 DEF End
      <4>2. CASE wire # <<>>
        <5>1. Len(wire) \in 1 .. Len(wire)
          BY <4>2, EmptySeq
        <5>2. wire[Len(wire)] \in [msg : 1 .. MaxMessages,
                                   part : 1 .. SendParts]
          BY <5>1, ElementOfSeq
        <5> QED BY <2>2, <4>2, <5>2 DEF End
      <4> QED BY <4>1, <4>2
    <3>2. p.msg <= called
      BY <2>3, <3>1 DEF NextTo
    <3>3. \A m \in p.msg .. called :
            m \in failed' \/ (m = p.msg /\ p.part = SendParts)
      <4> SUFFICES ASSUME NEW m \in p.msg .. called, m # called
                   PROVE  m \in failed' \/ (m = p.msg /\ p.part = SendParts)
        BY <2>1
      <4>1. m \in p.msg .. called - 1 /\ p.msg # called
        BY <3>1
      <4> QED BY <2>1, <2>3, <4>1 DEF NextTo
    <3> QED BY <2>1, <3>1, <3>2, <3>3 DEF NextTo
  <2>5. End(wire)' = p /\ Upcoming' = [msg |-> called + 1, part |-> 1]
    BY <2>1, <2>2 DEF End, Upcoming
  <2> QED BY <2>1, <2>4, <2>5, FailedGrows
<1>8. CASE SendWouldBlock
  BY <1>1, <1>8 DEF SendWouldBlock, vars, Connected
<1>9. CASE SendError
  BY <1>9, FailedGrows DEF SendError, Connected
<1>10. CASE Detect
  BY <1>1, <1>10 DEF Detect, Select, OnReadLost, OnRead, Recv, EndOnRead,
     OnExcept, EndRound, EndDetect, CloseSocket, Connected
<1>11. CASE UNCHANGED vars
  BY <1>1, <1>11 DEF vars, Connected
<1> QED BY <1>2, <1>3, <1>4, <1>5, <1>6, <1>7, <1>8, <1>9, <1>10, <1>11
        DEF Next, Main

\* Whatever the server and the detection thread do to a Send, nothing goes out
\* behind a message that was cut off, unless its Send met a passing error.
THEOREM NothingBehindAGap == Spec => []NoHoleOnTheWire
<1>1. Init => WireInv
  BY DEF Init, WireInv, Connected, NoHoleOnTheWire
<1>2. WireInv => NoHoleOnTheWire
  BY DEF WireInv
<1> QED BY <1>1, <1>2, TypeAlways, WireStep, PTL DEF Spec

-----------------------------------------------------------------------------
(* What onData gets.                                                       *)

\* The kernel holds nothing for a socket that is closed or was reset, and
\* nothing is read before Connect.
ReadInv ==
  /\ DeliveredOnceInOrder
  /\ avail > 0 => open /\ server # "rst"
  /\ mainPc = "connect" => pc = "none" /\ server = "none"

\* What was delivered stays delivered: the last parts of the calls so far are
\* the same whatever calls follow.
LEMMA GotStays ==
  ASSUME UNCHANGED delivered
  PROVE  Got' = Got /\ \A j : GotBefore(j)' = GotBefore(j)
BY DEF Got, GotBefore, Last

\* Got is a position of the stream.
LEMMA GotType ==
  ASSUME delivered \in Seq(Seq(1 .. MaxArrivals)), DeliveredOnceInOrder
  PROVE  Got \in Int
<1> DEFINE n == Len(delivered)
<1>1. CASE n = 0
  BY <1>1 DEF Got, GotBefore
<1>2. CASE n # 0
  <2>1. n \in 1 .. n /\ n \in DOMAIN delivered /\ n + 1 # 1 /\ n + 1 - 1 = n
    BY <1>2
  <2>2. delivered[n] \in Seq(1 .. MaxArrivals) /\ delivered[n] # <<>>
    <3> DEFINE Call == Seq(1 .. MaxArrivals)
    <3>1. delivered \in Seq(Call)
      OBVIOUS
    <3> HIDE DEF Call
    <3>2. delivered[n] \in Call
      BY <2>1, <3>1, ElementOfSeq
    <3> QED BY <2>1, <3>2 DEF Call, DeliveredOnceInOrder
  <2>3. Last(delivered[n]) \in 1 .. MaxArrivals
    BY <2>2 DEF Last
  <2> QED BY <2>1, <2>3 DEF Got, GotBefore
<1> QED BY <1>1, <1>2

LEMMA ReadStep == TypeOK /\ ReadInv /\ [Next]_vars => ReadInv'
<1> SUFFICES ASSUME TypeOK, ReadInv, [Next]_vars
             PROVE  ReadInv'
  OBVIOUS
<1> USE DEF ReadInv, DeliveredOnceInOrder, serverVars, sendVars, readVars
<1>0. /\ received \in Nat /\ avail \in 0 .. received
      /\ m_buffer \in Seq(1 .. MaxArrivals)
      /\ delivered \in Seq(Seq(1 .. MaxArrivals))
      /\ server \in {"none", "up", "fin", "rst"}
  BY DEF TypeOK
\* A step that leaves what was read alone.
<1>1. ASSUME UNCHANGED readVars, pc' = "recv" <=> pc = "recv",
             open' => open, open' /\ server' # "rst" => server # "rst",
             open' /\ server' # "rst" => received' - avail' = received - avail,
             avail' > 0 => open' /\ server' # "rst",
             mainPc' = "connect" =>
               mainPc = "connect" /\ pc' = pc /\ server' = server
      PROVE  ReadInv'
  BY <1>1, GotStays DEF RunFrom
<1>2. CASE Server
  <2>1. CASE Arrive
    BY <1>0, <1>1, <2>1 DEF Arrive
  <2>2. CASE SendUrgent \/ Drain
    BY <1>0, <1>1, <2>2 DEF SendUrgent, Drain
  <2>3. CASE Lose
    BY <1>0, <1>1, <2>3 DEF Lose
  <2> QED BY <1>2, <2>1, <2>2, <2>3 DEF Server
<1>3. CASE Main \/ SendFails
  <2>1. CASE Connect
    <3>1. /\ pc = "none" /\ pc' = "select" /\ server' = "up" /\ server # "rst"
          /\ mainPc' = "next" /\ UNCHANGED <<received, avail, open, readVars>>
      BY <2>1 DEF Connect
    <3>2. open' /\ server' # "rst" => Got = received - avail
      BY <1>0, <3>1, GotType
    <3> QED BY <1>0, <3>1, <3>2, GotStays DEF RunFrom
  <2>2. CASE ConnectFails \/ CallSend \/ SendPart \/ SendWouldBlock \/ SendError
               \/ SendFails
    BY <1>0, <1>1, <2>2
       DEF ConnectFails, CallSend, SendPart, SendWouldBlock, SendError,
           SendFails, vars
  <2> QED BY <1>3, <2>1, <2>2 DEF Main
<1>4. CASE Select \/ EndRound \/ EndDetect
  BY <1>0, <1>1, <1>4 DEF Select, EndRound, EndDetect
<1>5. CASE OnReadLost \/ OnExcept
  BY <1>0, <1>1, <1>5 DEF OnReadLost, OnExcept, CloseSocket
<1>6. CASE OnRead
  <2>1. /\ pc = "events" /\ pc' = "recv" /\ m_buffer' = <<>>
        /\ UNCHANGED <<serverVars, open, avail, delivered>>
    BY <1>6 DEF OnRead
  <2>2. Len(m_buffer') = 0 /\ DOMAIN m_buffer' = {}
    BY <2>1
  <2>3. Got' = Got /\ Got \in Int
    BY <1>0, <2>1, GotStays, GotType
  <2>4. RunFrom(Got', m_buffer')
    BY <2>2 DEF RunFrom
  <2>5. \A j \in DOMAIN delivered' :
          delivered'[j] # <<>> /\ RunFrom(GotBefore(j)', delivered'[j])
    BY <2>1, GotStays
  <2>6. mainPc # "connect" /\ UNCHANGED mainPc
    BY <2>1, <1>6 DEF OnRead
  <2> QED BY <1>0, <2>1, <2>2, <2>3, <2>4, <2>5, <2>6 DEF RunFrom
<1>7. CASE Recv
  <2>1. /\ pc = "recv" /\ pc' = "recv" /\ avail > 0 /\ avail' = avail - 1
        /\ m_buffer' = Append(m_buffer, received - avail + 1)
        /\ UNCHANGED <<serverVars, open, delivered, mainPc>>
    BY <1>7 DEF Recv
  <2>2. Got' = Got /\ Got \in Int
    BY <1>0, <2>1, GotStays, GotType
  <2>3. Got + Len(m_buffer) = received - avail
    BY <2>1
  <2>4. RunFrom(Got, m_buffer')
    <3>1. /\ DOMAIN m_buffer' = 1 .. Len(m_buffer) + 1
          /\ m_buffer'[Len(m_buffer) + 1] = received - avail + 1
          /\ \A i \in 1 .. Len(m_buffer) : m_buffer'[i] = m_buffer[i]
      BY <1>0, <2>1
    <3>2. \A i \in 1 .. Len(m_buffer) : m_buffer[i] = Got + i
      BY <1>0, <2>1 DEF RunFrom
    <3>3. received - avail + 1 = Got + (Len(m_buffer) + 1)
      BY <1>0, <2>2, <2>3
    <3>4. \A i \in 1 .. Len(m_buffer) + 1 : m_buffer'[i] = Got + i
      <4> SUFFICES ASSUME NEW i \in 1 .. Len(m_buffer) + 1
                   PROVE  m_buffer'[i] = Got + i
        OBVIOUS
      <4>1. i \in 1 .. Len(m_buffer) \/ i = Len(m_buffer) + 1
        BY <1>0
      <4> QED BY <3>1, <3>2, <3>3, <4>1
    <3> QED BY <3>1, <3>4 DEF RunFrom
  <2>5. Len(m_buffer') = Len(m_buffer) + 1
    BY <1>0, <2>1
  <2>6. \A j \in DOMAIN delivered' :
          delivered'[j] # <<>> /\ RunFrom(GotBefore(j)', delivered'[j])
    BY <2>1, GotStays
  <2>7. mainPc # "connect" /\ open /\ server # "rst"
    BY <1>0, <2>1
  <2> QED BY <1>0, <2>1, <2>2, <2>3, <2>4, <2>5, <2>6, <2>7, SMTT(20)
          DEF RunFrom
<1>8. CASE EndOnRead
  <2>1. /\ pc = "recv" /\ avail = 0 /\ pc' = "events"
        /\ UNCHANGED <<serverVars, open, avail, mainPc, m_buffer>>
    BY <1>8 DEF EndOnRead
  <2>2. CASE m_buffer = <<>>
    <3>1. UNCHANGED delivered /\ Len(m_buffer) = 0
      BY <1>8, <2>2 DEF EndOnRead
    <3>2. Got \in Int
      BY <1>0, GotType
    <3> QED BY <1>0, <2>1, <3>1, <3>2, GotStays DEF RunFrom
  <2>3. CASE m_buffer # <<>>
    <3> DEFINE n == Len(delivered)
    <3>1. delivered' = Append(delivered, m_buffer)
      BY <1>8, <2>3 DEF EndOnRead
    <3>2. /\ n \in Nat /\ DOMAIN delivered' = 1 .. n + 1
          /\ Len(delivered') = n + 1
          /\ DOMAIN delivered = 1 .. n
          /\ delivered'[n + 1] = m_buffer
          /\ \A j \in 1 .. n : delivered'[j] = delivered[j]
      BY <1>0, <3>1
    <3>3. \A j \in 1 .. n + 1 : GotBefore(j)' = GotBefore(j)
      BY <3>2 DEF GotBefore
    <3>4. Got = GotBefore(n + 1)
      BY DEF Got
    <3>5. Got' = Got + Len(m_buffer)
      <4>1. Got' = Last(m_buffer)
        BY <3>2 DEF Got, GotBefore
      <4>2. Last(m_buffer) = Got + Len(m_buffer)
        BY <1>0, <2>1, <2>3 DEF Last, RunFrom
      <4> QED BY <4>1, <4>2
    <3>6. \A j \in DOMAIN delivered' :
            delivered'[j] # <<>> /\ RunFrom(GotBefore(j)', delivered'[j])
      BY <2>1, <2>3, <3>2, <3>3, <3>4
    <3>7. Got \in Int /\ Len(m_buffer) \in Nat
      BY <1>0, GotType
    <3> QED BY <1>0, <2>1, <3>5, <3>6, <3>7 DEF RunFrom
  <2> QED BY <2>2, <2>3
<1>9. CASE UNCHANGED vars
  BY <1>0, <1>1, <1>9 DEF vars
<1> QED BY <1>2, <1>3, <1>4, <1>5, <1>6, <1>7, <1>8, <1>9 DEF Next, Detect

\* However arrivals and reads interleave, onData gets what recv() returned
\* once, in order and without a gap, although every OnRead clears m_buffer.
THEOREM EveryPartDeliveredOnce == Spec => []DeliveredOnceInOrder
<1>1. Init => ReadInv
  BY DEF Init, ReadInv, DeliveredOnceInOrder, RunFrom, Got, GotBefore
<1>2. ReadInv => DeliveredOnceInOrder
  BY DEF ReadInv
<1> QED BY <1>1, <1>2, TypeAlways, ReadStep, PTL DEF Spec
=============================================================================
