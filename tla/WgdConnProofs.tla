---------------------------- MODULE WgdConnProofs ----------------------------
(***************************************************************************)
(* Theorems about WgdConn: for every size of head, buffer and messages the *)
(* connection stays within its buffer, keeps its place in the byte stream  *)
(* and implements MsgChannel.                                              *)
(***************************************************************************)
EXTENDS WgdConn, TLAPS

USE ConnAssumption

-----------------------------------------------------------------------------
LEMMA TypeInit == Init => TypeOK /\ InBounds
BY DEF Init, TypeOK, InBounds

\* After Extend there is room for one recv().
LEMMA RoomForRecv ==
  ASSUME TypeOK, InBounds
  PROVE  /\ SizeForRecv \in Nat
         /\ m_write_offset + READ_BUF_SIZE <= SizeForRecv
<1>1. CASE m_alloc_size - m_write_offset < READ_BUF_SIZE
  <2> DEFINE size == m_write_offset + READ_BUF_SIZE
  <2>1. size \in Nat /\ size \div 4 \in Nat
    BY DEF TypeOK
  <2>2. SizeForRecv = size + size \div 4
    BY <1>1 DEF SizeForRecv, Extend
  <2> HIDE DEF size
  <2>3. SizeForRecv \in Nat /\ size <= SizeForRecv
    BY <2>1, <2>2
  <2> QED BY <2>3 DEF size
<1>2. CASE ~(m_alloc_size - m_write_offset < READ_BUF_SIZE)
  BY <1>2 DEF SizeForRecv, TypeOK
<1> QED BY <1>1, <1>2

LEMMA TotalSizeType ==
  ASSUME NEW nDataLen \in DataLens
  PROVE  TotalSize(nDataLen) \in Nat
BY DEF TotalSize

\* Messages end after they start, and so does the stream.
LEMMA MessageEnds ==
  ASSUME NEW m \in Message
  PROVE  /\ m.first \in Nat /\ m.nDataLen \in DataLens
         /\ EndOf(m) \in Nat /\ EndOf(m) >= m.first + HeadSize
<1>1. m.first \in Nat /\ m.nDataLen \in DataLens
  BY DEF Message
<1>2. m.nDataLen \in Nat
  BY <1>1
<1>3. HeadSize \in Nat
  OBVIOUS
<1>4. EndOf(m) = m.first + (HeadSize + m.nDataLen)
  BY DEF EndOf, TotalSize
<1> QED BY <1>1, <1>2, <1>3, <1>4

LEMMA StreamEndType ==
  ASSUME TypeOK
  PROVE  StreamEnd \in Nat
<1>1. CASE sent = <<>>
  BY <1>1 DEF StreamEnd
<1>2. CASE sent # <<>>
  <2>1. sent[Len(sent)] \in Message
    BY <1>2 DEF TypeOK
  <2> QED BY <1>2, <2>1, MessageEnds DEF StreamEnd
<1> QED BY <1>1, <1>2

\* The length read from the front of the buffer is one a client uses.
LEMMA DataLenType ==
  ASSUME TypeOK, NEW p, NEW nDataLen \in DataLenAt(p)
  PROVE  nDataLen \in DataLens
<1> DEFINE heads == {k \in DOMAIN sent : sent[k].first = p}
<1>1. \A k \in heads : sent[k] \in Message
  BY DEF TypeOK
<1>2. \A k \in heads : sent[k].nDataLen \in DataLens
  BY <1>1, MessageEnds
<1> QED BY <1>2 DEF DataLenAt

LEMMA TypeStep ==
  ASSUME TypeOK, InBounds, [Next]_vars
  PROVE  TypeOK' /\ InBounds'
<1> USE DEF TypeOK, InBounds
<1>1. ASSUME NEW nDataLen \in DataLens, Send(nDataLen)
      PROVE  TypeOK' /\ InBounds'
  <2>1. [first |-> put, nDataLen |-> nDataLen] \in Message
    BY DEF Message
  <2> QED BY <1>1, <2>1 DEF Send, bufferVars
<1>2. ASSUME NEW n \in 1 .. (StreamEnd - put), SendSome(n)
      PROVE  TypeOK' /\ InBounds'
  BY <1>2, StreamEndType DEF SendSome, bufferVars
<1>3. ASSUME NEW kind \in CloseKinds, HangUp(kind)
      PROVE  TypeOK' /\ InBounds'
  BY <1>3 DEF HangUp, bufferVars
<1>4. CASE OnRead
  BY <1>4 DEF OnRead, clientVars, bufferVars
<1>5. CASE Recv
  BY <1>5, RoomForRecv DEF Recv, clientVars
<1>6. CASE RecvError
  BY <1>6, RoomForRecv DEF RecvError, clientVars
<1>7. CASE RecvEndOfStream
  BY <1>7, RoomForRecv DEF RecvEndOfStream, clientVars
<1>8. CASE DealBuffer
  <2> PICK nDataLen \in DataLenAt(front) :
        /\ Complete(nDataLen)
        /\ delivered' = Append(delivered,
                               [first |-> front, nDataLen |-> nDataLen])
        /\ front' = front + Dropped(TotalSize(nDataLen))
        /\ m_write_offset' = m_write_offset - Dropped(TotalSize(nDataLen))
    BY <1>8 DEF DealBuffer
  <2>1. nDataLen \in DataLens
    BY DataLenType
  <2>2. Dropped(TotalSize(nDataLen)) \in 0 .. m_write_offset
    BY <2>1 DEF Dropped, TotalSize
  <2>3. [first |-> front, nDataLen |-> nDataLen] \in Message
    BY <2>1 DEF Message
  <2> QED BY <1>8, <2>2, <2>3 DEF DealBuffer, clientVars
<1>9. CASE EndOnRead
  BY <1>9 DEF EndOnRead, clientVars, bufferVars
<1>10. CASE UNCHANGED vars
  BY <1>10 DEF vars, clientVars, bufferVars
<1> QED BY <1>1, <1>2, <1>3, <1>4, <1>5, <1>6, <1>7, <1>8, <1>9, <1>10
        DEF Next, Client, Worker

\* Every reachable state is of the declared types.
THEOREM TypeCorrect == Spec => []TypeOK
BY TypeInit, TypeStep, PTL DEF Spec

\* recv() never writes beyond the allocated buffer, for every READ_BUF_SIZE
\* and every sequence of partial messages.
THEOREM StaysInBounds == Spec => []InBounds
BY TypeInit, TypeStep, PTL DEF Spec
-----------------------------------------------------------------------------
(* The place in the stream.                                                *)

\* Messages lie in the stream one after the other; Send is at the last one.
SentInv ==
  /\ \A k \in 1 .. Len(sent) : k > 1 => sent[k].first = EndOf(sent[k - 1])
  /\ \A j, k \in 1 .. Len(sent) : j < k => EndOf(sent[j]) <= sent[k].first
  /\ sent # <<>> => sent[1].first = 0 /\ sent[Len(sent)].first <= put
  /\ put <= StreamEnd

\* The messages delivered are the first ones sent, and the front of the
\* buffer is where the last of them ended.
DeliveredInv ==
  /\ Len(delivered) <= Len(sent)
  /\ \A k \in 1 .. Len(delivered) : delivered[k] = sent[k]
  /\ front = IF delivered = <<>> THEN 0 ELSE EndOf(sent[Len(delivered)])

PlaceInv ==
  /\ TypeOK
  /\ BytesConserved
  /\ SentInv
  /\ DeliveredInv

\* What the buffer starts with: the head of the first message not yet
\* delivered, or the end of the stream.
NextHead ==
  IF Len(delivered) < Len(sent)
  THEN LET m == sent[Len(delivered) + 1]
       IN  /\ m \in Message /\ m.first = front
           /\ DataLenAt(front) = {m.nDataLen}
  ELSE front = StreamEnd

LEMMA NextHeadHolds == PlaceInv => NextHead
<1> SUFFICES ASSUME PlaceInv
             PROVE  NextHead
  OBVIOUS
<1> USE DEF PlaceInv, TypeOK
<1>1. CASE Len(delivered) < Len(sent)
  <2> DEFINE k == Len(delivered) + 1
  <2>1. k \in 1 .. Len(sent)
    BY <1>1
  <2>2. \A j \in 1 .. Len(sent) : sent[j] \in Message
    OBVIOUS
  <2>3. sent[k].first = front
    <3>1. CASE delivered = <<>>
      BY <2>1, <3>1 DEF SentInv, DeliveredInv
    <3>2. CASE delivered # <<>>
      BY <2>1, <3>2 DEF SentInv, DeliveredInv
    <3> QED BY <3>1, <3>2
  <2>4. \A j \in 1 .. Len(sent) : sent[j].first = front => j = k
    <3> SUFFICES ASSUME NEW j \in 1 .. Len(sent), j # k
                 PROVE  sent[j].first # sent[k].first
      BY <2>3
    <3>1. /\ EndOf(sent[j]) \in Nat /\ EndOf(sent[j]) > sent[j].first
          /\ EndOf(sent[k]) \in Nat /\ EndOf(sent[k]) > sent[k].first
          /\ sent[j].first \in Nat /\ sent[k].first \in Nat
      BY <2>1, <2>2, MessageEnds
    <3>2. CASE j < k
      BY <2>1, <3>1, <3>2 DEF SentInv
    <3>3. CASE j > k
      BY <2>1, <3>1, <3>3 DEF SentInv
    <3> QED BY <2>1, <3>2, <3>3
  <2>5. {j \in DOMAIN sent : sent[j].first = front} = {k}
    BY <2>1, <2>3, <2>4
  <2>6. DataLenAt(front) = {sent[k].nDataLen}
    BY <2>5 DEF DataLenAt
  <2> QED BY <1>1, <2>1, <2>2, <2>3, <2>6 DEF NextHead
<1>2. CASE ~(Len(delivered) < Len(sent))
  <2>1. Len(delivered) = Len(sent)
    BY <1>2 DEF DeliveredInv
  <2> QED BY <1>2, <2>1 DEF NextHead, DeliveredInv, StreamEnd
<1> QED BY <1>1, <1>2

LEMMA PlaceInit == Init => PlaceInv
BY TypeInit DEF Init, PlaceInv, BytesConserved, SentInv, DeliveredInv, StreamEnd

LEMMA SendKeepsPlace ==
  ASSUME PlaceInv, NEW nDataLen \in DataLens, Send(nDataLen)
  PROVE  SentInv' /\ DeliveredInv'
<1> DEFINE m == [first |-> put, nDataLen |-> nDataLen]
           n == Len(sent)
<1> USE DEF PlaceInv, TypeOK
<1>1. /\ m \in Message /\ m.first = put /\ put = StreamEnd
      /\ sent' = Append(sent, m) /\ UNCHANGED <<put, front, delivered>>
  BY DEF Send, Message, bufferVars
<1>2. EndOf(m) \in Nat /\ put <= EndOf(m)
  BY <1>1, MessageEnds
<1> HIDE DEF m
<1>3. /\ n \in Nat /\ Len(sent') = n + 1 /\ sent'[n + 1] = m
      /\ \A k \in 1 .. n : sent'[k] = sent[k] /\ sent[k] \in Message
  BY <1>1
<1>4. StreamEnd' = EndOf(m)
  BY <1>1, <1>3 DEF StreamEnd
<1>5. n > 0 => EndOf(sent[n]) = put
  BY <1>1 DEF StreamEnd
<1>6. n = 0 => put = 0
  BY <1>1 DEF StreamEnd
<1>7. \A j \in 1 .. n : EndOf(sent[j]) <= put
  <2> SUFFICES ASSUME NEW j \in 1 .. n, j # n
               PROVE  EndOf(sent[j]) <= put
    BY <1>1, <1>5
  <2>1. /\ EndOf(sent[j]) \in Nat /\ EndOf(sent[n]) \in Nat
        /\ sent[n].first \in Nat /\ sent[n].first <= EndOf(sent[n])
    BY <1>3, MessageEnds
  <2>2. EndOf(sent[j]) <= sent[n].first
    BY <1>3 DEF SentInv
  <2> QED BY <1>1, <1>3, <1>5, <2>1, <2>2
<1>8. \A k \in 1 .. (n + 1) : k > 1 => sent'[k].first = EndOf(sent'[k - 1])
  BY <1>1, <1>3, <1>5 DEF SentInv
<1>9. \A j, k \in 1 .. (n + 1) : j < k => EndOf(sent'[j]) <= sent'[k].first
  <2> SUFFICES ASSUME NEW j \in 1 .. (n + 1), NEW k \in 1 .. (n + 1), j < k
               PROVE  EndOf(sent'[j]) <= sent'[k].first
    OBVIOUS
  <2>1. CASE k = n + 1
    BY <1>1, <1>3, <1>7, <2>1
  <2>2. CASE k # n + 1
    BY <1>3, <2>2 DEF SentInv
  <2> QED BY <2>1, <2>2
<1>10. sent'[1].first = 0 /\ sent'[Len(sent')].first <= put'
  BY <1>1, <1>3, <1>6 DEF SentInv
<1>11. SentInv'
  BY <1>1, <1>2, <1>3, <1>4, <1>8, <1>9, <1>10 DEF SentInv
<1>12. DeliveredInv'
  BY <1>1, <1>3 DEF DeliveredInv
<1> QED BY <1>11, <1>12

\* DealBuffer deals with the next message that was sent, all of whose bytes
\* have been sent.
LEMMA DealsWithNext ==
  ASSUME PlaceInv, DealBuffer
  PROVE  /\ Len(delivered) < Len(sent)
         /\ LET m == sent[Len(delivered) + 1]
            IN  /\ m \in Message
                /\ delivered' = Append(delivered, m)
                /\ front' = EndOf(m)
                /\ m_write_offset' = m_write_offset - TotalSize(m.nDataLen)
                /\ TotalSize(m.nDataLen) <= m_write_offset
                /\ EndOf(m) = front + TotalSize(m.nDataLen)
                /\ EndOf(m) <= put
<1> USE DEF PlaceInv, TypeOK
<1> PICK nDataLen \in DataLenAt(front) :
      /\ Complete(nDataLen)
      /\ delivered' = Append(delivered,
                             [first |-> front, nDataLen |-> nDataLen])
      /\ front' = front + Dropped(TotalSize(nDataLen))
      /\ m_write_offset' = m_write_offset - Dropped(TotalSize(nDataLen))
  BY DEF DealBuffer
<1>1. /\ m_write_offset >= HeadSize
      /\ m_write_offset >= TotalSize(nDataLen)
      /\ TotalSize(nDataLen) \in Nat
  <2>1. nDataLen \in DataLens
    BY DataLenType
  <2>2. TotalSize(nDataLen) \in Nat
    BY <2>1 DEF TotalSize
  <2> QED BY <2>2 DEF Complete
<1>2. Dropped(TotalSize(nDataLen)) = TotalSize(nDataLen)
  BY <1>1 DEF Dropped
<1>3. front + m_write_offset <= put
  BY DEF BytesConserved
<1>4. Len(delivered) < Len(sent)
  <2> SUFFICES ASSUME ~(Len(delivered) < Len(sent))
               PROVE  FALSE
    OBVIOUS
  <2>1. front = StreamEnd
    BY NextHeadHolds DEF NextHead
  <2>2. put <= front
    BY <2>1 DEF SentInv
  <2> QED BY <1>1, <1>3, <2>2
<1> DEFINE m == sent[Len(delivered) + 1]
<1>5. m \in Message /\ m.first = front /\ m.nDataLen = nDataLen
  BY <1>4, NextHeadHolds DEF NextHead
<1>6. m = [first |-> front, nDataLen |-> nDataLen]
  BY <1>5 DEF Message
<1>7. EndOf(m) = front + TotalSize(nDataLen)
  BY <1>5 DEF EndOf
<1> HIDE DEF m
<1>8. EndOf(m) <= put
  BY <1>1, <1>3, <1>7
<1> QED BY <1>1, <1>2, <1>4, <1>5, <1>6, <1>7, <1>8 DEF m

LEMMA DealKeepsPlace ==
  ASSUME PlaceInv, DealBuffer
  PROVE  DeliveredInv'
<1> DEFINE m == sent[Len(delivered) + 1]
           n == Len(delivered)
<1> USE DEF PlaceInv, TypeOK
<1>1. /\ n < Len(sent) /\ delivered' = Append(delivered, m)
      /\ front' = EndOf(m) /\ sent' = sent
  BY DealsWithNext DEF DealBuffer, clientVars
<1>2. /\ n \in Nat /\ Len(delivered') = n + 1 /\ delivered'[n + 1] = m
      /\ \A k \in 1 .. n : delivered'[k] = delivered[k]
  BY <1>1
<1>3. \A k \in 1 .. (n + 1) : delivered'[k] = sent[k]
  BY <1>2 DEF DeliveredInv
<1>4. delivered' # <<>>
  BY <1>2
<1> QED BY <1>1, <1>2, <1>3, <1>4 DEF DeliveredInv

LEMMA PlaceStep ==
  ASSUME PlaceInv, TypeOK', [Next]_vars
  PROVE  PlaceInv'
<1> USE DEF PlaceInv, TypeOK
<1>1. ASSUME NEW nDataLen \in DataLens, Send(nDataLen)
      PROVE  PlaceInv'
  <2>1. BytesConserved'
    BY <1>1 DEF Send, BytesConserved, bufferVars
  <2> QED BY <1>1, <2>1, SendKeepsPlace
<1>2. ASSUME NEW n \in 1 .. (StreamEnd - put), SendSome(n)
      PROVE  PlaceInv'
  <2>1. UNCHANGED <<client, sent, front, m_write_offset, delivered>>
    BY <1>2 DEF SendSome, bufferVars
  <2>2. StreamEnd' = StreamEnd
    BY <2>1 DEF StreamEnd
  <2>3. n \in Nat /\ put' = put + n /\ avail' = avail + n /\ put' <= StreamEnd
    BY <1>2, StreamEndType DEF SendSome
  <2>4. BytesConserved'
    BY <2>1, <2>3 DEF BytesConserved
  <2>5. sent # <<>> => sent[Len(sent)].first \in Nat
    BY MessageEnds
  <2>6. sent # <<>> => sent[Len(sent)].first <= put'
    BY <2>3, <2>5 DEF SentInv
  <2>7. SentInv'
    BY <2>1, <2>2, <2>3, <2>6 DEF SentInv, EndOf
  <2>8. DeliveredInv'
    BY <2>1 DEF DeliveredInv, EndOf
  <2> QED BY <2>4, <2>7, <2>8
<1>3. ASSUME UNCHANGED <<sent, put, front, delivered>>, BytesConserved'
      PROVE  PlaceInv'
  BY <1>3 DEF SentInv, DeliveredInv, EndOf, StreamEnd
<1>4. ASSUME NEW kind \in CloseKinds, HangUp(kind)
      PROVE  PlaceInv'
  BY <1>3, <1>4 DEF HangUp, BytesConserved, bufferVars
<1>5. CASE OnRead
  BY <1>3, <1>5 DEF OnRead, BytesConserved, clientVars, bufferVars
<1>6. CASE Recv
  BY <1>3, <1>6 DEF Recv, BytesConserved, clientVars
<1>7. CASE RecvError
  BY <1>3, <1>7 DEF RecvError, BytesConserved, clientVars
<1>8. CASE RecvEndOfStream
  BY <1>3, <1>8 DEF RecvEndOfStream, BytesConserved, clientVars
<1>9. CASE DealBuffer
  <2> DEFINE len == TotalSize(sent[Len(delivered) + 1].nDataLen)
  <2>1. UNCHANGED <<client, sent, put, avail>>
    BY <1>9 DEF DealBuffer, clientVars
  <2>2. /\ front' = front + len /\ m_write_offset' = m_write_offset - len
        /\ len <= m_write_offset /\ len \in Nat
    <3>1. sent[Len(delivered) + 1] \in Message
      BY <1>9, DealsWithNext
    <3>2. sent[Len(delivered) + 1].nDataLen \in DataLens
      BY <3>1, MessageEnds
    <3>3. len \in Nat
      BY <3>2, TotalSizeType
    <3> QED BY <1>9, <3>3, DealsWithNext
  <2> HIDE DEF len
  <2>3. BytesConserved'
    BY <2>1, <2>2 DEF BytesConserved
  <2>4. SentInv'
    BY <2>1 DEF SentInv, EndOf, StreamEnd
  <2> QED BY <1>9, <2>3, <2>4, DealKeepsPlace
<1>10. CASE EndOnRead
  BY <1>3, <1>10 DEF EndOnRead, BytesConserved, clientVars, bufferVars
<1>11. CASE UNCHANGED vars
  BY <1>3, <1>11 DEF vars, BytesConserved, clientVars, bufferVars
<1> QED BY <1>1, <1>2, <1>4, <1>5, <1>6, <1>7, <1>8, <1>9, <1>10, <1>11
        DEF Next, Client, Worker

LEMMA PlaceAlways == Spec => [](PlaceInv /\ NextHead)
<1>1. Spec => [](TypeOK /\ InBounds)
  BY TypeInit, TypeStep, PTL DEF Spec
<1>2. Spec => []PlaceInv
  BY <1>1, PlaceInit, PlaceStep, PTL DEF Spec
<1> QED BY <1>2, NextHeadHolds, PTL

\* Unless a reset threw bytes away, every byte sent is in exactly one place:
\* dropped, buffered or still in the kernel, for any sizes.
THEOREM BytesAccountedFor == Spec => []BytesConserved
<1>1. PlaceInv => BytesConserved
  BY DEF PlaceInv
<1> QED BY <1>1, PlaceAlways, PTL

\* ParseBuffer always looks at the head of a message, never into the middle
\* of one, however recv() cuts the stream.
THEOREM KeepsPlace == Spec => []FrontIsHead
<1>1. PlaceInv /\ NextHead => FrontIsHead
  <2> SUFFICES ASSUME PlaceInv, NextHead, Len(delivered) < Len(sent)
               PROVE  FrontIsHead
    BY DEF NextHead, FrontIsHead
  <2>1. Len(delivered) + 1 \in DOMAIN sent
    BY DEF PlaceInv, TypeOK
  <2> QED BY <2>1 DEF NextHead, FrontIsHead
<1> QED BY <1>1, PlaceAlways, PTL

-----------------------------------------------------------------------------
(* What is left in the buffer.                                             *)

\* With nothing but delivered messages in the stream the buffer is empty.
LEMMA NoHeadNoBytes ==
  ASSUME PlaceInv, ~(Len(delivered) < Len(sent))
  PROVE  m_write_offset = 0
<1>1. front = StreamEnd
  BY NextHeadHolds DEF NextHead
<1>2. put <= front
  BY <1>1 DEF PlaceInv, SentInv
<1> QED BY <1>2 DEF PlaceInv, BytesConserved, TypeOK

LEMMA NothingLeftStep ==
  ASSUME PlaceInv, PlaceInv', NothingLeftBehind, [Next]_vars
  PROVE  NothingLeftBehind'
<1> USE DEF NothingLeftBehind
<1>1. ASSUME NEW nDataLen \in DataLens, Send(nDataLen)
      PROVE  NothingLeftBehind'
  <2>1. UNCHANGED <<pc, front, m_write_offset, delivered>>
    BY <1>1 DEF Send, bufferVars
  <2>2. CASE Len(delivered) < Len(sent)
    <3> DEFINE k == Len(delivered) + 1
    <3>1. sent'[k] = sent[k] /\ Len(delivered') < Len(sent')
      BY <1>1, <2>1, <2>2 DEF Send, PlaceInv, TypeOK
    <3>2. DataLenAt(front) = {sent[k].nDataLen}
      BY <2>2, NextHeadHolds DEF NextHead
    <3>3. NextHead'
      BY NextHeadHolds, PTL
    <3>4. DataLenAt(front)' = {sent'[k].nDataLen}
      BY <2>1, <3>1, <3>3 DEF NextHead
    <3> HIDE DEF k
    <3> QED BY <2>1, <3>1, <3>2, <3>4 DEF Complete
  <2>3. CASE ~(Len(delivered) < Len(sent))
    <3>1. m_write_offset' = 0
      BY <2>1, <2>3, NoHeadNoBytes
    <3> QED BY <3>1 DEF Complete
  <2> QED BY <2>2, <2>3
<1>2. ASSUME UNCHANGED <<sent, front, m_write_offset>>,
             pc' = "select" => pc = "select"
      PROVE  NothingLeftBehind'
  BY <1>2 DEF DataLenAt, Complete
<1>3. ASSUME NEW n \in 1 .. (StreamEnd - put), SendSome(n)
      PROVE  NothingLeftBehind'
  BY <1>2, <1>3 DEF SendSome, bufferVars
<1>4. ASSUME NEW kind \in CloseKinds, HangUp(kind)
      PROVE  NothingLeftBehind'
  BY <1>2, <1>4 DEF HangUp, bufferVars
<1>5. CASE OnRead
  BY <1>5 DEF OnRead
<1>6. CASE Recv
  BY <1>6 DEF Recv
<1>7. CASE RecvError
  BY <1>7 DEF RecvError
<1>8. CASE RecvEndOfStream
  BY <1>8 DEF RecvEndOfStream
<1>9. CASE DealBuffer
  BY <1>9 DEF DealBuffer
<1>10. CASE EndOnRead
  <2>1. UNCHANGED <<sent, front, m_write_offset>>
    BY <1>10 DEF EndOnRead, clientVars, bufferVars
  <2>2. \A nDataLen \in DataLenAt(front) : ~Complete(nDataLen)
    <3>1. CASE Len(delivered) < Len(sent)
      <4>1. DataLenAt(front) = {sent[Len(delivered) + 1].nDataLen}
        BY <3>1, NextHeadHolds DEF NextHead
      <4> QED BY <1>10, <4>1 DEF EndOnRead
    <3>2. CASE ~(Len(delivered) < Len(sent))
      BY <3>2, NoHeadNoBytes DEF Complete
    <3> QED BY <3>1, <3>2
  <2> QED BY <2>1, <2>2 DEF DataLenAt, Complete
<1>11. CASE UNCHANGED vars
  BY <1>2, <1>11 DEF vars, clientVars, bufferVars
<1> QED BY <1>1, <1>3, <1>4, <1>5, <1>6, <1>7, <1>8, <1>9, <1>10, <1>11
        DEF Next, Client, Worker

\* When OnRead returns, no complete message is left in the buffer: none waits
\* there for the client's next bytes.
THEOREM LeavesNothingBehind == Spec => []NothingLeftBehind
<1>1. Init => NothingLeftBehind
  BY DEF Init, NothingLeftBehind, Complete
<1>2. PlaceInv /\ PlaceInv' /\ NothingLeftBehind /\ [Next]_vars
        => NothingLeftBehind'
  BY NothingLeftStep
<1> QED BY <1>1, <1>2, PlaceAlways, PTL DEF Spec
-----------------------------------------------------------------------------
(* The connection implements MsgChannel.                                   *)

LEMMA ImplementsStep ==
  ASSUME PlaceInv, PlaceInv', [Next]_vars
  PROVE  [Channel!Next]_(Channel!vars)
<1> USE DEF Channel!vars
<1>1. ASSUME NEW nDataLen \in DataLens, Send(nDataLen)
      PROVE  UNCHANGED Channel!vars
  <2> DEFINE m == [first |-> put, nDataLen |-> nDataLen]
  <2>1. /\ put = StreamEnd /\ sent' = Append(sent, m) /\ m \in Message
        /\ UNCHANGED <<put, delivered>>
    BY <1>1 DEF Send, Message, PlaceInv, TypeOK
  <2>2. put < EndOf(m)
    BY <2>1, MessageEnds
  <2> HIDE DEF m
  <2>3. StreamEnd' = EndOf(m)
    BY <2>1 DEF StreamEnd, EndOf, PlaceInv, TypeOK
  <2>4. put' # StreamEnd'
    BY <2>1, <2>2, <2>3 DEF PlaceInv, TypeOK
  <2>5. SubSeq(sent', 1, Len(sent') - 1) = sent
    BY <2>1 DEF PlaceInv, TypeOK
  <2> QED BY <2>1, <2>4, <2>5 DEF SentCompletely
<1>2. ASSUME NEW n \in 1 .. (StreamEnd - put), SendSome(n)
      PROVE  Channel!Send \/ UNCHANGED Channel!vars
  <2>1. sent' = sent /\ delivered' = delivered /\ put # StreamEnd
    BY <1>2, StreamEndType DEF SendSome, PlaceInv, TypeOK
  <2>2. StreamEnd' = StreamEnd
    BY <2>1 DEF StreamEnd, EndOf
  <2>3. sent # <<>>
    BY <1>2 DEF StreamEnd, PlaceInv, TypeOK
  <2>4. SentCompletely = SubSeq(sent, 1, Len(sent) - 1)
    BY <2>1 DEF SentCompletely
  <2>5. CASE put' = StreamEnd
    <3>1. SentCompletely' = sent
      BY <2>1, <2>2, <2>5 DEF SentCompletely
    <3>2. sent[Len(sent)] \in Message
      BY <2>3 DEF PlaceInv, TypeOK
    <3>3. sent = Append(SubSeq(sent, 1, Len(sent) - 1), sent[Len(sent)])
      BY <2>3 DEF PlaceInv, TypeOK
    <3> QED BY <2>1, <2>3, <2>4, <3>1, <3>2, <3>3 DEF Channel!Send
  <2>6. CASE put' # StreamEnd
    BY <2>1, <2>2, <2>4, <2>6 DEF SentCompletely
  <2> QED BY <2>5, <2>6
<1>3. CASE DealBuffer
  <2> DEFINE m == sent[Len(delivered) + 1]
  <2>1. /\ Len(delivered) < Len(sent) /\ EndOf(m) <= put
        /\ delivered' = Append(delivered, m)
    BY <1>3, DealsWithNext
  <2>2. SentCompletely' = SentCompletely
    BY <1>3 DEF DealBuffer, clientVars, SentCompletely, StreamEnd, EndOf
  <2>3. CASE put = StreamEnd
    BY <2>1, <2>2, <2>3 DEF SentCompletely, Channel!Next, Channel!Deliver
  <2>4. CASE put # StreamEnd
    <3>1. Len(delivered) + 1 # Len(sent)
      <4> SUFFICES ASSUME Len(delivered) + 1 = Len(sent)
                   PROVE  FALSE
        OBVIOUS
      <4>1. StreamEnd <= put
        BY <2>1 DEF StreamEnd, PlaceInv, TypeOK
      <4> QED BY <2>4, <4>1, StreamEndType DEF PlaceInv, SentInv, TypeOK
    <3>2. SentCompletely = SubSeq(sent, 1, Len(sent) - 1)
      BY <2>4 DEF SentCompletely
    <3>3. /\ Len(delivered) < Len(SentCompletely)
          /\ SentCompletely[Len(delivered) + 1] = m
      BY <2>1, <3>1, <3>2 DEF PlaceInv, TypeOK
    <3> QED BY <2>1, <2>2, <3>3 DEF Channel!Next, Channel!Deliver
  <2> QED BY <2>3, <2>4
<1>4. ASSUME UNCHANGED <<sent, put, delivered>>
      PROVE  UNCHANGED Channel!vars
  BY <1>4 DEF SentCompletely, StreamEnd, EndOf
<1>5. ASSUME NEW kind \in CloseKinds, HangUp(kind)
      PROVE  UNCHANGED Channel!vars
  BY <1>4, <1>5 DEF HangUp
<1>6. CASE OnRead
  BY <1>4, <1>6 DEF OnRead, clientVars
<1>7. CASE Recv \/ RecvError \/ RecvEndOfStream
  BY <1>4, <1>7 DEF Recv, RecvError, RecvEndOfStream, clientVars
<1>8. CASE EndOnRead
  BY <1>4, <1>8 DEF EndOnRead, clientVars
<1>9. CASE UNCHANGED vars
  BY <1>4, <1>9 DEF vars, clientVars
<1> QED BY <1>1, <1>2, <1>3, <1>5, <1>6, <1>7, <1>8, <1>9
        DEF Next, Client, Worker, Channel!Next

\* Framing works: a connection hands over whole messages, each at most once
\* and in the order they were sent, for every size of buffer and messages
\* and every way the kernel cuts the stream into pieces.
THEOREM ImplementsChannel == Spec => ChannelSpec
<1>1. Init => Channel!Init
  BY DEF Init, Channel!Init, SentCompletely, StreamEnd
<1>2. PlaceInv /\ PlaceInv' /\ [Next]_vars => [Channel!Next]_(Channel!vars)
  BY ImplementsStep
<1> QED BY <1>1, <1>2, PlaceAlways, PTL DEF Spec, ChannelSpec, Channel!Spec
=============================================================================
