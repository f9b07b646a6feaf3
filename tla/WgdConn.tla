------------------------------- MODULE WgdConn -------------------------------
(***************************************************************************)
(* One connection of the Version 2 server, byte by byte: CWGDConn::OnRead  *)
(* reads whatever the socket holds into m_in_buf (a CSimpleBuffer), then   *)
(* ParseBuffer and DealBuffer cut complete messages (a WGDHEAD and         *)
(* nDataLen bytes of data) out of it.  CJSClient::OnRead in the client is  *)
(* the same code.                                                          *)
(*                                                                         *)
(* Bytes are named by their position in the client's stream.  The buffer   *)
(* always holds a contiguous piece of the stream, since recv() appends at  *)
(* m_write_offset and Read() drops a prefix; front is the number of bytes  *)
(* dropped so far, so the first byte in the buffer has position front + 1. *)
(***************************************************************************)
EXTENDS Naturals, Sequences

CONSTANTS
  HeadSize,      \* sizeof(WGDHEAD)
  READ_BUF_SIZE, \* what one recv() asks for
  DataLens,      \* the values of nDataLen clients use
  MaxMessages,   \* bound: messages a client sends
  CloseKinds     \* how the client hangs up: "fin" gracefully, "rst" abortively

ASSUME ConnAssumption ==
  /\ HeadSize \in Nat \ {0}
  /\ READ_BUF_SIZE \in Nat \ {0}
  /\ DataLens \subseteq Nat
  /\ MaxMessages \in Nat
  /\ CloseKinds \subseteq {"fin", "rst"}

VARIABLES
  client,         \* "up", or how the client hung up
  sent,           \* the messages given to the client's Send, in order
  put,            \* bytes the client's Send loop has passed to its kernel
  avail,          \* bytes in the server's receive buffer (FIONREAD)
  pc,             \* the worker: "select", "recv", "parse" or "closed"
  m_alloc_size,   \* CSimpleBuffer::m_alloc_size
  m_write_offset, \* CSimpleBuffer::m_write_offset
  front,          \* bytes dropped from the front of the buffer
  delivered       \* the messages passed to OnReceivedNotify, in order

clientVars == <<client, sent, put>>
bufferVars == <<m_alloc_size, m_write_offset, front>>
vars == <<clientVars, avail, pc, bufferVars, delivered>>

-----------------------------------------------------------------------------
\* A message: where its head starts in the stream, and its nDataLen.
Message == [first : Nat, nDataLen : DataLens]

\* int32_t nTotalSize = nHeadSize + pHead->nDataLen
TotalSize(nDataLen) == HeadSize + nDataLen

\* The position after the last byte of message m.
EndOf(m) == m.first + TotalSize(m.nDataLen)

\* The length of the stream as far as Send was called.
StreamEnd == IF sent = <<>> THEN 0 ELSE EndOf(sent[Len(sent)])

\* The nDataLen read from a head that starts at position p: the one the
\* client wrote there, anything if no head starts there.
DataLenAt(p) ==
  LET heads == {k \in DOMAIN sent : sent[k].first = p}
  IN  IF heads = {} THEN DataLens ELSE {sent[k].nDataLen : k \in heads}

\* Mutant: ParseBuffer only waits for the head.
Complete_HeadOnly(nDataLen) == m_write_offset >= HeadSize

\* Mutant: a message that just fits is taken for incomplete.
Complete_Strict(nDataLen) == m_write_offset > TotalSize(nDataLen)

\* A message with nDataLen bytes of data at the front of the buffer is
\* complete.
Complete(nDataLen) ==
  /\ m_write_offset >= HeadSize
  /\ m_write_offset >= TotalSize(nDataLen)

\* Mutant: Extend forgets the bytes the buffer already holds.
Extend_LenOnly(len) == len + len \div 4

\* CSimpleBuffer::Extend: room for len more bytes, and a quarter of it all.
Extend(len) == LET size == m_write_offset + len IN size + size \div 4

\* The allocated size with which recv() is called.
SizeForRecv ==
  IF m_alloc_size - m_write_offset < READ_BUF_SIZE THEN Extend(READ_BUF_SIZE)
                                                   ELSE m_alloc_size

\* CSimpleBuffer::Read drops len bytes, at most what the buffer holds.
Dropped(len) == IF len > m_write_offset THEN m_write_offset ELSE len
-----------------------------------------------------------------------------
Init ==
  /\ client = "up" /\ sent = <<>> /\ put = 0
  /\ avail = 0
  /\ pc = "select"
  /\ m_alloc_size = 0 /\ m_write_offset = 0 /\ front = 0
  /\ delivered = <<>>
-----------------------------------------------------------------------------
(* The client: CJSClient::Send loops until the whole message is passed to  *)
(* the kernel, which takes any part of it at a time.                       *)

Send(nDataLen) ==
  /\ client = "up" /\ put = StreamEnd /\ Len(sent) < MaxMessages
  /\ sent' = Append(sent, [first |-> put, nDataLen |-> nDataLen])
  /\ UNCHANGED <<client, put, avail, pc, bufferVars, delivered>>

SendSome(n) ==
  /\ client = "up" /\ n <= StreamEnd - put
  /\ put' = put + n
  /\ avail' = avail + n
  /\ UNCHANGED <<client, sent, pc, bufferVars, delivered>>

\* A reset also discards what the server's kernel had received.
HangUp(kind) ==
  /\ client = "up"
  /\ client' = kind
  /\ avail' = IF kind = "rst" THEN 0 ELSE avail
  /\ UNCHANGED <<sent, put, pc, bufferVars, delivered>>

Client ==
  \/ \E nDataLen \in DataLens : Send(nDataLen)
  \/ \E n \in 1 .. (StreamEnd - put) : SendSome(n)
  \/ \E kind \in CloseKinds : HangUp(kind)
-----------------------------------------------------------------------------
(* The server's worker thread.                                             *)

\* select() reports the socket; nothing to read then means the peer is gone.
OnRead ==
  /\ pc = "select"
  /\ avail > 0 \/ client # "up"
  /\ pc' = IF client = "rst" \/ avail = 0 THEN "closed" ELSE "recv"
  /\ UNCHANGED <<clientVars, avail, bufferVars, delivered>>

\* Mutant: the write offset advances by what was asked for, not received.
Recv_AssumesFull ==
  /\ pc = "recv" /\ avail > 0
  /\ LET nRet == IF avail < READ_BUF_SIZE THEN avail ELSE READ_BUF_SIZE
     IN  avail' = avail - nRet
  /\ m_write_offset' = m_write_offset + READ_BUF_SIZE
  /\ m_alloc_size' = SizeForRecv
  /\ UNCHANGED <<clientVars, pc, front, delivered>>

\* recv() returns data, as much as there is and was asked for.
Recv ==
  /\ pc = "recv" /\ avail > 0
  /\ LET nRet == IF avail < READ_BUF_SIZE THEN avail ELSE READ_BUF_SIZE
     IN  /\ m_write_offset' = m_write_offset + nRet
         /\ avail' = avail - nRet
  /\ m_alloc_size' = SizeForRecv
  /\ UNCHANGED <<clientVars, pc, front, delivered>>

\* recv() reports WSAEWOULDBLOCK or the reset: the loop ends.
RecvError ==
  /\ pc = "recv" /\ avail = 0 /\ client # "fin"
  /\ m_alloc_size' = SizeForRecv
  /\ pc' = "parse"
  /\ UNCHANGED <<clientVars, avail, m_write_offset, front, delivered>>

\* recv() returns 0 at the end of the stream, and the loop goes on.
RecvEndOfStream ==
  /\ pc = "recv" /\ avail = 0 /\ client = "fin"
  /\ m_alloc_size' = SizeForRecv
  /\ UNCHANGED <<clientVars, avail, pc, m_write_offset, front, delivered>>

\* Mutant: the data is dropped from the buffer, the head is not.
DealBuffer_DataOnly ==
  /\ pc = "parse"
  /\ \E nDataLen \in DataLenAt(front) :
       /\ Complete(nDataLen)
       /\ delivered' = Append(delivered,
                              [first |-> front, nDataLen |-> nDataLen])
       /\ front' = front + Dropped(nDataLen)
       /\ m_write_offset' = m_write_offset - Dropped(nDataLen)
  /\ UNCHANGED <<clientVars, avail, pc, m_alloc_size>>

\* ParseBuffer finds a complete message; DealBuffer hands it to
\* OnReceivedNotify and drops it from the buffer (CSimpleBuffer::Read).
DealBuffer ==
  /\ pc = "parse"
  /\ \E nDataLen \in DataLenAt(front) :
       LET len == Dropped(TotalSize(nDataLen))
       IN  /\ Complete(nDataLen)
           /\ delivered' = Append(delivered,
                                  [first |-> front, nDataLen |-> nDataLen])
           /\ front' = front + len
           /\ m_write_offset' = m_write_offset - len
  /\ UNCHANGED <<clientVars, avail, pc, m_alloc_size>>

\* Mutant: one ParseBuffer per OnRead instead of a loop.
EndOnRead_Early ==
  /\ pc = "parse"
  /\ pc' = "select"
  /\ UNCHANGED <<clientVars, avail, bufferVars, delivered>>

\* ParseBuffer returns -1: the loop over the buffer ends.
EndOnRead ==
  /\ pc = "parse"
  /\ \E nDataLen \in DataLenAt(front) : ~Complete(nDataLen)
  /\ pc' = "select"
  /\ UNCHANGED <<clientVars, avail, bufferVars, delivered>>

Worker ==
  OnRead \/ Recv \/ RecvError \/ RecvEndOfStream \/ DealBuffer \/ EndOnRead
-----------------------------------------------------------------------------
Next == Client \/ Worker

Spec == Init /\ [][Next]_vars

\* The worker thread is scheduled; nothing is assumed of the client.
FairSpec == Spec /\ WF_vars(Worker)
-----------------------------------------------------------------------------
TypeOK ==
  /\ client \in {"up", "fin", "rst"}
  /\ sent \in Seq(Message)
  /\ put \in Nat
  /\ avail \in Nat
  /\ pc \in {"select", "recv", "parse", "closed"}
  /\ m_alloc_size \in Nat
  /\ m_write_offset \in Nat
  /\ front \in Nat
  /\ delivered \in Seq(Message)

\* recv() never writes beyond the allocated buffer, whatever the sequence of
\* partial messages, drops and extensions.
InBounds == m_write_offset <= m_alloc_size

\* Unless a reset threw bytes away, the bytes dropped, buffered and waiting
\* in the kernel add up to those sent: none is lost or read twice.
BytesConserved ==
  IF client = "rst" THEN front + m_write_offset + avail <= put
                    ELSE front + m_write_offset + avail = put

\* The front of the buffer is always the head of a message, never the middle
\* of one, so the length read from it is one the client wrote.
FrontIsHead ==
  \/ front = StreamEnd
  \/ \E k \in DOMAIN sent : sent[k].first = front

\* After one pass of OnRead no complete message stays behind in the buffer,
\* where only the arrival of further bytes would let it out.
NothingLeftBehind ==
  pc = "select" => \A nDataLen \in DataLenAt(front) : ~Complete(nDataLen)

\* The messages of which every byte has been sent: all but the one the Send
\* loop is at.
SentCompletely ==
  IF put = StreamEnd THEN sent ELSE SubSeq(sent, 1, Len(sent) - 1)

Channel == INSTANCE MsgChannel WITH sent <- SentCompletely

\* The connection implements the message channel: whole messages, once each,
\* in order.
ChannelSpec == Channel!Spec

\* A completely sent message is delivered unless the client hangs up.
EveryMessageDelivered ==
  \A k \in 1 .. MaxMessages :
    (Len(SentCompletely) >= k) ~> (Len(delivered) >= k \/ client # "up")
=============================================================================
