------------------------------ MODULE EchoLink ------------------------------
(***************************************************************************)
(* A Version 2 client and the worker thread of the Version 2 server that   *)
(* has its connection, joined by kernel buffers of limited size.  Both     *)
(* ends send in a loop that spins while the buffer is full: the worker     *)
(* from inside its read handler, the client's main thread next to a        *)
(* detection thread that reads.                                            *)
(*                                                                         *)
(* The connection is the client's first one, whose socket is non-blocking. *)
(* What one send() or recv() moves is a part; every part carries nSubCmd   *)
(* (a reply's carries nParentCmd), although only the head of a message     *)
(* really does, and numbers its place in the message.  Messages have fixed *)
(* lengths, and the only error send() and recv() meet on an open           *)
(* connection is WSAEWOULDBLOCK, so a stream never gets out of step here.  *)
(***************************************************************************)
EXTENDS Naturals, Sequences

CONSTANTS
  MaxRequests,  \* bound: messages main() sends
  RequestParts, \* parts of a request
  ReplyParts,   \* parts of the reply OnTest makes
  UpSize,       \* parts the kernels hold on the way to the server
  DownSize      \* and on the way back

ASSUME LinkAssumption ==
  /\ MaxRequests \in Nat
  /\ {RequestParts, ReplyParts, UpSize, DownSize} \subseteq Nat \ {0}

VARIABLES
  link,      \* "up"; "fin" once the client program has ended; "rst" or
             \* "gone" once the connection is reset, the client being there
             \* or having ended
  up, down,  \* what the kernels hold in either direction
  called,    \* calls of CJSClient::Send main() has made
  done,      \* parts of the latest one that were sent
  completed, \* requests the client's kernel took in full, in order
  clientPc,  \* the client's detection thread: "select", "recv" or "parse"
  m_buffer,  \* CJSClient::m_buffer
  delivered, \* the commands onData was called with
  pc,        \* the worker: "select", "recv", "parse", "send" or "closed"
  m_in_buf,  \* CWGDConn::m_in_buf
  replied    \* parts of the present reply CWGDConn::Send has sent

mainVars   == <<called, done, completed>>
detectVars == <<clientPc, m_buffer, delivered>>
workerVars == <<pc, m_in_buf, replied>>
vars == <<link, up, down, mainVars, detectVars, workerVars>>

Command == 1 .. MaxRequests

-----------------------------------------------------------------------------
\* ParseBuffer finds a whole message of n parts.
Complete(buffer, n) == Len(buffer) >= n

\* CSimpleBuffer::Read drops n parts.
Dropped(buffer, n) == SubSeq(buffer, n + 1, Len(buffer))

Init ==
  /\ link = "up" /\ up = <<>> /\ down = <<>>
  /\ called = 0 /\ done = RequestParts /\ completed = <<>>
  /\ clientPc = "select" /\ m_buffer = <<>> /\ delivered = <<>>
  /\ pc = "select" /\ m_in_buf = <<>> /\ replied = 0

\* The connection is there for the server's calls.
Open == link \in {"up", "fin"}

\* The client's threads run.
Running == link \in {"up", "rst"}

\* The connection is reset; the client, if there, goes on as in JSClient.
Reset ==
  /\ Open
  /\ link' = IF link = "up" THEN "rst" ELSE "gone"
  /\ up' = <<>> /\ down' = <<>>
  /\ UNCHANGED <<mainVars, detectVars, workerVars>>

\* The client program ends and its socket is closed gracefully: what it has
\* sent still arrives, ahead of the end of the stream.
End ==
  /\ link = "up"
  /\ link' = "fin"
  /\ UNCHANGED <<up, down, mainVars, detectVars, workerVars>>

\* What is sent to a program that has ended is answered with a reset.
Refused == link = "fin" /\ down # <<>> /\ Reset
-----------------------------------------------------------------------------
(* The client: main() calling Send, and the detection thread.              *)

CallSend ==
  /\ link = "up" /\ done = RequestParts /\ called < MaxRequests
  /\ called' = called + 1 /\ done' = 0
  /\ UNCHANGED <<link, up, down, completed, detectVars, workerVars>>

\* While the buffer is full, send() reports WSAEWOULDBLOCK and is repeated.
SendPart ==
  /\ link = "up" /\ done < RequestParts /\ Len(up) < UpSize
  /\ done' = done + 1
  /\ up' = Append(up, [cmd |-> called, part |-> done'])
  /\ completed' = IF done' = RequestParts THEN Append(completed, called)
                                          ELSE completed
  /\ UNCHANGED <<link, down, called, detectVars, workerVars>>

Main == CallSend \/ SendPart

\* Mutant: one thread does both, so replies wait until Send has returned.
ClientOnRead_AfterSend ==
  /\ link = "up" /\ clientPc = "select" /\ down # <<>>
  /\ done = RequestParts
  /\ clientPc' = "recv"
  /\ UNCHANGED <<link, up, down, mainVars, m_buffer, delivered, workerVars>>

ClientOnRead ==
  /\ link = "up" /\ clientPc = "select" /\ down # <<>>
  /\ clientPc' = "recv"
  /\ UNCHANGED <<link, up, down, mainVars, m_buffer, delivered, workerVars>>

ClientRecv ==
  /\ clientPc = "recv" /\ down # <<>>
  /\ m_buffer' = Append(m_buffer, Head(down))
  /\ down' = Tail(down)
  /\ UNCHANGED <<link, up, mainVars, clientPc, delivered, workerVars>>

\* WSAEWOULDBLOCK, or the reset.
ClientRecvError ==
  /\ clientPc = "recv" /\ down = <<>>
  /\ clientPc' = "parse"
  /\ UNCHANGED <<link, up, down, mainVars, m_buffer, delivered, workerVars>>

ClientDealBuffer ==
  /\ clientPc = "parse" /\ Complete(m_buffer, ReplyParts)
  /\ delivered' = Append(delivered, Head(m_buffer).cmd)
  /\ m_buffer' = Dropped(m_buffer, ReplyParts)
  /\ UNCHANGED <<link, up, down, mainVars, clientPc, workerVars>>

ClientEndOnRead ==
  /\ clientPc = "parse" /\ ~Complete(m_buffer, ReplyParts)
  /\ clientPc' = "select"
  /\ UNCHANGED <<link, up, down, mainVars, m_buffer, delivered, workerVars>>

Detect ==
  /\ Running
  /\ \/ ClientOnRead \/ ClientRecv \/ ClientRecvError
     \/ ClientDealBuffer \/ ClientEndOnRead
-----------------------------------------------------------------------------
(* The server's worker: CWGDConn::OnRead and CWGDConn::Send.               *)

\* FIONREAD fails or finds nothing: the connection is closed.
OnRead ==
  /\ pc = "select" /\ (up # <<>> \/ link # "up")
  /\ pc' = IF up = <<>> THEN "closed" ELSE "recv"
  /\ UNCHANGED <<link, up, down, mainVars, detectVars, m_in_buf, replied>>

Recv ==
  /\ pc = "recv" /\ up # <<>>
  /\ m_in_buf' = Append(m_in_buf, Head(up))
  /\ up' = Tail(up)
  /\ UNCHANGED <<link, down, mainVars, detectVars, pc, replied>>

\* WSAEWOULDBLOCK, or the reset.
RecvError ==
  /\ pc = "recv" /\ up = <<>> /\ link # "fin"
  /\ pc' = "parse"
  /\ UNCHANGED <<link, up, down, mainVars, detectVars, m_in_buf, replied>>

\* At the end of the stream recv() returns 0, which is not SOCKET_ERROR: the
\* loop calls it again.
RecvEndOfStream ==
  /\ pc = "recv" /\ up = <<>> /\ link = "fin"
  /\ UNCHANGED vars

\* DealBuffer, OnTest: the reply is made and CWGDConn::Send called.
DealBuffer ==
  /\ pc = "parse" /\ Complete(m_in_buf, RequestParts)
  /\ pc' = "send" /\ replied' = 0
  /\ UNCHANGED <<link, up, down, mainVars, detectVars, m_in_buf>>

\* Mutant: the loop of Send sends once more when nothing remains.
SendReply_OneMore ==
  /\ pc = "send" /\ Open /\ Len(down) < DownSize
  /\ replied' = replied + 1
  /\ down' = Append(down, [cmd |-> Head(m_in_buf).cmd, part |-> replied'])
  /\ IF replied' > ReplyParts
     THEN pc' = "parse" /\ m_in_buf' = Dropped(m_in_buf, RequestParts)
     ELSE UNCHANGED <<pc, m_in_buf>>
  /\ UNCHANGED <<link, up, mainVars, detectVars>>

\* Mutant: the request stays in the buffer.
SendReply_NotConsumed ==
  /\ pc = "send" /\ Open /\ Len(down) < DownSize
  /\ replied' = replied + 1
  /\ down' = Append(down, [cmd |-> Head(m_in_buf).cmd, part |-> replied'])
  /\ pc' = IF replied' = ReplyParts THEN "parse" ELSE "send"
  /\ UNCHANGED <<link, up, mainVars, detectVars, m_in_buf>>

\* One round of Send's loop, which spins while the buffer is full; after the
\* last one the request is dropped from m_in_buf.
SendReply ==
  /\ pc = "send" /\ Open /\ Len(down) < DownSize
  /\ replied' = replied + 1
  /\ down' = Append(down, [cmd |-> Head(m_in_buf).cmd, part |-> replied'])
  /\ IF replied' = ReplyParts
     THEN pc' = "parse" /\ m_in_buf' = Dropped(m_in_buf, RequestParts)
     ELSE UNCHANGED <<pc, m_in_buf>>
  /\ UNCHANGED <<link, up, mainVars, detectVars>>

\* Mutant: every error is taken for WSAEWOULDBLOCK.
SendReplyError_Retried ==
  /\ pc = "send" /\ ~Open
  /\ UNCHANGED vars

\* send() fails: the rest of the reply is dropped, the request all the same.
SendReplyError ==
  /\ pc = "send" /\ ~Open
  /\ pc' = "parse" /\ m_in_buf' = Dropped(m_in_buf, RequestParts)
  /\ UNCHANGED <<link, up, down, mainVars, detectVars, replied>>

EndOnRead ==
  /\ pc = "parse" /\ ~Complete(m_in_buf, RequestParts)
  /\ pc' = "select"
  /\ UNCHANGED <<link, up, down, mainVars, detectVars, m_in_buf, replied>>

Worker ==
  \/ OnRead \/ Recv \/ RecvError \/ RecvEndOfStream \/ DealBuffer
  \/ SendReply \/ SendReplyError \/ EndOnRead
-----------------------------------------------------------------------------
Next == Reset \/ End \/ Main \/ Detect \/ Worker

Spec == Init /\ [][Next]_vars

\* The threads of both programs are scheduled, and the kernel of a program
\* that has ended refuses what it receives.
FairSpec ==
  /\ Spec
  /\ WF_vars(Main) /\ WF_vars(Detect) /\ WF_vars(Worker)
  /\ WF_vars(Refused)
-----------------------------------------------------------------------------
Parts(n) == [cmd : Command, part : 1 .. n]

TypeOK ==
  /\ link \in {"up", "rst", "fin", "gone"}
  /\ up \in Seq(Parts(RequestParts)) /\ Len(up) <= UpSize
  /\ down \in Seq(Parts(ReplyParts)) /\ Len(down) <= DownSize
  /\ called \in 0 .. MaxRequests /\ done \in 0 .. RequestParts
  /\ completed \in Seq(Command) /\ delivered \in Seq(Command)
  /\ clientPc \in {"select", "recv", "parse"}
  /\ m_buffer \in Seq(Parts(ReplyParts))
  /\ pc \in {"select", "recv", "parse", "send", "closed"}
  /\ m_in_buf \in Seq(Parts(RequestParts))
  /\ replied \in 0 .. ReplyParts

Channel == INSTANCE MsgChannel WITH Message <- Command, sent <- completed

\* Together the two programs are a message channel from the client to itself:
\* every request sent in full comes back as one reply at most, in the order
\* of sending, through two framings and two limited buffers.
EchoSpec == Channel!Spec

\* No request waits for ever, however small the buffers: client and server
\* are never both stuck in their send loops.
RequestsAnswered ==
  \A n \in Command :
    called >= n ~> (Len(delivered) >= n \/ link # "up")

\* The read loop runs on at the end of the stream.
Spinning == pc = "recv" /\ link = "fin" /\ up = <<>>

\* The worker comes back to select(), and so to its other connections: the
\* send loop never keeps it, nor does the read loop, unless it is at recv()
\* when it meets the end of the stream.
WorkerComesBack == (pc # "select") ~> (pc \in {"select", "closed"} \/ Spinning)
=============================================================================
