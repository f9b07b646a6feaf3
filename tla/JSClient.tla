------------------------------ MODULE JSClient ------------------------------
(***************************************************************************)
(* The Version 2 client CJSClient over a succession of connections.  The   *)
(* program's main thread calls Send; the detection thread (BeginDetect)    *)
(* runs select() on m_fd, reads replies, and when the connection is lost   *)
(* closes the socket, creates another one, connects it again, sends a      *)
(* message of its own and makes the socket blocking.  Both threads use     *)
(* m_fd without a lock.                                                    *)
(*                                                                         *)
(* Sockets are numbered in the order CreateSocket makes them.  What one    *)
(* send() call takes of a message is a part; what the server sends is cut  *)
(* into parts of its own, ReplySize of which make a reply.  The model      *)
(* starts when the program's first Connect has succeeded.                  *)
(***************************************************************************)
EXTENDS Naturals, Sequences

CONSTANTS
  MaxSockets,  \* bound: sockets the client makes
  MaxMessages, \* bound: messages the main thread sends
  MaxReplies,  \* bound: replies the server sends on one connection
  SendParts,   \* parts of a message of the main thread
  ReplySize,   \* parts of a reply
  CloseKinds   \* how connections end: "fin" gracefully, "rst" abortively

ASSUME ClientAssumption ==
  /\ MaxSockets \in Nat \ {0}
  /\ MaxMessages \in Nat /\ MaxReplies \in Nat
  /\ SendParts \in Nat \ {0} /\ ReplySize \in Nat \ {0}
  /\ CloseKinds \subseteq {"fin", "rst"}

Sockets == 1 .. MaxSockets
Threads == {"main", "detect"}

VARIABLES
  m_fd,      \* CJSClient::m_fd
  link,      \* the kernel's view of a socket: "none" before socket(), "new",
             \* "up", "fin" or "rst" when the server ended it, "closed"
  blocking,  \* is the socket in blocking mode?
  wire,      \* what the client's kernel took on each connection, in order
  avail,     \* parts in each socket's receive buffer
  received,  \* parts the server sent on each connection
  sending,   \* the message each thread is inside Send with
  called,    \* number of messages the main thread has called Send with
  pc,        \* the detection thread: where it is
  m_buffer,  \* CJSClient::m_buffer
  delivered, \* what onData was called with
  cut        \* history: the first socket given up with an unfinished reply,
             \* 0 as long as there is none

netVars == <<link, avail, received>>
sendVars == <<wire, sending, called>>
readVars == <<m_buffer, delivered, cut>>
vars == <<m_fd, blocking, netVars, sendVars, pc, readVars>>

-----------------------------------------------------------------------------
\* The message ReConnect sends; those of the main thread are 1, 2, ...
Hello == 0

\* sending of a thread that is not inside Send.
NotSending == [msg |-> Hello, done |-> 0, of |-> 0]

\* A part of a message on the wire, and one of the server's stream.
Part == [msg : 0 .. MaxMessages, part : 1 .. SendParts]
ReplyPart == [sock : Sockets, pos : 1 .. MaxReplies * ReplySize]

\* The reply, number n on socket k, in full.
Reply(k, n) ==
  [i \in 1 .. ReplySize |-> [sock |-> k, pos |-> (n - 1) * ReplySize + i]]

\* The sizes ParseBuffer may find: that of a reply if a head is at the front
\* of the buffer, any one if something else is.
IsHead(b) == b.pos % ReplySize = 1 % ReplySize

FrontSizes ==
  IF m_buffer # <<>> /\ IsHead(Head(m_buffer)) THEN {ReplySize}
                                              ELSE 1 .. ReplySize + 1

Init ==
  /\ m_fd = 1
  /\ link = [k \in Sockets |-> IF k = 1 THEN "up" ELSE "none"]
  /\ blocking = [k \in Sockets |-> FALSE]
  /\ wire = [k \in Sockets |-> <<>>]
  /\ avail = [k \in Sockets |-> 0] /\ received = [k \in Sockets |-> 0]
  /\ sending = [t \in Threads |-> NotSending] /\ called = 0
  /\ pc = "select"
  /\ m_buffer = <<>> /\ delivered = <<>> /\ cut = 0
-----------------------------------------------------------------------------
(* The server and the network.                                             *)

\* A part of a reply arrives.
Arrive(k) ==
  /\ link[k] = "up" /\ received[k] < MaxReplies * ReplySize
  /\ avail' = [avail EXCEPT ![k] = @ + 1]
  /\ received' = [received EXCEPT ![k] = @ + 1]
  /\ UNCHANGED <<m_fd, blocking, link, sendVars, pc, readVars>>

\* The server ends the connection; a reset discards what was received.
Lose(k) ==
  /\ link[k] = "up"
  /\ \E kind \in CloseKinds :
       /\ link' = [link EXCEPT ![k] = kind]
       /\ avail' = IF kind = "rst" THEN [avail EXCEPT ![k] = 0] ELSE avail
  /\ UNCHANGED <<m_fd, blocking, received, sendVars, pc, readVars>>

\* A connection asked for is set up.
Establish ==
  /\ pc = "connect" /\ link[m_fd] = "new"
  /\ link' = [link EXCEPT ![m_fd] = "up"]
  /\ UNCHANGED <<m_fd, blocking, avail, received, sendVars, pc, readVars>>

Network == Establish \/ \E k \in Sockets : Arrive(k) \/ Lose(k)
-----------------------------------------------------------------------------
(* CJSClient::Send, which both threads run.  Each round of the loop reads  *)
(* m_fd anew.                                                              *)

\* Mutant: a message interrupted by a lost connection is started over.
SendError_Again(t) ==
  /\ sending[t].done < sending[t].of
  /\ link[m_fd] \in {"new", "rst", "closed"}
  /\ sending' = [sending EXCEPT ![t].done = 0]
  /\ UNCHANGED <<m_fd, blocking, netVars, wire, called, pc, readVars>>

\* send() fails on a socket without a connection: the rest is dropped.
SendError(t) ==
  /\ sending[t].done < sending[t].of
  /\ link[m_fd] \in {"new", "rst", "closed"}
  /\ sending' = [sending EXCEPT ![t] = NotSending]
  /\ UNCHANGED <<m_fd, blocking, netVars, wire, called, pc, readVars>>

\* send() fails for want of memory or the like: the rest is dropped too.
SendFails(t) ==
  /\ sending[t].done < sending[t].of
  /\ link[m_fd] \in {"up", "fin"}
  /\ sending' = [sending EXCEPT ![t] = NotSending]
  /\ UNCHANGED <<m_fd, blocking, netVars, wire, called, pc, readVars>>

\* The kernel's buffer is full: WSAEWOULDBLOCK, and Send spins; a blocking
\* send() waits instead.
SendBlocked(t) ==
  /\ sending[t].done < sending[t].of
  /\ link[m_fd] \in {"up", "fin"}
  /\ UNCHANGED vars

\* The kernel takes a part; Send returns after the last one.
SendPart(t) ==
  /\ sending[t].done < sending[t].of
  /\ link[m_fd] \in {"up", "fin"}
  /\ LET part == sending[t].done + 1
     IN  /\ wire' = [wire EXCEPT ![m_fd] =
                       Append(@, [msg |-> sending[t].msg, part |-> part])]
         /\ sending' = IF part = sending[t].of
                       THEN [sending EXCEPT ![t] = NotSending]
                       ELSE [sending EXCEPT ![t].done = part]
  /\ UNCHANGED <<m_fd, blocking, netVars, called, pc, readVars>>

\* main(): the next message.
CallSend ==
  /\ sending["main"] = NotSending /\ called < MaxMessages
  /\ called' = called + 1
  /\ sending' = [sending EXCEPT !["main"] =
                   [msg |-> called', done |-> 0, of |-> SendParts]]
  /\ UNCHANGED <<m_fd, blocking, netVars, wire, pc, readVars>>

Send(t) == SendPart(t) \/ SendBlocked(t) \/ SendFails(t) \/ SendError(t)

Main == CallSend \/ Send("main")
-----------------------------------------------------------------------------
(* The detection thread.                                                   *)

\* select() reports m_fd readable; FIONREAD finding nothing, or failing,
\* means that the connection is lost.
OnRead ==
  /\ pc = "select"
  /\ avail[m_fd] > 0 \/ link[m_fd] \in {"fin", "rst"}
  /\ pc' = IF avail[m_fd] = 0 THEN "close" ELSE "recv"
  /\ UNCHANGED <<m_fd, blocking, netVars, sendVars, readVars>>

\* recv() returns data.
Recv ==
  /\ pc = "recv" /\ avail[m_fd] > 0
  /\ avail' = [avail EXCEPT ![m_fd] = @ - 1]
  /\ m_buffer' = Append(m_buffer, [sock |-> m_fd,
                          pos |-> received[m_fd] - avail[m_fd] + 1])
  /\ UNCHANGED <<m_fd, blocking, link, received, sendVars, pc, delivered, cut>>

\* Mutant: a reset is not an error for the read loop.
RecvError_OnlyWouldBlock ==
  /\ pc = "recv" /\ avail[m_fd] = 0
  /\ link[m_fd] = "up" /\ ~blocking[m_fd]
  /\ pc' = "parse"
  /\ UNCHANGED <<m_fd, blocking, netVars, sendVars, readVars>>

\* recv() reports the reset or, on a non-blocking socket, WSAEWOULDBLOCK:
\* the loop ends.  On a blocking socket recv() waits instead.
RecvError ==
  /\ pc = "recv" /\ avail[m_fd] = 0
  /\ link[m_fd] = "rst" \/ (link[m_fd] = "up" /\ ~blocking[m_fd])
  /\ pc' = "parse"
  /\ UNCHANGED <<m_fd, blocking, netVars, sendVars, readVars>>

\* recv() returns 0 at the end of the stream, and the loop goes on.
RecvEndOfStream ==
  /\ pc = "recv" /\ avail[m_fd] = 0 /\ link[m_fd] = "fin"
  /\ UNCHANGED vars

\* Mutant: the size in the head is not compared with what is there.
DealBuffer_HeadOnly ==
  /\ pc = "parse" /\ m_buffer # <<>>
  /\ \E size \in FrontSizes :
       LET have == IF size < Len(m_buffer) THEN size ELSE Len(m_buffer)
       IN  /\ delivered' = Append(delivered, SubSeq(m_buffer, 1, have))
           /\ m_buffer' = SubSeq(m_buffer, have + 1, Len(m_buffer))
  /\ UNCHANGED <<m_fd, blocking, netVars, sendVars, pc, cut>>

\* Mutant: everything read is dropped with the message dealt with.
DealBuffer_Clear ==
  /\ pc = "parse"
  /\ \E size \in FrontSizes :
       /\ size <= Len(m_buffer)
       /\ delivered' = Append(delivered, SubSeq(m_buffer, 1, size))
       /\ m_buffer' = <<>>
  /\ UNCHANGED <<m_fd, blocking, netVars, sendVars, pc, cut>>

\* Mutant: one ParseBuffer per OnRead instead of a loop.
DealBuffer_Once ==
  /\ pc = "parse"
  /\ \E size \in FrontSizes :
       /\ size <= Len(m_buffer)
       /\ delivered' = Append(delivered, SubSeq(m_buffer, 1, size))
       /\ m_buffer' = SubSeq(m_buffer, size + 1, Len(m_buffer))
  /\ pc' = "select"
  /\ UNCHANGED <<m_fd, blocking, netVars, sendVars, cut>>

\* ParseBuffer and DealBuffer: one message is handed to onData and dropped.
DealBuffer ==
  /\ pc = "parse"
  /\ \E size \in FrontSizes :
       /\ size <= Len(m_buffer)
       /\ delivered' = Append(delivered, SubSeq(m_buffer, 1, size))
       /\ m_buffer' = SubSeq(m_buffer, size + 1, Len(m_buffer))
  /\ UNCHANGED <<m_fd, blocking, netVars, sendVars, pc, cut>>

\* ParseBuffer returns -1: OnRead is done.
EndOnRead ==
  /\ pc = "parse"
  /\ \E size \in FrontSizes : size > Len(m_buffer)
  /\ pc' = "select"
  /\ UNCHANGED <<m_fd, blocking, netVars, sendVars, readVars>>

\* The socket given up first with an unfinished reply.
CutNow == IF cut = 0 /\ m_buffer # <<>> THEN m_fd ELSE cut

\* Mutant: the lost socket is not closed before the next one is made.
CloseSocket_Forgotten ==
  /\ pc = "close"
  /\ cut' = CutNow
  /\ pc' = "create"
  /\ UNCHANGED <<m_fd, blocking, netVars, sendVars, m_buffer, delivered>>

\* The lost socket is closed; m_buffer is left as it is.
CloseSocket ==
  /\ pc = "close"
  /\ link' = [link EXCEPT ![m_fd] = "closed"]
  /\ avail' = [avail EXCEPT ![m_fd] = 0]
  /\ cut' = CutNow
  /\ pc' = "create"
  /\ UNCHANGED <<m_fd, blocking, received, sendVars, m_buffer, delivered>>

CreateSocket ==
  /\ pc = "create" /\ m_fd < MaxSockets
  /\ m_fd' = m_fd + 1
  /\ link' = [link EXCEPT ![m_fd'] = "new"]
  /\ pc' = "connect"
  /\ UNCHANGED <<blocking, avail, received, sendVars, readVars>>

\* ReConnect: connect() fails, and is tried again after 300 ms.
ConnectFails ==
  /\ pc = "connect" /\ link[m_fd] = "new"
  /\ UNCHANGED vars

\* connect() succeeds, or reports WSAEISCONN; then ReConnect calls Send.
Connected ==
  /\ pc = "connect" /\ link[m_fd] # "new"
  /\ sending' = [sending EXCEPT !["detect"] =
                   [msg |-> Hello, done |-> 0, of |-> 1]]
  /\ pc' = "hello"
  /\ UNCHANGED <<m_fd, blocking, netVars, wire, called, readVars>>

\* Send has returned: the socket is made blocking and ReConnect returns.
SetBlocking ==
  /\ pc = "hello" /\ sending["detect"] = NotSending
  /\ blocking' = [blocking EXCEPT ![m_fd] = TRUE]
  /\ pc' = "select"
  /\ UNCHANGED <<m_fd, netVars, sendVars, readVars>>

Detect ==
  \/ OnRead \/ Recv \/ RecvError \/ RecvEndOfStream \/ DealBuffer \/ EndOnRead
  \/ CloseSocket \/ CreateSocket \/ ConnectFails \/ Connected
  \/ Send("detect") \/ SetBlocking
-----------------------------------------------------------------------------
Next == Network \/ Main \/ Detect

Spec == Init /\ [][Next]_vars

\* What the detection thread does without waiting for the kernel to take what
\* it sends: Send may spin on a connection that is up.
Scheduled ==
  \/ OnRead \/ Recv \/ RecvError \/ DealBuffer \/ EndOnRead \/ CloseSocket
  \/ CreateSocket \/ Connected \/ SendError("detect") \/ SetBlocking

\* The detection thread is scheduled, and a connection asked for is set up.
FairSpec == Spec /\ WF_vars(Scheduled) /\ WF_vars(Establish)
-----------------------------------------------------------------------------
TypeOK ==
  /\ m_fd \in Sockets
  /\ link \in [Sockets -> {"none", "new", "up", "fin", "rst", "closed"}]
  /\ blocking \in [Sockets -> BOOLEAN]
  /\ wire \in [Sockets -> Seq(Part)]
  /\ avail \in [Sockets -> Nat] /\ received \in [Sockets -> Nat]
  /\ sending \in [Threads -> [msg : 0 .. MaxMessages, done : 0 .. SendParts,
                              of : 0 .. SendParts]]
  /\ called \in 0 .. MaxMessages
  /\ pc \in {"select", "recv", "parse", "close", "create", "connect", "hello"}
  /\ m_buffer \in Seq(ReplyPart)
  /\ delivered \in Seq(Seq(ReplyPart))
  /\ cut \in 0 .. MaxSockets

\* CreateSocket replaces a socket that was closed: over any number of
\* reconnections the client holds at most one open socket, the one in m_fd.
OneSocketOpen ==
  \A k \in Sockets :
    /\ k < m_fd => link[k] = "closed"
    /\ k > m_fd => link[k] = "none"

\* Does part b come after part a in what the main thread sends?
After(a, b) == a.msg < b.msg \/ (a.msg = b.msg /\ a.part < b.part)

\* Whatever connections come and go under a running Send, no part of a
\* message of the main thread is sent twice or before an earlier one, be it
\* on the same connection or on a later one.
SentOnceInOrder ==
  \A k1, k2 \in Sockets :
    \A i1 \in DOMAIN wire[k1], i2 \in DOMAIN wire[k2] :
      LET a == wire[k1][i1]
          b == wire[k2][i2]
      IN  a.msg # Hello /\ b.msg # Hello /\ (k1 < k2 \/ (k1 = k2 /\ i1 < i2))
            => After(a, b)

\* May the part q come right behind p in what is read?
Follows(p, q) ==
  \/ q.sock = p.sock /\ q.pos = p.pos + 1
  \/ q.sock > p.sock /\ q.pos = 1

Unbroken(s) == \A i \in 1 .. Len(s) - 1 : Follows(s[i], s[i + 1])

Last(s) == s[Len(s)]

\* onData gets every part recv() returned, each once and in the order the
\* servers sent them, however messages split and merge in m_buffer and
\* whatever socket they came on; also behind an unfinished reply.
NothingReadIsLost ==
  /\ \A j \in DOMAIN delivered : delivered[j] # <<>> /\ Unbroken(delivered[j])
  /\ \A j \in 1 .. Len(delivered) - 1 :
       Follows(Last(delivered[j]), Head(delivered[j + 1]))
  /\ Unbroken(m_buffer)
  /\ delivered # <<>> /\ m_buffer # <<>> =>
       Follows(Last(Last(delivered)), Head(m_buffer))

\* What onData gets is a whole reply, up to and with the first socket given up
\* in the middle of one: the message an unfinished reply spoils never ends on
\* the socket that was lost, but takes parts of a later one.
RepliesWhole ==
  \A j \in DOMAIN delivered :
    cut = 0 \/ Last(delivered[j]).sock <= cut =>
      \E k \in Sockets, n \in 1 .. MaxReplies : delivered[j] = Reply(k, n)

\* After a reset the client connects again, also from a recv() that waits on
\* a blocking socket or from a greeting the kernel does not take: it gets to
\* greeting the server, or to polling, on a later socket.
LossEndsInReconnect ==
  \A k \in 1 .. MaxSockets - 1 :
    link[k] = "rst" ~> (m_fd > k /\ pc \in {"hello", "select"})

\* A reply that has arrived on the first, non-blocking socket reaches onData
\* unless the connection is lost, also one merged with another.
RepliesDelivered ==
  \A n \in 1 .. MaxReplies :
    received[1] >= n * ReplySize
      ~> (link[1] # "up" \/ \E j \in DOMAIN delivered : delivered[j] = Reply(1, n))
=============================================================================
