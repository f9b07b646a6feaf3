----------------------------- MODULE JSClientV1 -----------------------------
(***************************************************************************)
(* The Version 1 client CJSClient: the program's main thread connects and  *)
(* calls Send; once connected, a detection thread (BeginDetect) runs       *)
(* select() on the socket, hands what it reads to onData without cutting   *)
(* it into messages, and ends when the connection does.  The threads share *)
(* m_fd and m_bRunning without a lock.                                     *)
(*                                                                         *)
(* What one send() or recv() call moves is a part.  The model starts when  *)
(* the constructor has made the socket.                                    *)
(***************************************************************************)
EXTENDS Naturals, Sequences, SequencesExt

CONSTANTS
  MaxMessages, \* bound: messages main() sends
  SendParts,   \* parts of a message
  SendBuffer,  \* parts the kernels hold before the server reads them
  MaxArrivals, \* bound: parts the server sends
  CloseKinds   \* how the server ends the connection: "fin" or "rst"

ASSUME ClientV1Assumption ==
  /\ MaxMessages \in Nat /\ MaxArrivals \in Nat
  /\ SendParts \in Nat \ {0} /\ SendBuffer \in Nat \ {0}
  /\ CloseKinds \subseteq {"fin", "rst"}

VARIABLES
  server,      \* the server's end: "none", "up", or how it ended
  open,        \* m_fd names an open socket
  received,    \* parts the server has sent
  avail,       \* those in the client kernel's receive buffer
  urgent,      \* the kernel holds out-of-band data
  unread,      \* parts of messages the server has not read
  wire,        \* parts the client's kernel has taken, in order
  called,      \* calls of Send main() has made
  done,        \* parts of the latest message the kernel has taken
  failed,      \* history: messages whose Send met a passing error
  mainPc,      \* main(): "connect", "send" (inside Send) or "next"
  m_bRunning,  \* CJSClient::m_bRunning
  pc,          \* the detection thread: "none" before Connect starts it
  events,      \* events of this round the detection thread has yet to handle
  m_buffer,    \* CJSClient::m_buffer, as positions in the server's stream
  delivered    \* what onData was called with

serverVars == <<server, received, urgent>>
sendVars   == <<wire, called, done, failed>>
readVars   == <<m_buffer, delivered>>
vars == <<serverVars, open, avail, unread, sendVars, mainPc, m_bRunning, pc,
          events, readVars>>

-----------------------------------------------------------------------------
\* select() reports the socket readable.
Readable == avail > 0 \/ server \in {"fin", "rst"}

\* send() takes data, if there is room.
Connected == open /\ server \in {"up", "fin"}

Init ==
  /\ server = "none" /\ open = TRUE
  /\ received = 0 /\ avail = 0 /\ urgent = FALSE /\ unread = 0
  /\ wire = <<>> /\ called = 0 /\ done = 0 /\ failed = {}
  /\ mainPc = "connect"
  /\ m_bRunning = TRUE
  /\ pc = "none" /\ events = {}
  /\ m_buffer = <<>> /\ delivered = <<>>
-----------------------------------------------------------------------------
(* The server.                                                             *)

Arrive ==
  /\ server = "up" /\ open /\ received < MaxArrivals
  /\ received' = received + 1 /\ avail' = avail + 1
  /\ UNCHANGED <<server, urgent, open, unread, sendVars, mainPc, m_bRunning,
                 pc, events, readVars>>

SendUrgent ==
  /\ server = "up" /\ open
  /\ urgent' = TRUE
  /\ UNCHANGED <<server, received, open, avail, unread, sendVars, mainPc,
                 m_bRunning, pc, events, readVars>>

Drain ==
  /\ unread > 0
  /\ unread' = unread - 1
  /\ UNCHANGED <<serverVars, open, avail, sendVars, mainPc, m_bRunning, pc,
                 events, readVars>>

\* A reset discards what the client's kernel had received.
Lose ==
  /\ server = "up"
  /\ \E kind \in CloseKinds :
       /\ server' = kind
       /\ avail' = IF kind = "rst" THEN 0 ELSE avail
       /\ urgent' = (urgent /\ kind = "fin")
  /\ UNCHANGED <<received, open, unread, sendVars, mainPc, m_bRunning, pc,
                 events, readVars>>

Server == Arrive \/ SendUrgent \/ Drain \/ Lose
-----------------------------------------------------------------------------
(* main().                                                                 *)

\* The socket becomes non-blocking and the detection thread is started.
Connect ==
  /\ mainPc = "connect"
  /\ server' = "up" /\ pc' = "select" /\ mainPc' = "next"
  /\ UNCHANGED <<received, urgent, open, avail, unread, sendVars, m_bRunning,
                 events, readVars>>

\* main() does not look at what Connect returns.
ConnectFails ==
  /\ mainPc = "connect"
  /\ mainPc' = "next"
  /\ UNCHANGED <<serverVars, open, avail, unread, sendVars, m_bRunning, pc,
                 events, readVars>>

CallSend ==
  /\ mainPc = "next" /\ called < MaxMessages
  /\ called' = called + 1 /\ done' = 0
  /\ mainPc' = "send"
  /\ UNCHANGED <<serverVars, open, avail, unread, wire, failed, m_bRunning,
                 pc, events, readVars>>

\* Mutant: the loop runs on when nothing remains.
SendPart_OneMore ==
  /\ mainPc = "send" /\ Connected /\ unread < SendBuffer
  /\ unread' = unread + 1
  /\ done' = done + 1
  /\ wire' = Append(wire, [msg |-> called, part |-> done'])
  /\ mainPc' = IF done' > SendParts THEN "next" ELSE "send"
  /\ UNCHANGED <<serverVars, open, avail, called, failed, m_bRunning, pc,
                 events, readVars>>

SendPart ==
  /\ mainPc = "send" /\ Connected /\ unread < SendBuffer
  /\ unread' = unread + 1
  /\ done' = done + 1
  /\ wire' = Append(wire, [msg |-> called, part |-> done'])
  /\ mainPc' = IF done' = SendParts THEN "next" ELSE "send"
  /\ UNCHANGED <<serverVars, open, avail, called, failed, m_bRunning, pc,
                 events, readVars>>

\* WSAEWOULDBLOCK: send() is called again.
SendWouldBlock ==
  /\ mainPc = "send" /\ Connected /\ unread = SendBuffer
  /\ UNCHANGED vars

\* Mutant: WSAEWOULDBLOCK is an error like any other.
SendError_AlsoWouldBlock ==
  /\ mainPc = "send" /\ ~(Connected /\ unread < SendBuffer)
  /\ mainPc' = "next"
  /\ UNCHANGED <<serverVars, open, avail, unread, sendVars, m_bRunning, pc,
                 events, readVars>>

\* Mutant: every error is taken for WSAEWOULDBLOCK.
SendError_Retried ==
  /\ mainPc = "send" /\ ~Connected
  /\ UNCHANGED vars

\* The socket has no connection any more: the rest of the message is dropped.
SendError ==
  /\ mainPc = "send" /\ ~Connected
  /\ mainPc' = "next"
  /\ UNCHANGED <<serverVars, open, avail, unread, sendVars, m_bRunning, pc,
                 events, readVars>>

\* An error that passes, such as WSAENOBUFS: the rest is dropped, and main()
\* goes on to the next message.
SendFails ==
  /\ mainPc = "send" /\ Connected
  /\ failed' = failed \cup {called}
  /\ mainPc' = "next"
  /\ UNCHANGED <<serverVars, open, avail, unread, wire, called, done,
                 m_bRunning, pc, events, readVars>>

Main ==
  \/ Connect \/ ConnectFails \/ CallSend
  \/ SendPart \/ SendWouldBlock \/ SendError
-----------------------------------------------------------------------------
(* The detection thread.                                                   *)

\* m_fd is always writable, and OnWrite does nothing.
Select ==
  /\ pc = "select" /\ m_bRunning
  /\ Readable \/ urgent
  /\ events' = {e \in {"read", "except"} :
                  \/ e = "read" /\ Readable
                  \/ e = "except" /\ urgent}
  /\ pc' = "events"
  /\ UNCHANGED <<serverVars, open, avail, unread, sendVars, mainPc,
                 m_bRunning, readVars>>

\* The loop ends, and the thread with it.
EndDetect ==
  /\ pc = "select" /\ ~m_bRunning
  /\ pc' = "ended"
  /\ UNCHANGED <<serverVars, open, avail, unread, sendVars, mainPc,
                 m_bRunning, events, readVars>>

\* closesocket() discards what was received.
CloseSocket ==
  /\ m_bRunning' = FALSE /\ open' = FALSE /\ avail' = 0

\* Mutant: OnRead returns when ioctlsocket() fails, and closes only when that
\* finds nothing.
OnReadLost_ErrorReturns ==
  /\ pc = "events" /\ "read" \in events
  /\ avail = 0
  /\ IF server = "rst" THEN UNCHANGED <<m_bRunning, open, avail>>
                       ELSE CloseSocket
  /\ events' = events \ {"read"}
  /\ UNCHANGED <<serverVars, unread, sendVars, mainPc, pc, readVars>>

\* OnRead: FIONREAD fails or finds nothing.
OnReadLost ==
  /\ pc = "events" /\ "read" \in events
  /\ avail = 0
  /\ CloseSocket
  /\ events' = events \ {"read"}
  /\ UNCHANGED <<serverVars, unread, sendVars, mainPc, pc, readVars>>

\* Mutant: the buffer still holds what the last OnRead delivered.
OnRead_NotCleared ==
  /\ pc = "events" /\ "read" \in events
  /\ avail > 0
  /\ pc' = "recv"
  /\ UNCHANGED <<serverVars, open, avail, unread, sendVars, mainPc,
                 m_bRunning, events, readVars>>

\* OnRead: m_buffer is cleared, whatever it holds.
OnRead ==
  /\ pc = "events" /\ "read" \in events
  /\ avail > 0
  /\ m_buffer' = <<>>
  /\ pc' = "recv"
  /\ UNCHANGED <<serverVars, open, avail, unread, sendVars, mainPc,
                 m_bRunning, events, delivered>>

\* recv() returns data.
Recv ==
  /\ pc = "recv" /\ avail > 0
  /\ m_buffer' = Append(m_buffer, received - avail + 1)
  /\ avail' = avail - 1
  /\ UNCHANGED <<serverVars, open, unread, sendVars, mainPc, m_bRunning, pc,
                 events, delivered>>

\* Mutant: a recv() that returns 0 or fails ends the connection at once.
EndOnRead_ClosesAtLoss ==
  /\ pc = "recv" /\ avail = 0
  /\ IF server \in {"fin", "rst"}
     THEN CloseSocket /\ UNCHANGED delivered
     ELSE /\ delivered' = IF m_buffer = <<>> THEN delivered
                                             ELSE Append(delivered, m_buffer)
          /\ UNCHANGED <<m_bRunning, open, avail>>
  /\ events' = events \ {"read"}
  /\ pc' = "events"
  /\ UNCHANGED <<serverVars, unread, sendVars, mainPc, m_buffer>>

\* recv() reports WSAEWOULDBLOCK, the end of the stream or the reset: onData
\* gets what has been read.
EndOnRead ==
  /\ pc = "recv" /\ avail = 0
  /\ delivered' = IF m_buffer = <<>> THEN delivered
                                     ELSE Append(delivered, m_buffer)
  /\ events' = events \ {"read"}
  /\ pc' = "events"
  /\ UNCHANGED <<serverVars, open, avail, unread, sendVars, mainPc,
                 m_bRunning, m_buffer>>

\* Read events come first; OnRead may have closed the socket already.
OnExcept ==
  /\ pc = "events" /\ events = {"except"}
  /\ CloseSocket
  /\ events' = {}
  /\ UNCHANGED <<serverVars, unread, sendVars, mainPc, pc, readVars>>

\* Sleep(100) and the next round.
EndRound ==
  /\ pc = "events" /\ events = {}
  /\ pc' = "select"
  /\ UNCHANGED <<serverVars, open, avail, unread, sendVars, mainPc,
                 m_bRunning, events, readVars>>

Detect ==
  \/ Select \/ OnReadLost \/ OnRead \/ Recv \/ EndOnRead \/ OnExcept
  \/ EndRound \/ EndDetect
-----------------------------------------------------------------------------
Next == Server \/ Main \/ SendFails \/ Detect

Spec == Init /\ [][Next]_vars

\* Both threads are scheduled; nothing is assumed of the server, nor that an
\* error occurs.
FairSpec == Spec /\ WF_vars(Main) /\ WF_vars(Detect)
-----------------------------------------------------------------------------
TypeOK ==
  /\ server \in {"none", "up", "fin", "rst"}
  /\ open \in BOOLEAN /\ urgent \in BOOLEAN /\ m_bRunning \in BOOLEAN
  /\ received \in 0 .. MaxArrivals /\ avail \in 0 .. received
  /\ unread \in 0 .. SendBuffer
  /\ wire \in Seq([msg : 1 .. MaxMessages, part : 1 .. SendParts])
  /\ called \in 0 .. MaxMessages /\ done \in 0 .. SendParts
  /\ failed \subseteq 1 .. MaxMessages
  /\ mainPc \in {"connect", "send", "next"}
  /\ pc \in {"none", "select", "events", "recv", "ended"}
  /\ events \subseteq {"read", "except"}
  /\ m_buffer \in Seq(1 .. MaxArrivals)
  /\ delivered \in Seq(Seq(1 .. MaxArrivals))

\* May part q be sent right behind part p?  Only a message whose Send met a
\* passing error is cut short, or missing altogether.
NextTo(p, q) ==
  \/ q.msg = p.msg /\ q.part = p.part + 1
  \/ /\ q.msg > p.msg /\ q.part = 1
     /\ \A m \in p.msg .. q.msg - 1 :
          m \in failed \/ (m = p.msg /\ p.part = SendParts)

\* The part in front of part i of the wire.
Previous(i) == IF i = 1 THEN [msg |-> 0, part |-> SendParts] ELSE wire[i - 1]

\* The wire carries the messages end to end, but for those whose Send met a
\* passing error: neither a full buffer nor the other thread's closing m_fd
\* under a Send makes a hole, and what a lost connection cuts off is the end,
\* although main() goes on to the next message.
NoHoleOnTheWire == \A i \in DOMAIN wire : NextTo(Previous(i), wire[i])

\* The last part onData got before its j-th call, and so far.
GotBefore(j) == IF j = 1 THEN 0 ELSE Last(delivered[j - 1])
Got == GotBefore(Len(delivered) + 1)

\* The parts that follow the n-th, without a gap.
RunFrom(n, parts) == \A i \in DOMAIN parts : parts[i] = n + i

\* However arrivals and reads interleave, and although m_buffer is cleared by
\* every OnRead, onData gets what recv() returned once and in order: each call
\* goes on where the one before ended, what the read loop holds follows, and
\* behind that comes what the kernel still has.
DeliveredOnceInOrder ==
  /\ \A j \in DOMAIN delivered :
       delivered[j] # <<>> /\ RunFrom(GotBefore(j), delivered[j])
  /\ pc = "recv" => RunFrom(Got, m_buffer)
  /\ open /\ server # "rst" =>
       Got + (IF pc = "recv" THEN Len(m_buffer) ELSE 0) = received - avail

\* When the server ends the connection, the client closes its socket and the
\* detection thread comes to its end.
LossEndsDetection ==
  server \in {"fin", "rst"} ~> (pc = "ended" /\ ~open)

\* A Send that spins on a full buffer, or is about to, returns when the
\* connection is lost: it sees the other thread close m_fd.
LossEndsSend ==
  (server \in {"fin", "rst"} /\ mainPc = "send") ~> mainPc = "next"

\* What arrives is handed to onData, even if the server closes behind it,
\* unless a reset or out-of-band data comes first.
ArrivalsDelivered ==
  \A n \in 1 .. MaxArrivals :
    (received >= n) ~> (server = "rst" \/ urgent \/
                        \E j \in DOMAIN delivered : n \in Range(delivered[j]))
=============================================================================
