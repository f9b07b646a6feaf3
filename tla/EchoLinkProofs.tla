--------------------------- MODULE EchoLinkProofs ---------------------------
(***************************************************************************)
(* Theorems about EchoLink, for any number of requests and any sizes of    *)
(* the messages and of the kernel buffers.                                 *)
(***************************************************************************)
EXTENDS EchoLink, SequenceTheorems, TLAPS

USE LinkAssumption

-----------------------------------------------------------------------------
(* Streams.                                                                *)

\* Where part p of message c is when messages of n parts follow each other.
Pos(n, c, p) == (c - 1) * n + p

\* The parts in a buffer are those behind the first k of that stream.
Run(buffer, n, k) ==
  \A i \in DOMAIN buffer : Pos(n, buffer[i].cmd, buffer[i].part) = k + i

\* A place is a number, and the parts of a message are counted on to those of
\* the next.
LEMMA PosCount ==
  ASSUME NEW n \in Nat \ {0}, NEW c \in Nat, NEW p \in Nat
  PROVE  /\ Pos(n, c, p) \in Int
         /\ Pos(n, c, p + 1) = Pos(n, c, p) + 1
         /\ Pos(n, c, p) = Pos(n, c, 0) + p
         /\ Pos(n, c + 1, 0) = Pos(n, c, n)
<1>1. (c - 1) * n \in Int
  OBVIOUS
<1>2. (c + 1 - 1) * n + 0 = (c - 1) * n + n
  OBVIOUS
<1> QED BY <1>1, <1>2 DEF Pos

\* Places are ordered as the messages are.
LEMMA PosOrder ==
  ASSUME NEW n \in Nat \ {0}, NEW c \in Nat, NEW k \in Nat, NEW p \in 0 .. n,
         Pos(n, c, n) <= Pos(n, k, p)
  PROVE  c < k \/ (c = k /\ p = n)
<1>1. CASE c < k
  BY <1>1
<1>2. CASE c = k
  <2>1. (c - 1) * n \in Int
    OBVIOUS
  <2> QED BY <1>2, <2>1 DEF Pos
<1>3. CASE c > k
  <2> DEFINE j == c - k
  <2>1. j \in Nat \ {0} /\ c = k + j
    BY <1>3
  <2>2. j * n >= n
    BY <2>1
  <2>3. (c - 1) * n = (k - 1) * n + j * n
    BY <2>1
  <2>4. (k - 1) * n \in Int /\ j * n \in Int
    BY <2>1
  <2>5. (k - 1) * n + j * n + n <= (k - 1) * n + p
    BY <2>3 DEF Pos
  <2> HIDE DEF j
  <2> QED BY <2>2, <2>4, <2>5
<1> QED BY <1>1, <1>2, <1>3

\* A part has one place only.
LEMMA PosUnique ==
  ASSUME NEW n \in Nat \ {0}, NEW c \in Nat, NEW k \in Nat,
         NEW p \in 1 .. n, NEW q \in 1 .. n, Pos(n, c, p) = Pos(n, k, q)
  PROVE  c = k /\ p = q
<1> DEFINE a == (c - 1) * n
           b == (k - 1) * n
<1>0. a \in Int /\ b \in Int /\ a + p = b + q
  BY DEF Pos
<1>1. CASE c = k
  BY <1>0, <1>1
<1>2. CASE c > k
  <2> DEFINE j == c - k
  <2>1. j \in Nat \ {0} /\ c = k + j
    BY <1>2
  <2>2. j * n >= n /\ j * n \in Int
    BY <2>1
  <2>3. a = b + j * n
    BY <2>1
  <2> HIDE DEF a, b, j
  <2> QED BY <1>0, <2>2, <2>3
<1>3. CASE c < k
  <2> DEFINE j == k - c
  <2>1. j \in Nat \ {0} /\ k = c + j
    BY <1>3
  <2>2. j * n >= n /\ j * n \in Int
    BY <2>1
  <2>3. b = a + j * n
    BY <2>1
  <2> HIDE DEF a, b, j
  <2> QED BY <1>0, <2>2, <2>3
<1> QED BY <1>1, <1>2, <1>3

LEMMA RunAppend ==
  ASSUME NEW S, NEW b \in Seq(S), NEW e \in S, NEW n, NEW k \in Int,
         Run(b, n, k), Pos(n, e.cmd, e.part) = k + Len(b) + 1
  PROVE  /\ Append(b, e) \in Seq(S) /\ Len(Append(b, e)) = Len(b) + 1
         /\ Run(Append(b, e), n, k)
<1> DEFINE a == Append(b, e)
<1>1. /\ a \in Seq(S) /\ Len(a) = Len(b) + 1 /\ DOMAIN a = 1 .. Len(b) + 1
      /\ a[Len(b) + 1] = e /\ \A i \in 1 .. Len(b) : a[i] = b[i]
      /\ DOMAIN b = 1 .. Len(b) /\ Len(b) \in Nat
  OBVIOUS
<1> HIDE DEF a
<1>2. \A i \in 1 .. Len(b) + 1 : i \in 1 .. Len(b) \/ i = Len(b) + 1
  BY <1>1
<1>3. k + (Len(b) + 1) = k + Len(b) + 1
  BY <1>1
<1>4. Run(a, n, k)
  <2> SUFFICES ASSUME NEW i \in 1 .. Len(b) + 1
               PROVE  Pos(n, a[i].cmd, a[i].part) = k + i
    BY <1>1 DEF Run
  <2>1. CASE i \in 1 .. Len(b)
    BY <1>1, <2>1 DEF Run
  <2>2. CASE i = Len(b) + 1
    BY <1>1, <1>3, <2>2
  <2> QED BY <1>2, <2>1, <2>2
<1> QED BY <1>1, <1>4 DEF a

LEMMA DroppedType ==
  ASSUME NEW S, NEW b \in Seq(S), NEW m \in 0 .. Len(b)
  PROVE  Dropped(b, m) \in Seq(S) /\ Len(Dropped(b, m)) = Len(b) - m
BY SubSeqProperties DEF Dropped

LEMMA DroppedElements ==
  ASSUME NEW S, NEW b \in Seq(S), NEW m \in 0 .. Len(b)
  PROVE  /\ DOMAIN Dropped(b, m) = 1 .. Len(b) - m
         /\ \A i \in 1 .. Len(b) - m : Dropped(b, m)[i] = b[i + m]
         /\ DOMAIN b = 1 .. Len(b)
BY SubSeqProperties DEF Dropped

LEMMA RunDropped ==
  ASSUME NEW S, NEW b \in Seq(S), NEW n, NEW k \in Int, NEW m \in 0 .. Len(b),
         Run(b, n, k)
  PROVE  Run(Dropped(b, m), n, k + m)
<1> DEFINE a == Dropped(b, m)
<1>1. /\ a \in Seq(S) /\ Len(a) = Len(b) - m /\ DOMAIN a = 1 .. Len(b) - m
      /\ \A i \in 1 .. Len(b) - m : a[i] = b[i + m]
      /\ DOMAIN b = 1 .. Len(b) /\ Len(b) \in Nat
  BY SubSeqProperties DEF Dropped
<1> HIDE DEF a
<1>2. ASSUME NEW i \in 1 .. Len(b) - m
      PROVE  Pos(n, a[i].cmd, a[i].part) = k + m + i
  <2>1. i + m \in DOMAIN b /\ k + (i + m) = k + m + i
    BY <1>1
  <2> QED BY <1>1, <1>2, <2>1 DEF Run
<1> QED BY <1>1, <1>2 DEF Run, a

LEMMA HeadTailType ==
  ASSUME NEW S, NEW b \in Seq(S), b # <<>>
  PROVE  /\ Head(b) \in S /\ Head(b) = b[1] /\ 1 \in DOMAIN b
         /\ Tail(b) \in Seq(S) /\ Len(Tail(b)) = Len(b) - 1
         /\ Len(b) \in Nat \ {0}
OBVIOUS

LEMMA RunTail ==
  ASSUME NEW S, NEW b \in Seq(S), b # <<>>, NEW n, NEW k \in Int, Run(b, n, k)
  PROVE  /\ Run(Tail(b), n, k + 1)
         /\ Pos(n, Head(b).cmd, Head(b).part) = k + 1
<1> DEFINE a == Tail(b)
<1>1. /\ Len(b) \in Nat \ {0} /\ DOMAIN b = 1 .. Len(b) /\ Head(b) = b[1]
      /\ DOMAIN a = 1 .. Len(b) - 1
      /\ \A i \in 1 .. Len(b) - 1 : a[i] = b[i + 1]
  OBVIOUS
<1> HIDE DEF a
<1>2. ASSUME NEW i \in 1 .. Len(b) - 1
      PROVE  Pos(n, a[i].cmd, a[i].part) = k + 1 + i
  <2>1. i + 1 \in DOMAIN b /\ k + (i + 1) = k + 1 + i
    BY <1>1
  <2> QED BY <1>1, <1>2, <2>1 DEF Run
<1>3. Pos(n, Head(b).cmd, Head(b).part) = k + 1
  <2>1. 1 \in DOMAIN b
    BY <1>1
  <2> QED BY <1>1, <2>1, Zenon DEF Run
<1> QED BY <1>1, <1>2, <1>3 DEF Run, a

\* A buffer that starts with a message shows its number at its head.
LEMMA RunHead ==
  ASSUME NEW n \in Nat \ {0}, NEW b \in Seq(Parts(n)), b # <<>>,
         NEW c \in Nat, Run(b, n, Pos(n, c, 0))
  PROVE  Head(b).cmd = c
<1> DEFINE h == Head(b)
<1>1. /\ h \in Parts(n) /\ Pos(n, h.cmd, h.part) = Pos(n, c, 0) + 1
  <2>1. Pos(n, c, 0) \in Int
    BY PosCount
  <2> QED BY <2>1, RunTail, HeadTailType
<1> HIDE DEF h
<1>2. h.cmd \in Nat /\ h.part \in 1 .. n
  BY <1>1 DEF Parts, Command
<1>3. Pos(n, c, 0) + 1 = Pos(n, c, 1) /\ 1 \in 1 .. n
  BY PosCount
<1>4. h.cmd = c
  BY <1>1, <1>2, <1>3, PosUnique
<1> QED BY <1>4 DEF h

-----------------------------------------------------------------------------
(* Types.                                                                  *)

\* There is a message in a send loop: a call of Send in the client's, a whole
\* request in the worker's, and neither is sent in full.
InSend ==
  /\ done < RequestParts => called \in Command
  /\ pc = "send" => Len(m_in_buf) >= RequestParts /\ replied < ReplyParts

LEMMA TypeStep == TypeOK /\ InSend /\ [Next]_vars => TypeOK' /\ InSend'
<1> SUFFICES ASSUME TypeOK, InSend, [Next]_vars
             PROVE  TypeOK' /\ InSend'
  OBVIOUS
<1> DEFINE Up == Parts(RequestParts)
           Down == Parts(ReplyParts)
<1>0. /\ up \in Seq(Up) /\ m_in_buf \in Seq(Up)
      /\ down \in Seq(Down) /\ m_buffer \in Seq(Down)
      /\ \A b \in Seq(Up) : Len(b) \in Nat
      /\ \A b \in Seq(Down) : Len(b) \in Nat
      /\ RequestParts \in Nat \ {0} /\ ReplyParts \in Nat \ {0}
      /\ UpSize \in Nat \ {0} /\ DownSize \in Nat \ {0} /\ MaxRequests \in Nat
  BY DEF TypeOK
<1>e. <<>> \in Seq(Up) /\ <<>> \in Seq(Down) /\ Len(<<>>) = 0
  OBVIOUS
<1> USE DEF TypeOK, InSend, mainVars, detectVars, workerVars
<1> HIDE DEF Up, Down
<1>1. CASE Reset
  BY <1>0, <1>e, <1>1 DEF Reset, Open, Up, Down
<1>2. CASE CallSend
  BY <1>0, <1>2 DEF CallSend, Command
<1>3. CASE SendPart
  <2> DEFINE e == [cmd |-> called, part |-> done + 1]
  <2>1. /\ e \in Up /\ done + 1 \in 1 .. RequestParts
    BY <1>0, <1>3 DEF SendPart, Parts, Up
  <2>2. Append(up, e) \in Seq(Up) /\ Len(Append(up, e)) = Len(up) + 1
    BY <1>0, <2>1
  <2>3. Append(completed, called) \in Seq(Command)
    BY <1>3 DEF SendPart
  <2>4. /\ done' = done + 1 /\ up' = Append(up, e) /\ Len(up) < UpSize
        /\ completed' = Append(completed, called) \/ completed' = completed
        /\ UNCHANGED <<link, down, called, detectVars, workerVars>>
        /\ called \in Command
    BY <1>3 DEF SendPart
  <2>5. Len(up') <= UpSize /\ up' \in Seq(Up)
    BY <1>0, <2>2, <2>4
  <2>6. completed' \in Seq(Command)
    BY <2>3, <2>4
  <2>7. done' \in 0 .. RequestParts
    BY <2>1, <2>4
  <2> HIDE DEF e
  <2> QED BY <1>0, <2>4, <2>5, <2>6, <2>7 DEF Up
<1>4. CASE ClientOnRead \/ ClientRecvError \/ ClientEndOnRead
  BY <1>4 DEF ClientOnRead, ClientRecvError, ClientEndOnRead
<1>5. CASE ClientRecv
  <2>1. /\ Head(down) \in Down /\ Tail(down) \in Seq(Down)
        /\ Len(Tail(down)) = Len(down) - 1
    BY <1>0, <1>5, HeadTailType DEF ClientRecv
  <2>2. Append(m_buffer, Head(down)) \in Seq(Down)
    BY <1>0, <2>1
  <2> QED BY <1>0, <1>5, <2>1, <2>2 DEF ClientRecv, Down
<1>6. CASE ClientDealBuffer
  <2>1. /\ Dropped(m_buffer, ReplyParts) \in Seq(Down)
        /\ m_buffer # <<>>
    <3>1. ReplyParts \in 0 .. Len(m_buffer) /\ m_buffer # <<>>
      BY <1>0, <1>6 DEF ClientDealBuffer, Complete
    <3> QED BY <1>0, <3>1, DroppedType
  <2>2. Head(m_buffer).cmd \in Command
    <3>1. Head(m_buffer) \in Down
      BY <1>0, <2>1, HeadTailType
    <3> QED BY <3>1 DEF Down, Parts
  <2>3. Append(delivered, Head(m_buffer).cmd) \in Seq(Command)
    BY <2>2
  <2> QED BY <1>6, <2>1, <2>3 DEF ClientDealBuffer, Down
<1>7. CASE OnRead \/ RecvError \/ EndOnRead
  BY <1>7 DEF OnRead, RecvError, EndOnRead
<1>8. CASE Recv
  <2>1. /\ Head(up) \in Up /\ Tail(up) \in Seq(Up)
        /\ Len(Tail(up)) = Len(up) - 1
    BY <1>0, <1>8, HeadTailType DEF Recv
  <2>2. Append(m_in_buf, Head(up)) \in Seq(Up)
    BY <1>0, <2>1
  <2> QED BY <1>0, <1>8, <2>1, <2>2 DEF Recv, Up
<1>9. CASE DealBuffer
  BY <1>0, <1>9 DEF DealBuffer, Complete
<1>10. CASE SendReply \/ SendReplyError
  <2>1. /\ pc = "send" /\ m_in_buf # <<>>
        /\ RequestParts \in 0 .. Len(m_in_buf)
    BY <1>0, <1>10 DEF SendReply, SendReplyError
  <2>2. Dropped(m_in_buf, RequestParts) \in Seq(Up)
    BY <1>0, <2>1, DroppedType
  <2>3. CASE SendReply
    <3> DEFINE e == [cmd |-> Head(m_in_buf).cmd, part |-> replied + 1]
    <3>1. Head(m_in_buf) \in Up
      BY <1>0, <2>1, HeadTailType
    <3>2. e \in Down
      BY <1>0, <2>1, <3>1 DEF Up, Down, Parts
    <3>3. Append(down, e) \in Seq(Down) /\ Len(Append(down, e)) = Len(down) + 1
      BY <1>0, <3>2
    <3>4. /\ replied' = replied + 1 /\ down' = Append(down, e)
          /\ Len(down) < DownSize
          /\ \/ /\ replied + 1 = ReplyParts
                /\ pc' = "parse" /\ m_in_buf' = Dropped(m_in_buf, RequestParts)
             \/ replied + 1 # ReplyParts /\ UNCHANGED <<pc, m_in_buf>>
          /\ UNCHANGED <<link, up, mainVars, detectVars>>
      BY <2>3 DEF SendReply
    <3>5. Len(down') <= DownSize
      BY <1>0, <3>3, <3>4
    <3> HIDE DEF e
    <3> QED BY <1>0, <2>1, <2>2, <3>3, <3>4, <3>5 DEF Up, Down
  <2>4. CASE SendReplyError
    BY <2>2, <2>4 DEF SendReplyError, Up
  <2> QED BY <1>10, <2>3, <2>4
<1>11. CASE End
  BY <1>11 DEF End
<1>12. CASE RecvEndOfStream \/ UNCHANGED vars
  BY <1>12 DEF RecvEndOfStream, vars
<1> QED BY <1>1, <1>2, <1>3, <1>4, <1>5, <1>6, <1>7, <1>8, <1>9, <1>10, <1>11,
           <1>12 DEF Next, Main, Detect, Worker

LEMMA TypeAlways == Spec => [](TypeOK /\ InSend)
<1>1. Init => TypeOK /\ InSend
  BY DEF Init, TypeOK, InSend, Parts
<1> QED BY <1>1, TypeStep, PTL DEF Spec

\* Every reachable state is of the declared types: no buffer holds more than
\* its size, neither loop sends a part beyond the last, and the worker never
\* answers a request it does not have.
THEOREM TypeCorrect == Spec => []TypeOK
BY TypeAlways, PTL

-----------------------------------------------------------------------------
(* The echo.                                                               *)

\* Parts of the reply to the request at the front of m_in_buf.
Answered == IF pc = "send" THEN replied ELSE 0

\* What the client has of the replies, read from the next one on.
Expected == Pos(ReplyParts, Len(delivered) + 1, 0)

\* While the connection is open, both streams are whole: c being the request at
\* the front of m_in_buf, the worker has c and what follows up to the last
\* part sent, and the client what was answered up to there.
Whole(c) ==
  /\ Run(m_in_buf, RequestParts, Pos(RequestParts, c, 0))
  /\ Run(up, RequestParts, Pos(RequestParts, c, 0) + Len(m_in_buf))
  /\ Pos(RequestParts, c, 0) + Len(m_in_buf) + Len(up)
       = Pos(RequestParts, called, done)
  /\ Pos(ReplyParts, c, Answered) = Expected + Len(m_buffer) + Len(down)

\* The calls of Send that were completed are the first ones.
CompletedInv ==
  /\ \A i \in DOMAIN completed : completed[i] = i
  /\ Len(completed) = IF done = RequestParts THEN called ELSE called - 1

\* Reply parts follow what was delivered, and answer completed requests.
RepliesInv ==
  /\ Run(m_buffer, ReplyParts, Expected)
  /\ Run(down, ReplyParts, Expected + Len(m_buffer))
  /\ \A i \in DOMAIN m_buffer : m_buffer[i].cmd <= Len(completed)
  /\ \A i \in DOMAIN down : down[i].cmd <= Len(completed)

LinkInv ==
  /\ CompletedInv
  /\ RepliesInv
  /\ Open => \E c \in Nat \ {0} : Whole(c)

\* The request at the front of m_in_buf, if it is there in full, is one that
\* was sent completely.
LEMMA FrontCompleted ==
  ASSUME TypeOK, InSend, CompletedInv, NEW c \in Nat \ {0}, Whole(c),
         Len(m_in_buf) >= RequestParts
  PROVE  Head(m_in_buf).cmd = c /\ c <= Len(completed)
<1>0. /\ RequestParts \in Nat \ {0} /\ called \in Nat
      /\ done \in 0 .. RequestParts
      /\ m_in_buf \in Seq(Parts(RequestParts))
      /\ up \in Seq(Parts(RequestParts))
      /\ c \in Nat
  BY DEF TypeOK
<1>1. m_in_buf # <<>> /\ Len(m_in_buf) \in Nat /\ Len(up) \in Nat
  BY <1>0
<1>2. Head(m_in_buf).cmd = c
  BY <1>0, <1>1, RunHead DEF Whole
<1>3. Pos(RequestParts, c, RequestParts) <= Pos(RequestParts, called, done)
  <2>1. /\ Pos(RequestParts, c, 0) \in Int
        /\ Pos(RequestParts, c, RequestParts)
             = Pos(RequestParts, c, 0) + RequestParts
    BY <1>0, PosCount
  <2>2. Pos(RequestParts, c, 0) + Len(m_in_buf) + Len(up)
          = Pos(RequestParts, called, done)
    BY DEF Whole
  <2> QED BY <1>0, <1>1, <2>1, <2>2
<1>4. c < called \/ (c = called /\ done = RequestParts)
  BY <1>0, <1>3, PosOrder
<1> QED BY <1>0, <1>2, <1>4 DEF CompletedInv

LEMMA LinkStep == TypeOK /\ InSend /\ LinkInv /\ [Next]_vars => LinkInv'
<1> SUFFICES ASSUME TypeOK, InSend, LinkInv, [Next]_vars
             PROVE  LinkInv'
  OBVIOUS
<1> DEFINE N == RequestParts
           M == ReplyParts
           Up == Parts(N)
           Down == Parts(M)
           d == Len(delivered) + 1
<1>0. /\ N \in Nat \ {0} /\ M \in Nat \ {0} /\ called \in Nat
      /\ done \in 0 .. N /\ done \in Nat
      /\ up \in Seq(Up) /\ m_in_buf \in Seq(Up)
      /\ down \in Seq(Down) /\ m_buffer \in Seq(Down)
      /\ Len(up) \in Nat /\ Len(m_in_buf) \in Nat
      /\ Len(down) \in Nat /\ Len(m_buffer) \in Nat /\ d \in Nat
      /\ replied \in 0 .. M
  BY DEF TypeOK
<1>p. \A c \in Nat : Pos(N, c, 0) \in Int /\ Pos(M, c, 0) \in Int
  BY <1>0, PosCount
<1>d. Expected = Pos(M, d, 0)
  BY DEF Expected
<1>i. /\ Expected \in Int
      /\ Len(up) \in Nat /\ Len(m_in_buf) \in Nat
      /\ Len(down) \in Nat /\ Len(m_buffer) \in Nat
      /\ N \in Nat /\ M \in Nat
  BY <1>0, <1>p, <1>d
<1> USE DEF mainVars, detectVars, workerVars
<1> HIDE DEF N, M, Up, Down, d
\* A step of one thread that moves no part.
<1>1. ASSUME UNCHANGED <<link, up, down, mainVars, m_buffer, delivered,
                         m_in_buf, Answered>>
      PROVE  LinkInv'
  BY <1>1 DEF LinkInv, CompletedInv, RepliesInv, Whole, Expected, Run, Open
<1>2. CASE Reset
  <2>1. /\ UNCHANGED <<mainVars, m_buffer, delivered>> /\ ~Open'
        /\ down' = <<>>
    BY <1>2 DEF Reset, Open
  <2> QED BY <2>1 DEF LinkInv, CompletedInv, RepliesInv, Expected, Run
<1>3. CASE CallSend
  <2>1. /\ link = "up" /\ done = N /\ called' = called + 1 /\ done' = 0
        /\ UNCHANGED <<link, up, down, completed, detectVars, workerVars>>
    BY <1>3 DEF CallSend, N
  <2>2. Pos(N, called', done') = Pos(N, called, done)
    BY <1>0, <2>1, PosCount
  <2>3. CompletedInv'
    BY <1>0, <2>1 DEF CompletedInv, LinkInv, N
  <2>4. RepliesInv'
    BY <2>1 DEF RepliesInv, LinkInv, Expected, Run
  <2>5. \A c \in Nat \ {0} : Whole(c) => Whole(c)'
    BY <2>1, <2>2 DEF Whole, Run, Answered, Expected, N
  <2> QED BY <2>1, <2>3, <2>4, <2>5 DEF LinkInv, Open
<1>4. CASE SendPart
  <2> DEFINE e == [cmd |-> called, part |-> done + 1]
  <2>1. /\ link = "up" /\ done < N /\ done' = done + 1 /\ up' = Append(up, e)
        /\ completed' = IF done + 1 = N THEN Append(completed, called)
                                        ELSE completed
        /\ UNCHANGED <<link, down, called, detectVars, workerVars>>
    BY <1>4 DEF SendPart, N
  <2>2. e \in Up /\ called \in Command
    BY <1>0, <2>1 DEF InSend, Up, N, Parts
  <2>3. /\ Pos(N, called, done + 1) = Pos(N, called, done) + 1
        /\ Pos(N, called, done) \in Int
    <3>1. N \in Nat \ {0} /\ called \in Nat /\ done \in Nat
      BY <1>0
    <3> QED BY <3>1, PosCount
  <2>4. /\ CompletedInv' /\ Len(completed) <= Len(completed')
        /\ Len(completed) \in Nat /\ Len(completed') \in Nat
    <3>1. completed \in Seq(Command) /\ Len(completed) = called - 1
      BY <1>0, <2>1 DEF TypeOK, CompletedInv, LinkInv, N
    <3>2. CASE done + 1 = N
      <4>1. completed' = Append(completed, called)
        BY <2>1, <3>2
      <4>2. /\ Len(completed') = Len(completed) + 1
            /\ DOMAIN completed' = 1 .. called
            /\ completed'[called] = called
            /\ \A i \in 1 .. called - 1 : completed'[i] = completed[i]
            /\ DOMAIN completed = 1 .. called - 1
        <5>1. completed \in Seq(Command) /\ called \in Int
          BY <1>0, <3>1
        <5> QED BY <3>1, <4>1, <5>1
      <4>3. \A i \in DOMAIN completed' : completed'[i] = i
        <5>1. \A i \in 1 .. called - 1 : completed[i] = i
          BY <4>2 DEF CompletedInv, LinkInv
        <5>2. \A i \in 1 .. called : i \in 1 .. called - 1 \/ i = called
          BY <1>0
        <5> QED BY <4>2, <5>1, <5>2, Zenon
      <4> QED BY <1>0, <2>1, <3>1, <3>2, <4>2, <4>3 DEF CompletedInv, N
    <3>3. CASE done + 1 # N
      BY <1>0, <2>1, <3>1, <3>3 DEF CompletedInv, LinkInv, N
    <3> QED BY <3>2, <3>3
  <2>5. RepliesInv'
    <3>1. \A b \in Seq(Down) : \A i \in DOMAIN b : b[i].cmd \in Nat
      <4> SUFFICES ASSUME NEW b \in Seq(Down), NEW i \in DOMAIN b
                   PROVE  b[i].cmd \in Nat
        OBVIOUS
      <4>1. b[i] \in Down
        BY ElementOfSeq
      <4> QED BY <4>1 DEF Down, Parts, Command
    <3>2. /\ UNCHANGED <<Expected, m_buffer, down>>
          /\ Run(m_buffer, M, Expected)
          /\ Run(down, M, Expected + Len(m_buffer))
      BY <2>1 DEF Expected, RepliesInv, LinkInv, M
    <3>3. \A b \in Seq(Down) : \A i \in DOMAIN b :
             b[i].cmd <= Len(completed) => b[i].cmd <= Len(completed')
      BY <2>4, <3>1
    <3>4. /\ \A i \in DOMAIN m_buffer : m_buffer[i].cmd <= Len(completed')
          /\ \A i \in DOMAIN down : down[i].cmd <= Len(completed')
      BY <1>0, <3>3, Zenon DEF RepliesInv, LinkInv
    <3> QED BY <3>2, <3>4 DEF RepliesInv, Run, M
  <2>6. PICK c \in Nat \ {0} : Whole(c)
    BY <2>1 DEF LinkInv, Open
  <2>7. Whole(c)'
    <3>1. Pos(N, c, 0) + Len(m_in_buf) + Len(up) = Pos(N, called, done)
      BY <2>6 DEF Whole, N
    <3>2. Pos(N, e.cmd, e.part) = Pos(N, c, 0) + Len(m_in_buf) + Len(up) + 1
      BY <2>3, <3>1
    <3>p. Pos(N, c, 0) \in Int
      BY <1>p
    <3>3. Pos(N, c, 0) + Len(m_in_buf) \in Int
      BY <1>i, <3>p
    <3>4. Run(up, N, Pos(N, c, 0) + Len(m_in_buf))
      BY <2>6 DEF Whole, N
    <3> HIDE DEF e
    <3>5. /\ Run(up', N, Pos(N, c, 0) + Len(m_in_buf))
          /\ Len(up') = Len(up) + 1
      BY <1>0, <2>1, <2>2, <3>2, <3>3, <3>4, RunAppend
    <3>6. Pos(N, c, 0) + Len(m_in_buf) + Len(up') = Pos(N, called', done')
      <4>1. Pos(N, called', done') = Pos(N, called, done) + 1
        BY <2>1, <2>3
      <4> QED BY <1>i, <3>1, <3>5, <3>p, <4>1
    <3> QED BY <2>1, <2>6, <3>5, <3>6 DEF Whole, Run, Answered, Expected, N
  <2> QED BY <2>4, <2>5, <2>7 DEF LinkInv
<1>5. CASE ClientRecv
  <2> DEFINE e == Head(down)
  <2>1. /\ down # <<>> /\ m_buffer' = Append(m_buffer, e) /\ down' = Tail(down)
        /\ UNCHANGED <<link, up, mainVars, delivered, workerVars>>
    BY <1>5 DEF ClientRecv
  <2>2. /\ Run(down, M, Expected + Len(m_buffer)) /\ Run(m_buffer, M, Expected)
        /\ Expected + Len(m_buffer) \in Int
    BY <1>0, <1>i DEF RepliesInv, LinkInv, M
  <2>3. /\ e \in Down /\ e = down[1] /\ 1 \in DOMAIN down
        /\ Tail(down) \in Seq(Down) /\ Len(Tail(down)) = Len(down) - 1
        /\ Pos(M, e.cmd, e.part) = Expected + Len(m_buffer) + 1
        /\ Run(down', M, Expected + Len(m_buffer) + 1)
    BY <1>0, <2>1, <2>2, RunTail, HeadTailType
  <2> HIDE DEF e
  <2>4. /\ Run(m_buffer', M, Expected) /\ Len(m_buffer') = Len(m_buffer) + 1
    BY <1>0, <1>i, <2>1, <2>2, <2>3, RunAppend
  <2>5. /\ \A i \in DOMAIN m_buffer' : m_buffer'[i].cmd <= Len(completed)
        /\ \A i \in DOMAIN down' : down'[i].cmd <= Len(completed)
    <3>1. /\ \A i \in DOMAIN m_buffer : m_buffer[i].cmd <= Len(completed)
          /\ \A i \in DOMAIN down : down[i].cmd <= Len(completed)
      BY DEF RepliesInv, LinkInv
    <3>2. /\ DOMAIN m_buffer' = 1 .. Len(m_buffer) + 1
          /\ m_buffer'[Len(m_buffer) + 1] = e
          /\ \A i \in 1 .. Len(m_buffer) : m_buffer'[i] = m_buffer[i]
          /\ DOMAIN m_buffer = 1 .. Len(m_buffer)
          /\ DOMAIN down = 1 .. Len(down) /\ DOMAIN down' = 1 .. Len(down) - 1
          /\ \A i \in 1 .. Len(down) - 1 : down'[i] = down[i + 1]
      BY <1>0, <2>1, <2>3
    <3>3. \A i \in DOMAIN down' : i + 1 \in DOMAIN down
      BY <1>0, <3>2
    <3>4. \A i \in 1 .. Len(m_buffer) + 1 :
             i \in 1 .. Len(m_buffer) \/ i = Len(m_buffer) + 1
      BY <1>i
    <3>5. e.cmd <= Len(completed)
      BY <2>3, <3>1, Zenon
    <3>6. \A i \in DOMAIN m_buffer' : m_buffer'[i].cmd <= Len(completed)
      BY <3>1, <3>2, <3>4, <3>5, Zenon
    <3>7. \A i \in DOMAIN down' : down'[i].cmd <= Len(completed)
      BY <3>1, <3>2, <3>3, Zenon
    <3> QED BY <3>6, <3>7
  <2>6. Expected' = Expected /\ Answered' = Answered
    BY <2>1 DEF Expected, Answered
  <2>7. RepliesInv'
    <3>1. Expected + Len(m_buffer') = Expected + Len(m_buffer) + 1
      BY <1>0, <1>i, <2>4
    <3> QED BY <2>1, <2>3, <2>4, <2>5, <2>6, <3>1 DEF RepliesInv, Run, M
  <2>8. \A c \in Nat \ {0} : Whole(c) => Whole(c)'
    <3>1. Expected + Len(m_buffer') + Len(down')
            = Expected + Len(m_buffer) + Len(down)
      <4>1. Len(down') = Len(down) - 1
        BY <2>1, <2>3
      <4> QED BY <1>i, <2>4, <4>1
    <3> QED BY <2>1, <2>6, <3>1 DEF Whole, Run
  <2> QED BY <2>1, <2>7, <2>8 DEF LinkInv, CompletedInv, Open
<1>6. CASE ClientDealBuffer
  <2>1. /\ M \in 0 .. Len(m_buffer)
        /\ delivered' = Append(delivered, Head(m_buffer).cmd)
        /\ m_buffer' = Dropped(m_buffer, M)
        /\ UNCHANGED <<link, up, down, mainVars, workerVars>>
    BY <1>0, <1>6 DEF ClientDealBuffer, Complete, M
  <2>2. /\ Run(down, M, Expected + Len(m_buffer)) /\ Run(m_buffer, M, Expected)
        /\ \A i \in DOMAIN m_buffer : m_buffer[i].cmd <= Len(completed)
        /\ \A i \in DOMAIN down : down[i].cmd <= Len(completed)
    BY DEF RepliesInv, LinkInv, M
  <2>3. Expected' = Expected + M
    <3>1. Len(delivered') = Len(delivered) + 1
      BY <2>1 DEF TypeOK
    <3>2. Pos(M, d + 1, 0) = Pos(M, d, 0) + M
      BY <1>0, PosCount
    <3> QED BY <3>1, <3>2 DEF Expected, d, M
  <2>4. /\ Len(m_buffer') = Len(m_buffer) - M
        /\ Run(m_buffer', M, Expected + M)
    BY <1>0, <1>i, <2>1, <2>2, DroppedType, RunDropped
  <2>5. \A i \in DOMAIN m_buffer' : m_buffer'[i].cmd <= Len(completed)
    <3>1. \A i \in DOMAIN m_buffer' :
             i + M \in DOMAIN m_buffer /\ m_buffer'[i] = m_buffer[i + M]
      <4>1. /\ DOMAIN m_buffer' = 1 .. Len(m_buffer) - M
            /\ \A i \in 1 .. Len(m_buffer) - M : m_buffer'[i] = m_buffer[i + M]
            /\ DOMAIN m_buffer = 1 .. Len(m_buffer)
        BY <1>0, <2>1, DroppedElements
      <4>2. \A i \in 1 .. Len(m_buffer) - M : i + M \in 1 .. Len(m_buffer)
        BY <1>i
      <4> QED BY <4>1, <4>2, Zenon
    <3> QED BY <2>2, <3>1, Zenon
  <2>6. RepliesInv'
    <3>1. Expected + M + Len(m_buffer') = Expected + Len(m_buffer)
      BY <1>0, <1>i, <2>4
    <3> QED BY <2>1, <2>2, <2>3, <2>4, <2>5, <3>1 DEF RepliesInv, Run, M
  <2>7. \A c \in Nat \ {0} : Whole(c) => Whole(c)'
    <3>1. Expected' + Len(m_buffer') + Len(down')
            = Expected + Len(m_buffer) + Len(down)
      <4>1. Len(down') = Len(down)
        BY <2>1
      <4> QED BY <1>i, <2>3, <2>4, <4>1
    <3>2. Answered' = Answered
      BY <2>1 DEF Answered
    <3> QED BY <2>1, <3>1, <3>2 DEF Whole, Run
  <2> QED BY <2>1, <2>6, <2>7 DEF LinkInv, CompletedInv, Open
<1>7. CASE Recv
  <2> DEFINE e == Head(up)
  <2>1. /\ up # <<>> /\ m_in_buf' = Append(m_in_buf, e) /\ up' = Tail(up)
        /\ UNCHANGED <<link, down, mainVars, detectVars, pc, replied>>
    BY <1>7 DEF Recv
  <2>2. UNCHANGED <<Expected, Answered>>
    BY <2>1 DEF Expected, Answered
  <2>3. CompletedInv' /\ RepliesInv'
    BY <2>1, <2>2 DEF LinkInv, CompletedInv, RepliesInv, Run
  <2>4. ASSUME NEW c \in Nat \ {0}, Whole(c)
        PROVE  Whole(c)'
    <3> DEFINE k == Pos(N, c, 0)
    <3>1. /\ Run(m_in_buf, N, k) /\ Run(up, N, k + Len(m_in_buf))
          /\ k + Len(m_in_buf) + Len(up) = Pos(N, called, done)
          /\ k \in Int /\ k + Len(m_in_buf) \in Int
      <4>1. k \in Int
        BY <1>p
      <4>2. k + Len(m_in_buf) \in Int
        BY <1>i, <4>1
      <4> QED BY <2>4, <4>1, <4>2 DEF Whole, N
    <3> HIDE DEF k
    <3>2. /\ e \in Up /\ Tail(up) \in Seq(Up) /\ Len(Tail(up)) = Len(up) - 1
          /\ Pos(N, e.cmd, e.part) = k + Len(m_in_buf) + 1
          /\ Run(up', N, k + Len(m_in_buf) + 1)
      BY <1>0, <2>1, <3>1, RunTail, HeadTailType
    <3> HIDE DEF e
    <3>3. Run(m_in_buf', N, k) /\ Len(m_in_buf') = Len(m_in_buf) + 1
      BY <1>0, <2>1, <3>1, <3>2, RunAppend
    <3>4. /\ k + Len(m_in_buf') = k + Len(m_in_buf) + 1
          /\ k + Len(m_in_buf') + Len(up') = Pos(N, called, done)
      BY <1>0, <2>1, <3>1, <3>2, <3>3
    <3> QED BY <2>1, <2>2, <2>4, <3>2, <3>3, <3>4 DEF Whole, Run, N, k
  <2> QED BY <2>1, <2>3, <2>4 DEF LinkInv, Open
<1>8. CASE SendReply
  <2> DEFINE e == [cmd |-> Head(m_in_buf).cmd, part |-> replied + 1]
  <2>1. /\ pc = "send" /\ Open /\ replied' = replied + 1
        /\ down' = Append(down, e) /\ replied < M /\ N \in 0 .. Len(m_in_buf)
        /\ \/ /\ replied + 1 = M
              /\ pc' = "parse" /\ m_in_buf' = Dropped(m_in_buf, N)
           \/ replied + 1 # M /\ UNCHANGED <<pc, m_in_buf>>
        /\ UNCHANGED <<link, up, mainVars, detectVars>>
    BY <1>0, <1>8 DEF SendReply, InSend, N, M
  <2>2. PICK c \in Nat \ {0} : Whole(c)
    BY <2>1 DEF LinkInv
  <2>3. Head(m_in_buf).cmd = c /\ c <= Len(completed)
    BY <1>0, <2>1, <2>2, FrontCompleted DEF LinkInv, N
  <2>4. /\ Pos(M, c, replied) = Expected + Len(m_buffer) + Len(down)
        /\ Pos(M, c, replied + 1) = Pos(M, c, replied) + 1
        /\ Pos(M, c + 1, 0) = Pos(M, c, M)
        /\ Pos(M, c, replied) \in Int
    BY <1>0, <2>1, <2>2, PosCount DEF Whole, Answered, M
  <2>5. e \in Down /\ e.cmd = c /\ e.part = replied + 1
    <3>1. Head(m_in_buf) \in Up
      BY <1>0, <2>1, HeadTailType
    <3>2. Head(m_in_buf).cmd \in Command
      BY <3>1 DEF Up, Parts
    <3>3. replied + 1 \in 1 .. M
      BY <1>0, <2>1
    <3> QED BY <2>3, <3>2, <3>3 DEF Down, Parts
  <2>6. /\ Pos(M, e.cmd, e.part) = Expected + Len(m_buffer) + Len(down) + 1
        /\ Expected + Len(m_buffer) \in Int
    <3>1. Expected + Len(m_buffer) \in Int
      BY <1>i
    <3>2. Pos(M, e.cmd, e.part) = Pos(M, c, replied + 1)
      BY <2>5
    <3> QED BY <2>4, <3>1, <3>2
  <2> HIDE DEF e
  <2>7. /\ Run(down', M, Expected + Len(m_buffer))
        /\ Len(down') = Len(down) + 1
    <3>1. Run(down, M, Expected + Len(m_buffer))
      BY DEF LinkInv, RepliesInv, M
    <3> QED BY <1>0, <2>1, <2>5, <2>6, <3>1, RunAppend
  <2>8. \A i \in DOMAIN down' : down'[i].cmd <= Len(completed)
    <3>1. /\ DOMAIN down' = 1 .. Len(down) + 1
          /\ down'[Len(down) + 1] = e
          /\ \A i \in 1 .. Len(down) : down'[i] = down[i]
          /\ DOMAIN down = 1 .. Len(down)
      BY <1>0, <2>1, <2>5
    <3>2. \A i \in DOMAIN down : down[i].cmd <= Len(completed)
      BY DEF RepliesInv, LinkInv
    <3> QED BY <1>0, <2>3, <2>5, <3>1, <3>2
  <2>9. UNCHANGED <<Expected, m_buffer, completed>>
    BY <2>1 DEF Expected
  <2>10. CompletedInv' /\ RepliesInv'
    BY <2>1, <2>7, <2>8, <2>9 DEF CompletedInv, RepliesInv, LinkInv, Run, M
  <2>11. CASE replied + 1 = M
    <3> DEFINE k == Pos(N, c, 0)
    <3>1. /\ Run(m_in_buf, N, k) /\ Run(up, N, k + Len(m_in_buf))
          /\ k + Len(m_in_buf) + Len(up) = Pos(N, called, done)
          /\ k \in Int
      BY <1>p, <2>2 DEF Whole, N
    <3>2. Pos(N, c + 1, 0) = k + N
      BY <1>0, PosCount
    <3> HIDE DEF k
    <3>3. /\ pc' = "parse" /\ m_in_buf' = Dropped(m_in_buf, N)
      BY <2>1, <2>11
    <3>4. /\ Len(m_in_buf') = Len(m_in_buf) - N /\ Run(m_in_buf', N, k + N)
      BY <1>0, <2>1, <3>1, <3>3, DroppedType, RunDropped
    <3>5. k + N + Len(m_in_buf') = k + Len(m_in_buf)
      BY <1>0, <3>1, <3>4
    <3>6. Answered' = 0
      BY <3>3 DEF Answered
    <3>7. Pos(M, c + 1, 0) = Expected + Len(m_buffer) + Len(down')
      <4>1. Pos(M, c, M) = Pos(M, c, replied) + 1
        BY <2>4, <2>11
      <4> QED BY <1>i, <2>4, <2>7, <4>1
    <3>8. Whole(c + 1)'
      BY <2>1, <2>9, <3>1, <3>2, <3>4, <3>5, <3>6, <3>7 DEF Whole, Run, N, M
    <3>9. c + 1 \in Nat \ {0}
      OBVIOUS
    <3> QED BY <2>10, <3>8, <3>9 DEF LinkInv
  <2>12. CASE replied + 1 # M
    <3>1. UNCHANGED <<pc, m_in_buf>> /\ Answered' = replied + 1
      BY <2>1, <2>12 DEF Answered
    <3>2. Pos(M, c, replied + 1) = Expected + Len(m_buffer) + Len(down')
      BY <1>0, <1>i, <2>4, <2>7
    <3>3. Whole(c)'
      BY <2>1, <2>2, <2>9, <3>1, <3>2 DEF Whole, Run, M
    <3> QED BY <2>10, <3>3 DEF LinkInv
  <2> QED BY <2>11, <2>12
<1>9. CASE SendReplyError
  <2>1. /\ UNCHANGED <<link, down, mainVars, detectVars>> /\ ~Open'
    BY <1>9 DEF SendReplyError, Open
  <2> QED BY <2>1 DEF LinkInv, CompletedInv, RepliesInv, Expected, Run
<1>10. CASE DealBuffer
  BY <1>1, <1>10 DEF DealBuffer, Answered
<1>11. CASE ClientOnRead \/ ClientRecvError \/ ClientEndOnRead
  BY <1>1, <1>11 DEF ClientOnRead, ClientRecvError, ClientEndOnRead, Answered
<1>12. CASE OnRead \/ RecvError \/ EndOnRead
  BY <1>1, <1>12 DEF OnRead, RecvError, EndOnRead, Answered
<1>13. CASE End
  <2>1. /\ UNCHANGED <<up, down, mainVars, detectVars, workerVars>>
        /\ Open
    BY <1>13 DEF End, Open
  <2>2. UNCHANGED <<Expected, Answered>>
    BY <2>1 DEF Expected, Answered
  <2>3. \A c \in Nat \ {0} : Whole(c) => Whole(c)'
    BY <2>1, <2>2 DEF Whole, Run
  <2> QED BY <2>1, <2>2, <2>3 DEF LinkInv, CompletedInv, RepliesInv, Run
<1>14. CASE RecvEndOfStream \/ UNCHANGED vars
  BY <1>1, <1>14 DEF RecvEndOfStream, vars, Answered
<1> QED BY <1>2, <1>3, <1>4, <1>5, <1>6, <1>7, <1>8, <1>9, <1>10, <1>11,
           <1>12, <1>13, <1>14 DEF Next, Main, Detect, Worker

LEMMA LinkAlways == Spec => []LinkInv
<1>1. Init => LinkInv
  <2> SUFFICES ASSUME Init
               PROVE  LinkInv
    OBVIOUS
  <2>1. /\ up = <<>> /\ down = <<>> /\ m_buffer = <<>> /\ m_in_buf = <<>>
        /\ completed = <<>> /\ delivered = <<>> /\ called = 0
        /\ done = RequestParts /\ pc = "select"
    BY DEF Init
  <2>2. /\ Pos(RequestParts, 1, 0) = Pos(RequestParts, 0, RequestParts)
        /\ Pos(RequestParts, 1, 0) \in Int /\ Pos(ReplyParts, 1, 0) \in Int
    <3>1. 0 + 1 = 1 /\ 0 \in Nat /\ 1 \in Nat
      OBVIOUS
    <3> QED BY <3>1, PosCount
  <2>3. Whole(1)
    BY <2>1, <2>2 DEF Whole, Run, Answered, Expected
  <2> QED BY <2>1, <2>3 DEF LinkInv, CompletedInv, RepliesInv, Run
<1> QED BY <1>1, TypeAlways, LinkStep, PTL DEF Spec

\* Client and server together are a message channel: a request sent in full
\* comes back as one reply at most, whole and in the order of sending, through
\* two framings, two buffers of any size and a connection that may be reset.
THEOREM LinkIsChannel == Spec => EchoSpec
<1>1. Init => Channel!Init
  BY DEF Init, Channel!Init
<1>2. TypeOK /\ InSend /\ LinkInv /\ [Next]_vars
        => [Channel!Next]_(Channel!vars)
  <2> SUFFICES ASSUME TypeOK, InSend, LinkInv, [Next]_vars
               PROVE  [Channel!Next]_(Channel!vars)
    OBVIOUS
  <2>1. CASE SendPart
    <3>1. CASE completed' = completed
      BY <2>1, <3>1 DEF SendPart, detectVars, Channel!vars
    <3>2. CASE completed' = Append(completed, called)
      <4>1. completed \in Seq(Command) /\ called \in Command
        BY <2>1 DEF SendPart, TypeOK, InSend
      <4>2. completed' # <<>> /\ completed'[Len(completed')] = called
        BY <3>2, <4>1
      <4>3. UNCHANGED delivered
        BY <2>1 DEF SendPart, detectVars
      <4> QED BY <3>2, <4>1, <4>2, <4>3 DEF Channel!Next, Channel!Send
    <3> QED BY <2>1, <3>1, <3>2 DEF SendPart
  <2>2. CASE ClientDealBuffer
    <3>0. /\ ReplyParts \in Nat \ {0} /\ m_buffer \in Seq(Parts(ReplyParts))
          /\ m_buffer # <<>> /\ Len(delivered) + 1 \in Nat
          /\ delivered' = Append(delivered, Head(m_buffer).cmd)
          /\ UNCHANGED completed
      BY <2>2 DEF TypeOK, ClientDealBuffer, Complete, mainVars
    <3>1. Head(m_buffer).cmd = Len(delivered) + 1
      BY <3>0, RunHead DEF LinkInv, RepliesInv, Expected
    <3>2. Len(delivered) + 1 \in DOMAIN completed
      <4>1. Head(m_buffer) = m_buffer[1] /\ 1 \in DOMAIN m_buffer
        BY <3>0, HeadTailType
      <4>2. Len(delivered) + 1 <= Len(completed)
        BY <3>1, <4>1 DEF LinkInv, RepliesInv
      <4> QED BY <4>2 DEF TypeOK
    <3>3. completed[Len(delivered) + 1] = Len(delivered) + 1
      BY <3>2 DEF LinkInv, CompletedInv
    <3>4. Len(delivered) < Len(completed)
      BY <3>2 DEF TypeOK
    <3> QED BY <3>0, <3>1, <3>3, <3>4 DEF Channel!Next, Channel!Deliver
  <2>3. CASE ~SendPart /\ ~ClientDealBuffer
    BY <2>3 DEF Next, Main, Detect, Worker, Reset, End, CallSend, ClientOnRead,
       ClientRecv, ClientRecvError, ClientEndOnRead, OnRead, Recv, RecvError,
       RecvEndOfStream, DealBuffer, SendReply, SendReplyError, EndOnRead, vars, mainVars,
       detectVars, workerVars, Channel!vars
  <2> QED BY <2>1, <2>2, <2>3
<1> QED BY <1>1, <1>2, TypeAlways, LinkAlways, PTL
        DEF Spec, EchoSpec, Channel!Spec
=============================================================================
