----------------------------- MODULE EchoService -----------------------------
(***************************************************************************)
(* What the Version 2 server promises its clients, without threads,        *)
(* objects, maps and handles: a connection is taken on at most once, each  *)
(* of its requests is answered at most once and only while both ends are   *)
(* there, it is given up only after its client has hung up, and nothing    *)
(* done for one connection touches another.                                *)
(***************************************************************************)
EXTENDS Naturals

CONSTANT Conns

VARIABLES
  client,  \* the client's end: "idle", "up", or how it hung up
  sent,    \* requests the client has sent
  replies, \* replies that reached it
  stage    \* the server's side: "new", "held" or "released"

vars == <<client, sent, replies, stage>>

Init ==
  /\ client = [c \in Conns |-> "idle"]
  /\ sent = [c \in Conns |-> 0]
  /\ replies = [c \in Conns |-> 0]
  /\ stage = [c \in Conns |-> "new"]

Connect(c) ==
  /\ client[c] = "idle"
  /\ client' = [client EXCEPT ![c] = "up"]
  /\ UNCHANGED <<sent, replies, stage>>

Request(c) ==
  /\ client[c] = "up"
  /\ sent' = [sent EXCEPT ![c] = @ + 1]
  /\ UNCHANGED <<client, replies, stage>>

HangUp(c) ==
  /\ client[c] = "up"
  /\ \E kind \in {"fin", "rst"} : client' = [client EXCEPT ![c] = kind]
  /\ UNCHANGED <<sent, replies, stage>>

\* The server takes a connection on, even if the client has gone by then.
TakeOn(c) ==
  /\ client[c] # "idle" /\ stage[c] = "new"
  /\ stage' = [stage EXCEPT ![c] = "held"]
  /\ UNCHANGED <<client, sent, replies>>

Reply(c) ==
  /\ client[c] = "up" /\ stage[c] = "held"
  /\ replies[c] < sent[c]
  /\ replies' = [replies EXCEPT ![c] = @ + 1]
  /\ UNCHANGED <<client, sent, stage>>

Release(c) ==
  /\ client[c] \in {"fin", "rst"} /\ stage[c] = "held"
  /\ stage' = [stage EXCEPT ![c] = "released"]
  /\ UNCHANGED <<client, sent, replies>>

Next ==
  \E c \in Conns :
    Connect(c) \/ Request(c) \/ HangUp(c) \/ TakeOn(c) \/ Reply(c) \/ Release(c)

Spec == Init /\ [][Next]_vars
=============================================================================
