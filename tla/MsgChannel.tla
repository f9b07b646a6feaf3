----------------------------- MODULE MsgChannel -----------------------------
(***************************************************************************)
(* What the receiving half of a connection promises: every message that    *)
(* was completely sent is handed to the application at most once, whole,   *)
(* in the order of sending, however the byte stream is cut into pieces.    *)
(***************************************************************************)
EXTENDS Naturals, Sequences

CONSTANT Message

VARIABLES
  sent,      \* the messages sent completely, in order
  delivered  \* the messages handed to the application, in order

vars == <<sent, delivered>>

Init == sent = <<>> /\ delivered = <<>>

\* One more message is sent completely.
Send ==
  /\ sent' # <<>>
  /\ LET m == sent'[Len(sent')] IN m \in Message /\ sent' = Append(sent, m)
  /\ UNCHANGED delivered

\* The oldest message not yet delivered is.
Deliver ==
  /\ Len(delivered) < Len(sent)
  /\ delivered' = Append(delivered, sent[Len(delivered) + 1])
  /\ UNCHANGED sent

Next == Send \/ Deliver

Spec == Init /\ [][Next]_vars
=============================================================================
