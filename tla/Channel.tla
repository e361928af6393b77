------------------------------- MODULE Channel -------------------------------
(***************************************************************************)
(* What a TCP connection with its two message systems promises: messages   *)
(* are delivered in the order they were sent, each once, until the         *)
(* connection is lost.  What was sent and not delivered by then never is.  *)
(***************************************************************************)
EXTENDS Naturals, Sequences

CONSTANT Messages

VARIABLES
  sent,       \* the messages the sender gave, in order
  delivered,  \* the messages the receiver got, in order
  lost        \* the receiver has given the connection up

vars == <<sent, delivered, lost>>

Init == sent = <<>> /\ delivered = <<>> /\ lost = FALSE

Send(m) ==
  /\ sent' = Append(sent, m)
  /\ UNCHANGED <<delivered, lost>>

Deliver ==
  /\ ~lost /\ Len(delivered) < Len(sent)
  /\ delivered' = Append(delivered, sent[Len(delivered) + 1])
  /\ UNCHANGED <<sent, lost>>

Lose ==
  /\ ~lost /\ lost' = TRUE
  /\ UNCHANGED <<sent, delivered>>

Next == Deliver \/ Lose \/ \E m \in Messages : Send(m)

Spec == Init /\ [][Next]_vars
=============================================================================
