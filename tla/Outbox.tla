-------------------------------- MODULE Outbox --------------------------------
(***************************************************************************)
(* What ReconnectingWebSocketTransport promises about the messages that    *)
(* send() accepted, with no word about sockets, timers or promises: they   *)
(* are transmitted in the order of acceptance and each at most once, and   *)
(* only the overflow behavior and close() ever lose one.                   *)
(***************************************************************************)
EXTENDS Integers, Sequences

CONSTANTS Msgs, MaxQueueSize, QueueFullBehavior

VARIABLES
  offered,  \* the messages accepted so far
  pending,  \* accepted and waiting, oldest first
  sent      \* transmitted, oldest first

vars == <<offered, pending, sent>>

Init == offered = {} /\ pending = <<>> /\ sent = <<>>

\* A message is transmitted at once, which only happens when none waits.
Transmit(m) ==
  /\ m \notin offered /\ pending = <<>>
  /\ offered' = offered \cup {m}
  /\ sent' = Append(sent, m)
  /\ UNCHANGED pending

\* A message waits, at the cost of the oldest one or of itself when full.
Hold(m) ==
  /\ m \notin offered
  /\ offered' = offered \cup {m}
  /\ \/ /\ Len(pending) < MaxQueueSize
        /\ pending' = Append(pending, m)
     \/ /\ Len(pending) >= MaxQueueSize /\ QueueFullBehavior = "drop-oldest"
        /\ pending' = Append(SubSeq(pending, 2, Len(pending)), m)
     \/ /\ Len(pending) >= MaxQueueSize /\ QueueFullBehavior = "drop-newest"
        /\ UNCHANGED pending
  /\ UNCHANGED sent

\* All that waits is transmitted.
Flush ==
  /\ sent' = sent \o pending
  /\ pending' = <<>>
  /\ UNCHANGED offered

\* close() drops what waits.
Discard ==
  /\ pending' = <<>>
  /\ UNCHANGED <<offered, sent>>

Next == (\E m \in Msgs : Transmit(m) \/ Hold(m)) \/ Flush \/ Discard

Spec == Init /\ [][Next]_vars
=============================================================================
