---------------------------------- MODULE Feed ----------------------------------
(***************************************************************************)
(* What a subscription promises about the data it receives, with no word   *)
(* about sockets and reconnection: the consumer gets the data in the order *)
(* of their arrival, none of them twice, at most Capacity of them wait for *)
(* it, and a datum is only lost while the consumer has paused or because   *)
(* younger ones need its place.                                            *)
(***************************************************************************)
EXTENDS Integers, Sequences

CONSTANT Capacity  \* at least 1

VARIABLES
  produced,  \* how many data have arrived; a datum is its number
  waiting,   \* the data the consumer has not taken yet, oldest first
  consumed   \* the data it has taken

vars == <<produced, waiting, consumed>>

Init == produced = 0 /\ waiting = <<>> /\ consumed = <<>>

\* A datum arrives and the consumer takes it at once: no older one waits.
Pass ==
  /\ waiting = <<>>
  /\ produced' = produced + 1
  /\ consumed' = Append(consumed, produced')
  /\ UNCHANGED waiting

\* A datum arrives and waits, at the cost of the oldest when there is no room.
Keep ==
  /\ produced' = produced + 1
  /\ waiting' = IF Len(waiting) < Capacity
                THEN Append(waiting, produced')
                ELSE Append(Tail(waiting), produced')
  /\ UNCHANGED consumed

\* A datum arrives while the consumer does not want any.
Skip ==
  /\ produced' = produced + 1
  /\ UNCHANGED <<waiting, consumed>>

Take ==
  /\ waiting # <<>>
  /\ waiting' = Tail(waiting)
  /\ consumed' = Append(consumed, Head(waiting))
  /\ UNCHANGED produced

Next == Pass \/ Keep \/ Skip \/ Take

Spec == Init /\ [][Next]_vars

-----------------------------------------------------------------------------
(* What follows from it *)

Increasing(data) ==
  \A i, j \in 1..Len(data) : i < j => data[i] < data[j]

\* The consumer is never given a datum twice or an older one after a younger,
\* whatever was skipped or gave its place; nothing that waits is older than
\* what it was given, nothing is made up, and no more than Capacity waits.
InOrder ==
  /\ Increasing(consumed) /\ Increasing(waiting)
  /\ \A i \in 1..Len(consumed), j \in 1..Len(waiting) :
       consumed[i] < waiting[j]
  /\ \A i \in 1..Len(consumed) : consumed[i] \in 1..produced
  /\ \A j \in 1..Len(waiting) : waiting[j] \in 1..produced
  /\ Len(waiting) <= Capacity
=============================================================================
