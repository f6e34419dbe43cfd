------------------------------ MODULE FeedProofs ------------------------------
(***************************************************************************)
(* What every implementation of Feed inherits from it: the order of the    *)
(* data and the bound on those that wait.                                  *)
(***************************************************************************)
EXTENDS Feed, TLAPS

\* The order, with the types its proof needs.
OrderInv ==
  /\ produced \in Nat
  /\ waiting \in Seq(Nat) /\ consumed \in Seq(Nat)
  /\ InOrder

\* A datum younger than all others may come last.
LEMMA IncreasingAppend ==
  ASSUME NEW data \in Seq(Nat), NEW datum \in Nat, Increasing(data),
         \A i \in 1..Len(data) : data[i] < datum
  PROVE  Increasing(Append(data, datum))
  BY DEF Increasing

\* The oldest may go.
LEMMA IncreasingTail ==
  ASSUME NEW data \in Seq(Nat), data # <<>>, Increasing(data)
  PROVE  Increasing(Tail(data))
  BY DEF Increasing

\* A datum that arrives joins the end of what waits, the oldest of which it
\* may replace.
LEMMA KeepStep == Capacity \in Nat \ {0} /\ OrderInv /\ Keep => OrderInv'
<1> SUFFICES ASSUME Capacity \in Nat \ {0}, OrderInv, Keep PROVE OrderInv'
  OBVIOUS
<1>1. /\ produced \in Nat /\ produced' = produced + 1
      /\ waiting \in Seq(Nat) /\ consumed \in Seq(Nat)
      /\ UNCHANGED consumed
  BY DEF OrderInv, Keep
<1> DEFINE kept == IF Len(waiting) < Capacity THEN waiting ELSE Tail(waiting)
<1>2. /\ kept \in Seq(Nat) /\ Len(kept) < Capacity
      /\ Increasing(kept)
      /\ \A j \in 1..Len(kept) : kept[j] \in 1..produced
      /\ \A i \in 1..Len(consumed), j \in 1..Len(kept) : consumed[i] < kept[j]
      /\ waiting' = Append(kept, produced')
  <2>1. CASE Len(waiting) < Capacity
    BY <1>1, <2>1 DEF Keep, OrderInv, InOrder
  <2>2. CASE ~(Len(waiting) < Capacity)
    <3>1. waiting # <<>> /\ Len(waiting) = Capacity
      BY <1>1, <2>2 DEF OrderInv, InOrder
    <3>2. /\ Tail(waiting) \in Seq(Nat) /\ Len(Tail(waiting)) = Capacity - 1
          /\ \A j \in 1..Len(Tail(waiting)) :
               j + 1 \in 1..Len(waiting) /\ Tail(waiting)[j] = waiting[j + 1]
      BY <1>1, <3>1
    <3>3. Increasing(Tail(waiting))
      BY <1>1, <3>1, IncreasingTail DEF OrderInv, InOrder
    <3>4. kept = Tail(waiting) /\ waiting' = Append(Tail(waiting), produced')
      BY <2>2 DEF Keep
    <3> QED BY <1>1, <3>2, <3>3, <3>4 DEF OrderInv, InOrder
  <2> QED BY <2>1, <2>2
<1> HIDE DEF kept
<1>3. produced' \in Nat /\ waiting' \in Seq(Nat) /\ Len(waiting') <= Capacity
  BY <1>1, <1>2
<1>4. Increasing(waiting')
  <2>1. \A j \in 1..Len(kept) : kept[j] < produced'
    BY <1>1, <1>2
  <2> QED BY <1>2, <1>3, <2>1, IncreasingAppend
<1> QED BY <1>1, <1>2, <1>3, <1>4 DEF OrderInv, InOrder

\* The consumer takes the oldest datum that waits.
LEMMA TakeStep == Capacity \in Nat /\ OrderInv /\ Take => OrderInv'
<1> SUFFICES ASSUME Capacity \in Nat, OrderInv, Take PROVE OrderInv'
  OBVIOUS
<1>1. /\ produced \in Nat /\ UNCHANGED produced
      /\ waiting \in Seq(Nat) /\ consumed \in Seq(Nat) /\ waiting # <<>>
      /\ consumed' = Append(consumed, Head(waiting))
      /\ waiting' = Tail(waiting)
  BY DEF OrderInv, Take
<1>2. Head(waiting) \in Nat /\ Head(waiting) = waiting[1] /\ 1 \in 1..Len(waiting)
  BY <1>1
<1>3. /\ Tail(waiting) \in Seq(Nat) /\ Len(Tail(waiting)) = Len(waiting) - 1
      /\ \A j \in 1..Len(Tail(waiting)) :
           j + 1 \in 1..Len(waiting) /\ Tail(waiting)[j] = waiting[j + 1]
  BY <1>1
<1>4. Increasing(consumed') /\ consumed' \in Seq(Nat)
  <2>1. \A i \in 1..Len(consumed) : consumed[i] < Head(waiting)
    BY <1>1, <1>2 DEF OrderInv, InOrder
  <2>2. Increasing(consumed)
    BY DEF OrderInv, InOrder
  <2> QED BY <1>1, <1>2, <2>1, <2>2, IncreasingAppend
<1>5. Increasing(waiting')
  BY <1>1, IncreasingTail DEF OrderInv, InOrder
<1>6. /\ \A j \in 1..Len(waiting') : Head(waiting) < waiting'[j]
      /\ \A j \in 1..Len(waiting') : waiting'[j] \in 1..produced
      /\ \A i \in 1..Len(consumed), j \in 1..Len(waiting') :
           consumed[i] < waiting'[j]
      /\ Len(waiting') <= Capacity
  BY <1>1, <1>2, <1>3 DEF OrderInv, InOrder, Increasing
<1> QED BY <1>1, <1>2, <1>3, <1>4, <1>5, <1>6 DEF OrderInv, InOrder

\* With room for a datum, the consumer sees the data in order and each once,
\* however the feed is interleaved with its own takes.
THEOREM AlwaysInOrder ==
  ASSUME Capacity \in Nat \ {0}
  PROVE  Spec => []InOrder
<1>1. Init => OrderInv
  BY DEF Init, OrderInv, InOrder, Increasing
<1>2. OrderInv /\ [Next]_vars => OrderInv'
  <2> SUFFICES ASSUME OrderInv, [Next]_vars PROVE OrderInv'
    OBVIOUS
  <2>1. CASE Pass
    <3>1. /\ produced' = produced + 1 /\ waiting = <<>> /\ waiting' = <<>>
          /\ consumed' = Append(consumed, produced + 1)
          /\ produced \in Nat /\ consumed \in Seq(Nat)
      BY <2>1 DEF Pass, OrderInv
    <3>2. Increasing(consumed')
      BY <3>1, IncreasingAppend DEF OrderInv, InOrder
    <3> QED BY <3>1, <3>2 DEF OrderInv, InOrder
  <2>2. CASE Keep
    BY <2>2, KeepStep
  <2>3. CASE Skip
    BY <2>3 DEF Skip, OrderInv, InOrder
  <2>4. CASE Take
    BY <2>4, TakeStep
  <2>5. CASE UNCHANGED vars
    BY <2>5 DEF vars, OrderInv, InOrder
  <2> QED BY <2>1, <2>2, <2>3, <2>4, <2>5 DEF Next
<1>3. OrderInv => InOrder
  BY DEF OrderInv
<1> QED BY <1>1, <1>2, <1>3, PTL DEF Spec
=============================================================================
