-------------------------- MODULE WsSubscriptionProofs --------------------------
(***************************************************************************)
(* Theorems about WsSubscription, for any buffer, number of attempts and   *)
(* amount of data: type correctness, that no next() is forgotten, that an  *)
(* active subscription is alive on one socket, and that the data reach the *)
(* consumer as Feed says.                                                  *)
(***************************************************************************)
EXTENDS WsSubscription, TLAPS

-----------------------------------------------------------------------------
(* Type correctness *)

\* A sequence grows and shrinks within its type.
LEMMA SeqType ==
  ASSUME NEW S, NEW q \in Seq(S)
  PROVE  /\ \A x \in S : Append(q, x) \in Seq(S)
         /\ q # <<>> => Head(q) \in S /\ Tail(q) \in Seq(S)
         /\ SubSeq(q, 2, Len(q)) \in Seq(S)
  OBVIOUS

\* A datum that arrives keeps the types of the buffer and of what was taken.
LEMMA DataType == TypeOK /\ Data => TypeOK'
<1> SUFFICES ASSUME TypeOK, Data PROVE TypeOK'
  OBVIOUS
<1>1. arrived' \in 1..MaxIn /\ arrived' \in 0..MaxIn
  BY OptionAssumption DEF Data, TypeOK
<1>2. buffer' \in Seq(1..MaxIn) /\ taken' \in Seq(1..MaxIn)
      /\ waiting' \in 0..MaxWaiting
  <2>1. buffer \in Seq(1..MaxIn) /\ taken \in Seq(1..MaxIn)
        /\ waiting \in 0..MaxWaiting
    BY DEF TypeOK
  <2>2. CASE UNCHANGED <<buffer, waiting, taken>>
    BY <2>1, <2>2
  <2>3. CASE waiting > 0 /\ HandleData(arrived')
    <3>1. waiting' = waiting - 1 /\ UNCHANGED buffer
          /\ taken' = Append(taken, arrived')
      BY <2>3 DEF HandleData
    <3>2. waiting' \in 0..MaxWaiting
      BY <2>1, <2>3, <3>1, OptionAssumption
    <3>3. Append(taken, arrived') \in Seq(1..MaxIn)
      BY <1>1, <2>1, SeqType
    <3> QED BY <2>1, <3>1, <3>2, <3>3
  <2>4. CASE ~(waiting > 0) /\ HandleData(arrived')
    <3>1. SubSeq(buffer, 2, Len(buffer)) \in Seq(1..MaxIn)
      BY <2>1, SeqType
    <3>2. /\ Append(buffer, arrived') \in Seq(1..MaxIn)
          /\ Append(SubSeq(buffer, 2, Len(buffer)), arrived') \in Seq(1..MaxIn)
      BY <1>1, <2>1, <3>1, SeqType
    <3> QED BY <2>1, <2>4, <3>2 DEF HandleData
  <2> QED BY <2>2, <2>3, <2>4 DEF Data
<1> QED BY <1>1, <1>2 DEF Data, TypeOK, connVars

\* Every step of the subscription, its sockets and its consumer keeps the
\* types.
LEMMA TypeStep == TypeOK /\ [Next]_vars => TypeOK'
<1> SUFFICES ASSUME TypeOK, [Next]_vars PROVE TypeOK'
  OBVIOUS
<1> USE DEF ReadyStates, ServerStates
<1>1. CASE Open
  BY <1>1 DEF Open, TypeOK, dataVars
<1>2. CASE ConnectionTimeout
  BY <1>2 DEF ConnectionTimeout, Reject, TypeOK, dataVars
<1>3. CASE Ack
  BY <1>3, OptionAssumption DEF Ack, Resolve, TypeOK, dataVars
<1>4. CASE Data
  BY <1>4, DataType
<1>5. CASE ErrorMessage
  BY <1>5, OptionAssumption DEF ErrorMessage, HandleError, Reject, TypeOK
<1>6. CASE ServerCloses
  BY <1>6 DEF ServerCloses, TypeOK, dataVars
<1>7. CASE CloseEvent
  <2>1. /\ caller' \in {"waits", "subscribed", "failed"}
        /\ active' \in {"no", "yes"}
        /\ waiting' \in 0..MaxWaiting
    BY <1>7, OptionAssumption
    DEF CloseEvent, TypeOK, HandleEnd, HandleError, Reject
  <2>2. timer' \in {"none", "pending"} /\ attempts' \in 0..MaxReconnectAttempts
    BY <1>7, OptionAssumption DEF CloseEvent, TypeOK, BackOff, Reconnects
  <2> QED BY <1>7, <2>1, <2>2 DEF CloseEvent, TypeOK
<1>8. CASE ReconnectTimer
  BY <1>8 DEF ReconnectTimer, TypeOK, dataVars
<1>9. CASE NextCall
  <2>1. buffer \in Seq(1..MaxIn) /\ taken \in Seq(1..MaxIn)
    BY DEF TypeOK
  <2>2. /\ buffer' \in Seq(1..MaxIn) /\ taken' \in Seq(1..MaxIn)
        /\ waiting' \in 0..MaxWaiting
    <3>1. CASE /\ buffer # <<>> /\ buffer' = Tail(buffer)
               /\ taken' = Append(taken, Head(buffer)) /\ UNCHANGED waiting
      <4>1. Head(buffer) \in 1..MaxIn /\ Tail(buffer) \in Seq(1..MaxIn)
        BY <2>1, <3>1, SeqType
      <4>2. Append(taken, Head(buffer)) \in Seq(1..MaxIn)
        BY <2>1, <4>1, SeqType
      <4> QED BY <3>1, <4>1, <4>2 DEF TypeOK
    <3>2. CASE /\ waiting < MaxWaiting /\ waiting' = waiting + 1
               /\ UNCHANGED <<buffer, taken>>
      BY <2>1, <3>2, OptionAssumption DEF TypeOK
    <3> QED BY <1>9, <3>1, <3>2 DEF NextCall
  <2> QED BY <1>9, <2>2 DEF NextCall, TypeOK, connVars
<1>10. CASE Pause \/ Resume
  BY <1>10 DEF Pause, Resume, TypeOK, connVars, dataVars
<1>11. CASE Unsubscribe
  BY <1>11, OptionAssumption DEF Unsubscribe, HandleEnd, TypeOK
<1>12. CASE UNCHANGED vars
  BY <1>12 DEF vars, TypeOK, connVars, dataVars
<1> QED BY <1>1, <1>2, <1>3, <1>4, <1>5, <1>6, <1>7, <1>8, <1>9, <1>10, <1>11,
           <1>12 DEF Next

\* Whatever the server, the network and the consumer do, every field of the
\* subscription keeps its type, and the attempts their maximum.
THEOREM TypeCorrect == Spec => []TypeOK
<1>1. Init => TypeOK
  BY OptionAssumption DEF Init, TypeOK, ReadyStates, ServerStates
<1> QED BY <1>1, TypeStep, PTL DEF Spec

-----------------------------------------------------------------------------
(* The consumer and the connection *)

\* No next() waits on a subscription that is over, nor for a datum that is
\* buffered: whoever ends the subscription or brings a datum serves it.
THEOREM NobodyForgotten == Spec => []NoForgottenNext
<1>1. Init => NoForgottenNext
  BY DEF Init, NoForgottenNext
<1>2. TypeOK /\ NoForgottenNext /\ [Next]_vars => NoForgottenNext'
  <2> SUFFICES ASSUME TypeOK, NoForgottenNext, [Next]_vars
               PROVE  NoForgottenNext'
    OBVIOUS
  <2> USE DEF NoForgottenNext
  <2>1. CASE Open \/ ConnectionTimeout \/ ServerCloses \/ ReconnectTimer
             \/ Pause \/ Resume \/ UNCHANGED vars
    BY <2>1 DEF Open, ConnectionTimeout, ServerCloses, ReconnectTimer, Pause,
                Resume, vars, dataVars
  <2>2. CASE Ack
    BY <2>2 DEF Ack, dataVars
  <2>3. CASE Data
    BY <2>3 DEF Data, HandleData, TypeOK
  <2>4. CASE ErrorMessage
    BY <2>4 DEF ErrorMessage, HandleError
  <2>5. CASE CloseEvent
    BY <2>5 DEF CloseEvent, HandleEnd, HandleError, TypeOK
  <2>6. CASE NextCall
    BY <2>6 DEF NextCall
  <2>7. CASE Unsubscribe
    BY <2>7 DEF Unsubscribe, HandleEnd
  <2> QED BY <2>1, <2>2, <2>3, <2>4, <2>5, <2>6, <2>7 DEF Next
<1> QED BY <1>1, <1>2, TypeCorrect, PTL DEF Spec

\* Both facts about the connection: neither is kept without the other, as a
\* timer that fired over a living socket would leave that socket's close event
\* to strike an active subscription whose timer is gone.
ConnectionInv == ActiveIsAlive /\ OneSocket

\* No step leaves an active subscription without socket and timer, or arms
\* the timer over a living socket.
LEMMA ConnectionStep ==
  ASSUME TypeOK, ConnectionInv, [Next]_vars
  PROVE  ConnectionInv'
<1> USE DEF ConnectionInv, ActiveIsAlive, OneSocket
<1>1. CASE Open \/ ConnectionTimeout \/ Ack \/ ServerCloses
  BY <1>1 DEF Open, ConnectionTimeout, Ack, ServerCloses
<1>2. CASE Data \/ ErrorMessage \/ NextCall \/ Pause \/ Resume
  BY <1>2 DEF Data, ErrorMessage, NextCall, Pause, Resume, connVars
<1>3. CASE CloseEvent
  BY <1>3 DEF CloseEvent, BackOff, HandleEnd
<1>4. CASE ReconnectTimer
  BY <1>4 DEF ReconnectTimer
<1>5. CASE Unsubscribe
  BY <1>5 DEF Unsubscribe, HandleEnd
<1>6. CASE UNCHANGED vars
  BY <1>6 DEF vars, connVars
<1> QED BY <1>1, <1>2, <1>3, <1>4, <1>5, <1>6 DEF Next

\* It holds at the start, and so always.
LEMMA ConnectionAlways == Spec => []ConnectionInv
<1>1. Init => ConnectionInv
  BY DEF Init, ConnectionInv, ActiveIsAlive, OneSocket
<1>2. TypeOK /\ ConnectionInv /\ [Next]_vars => ConnectionInv'
  BY ConnectionStep
<1> QED BY <1>1, <1>2, TypeCorrect, PTL DEF Spec

\* An active subscription always has a socket that can bring data or its end,
\* or a timer that makes one.
THEOREM AlwaysAlive == Spec => []ActiveIsAlive
<1>1. ConnectionInv => ActiveIsAlive
  BY DEF ConnectionInv
<1> QED BY <1>1, ConnectionAlways, PTL

\* A reconnection never replaces a socket that is still alive.
THEOREM NeverTwoSockets == Spec => []OneSocket
<1>1. ConnectionInv => OneSocket
  BY DEF ConnectionInv
<1> QED BY <1>1, ConnectionAlways, PTL

-----------------------------------------------------------------------------
(* The data *)

\* A step of the subscription is a step of the feed or leaves it alone.
LEMMA FeedStep ==
  ASSUME BufferSize > 0, TypeOK, NoForgottenNext, [Next]_vars
  PROVE  [Source!Next]_(Source!vars)
<1>1. ASSUME UNCHANGED <<buffer, arrived, taken>>
      PROVE  [Source!Next]_(Source!vars)
  BY <1>1 DEF Source!vars
<1>2. CASE Data
  <2>1. arrived' = arrived + 1
    BY <1>2 DEF Data
  <2>2. CASE UNCHANGED <<buffer, taken>>
    BY <2>1, <2>2 DEF Source!Skip, Source!Next
  <2>3. CASE waiting > 0 /\ HandleData(arrived')
    <3>1. buffer = <<>>
      BY <2>3 DEF NoForgottenNext
    <3> QED BY <2>1, <2>3, <3>1 DEF HandleData, Source!Pass, Source!Next
  <2>4. CASE ~(waiting > 0) /\ HandleData(arrived')
    <3>1. Len(buffer) >= BufferSize => SubSeq(buffer, 2, Len(buffer)) = Tail(buffer)
      BY OptionAssumption DEF TypeOK
    <3>2. buffer' = IF Len(buffer) < BufferSize
                    THEN Append(buffer, arrived')
                    ELSE Append(Tail(buffer), arrived')
      BY <2>4, <3>1, OptionAssumption DEF HandleData, TypeOK
    <3> QED BY <2>1, <2>4, <3>2 DEF HandleData, Source!Keep, Source!Next
  <2> QED BY <1>2, <2>2, <2>3, <2>4 DEF Data
<1>3. CASE NextCall
  <2>1. CASE UNCHANGED <<buffer, taken>>
    BY <1>1, <1>3, <2>1 DEF NextCall
  <2>2. CASE /\ buffer # <<>> /\ buffer' = Tail(buffer)
             /\ taken' = Append(taken, Head(buffer))
    BY <1>3, <2>2 DEF NextCall, Source!Take, Source!Next
  <2> QED BY <1>3, <2>1, <2>2 DEF NextCall
<1>4. CASE Open \/ ConnectionTimeout \/ Ack \/ ErrorMessage \/ ServerCloses
  BY <1>1, <1>4
  DEF Open, ConnectionTimeout, Ack, ErrorMessage, ServerCloses, dataVars
<1>5. CASE CloseEvent \/ ReconnectTimer \/ Pause \/ Resume \/ Unsubscribe
           \/ UNCHANGED vars
  BY <1>1, <1>5
  DEF CloseEvent, ReconnectTimer, Pause, Resume, Unsubscribe, vars, dataVars
<1> QED BY <1>2, <1>3, <1>4, <1>5 DEF Next

\* With room for at least one datum, over all its sockets the subscription
\* gives its consumer what Feed promises: the data in order, each at most
\* once, lost only to a pause or to younger data.
THEOREM SubscriptionIsAFeed ==
  ASSUME BufferSize > 0
  PROVE  Spec => ImplementsFeed
<1>1. Init => Source!Init
  BY DEF Init, Source!Init
<1>2. TypeOK /\ NoForgottenNext /\ [Next]_vars => [Source!Next]_(Source!vars)
  BY FeedStep
<1> QED BY <1>1, <1>2, TypeCorrect, NobodyForgotten, PTL
        DEF Spec, ImplementsFeed, Source!Spec

TheFeed == INSTANCE FeedProofs WITH
  Capacity <- BufferSize,
  produced <- arrived,
  waiting  <- buffer,
  consumed <- taken

\* What Feed implies: over all reconnections and pauses the consumer is given
\* no datum twice and none after a younger one, and the buffer is bounded.
THEOREM ConsumedInOrder ==
  ASSUME BufferSize > 0
  PROVE  Spec => []Source!InOrder
<1>1. Source!Init => TheFeed!Init
  BY DEF Source!Init, TheFeed!Init
<1>2. [Source!Next]_(Source!vars) => [TheFeed!Next]_(TheFeed!vars)
  BY DEF Source!Next, Source!vars, Source!Pass, Source!Keep, Source!Skip,
         Source!Take, TheFeed!Next, TheFeed!vars, TheFeed!Pass, TheFeed!Keep,
         TheFeed!Skip, TheFeed!Take
<1>3. TheFeed!Spec => []TheFeed!InOrder
  BY OptionAssumption, TheFeed!AlwaysInOrder
<1>4. TheFeed!InOrder => Source!InOrder
  BY DEF TheFeed!InOrder, Source!InOrder, TheFeed!Increasing,
         Source!Increasing
<1> QED BY <1>1, <1>2, <1>3, <1>4, SubscriptionIsAFeed, PTL
        DEF ImplementsFeed, Source!Spec, TheFeed!Spec
=============================================================================
