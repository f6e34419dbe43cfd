------------------------- MODULE ReconnectingWsProofs -------------------------
(***************************************************************************)
(* Theorems about ReconnectingWs, for any messages, sockets and options:   *)
(* type correctness, the bound on the queues, that no waiting receive() is *)
(* forgotten and that messages arrive in order; without auth provider, or  *)
(* with one that has a token or fails, that nothing is held back and that  *)
(* send() implements Outbox and keeps the order of the calls that need not *)
(* wait; without any condition, that no message goes out twice; with such  *)
(* a provider, that nothing goes out before the token; and for a transport *)
(* that meets the conditions of Sequential, that its state agrees with its *)
(* socket and its timer and that close() is final.                         *)
(***************************************************************************)
EXTENDS ReconnectingWs, TLAPS

-----------------------------------------------------------------------------
(* Lemmas about the operators *)

\* A sequence grows and shrinks within its type.
LEMMA SeqType ==
  ASSUME NEW S, NEW q \in Seq(S)
  PROVE  /\ \A x \in S : Append(q, x) \in Seq(S)
         /\ q # <<>> => Head(q) \in S /\ Tail(q) \in Seq(S)
  OBVIOUS

\* What enforceQueueLimit() and the push leave of a queue: its type, and a
\* length within the limit (a limit of 0 is exceeded by drop-oldest).
LEMMA EnqueuedType ==
  ASSUME NEW S, NEW q \in Seq(S), NEW m \in S
  PROVE  /\ Enqueued(q, m) \in Seq(S)
         /\ Len(q) <= MaxQueueSize /\ MaxQueueSize > 0
              => Len(Enqueued(q, m)) <= MaxQueueSize
  BY OptionAssumption DEF Enqueued

\* scheduleReconnect() keeps the types of what it changes.
LEMMA ScheduleType ==
  ASSUME NEW from \in States, TypeOK, ScheduleReconnect(from)
  PROVE  /\ state' \in States
         /\ attempts' \in 0..MaxReconnectAttempts
         /\ reconnectTimeout' \in {"none", "pending"}
         /\ orphans' \in Nat
         /\ receiveQueue' \in 0..MaxReceives
<1>1. CASE from = "closed"
  BY <1>1 DEF ScheduleReconnect, TypeOK, timerVars
<1>2. CASE from # "closed" /\ GivesUp
  BY <1>2, OptionAssumption DEF ScheduleReconnect, TypeOK, timerVars
<1>3. CASE from # "closed" /\ ~GivesUp
  BY <1>3, OptionAssumption DEF ScheduleReconnect, GivesUp, TypeOK, States
<1> QED BY <1>1, <1>2, <1>3, OptionAssumption DEF TypeOK

\* handleClose() keeps the types of what it changes.
LEMMA HandleCloseType ==
  ASSUME TypeOK, HandleClose
  PROVE  /\ state' \in States
         /\ ws' = NoSocket
         /\ attempts' \in 0..MaxReconnectAttempts
         /\ reconnectTimeout' \in {"none", "pending"}
         /\ orphans' \in Nat
         /\ receiveQueue' \in 0..MaxReceives
         /\ heartbeat' = "off"
<1>1. CASE ScheduleReconnect("disconnected")
  BY <1>1, ScheduleType DEF HandleClose, States
<1>2. CASE ~ScheduleReconnect("disconnected")
  BY <1>2, OptionAssumption DEF HandleClose, TypeOK, timerVars, States
<1> QED BY <1>1, <1>2

\* A rejected or resolved connect() keeps the types of what it changes.
LEMMA RejectType ==
  ASSUME TypeOK, NEW s \in Sockets, Reject(s)
  PROVE  /\ owner' \in [Sockets -> Msgs \cup {"timer", "nobody"}]
         /\ micro' \in Seq(Msgs \cup {"retry"})
         /\ pc' \in [Msgs -> SendStates]
  BY DEF Reject, TypeOK, SendStates

\* The types that the listeners of a new connection assign.
LEMMA ResolveType ==
  ASSUME TypeOK, NEW s \in Sockets, Resolve(s)
  PROVE  /\ owner' \in [Sockets -> Msgs \cup {"timer", "nobody"}]
         /\ micro' \in Seq(Msgs \cup {"retry"})
         /\ pc' \in [Msgs -> SendStates]
<1>1. CASE owner[s] \in Msgs
  <2>1. micro' = Append(micro, owner[s]) /\ owner[s] \in Msgs \cup {"retry"}
    BY <1>1 DEF Resolve
  <2>2. micro' \in Seq(Msgs \cup {"retry"})
    BY <2>1 DEF TypeOK
  <2> QED BY <1>1, <2>2 DEF Resolve, TypeOK, SendStates
<1>2. CASE owner[s] \notin Msgs
  BY <1>2 DEF Resolve, TypeOK
<1> QED BY <1>1, <1>2

\* A new connection attempt keeps the types of what it changes.
LEMMA ConnectType ==
  ASSUME TypeOK, NEW who \in Msgs \cup {"timer"}, Connect(who)
  PROVE  /\ state' = "connecting"
         /\ ws' \in Sockets
         /\ rs' \in [Sockets -> ReadyStates]
         /\ owner' \in [Sockets -> Msgs \cup {"timer", "nobody"}]
         /\ listening' \subseteq Sockets
         /\ authed' \subseteq Sockets
         /\ UNCHANGED <<authWait, dispatch>>
  BY DEF Connect, TypeOK, ReadyStates

\* The types that closing the current socket assigns.
LEMMA CloseSocketType ==
  ASSUME TypeOK, CloseSocket(ws)
  PROVE  rs' \in [Sockets -> ReadyStates]
  BY DEF CloseSocket, TypeOK, ReadyStates

\* onOpen after the authentication keeps the types of what it changes.
LEMMA EstablishedType ==
  ASSUME TypeOK, NEW s \in Sockets, Established(s)
  PROVE  /\ state' = "connected"
         /\ attempts' = 0
         /\ heartbeat' \in {"off", "on", "pending"}
         /\ wire' \in Seq(Msgs)
         /\ sendQueue' \in Seq(Msgs)
         /\ sendQueue' \in {<<>>, sendQueue}
         /\ owner' \in [Sockets -> Msgs \cup {"timer", "nobody"}]
         /\ micro' \in Seq(Msgs \cup {"retry"})
         /\ pc' \in [Msgs -> SendStates]
         /\ UNCHANGED <<ws, dispatch, reconnectTimeout, orphans, called,
                        messageQueue, receiveQueue, arrived, taken>>
<1>1. Resolve(s)
  BY DEF Established
<1>2. /\ wire' \in Seq(Msgs)
      /\ sendQueue' \in Seq(Msgs)
      /\ sendQueue' \in {<<>>, sendQueue}
  <2>1. CASE wire' = wire \o sendQueue /\ sendQueue' = <<>>
    BY <2>1 DEF TypeOK
  <2>2. CASE UNCHANGED <<wire, sendQueue>>
    BY <2>2 DEF TypeOK
  <2> QED BY <2>1, <2>2 DEF Established, FlushSendQueue
<1> QED BY <1>1, <1>2, ResolveType DEF Established, recvVars

-----------------------------------------------------------------------------
(* Type correctness *)

\* Every step of the transport and of its host keeps the types.
LEMMA TypeStep == TypeOK /\ [Next]_vars => TypeOK'
<1> SUFFICES ASSUME TypeOK, [Next]_vars PROVE TypeOK'
  OBVIOUS
<1>1. ASSUME NEW m \in Msgs, Send(m) PROVE TypeOK'
  <2>1. /\ called' \in Seq([msg : Msgs, found : States])
        /\ pc' \in [Msgs -> SendStates]
        /\ micro' \in Seq(Msgs \cup {"retry"})
    <3>1. called' = Append(called, [msg |-> m, found |-> state])
      BY <1>1 DEF Send
    <3>2. \E v \in SendStates : pc' = [pc EXCEPT ![m] = v]
      BY <1>1 DEF Send, SendStates
    <3>3. micro' = micro \/ micro' = Append(micro, m)
      BY <1>1 DEF Send
    <3>4. Append(micro, m) \in Seq(Msgs \cup {"retry"})
      BY SeqType DEF TypeOK
    <3> QED BY <3>1, <3>2, <3>3, <3>4, SeqType DEF TypeOK
  <2>2. CASE UNCHANGED <<state, sockVars>>
    BY <1>1, <2>1, <2>2
    DEF Send, TypeOK, sockVars, timerVars, recvVars
  <2>3. CASE Connect(m)
    BY <1>1, <2>1, <2>3, ConnectType
    DEF Send, TypeOK, timerVars, recvVars, States
  <2> QED BY <1>1, <2>2, <2>3 DEF Send
<1>2. ASSUME NEW m \in Msgs, Poll(m) PROVE TypeOK'
  <2>1. pc' \in [Msgs -> SendStates]
    BY <1>2 DEF Poll, TypeOK, SendStates
  <2>2. micro' = micro \/ micro' = Append(micro, m)
    BY <1>2 DEF Poll
  <2>3. micro' \in Seq(Msgs \cup {"retry"})
    <3>1. micro \in Seq(Msgs \cup {"retry"}) /\ m \in Msgs \cup {"retry"}
      BY DEF TypeOK
    <3> QED BY <2>2, <3>1, SeqType
  <2> QED BY <1>2, <2>1, <2>3 DEF Poll, TypeOK, sockVars, timerVars, recvVars
<1>3. ASSUME SendContinues PROVE TypeOK'
  <2> DEFINE m == Head(micro)
  <2>1. m \in Msgs /\ micro' \in Seq(Msgs \cup {"retry"})
    BY <1>3 DEF SendContinues, TypeOK
  <2>2. pc' \in [Msgs -> SendStates]
    BY <1>3, <2>1 DEF SendContinues, TypeOK, SendStates
  <2>3. sendQueue' \in Seq(Msgs) /\ wire' \in Seq(Msgs)
    <3>1. CASE wire' = Append(wire, m) /\ UNCHANGED sendQueue
      BY <2>1, <3>1 DEF TypeOK
    <3>2. CASE sendQueue' = Enqueued(sendQueue, m) /\ UNCHANGED wire
      BY <2>1, <3>2, EnqueuedType DEF TypeOK
    <3> QED BY <1>3, <3>1, <3>2 DEF SendContinues
  <2> QED BY <1>3, <2>1, <2>2, <2>3
          DEF SendContinues, TypeOK, sockVars, timerVars, recvVars
<1>4. ASSUME RetryCatch PROVE TypeOK'
  <2>1. micro' \in Seq(Msgs \cup {"retry"})
    BY <1>4 DEF RetryCatch, TypeOK
  <2>2. state \in States /\ ScheduleReconnect(state)
    BY <1>4 DEF RetryCatch, TypeOK
  <2> QED BY <1>4, <2>1, <2>2, ScheduleType DEF RetryCatch, TypeOK, sockVars
<1>5. ASSUME ReconnectTimer PROVE TypeOK'
  <2>1. reconnectTimeout' \in {"none", "pending"} /\ orphans' \in Nat
    BY <1>5 DEF ReconnectTimer, TypeOK
  <2>2. CASE UNCHANGED <<state, sockVars>>
    BY <1>5, <2>1, <2>2
    DEF ReconnectTimer, TypeOK, sockVars, sendVars, recvVars
  <2>3. CASE Connect("timer")
    BY <1>5, <2>1, <2>3, ConnectType
    DEF ReconnectTimer, TypeOK, sendVars, recvVars, States
  <2> QED BY <1>5, <2>2, <2>3 DEF ReconnectTimer
<1>6. ASSUME NEW s \in Sockets, OpenEvent(s) PROVE TypeOK'
  <2>1. rs' \in [Sockets -> ReadyStates] /\ listening' \subseteq Sockets
    BY <1>6 DEF OpenEvent, TypeOK, ReadyStates
  <2>2. CASE HasAuth
    BY <1>6, <2>1, <2>2
    DEF OpenEvent, TypeOK, timerVars, sendVars, recvVars
  <2>3. CASE ~HasAuth
    BY <1>6, <2>1, <2>3, EstablishedType, OptionAssumption
    DEF OpenEvent, TypeOK, States
  <2> QED BY <2>2, <2>3
<1>7. ASSUME NEW s \in Sockets, AuthSettles(s) PROVE TypeOK'
  <2>1. authWait' \subseteq Sockets /\ UNCHANGED listening
    BY <1>7 DEF AuthSettles, TypeOK
  <2>2. CASE AuthFails(s)
    BY <2>1, <2>2, CloseSocketType, RejectType
    DEF AuthFails, TypeOK, timerVars, recvVars
  <2>3. CASE Established(s) /\ UNCHANGED rs /\ authed' \subseteq Sockets
    BY <2>1, <2>3, EstablishedType, OptionAssumption DEF TypeOK, States
  <2>4. authed' \subseteq Sockets \/ AuthFails(s)
    BY <1>7 DEF AuthSettles, TypeOK, WsIs
  <2> QED BY <1>7, <2>2, <2>3, <2>4 DEF AuthSettles
<1>8. ASSUME NEW s \in Sockets, CloseEvent(s) PROVE TypeOK'
  <2>1. /\ owner' \in [Sockets -> Msgs \cup {"timer", "nobody"}]
        /\ micro' \in Seq(Msgs \cup {"retry"})
        /\ pc' \in [Msgs -> SendStates]
    BY <1>8, RejectType DEF CloseEvent, TypeOK
  <2>2. rs' \in [Sockets -> ReadyStates]
    BY <1>8 DEF CloseEvent, TypeOK, ReadyStates
  <2>3. CASE HandleClose /\ UNCHANGED dispatch
    BY <1>8, <2>1, <2>2, <2>3, HandleCloseType DEF CloseEvent, TypeOK
  <2>4. CASE /\ dispatch' = s
             /\ UNCHANGED <<state, ws, heartbeat, receiveQueue, timerVars>>
    BY <1>8, <2>1, <2>2, <2>4 DEF CloseEvent, TypeOK, timerVars
  <2> QED BY <1>8, <2>3, <2>4 DEF CloseEvent
<1>9. ASSUME CloseEventGoesOn PROVE TypeOK'
  BY <1>9, HandleCloseType DEF CloseEventGoesOn, TypeOK, sendVars
<1>10. ASSUME NEW s \in Sockets, PeerCloses(s) PROVE TypeOK'
  BY <1>10
  DEF PeerCloses, TypeOK, ReadyStates, timerVars, sendVars, recvVars
<1>11. ASSUME Close PROVE TypeOK'
  <2>1. rs' \in [Sockets -> ReadyStates]
    BY <1>11, CloseSocketType DEF Close
  <2> QED BY <1>11, <2>1, OptionAssumption
          DEF Close, ClearTimer, TypeOK, States
<1>12. ASSUME NEW s \in Sockets, DataArrives(s) PROVE TypeOK'
  <2>1. arrived' \in 1..MaxIn
    BY <1>12, OptionAssumption DEF DataArrives, TypeOK
  <2>2. messageQueue' \in Seq(1..MaxIn) /\ taken' \in Seq(1..MaxIn)
    <3>1. CASE taken' = Append(taken, arrived') /\ UNCHANGED messageQueue
      BY <2>1, <3>1 DEF TypeOK
    <3>2. CASE messageQueue' = Enqueued(messageQueue, arrived')
               /\ UNCHANGED taken
      BY <2>1, <3>2, EnqueuedType DEF TypeOK
    <3> QED BY <1>12, <3>1, <3>2 DEF DataArrives
  <2>3. receiveQueue' \in 0..MaxReceives
    BY <1>12, OptionAssumption DEF DataArrives, TypeOK
  <2> QED BY <1>12, <2>1, <2>2, <2>3
          DEF DataArrives, TypeOK, sockVars, timerVars, sendVars
<1>13. ASSUME NEW s \in Sockets, PongArrives(s) PROVE TypeOK'
  BY <1>13 DEF PongArrives, TypeOK, sockVars, timerVars, sendVars, recvVars
<1>14. ASSUME Receive PROVE TypeOK'
  <2>1. /\ messageQueue' \in Seq(1..MaxIn)
        /\ taken' \in Seq(1..MaxIn)
        /\ receiveQueue' \in 0..MaxReceives
    <3>1. CASE /\ messageQueue # <<>>
               /\ messageQueue' = Tail(messageQueue)
               /\ taken' = Append(taken, Head(messageQueue))
               /\ UNCHANGED receiveQueue
      <4>1. messageQueue \in Seq(1..MaxIn) /\ taken \in Seq(1..MaxIn)
        BY DEF TypeOK
      <4>2. /\ Head(messageQueue) \in 1..MaxIn
            /\ Tail(messageQueue) \in Seq(1..MaxIn)
        BY <3>1, <4>1, SeqType
      <4>3. Append(taken, Head(messageQueue)) \in Seq(1..MaxIn)
        BY <4>1, <4>2, SeqType
      <4> QED BY <3>1, <4>2, <4>3 DEF TypeOK
    <3>2. CASE /\ receiveQueue < MaxReceives
               /\ receiveQueue' = receiveQueue + 1
               /\ UNCHANGED <<messageQueue, taken>>
      BY <3>2, OptionAssumption DEF TypeOK
    <3> QED BY <1>14, <3>1, <3>2 DEF Receive, ReceiveWaits
  <2> QED BY <1>14, <2>1 DEF Receive, TypeOK, sockVars, timerVars, sendVars
<1>15. ASSUME HeartbeatTick PROVE TypeOK'
  BY <1>15, CloseSocketType
  DEF HeartbeatTick, TypeOK, timerVars, sendVars, recvVars
<1>16. ASSUME UNCHANGED vars PROVE TypeOK'
  BY <1>16 DEF vars, TypeOK, sockVars, timerVars, sendVars, recvVars
<1> QED BY <1>1, <1>2, <1>3, <1>4, <1>5, <1>6, <1>7, <1>8, <1>9, <1>10, <1>11,
           <1>12, <1>13, <1>14, <1>15, <1>16 DEF Next

\* The transport starts well typed.
LEMMA TypeInit == Init => TypeOK
  BY SocketAssumption, OptionAssumption
  DEF Init, TypeOK, States, ReadyStates, SendStates

\* Whatever the options, and whatever the host, the peer and the application
\* do in whatever order, every field of the transport keeps its type.
THEOREM TypeCorrect == Spec => []TypeOK
  BY TypeInit, TypeStep, PTL DEF Spec

-----------------------------------------------------------------------------
(* The queues *)

\* No step makes a queue longer than maxQueueSize, when that is positive.
LEMMA BoundStep ==
  ASSUME MaxQueueSize > 0, TypeOK, QueuesBounded, [Next]_vars
  PROVE  QueuesBounded'
<1> USE DEF QueuesBounded
<1>1. ASSUME sendQueue' \in {<<>>, sendQueue}, UNCHANGED messageQueue
      PROVE  QueuesBounded'
  BY <1>1, OptionAssumption
<1>2. ASSUME NEW m \in Msgs, Send(m) \/ Poll(m) PROVE QueuesBounded'
  BY <1>1, <1>2 DEF Send, Poll, recvVars
<1>3. ASSUME SendContinues PROVE QueuesBounded'
  <2>1. Head(micro) \in Msgs
    BY <1>3 DEF SendContinues, TypeOK
  <2>2. sendQueue' \in {sendQueue, Enqueued(sendQueue, Head(micro))}
    BY <1>3 DEF SendContinues
  <2>3. Len(Enqueued(sendQueue, Head(micro))) <= MaxQueueSize
    BY <2>1, EnqueuedType DEF TypeOK
  <2> QED BY <1>3, <2>2, <2>3 DEF SendContinues, recvVars
<1>4. ASSUME RetryCatch \/ ReconnectTimer PROVE QueuesBounded'
  BY <1>1, <1>4 DEF RetryCatch, ReconnectTimer, sendVars, recvVars
<1>5. ASSUME NEW s \in Sockets, OpenEvent(s) PROVE QueuesBounded'
  BY <1>1, <1>5, EstablishedType DEF OpenEvent, sendVars, recvVars
<1>6. ASSUME NEW s \in Sockets, AuthSettles(s) PROVE QueuesBounded'
  <2>1. AuthFails(s) \/ Established(s)
    BY <1>6 DEF AuthSettles
  <2> QED BY <1>1, <2>1, EstablishedType DEF AuthFails, recvVars
<1>7. ASSUME NEW s \in Sockets, CloseEvent(s) \/ PeerCloses(s)
      PROVE  QueuesBounded'
  BY <1>1, <1>7 DEF CloseEvent, PeerCloses, sendVars, recvVars
<1>8. ASSUME CloseEventGoesOn \/ HeartbeatTick PROVE QueuesBounded'
  BY <1>1, <1>8 DEF CloseEventGoesOn, HeartbeatTick, sendVars, recvVars
<1>9. ASSUME NEW s \in Sockets, DataArrives(s) PROVE QueuesBounded'
  <2>1. arrived' \in 1..MaxIn
    BY <1>9, OptionAssumption DEF DataArrives, TypeOK
  <2>2. messageQueue' \in {messageQueue, Enqueued(messageQueue, arrived')}
    BY <1>9 DEF DataArrives
  <2>3. Len(Enqueued(messageQueue, arrived')) <= MaxQueueSize
    BY <2>1, EnqueuedType DEF TypeOK
  <2> QED BY <1>9, <2>2, <2>3 DEF DataArrives, sendVars
<1>10. ASSUME NEW s \in Sockets, PongArrives(s) PROVE QueuesBounded'
  BY <1>1, <1>10 DEF PongArrives, sendVars, recvVars
<1>11. ASSUME Receive PROVE QueuesBounded'
  <2>1. CASE UNCHANGED messageQueue
    BY <1>1, <1>11, <2>1 DEF Receive, sendVars
  <2>2. CASE messageQueue # <<>> /\ messageQueue' = Tail(messageQueue)
    <3>1. Len(messageQueue') <= Len(messageQueue)
      BY <2>2 DEF TypeOK
    <3>2. Len(messageQueue) \in Nat /\ Len(messageQueue') \in Nat
      BY <2>2, SeqType DEF TypeOK
    <3> QED BY <1>11, <3>1, <3>2, OptionAssumption DEF Receive, sendVars
  <2> QED BY <1>11, <2>1, <2>2 DEF Receive
<1>12. ASSUME Close PROVE QueuesBounded'
  BY <1>12, OptionAssumption DEF Close
<1>13. ASSUME UNCHANGED vars PROVE QueuesBounded'
  BY <1>1, <1>13 DEF vars, sendVars, recvVars
<1> QED BY <1>2, <1>3, <1>4, <1>5, <1>6, <1>7, <1>8, <1>9, <1>10, <1>11, <1>12,
           <1>13 DEF Next

\* With a positive maxQueueSize neither queue ever outgrows it, whatever the
\* overflow behavior. (With 0 and drop-oldest a queue holds one message.)
THEOREM BoundedQueues ==
  ASSUME MaxQueueSize > 0
  PROVE  Spec => []QueuesBounded
<1>1. Init => QueuesBounded
  BY OptionAssumption DEF Init, QueuesBounded
<1>2. TypeOK /\ QueuesBounded /\ [Next]_vars => QueuesBounded'
  BY BoundStep
<1> QED BY <1>1, <1>2, TypeCorrect, PTL DEF Spec

\* No receive() ever waits while a message it could return is queued.
THEOREM NoForgottenReceive == Spec => []NoLostWakeup
<1>1. Init => NoLostWakeup
  BY DEF Init, NoLostWakeup
<1>2. TypeOK /\ NoLostWakeup /\ [Next]_vars => NoLostWakeup'
  <2> SUFFICES ASSUME TypeOK, NoLostWakeup, [Next]_vars PROVE NoLostWakeup'
    OBVIOUS
  <2> USE DEF NoLostWakeup
  <2>1. ASSUME UNCHANGED messageQueue, receiveQueue' \in {0, receiveQueue}
        PROVE  NoLostWakeup'
    BY <2>1
  <2>2. ASSUME NEW from, ScheduleReconnect(from)
        PROVE  receiveQueue' \in {0, receiveQueue}
    BY <2>2 DEF ScheduleReconnect
  <2>3. HandleClose => receiveQueue' \in {0, receiveQueue}
    BY <2>2 DEF HandleClose
  <2>4. ASSUME NEW s \in Sockets, CloseEvent(s) PROVE NoLostWakeup'
    BY <2>1, <2>3, <2>4 DEF CloseEvent
  <2>5. ASSUME CloseEventGoesOn PROVE NoLostWakeup'
    BY <2>1, <2>3, <2>5 DEF CloseEventGoesOn
  <2>6. ASSUME RetryCatch PROVE NoLostWakeup'
    BY <2>1, <2>2, <2>6 DEF RetryCatch
  <2>7. ASSUME Close PROVE NoLostWakeup'
    BY <2>7 DEF Close
  <2>8. ASSUME NEW s \in Sockets, DataArrives(s) PROVE NoLostWakeup'
    BY <2>8 DEF DataArrives, TypeOK
  <2>9. ASSUME Receive PROVE NoLostWakeup'
    BY <2>9 DEF Receive, ReceiveWaits
  <2>10. ASSUME NEW m \in Msgs, Send(m) \/ Poll(m) PROVE NoLostWakeup'
    BY <2>1, <2>10 DEF Send, Poll, recvVars
  <2>11. ASSUME NEW s \in Sockets, OpenEvent(s) \/ AuthSettles(s)
         PROVE  NoLostWakeup'
    BY <2>1, <2>11 DEF OpenEvent, AuthSettles, AuthFails, Established, recvVars
  <2>12. ASSUME NEW s \in Sockets, PeerCloses(s) \/ PongArrives(s)
         PROVE  NoLostWakeup'
    BY <2>1, <2>12 DEF PeerCloses, PongArrives, recvVars
  <2>13. ASSUME SendContinues \/ ReconnectTimer \/ HeartbeatTick
         PROVE  NoLostWakeup'
    BY <2>1, <2>13 DEF SendContinues, ReconnectTimer, HeartbeatTick, recvVars
  <2>14. ASSUME UNCHANGED vars PROVE NoLostWakeup'
    BY <2>1, <2>14 DEF vars, recvVars
  <2> QED BY <2>4, <2>5, <2>6, <2>7, <2>8, <2>9, <2>10, <2>11, <2>12, <2>13,
             <2>14 DEF Next
<1> QED BY <1>1, <1>2, TypeCorrect, PTL DEF Spec

-----------------------------------------------------------------------------
(* The order of what receive() returns *)

\* The messages handed out and queued, by order of arrival, and none of them
\* from the future.
OrderInv ==
  LET seen == taken \o messageQueue
  IN /\ InboundInOrder
     /\ \A i \in 1..Len(seen) : seen[i] <= arrived

\* A strictly increasing sequence of numbers up to n.
Rising(q, n) ==
  \A i \in 1..Len(q) : q[i] <= n /\ \A j \in 1..(i - 1) : q[j] < q[i]

\* A rising sequence may lose any of its elements from the middle: what
\* drop-oldest leaves of the returned and the queued messages still rises.
LEMMA RisingDrop ==
  ASSUME NEW p \in Seq(Nat), NEW q \in Seq(Nat), NEW n \in Nat,
         Rising(p \o q, n), q # <<>>
  PROVE  Rising(p \o Tail(q), n)
<1> DEFINE r == p \o q
           t == p \o Tail(q)
           from(i) == IF i <= Len(p) THEN i ELSE i + 1
<1>1. Len(t) = Len(r) - 1 /\ Len(r) \in Nat /\ Len(p) \in Nat
  OBVIOUS
<1>2. \A i \in 1..Len(t) : from(i) \in 1..Len(r) /\ t[i] = r[from(i)]
  OBVIOUS
<1>3. \A i \in 1..Len(t) : \A j \in 1..(i - 1) :
        j \in 1..Len(t) /\ from(j) \in 1..(from(i) - 1)
  BY <1>1
<1> HIDE DEF r, t, from
<1>4. Rising(r, n)
  BY DEF r
<1>5. Rising(t, n)
  BY <1>2, <1>3, <1>4 DEF Rising
<1> QED BY <1>5 DEF t

\* A younger message goes to the end.
LEMMA RisingAppend ==
  ASSUME NEW p \in Seq(Nat), NEW n \in Nat, Rising(p, n)
  PROVE  Rising(Append(p, n + 1), n + 1)
<1>1. \A i \in 1..Len(p) : Append(p, n + 1)[i] = p[i] /\ p[i] \in Nat
  OBVIOUS
<1>2. /\ Len(Append(p, n + 1)) = Len(p) + 1 /\ Len(p) \in Nat
      /\ Append(p, n + 1)[Len(p) + 1] = n + 1
  OBVIOUS
<1> QED BY <1>1, <1>2 DEF Rising

\* What is appended to the second sequence is appended to both.
LEMMA ConcatAppend ==
  ASSUME NEW S, NEW p \in Seq(S), NEW q \in Seq(S), NEW x \in S
  PROVE  p \o Append(q, x) = Append(p \o q, x)
  OBVIOUS

\* OrderInv in terms of Rising.
LEMMA OrderIsRising ==
  ASSUME TypeOK
  PROVE  /\ taken \in Seq(Nat) /\ messageQueue \in Seq(Nat)
         /\ arrived \in Nat
         /\ OrderInv => Rising(taken \o messageQueue, arrived)
<1>1. /\ taken \in Seq(Nat) /\ messageQueue \in Seq(Nat)
      /\ arrived \in Nat
  BY OptionAssumption DEF TypeOK
<1> QED BY <1>1 DEF OrderInv, InboundInOrder, Rising

\* And of the state after a step.
LEMMA OrderIsRisingNext ==
  Rising(taken' \o messageQueue', arrived') => OrderInv'
  BY DEF OrderInv, InboundInOrder, Rising

\* A message that arrives is younger than all, and takes its place behind
\* them: handed to a waiting receive() only if none is queued.
LEMMA OrderData ==
  ASSUME TypeOK, TypeOK', NoLostWakeup, OrderInv,
         NEW s \in Sockets, DataArrives(s)
  PROVE  OrderInv'
<1> DEFINE p == taken
           q == messageQueue
           n == arrived
<1>1. p \in Seq(Nat) /\ q \in Seq(Nat) /\ n \in Nat /\ Rising(p \o q, n)
  BY OrderIsRising
<1>2. arrived' = n + 1 /\ n + 1 \in Nat
  BY <1>1 DEF DataArrives
<1>3. Rising(Append(p \o q, n + 1), n + 1) /\ p \o q \in Seq(Nat)
  <2>1. p \o q \in Seq(Nat)
    BY <1>1
  <2> QED BY <1>1, <2>1, RisingAppend
<1>4. CASE receiveQueue > 0
  <2>1. q = <<>> /\ p \o q = p
    BY <1>1, <1>4 DEF NoLostWakeup
  <2>2. taken' \o messageQueue' = Append(p \o q, n + 1)
    <3>1. taken' = Append(p, n + 1) /\ messageQueue' = <<>>
      BY <1>1, <1>2, <1>4, <2>1 DEF DataArrives
    <3>2. Append(p, n + 1) \o <<>> = Append(p, n + 1)
      BY <1>1, <1>2
    <3> QED BY <2>1, <3>1, <3>2
  <2> QED BY <1>2, <1>3, <2>2, OrderIsRisingNext
<1>5. CASE receiveQueue = 0 /\ messageQueue' = Append(q, n + 1)
  <2>1. taken' = p
    BY <1>5 DEF DataArrives
  <2>2. taken' \o messageQueue' = Append(p \o q, n + 1)
    <3>1. p \o Append(q, n + 1) = Append(p \o q, n + 1)
      BY <1>1, <1>2, ConcatAppend
    <3> QED BY <1>5, <2>1, <3>1
  <2> QED BY <1>2, <1>3, <2>2, OrderIsRisingNext
<1>6. CASE receiveQueue = 0 /\ q # <<>>
           /\ messageQueue' = Append(SubSeq(q, 2, Len(q)), n + 1)
  <2>1. taken' = p /\ SubSeq(q, 2, Len(q)) = Tail(q) /\ Tail(q) \in Seq(Nat)
    BY <1>1, <1>6 DEF DataArrives
  <2>2. Rising(p \o Tail(q), n) /\ p \o Tail(q) \in Seq(Nat)
    BY <1>1, <1>6, <2>1, RisingDrop
  <2>3. Rising(Append(p \o Tail(q), n + 1), n + 1)
    BY <1>1, <2>2, RisingAppend
  <2>4. taken' \o messageQueue' = Append(p \o Tail(q), n + 1)
    <3>1. p \o Append(Tail(q), n + 1) = Append(p \o Tail(q), n + 1)
      BY <1>1, <1>2, <2>1, ConcatAppend
    <3> QED BY <1>6, <2>1, <3>1
  <2> QED BY <1>2, <2>3, <2>4, OrderIsRisingNext
<1>7. CASE receiveQueue = 0 /\ q = <<>>
           /\ messageQueue' = Append(SubSeq(q, 2, Len(q)), n + 1)
  <2>1. taken' = p /\ SubSeq(q, 2, Len(q)) = <<>>
    BY <1>7 DEF DataArrives
  <2>2. taken' \o messageQueue' = Append(p \o q, n + 1)
    BY <1>1, <1>7, <2>1
  <2> QED BY <1>2, <1>3, <2>2, OrderIsRisingNext
<1>8. CASE receiveQueue = 0 /\ messageQueue' = q
  <2>1. taken' = p
    BY <1>8 DEF DataArrives
  <2>2. Rising(p \o q, n + 1)
    <3>1. \A i \in 1..Len(p \o q) : (p \o q)[i] \in Nat
      BY <1>1
    <3> QED BY <1>1, <3>1 DEF Rising
  <2> QED BY <1>2, <1>8, <2>1, <2>2, OrderIsRisingNext
<1>9. receiveQueue = 0 => messageQueue' = Enqueued(q, n + 1)
  BY <1>2 DEF DataArrives
<1>10. receiveQueue \in Nat
  BY OptionAssumption DEF TypeOK
<1> QED BY <1>4, <1>5, <1>6, <1>7, <1>8, <1>9, <1>10 DEF Enqueued

\* A receive() moves the oldest queued message to the end of those handed out.
LEMMA OrderReceive ==
  ASSUME TypeOK, TypeOK', OrderInv, Receive
  PROVE  OrderInv'
<1>1. /\ taken \in Seq(Nat) /\ messageQueue \in Seq(Nat)
      /\ Rising(taken \o messageQueue, arrived)
  BY OrderIsRising
<1>2. taken' \o messageQueue' = taken \o messageQueue
  <2>1. CASE UNCHANGED <<messageQueue, taken>>
    BY <2>1
  <2>2. CASE /\ messageQueue # <<>>
             /\ messageQueue' = Tail(messageQueue)
             /\ taken' = Append(taken, Head(messageQueue))
    BY <1>1, <2>2
  <2> QED BY <2>1, <2>2 DEF Receive
<1>3. arrived' = arrived
  BY DEF Receive
<1> QED BY <1>1, <1>2, <1>3, OrderIsRisingNext

\* Whatever the sockets, the overflow behavior and close() do in between, the
\* messages that receive() returns are in the order of their arrival.
THEOREM ReceivedInOrder == Spec => []InboundInOrder
<1>1. Init => OrderInv
  BY DEF Init, OrderInv, InboundInOrder
<1>2. TypeOK /\ TypeOK' /\ NoLostWakeup /\ OrderInv /\ [Next]_vars => OrderInv'
  <2> SUFFICES ASSUME TypeOK, TypeOK', NoLostWakeup, OrderInv, [Next]_vars
               PROVE  OrderInv'
    OBVIOUS
  <2>1. ASSUME UNCHANGED <<messageQueue, arrived, taken>> PROVE OrderInv'
    BY <2>1 DEF OrderInv, InboundInOrder
  <2>2. CASE \E s \in Sockets : DataArrives(s)
    BY <2>2, OrderData
  <2>3. CASE Receive
    BY <2>3, OrderReceive
  <2>4. CASE Close
    <3>1. taken \in Seq(Nat) /\ Rising(taken \o messageQueue, arrived)
          /\ messageQueue \in Seq(Nat)
      BY OrderIsRising
    <3>2. /\ taken' \o messageQueue' = taken /\ arrived' = arrived
      BY <2>4, <3>1 DEF Close
    <3>3. /\ Len(taken) <= Len(taken \o messageQueue)
          /\ \A i \in 1..Len(taken) : taken[i] = (taken \o messageQueue)[i]
      BY <3>1
    <3>4. Rising(taken, arrived)
      BY <3>1, <3>3 DEF Rising
    <3> QED BY <3>2, <3>4, OrderIsRisingNext
  <2>5. CASE \E m \in Msgs : Send(m) \/ Poll(m)
    BY <2>1, <2>5 DEF Send, Poll, recvVars
  <2>6. CASE \E s \in Sockets : OpenEvent(s) \/ AuthSettles(s)
    BY <2>1, <2>6 DEF OpenEvent, AuthSettles, AuthFails, Established, recvVars
  <2>7. CASE \E s \in Sockets : CloseEvent(s) \/ PeerCloses(s) \/ PongArrives(s)
    BY <2>1, <2>7 DEF CloseEvent, PeerCloses, PongArrives, recvVars
  <2>8. CASE CloseEventGoesOn \/ SendContinues \/ RetryCatch
    BY <2>1, <2>8 DEF CloseEventGoesOn, SendContinues, RetryCatch, recvVars
  <2>9. CASE ReconnectTimer \/ HeartbeatTick
    BY <2>1, <2>9 DEF ReconnectTimer, HeartbeatTick, recvVars
  <2>10. CASE UNCHANGED vars
    BY <2>1, <2>10 DEF vars, recvVars
  <2> QED BY <2>2, <2>3, <2>4, <2>5, <2>6, <2>7, <2>8, <2>9, <2>10 DEF Next
<1>3. OrderInv => InboundInOrder
  BY DEF OrderInv
<1> QED BY <1>1, <1>2, <1>3, TypeCorrect, NoForgottenReceive, PTL DEF Spec

-----------------------------------------------------------------------------
(* Nothing held back, and the token before anything else *)

\* If there is a provider, it has a token or fails.
TokenOrFail == "none" \notin AuthOutcomes

\* There is a provider, and it has a token or fails.
AlwaysToken == HasAuth /\ TokenOrFail

\* If the socket of a connected transport is open, nothing is left in the send
\* queue and the token, when there is a provider, went out on it. A provider's
\* answer connects no transport whose socket has yet to open; without one the
\* open event of another socket may, but then its own open event flushes.
AuthInv ==
  state = "connected" /\ ws # NoSocket =>
    /\ HasAuth => rs[ws] # "connecting"
    /\ rs[ws] = "open" => sendQueue = <<>> /\ (HasAuth => ws \in authed)

\* Steps that leave the connection alone, or take it away, keep AuthInv.
LEMMA AuthQuiet ==
  ASSUME TypeOK, AuthInv,
         \/ UNCHANGED <<state, ws, rs, authed, sendQueue>>
         \/ state' # "connected"
         \/ ws' = NoSocket
  PROVE  AuthInv'
  BY DEF AuthInv

\* No step keeps the transport connected on an open socket with a message in
\* the queue or without the token.
LEMMA AuthStep ==
  ASSUME TokenOrFail, TypeOK, AuthInv, [Next]_vars
  PROVE  AuthInv'
<1>1. ASSUME NEW m \in Msgs, Send(m) \/ Poll(m) PROVE AuthInv'
  BY <1>1, AuthQuiet DEF Send, Poll, Connect, sockVars
<1>2. CASE SendContinues
  <2>1. UNCHANGED <<state, ws, rs, authed>>
    BY <1>2 DEF SendContinues, sockVars
  <2>2. CASE UNCHANGED sendQueue
    BY <2>1, <2>2, AuthQuiet
  <2>3. CASE ~(state = "connected" /\ WsIs("open"))
    BY <2>1, <2>3 DEF AuthInv, WsIs
  <2> QED BY <1>2, <2>2, <2>3 DEF SendContinues
<1>3. CASE RetryCatch
  BY <1>3, AuthQuiet DEF RetryCatch, ScheduleReconnect, sockVars
<1>4. CASE ReconnectTimer
  BY <1>4, AuthQuiet DEF ReconnectTimer, Connect, sockVars, sendVars
<1>5. ASSUME NEW s \in Sockets, OpenEvent(s) PROVE AuthInv'
  <2>1. rs[s] = "connecting" /\ rs' = [rs EXCEPT ![s] = "open"]
    BY <1>5 DEF OpenEvent
  <2>2. CASE HasAuth
    <3>1. UNCHANGED <<state, ws, authed, sendQueue>>
      BY <1>5, <2>2 DEF OpenEvent, sendVars
    <3>2. CASE s = ws /\ state = "connected"
      BY <2>1, <2>2, <3>1, <3>2, SocketAssumption DEF AuthInv
    <3>3. CASE s # ws \/ state # "connected"
      BY <2>1, <3>1, <3>3 DEF AuthInv, TypeOK
    <3> QED BY <3>2, <3>3
  <2>3. CASE ~HasAuth
    <3>1. ws' = ws /\ FlushSendQueue
      BY <1>5, <2>3 DEF OpenEvent, Established
    <3> QED BY <2>3, <3>1 DEF AuthInv, FlushSendQueue, HasAuth
  <2> QED BY <2>2, <2>3
<1>6. ASSUME NEW s \in Sockets, AuthSettles(s) PROVE AuthInv'
  <2>1. CASE AuthFails(s)
    <3>1. UNCHANGED <<state, ws, authed, sendQueue>> /\ CloseSocket(ws)
      BY <2>1 DEF AuthFails
    <3> QED BY <3>1 DEF AuthInv, CloseSocket, TypeOK
  <2>2. CASE /\ ~WsIs("connecting") /\ UNCHANGED rs /\ Established(s)
             /\ authed' = IF WsIs("open") THEN authed \cup {ws} ELSE authed
    <3>1. ws' = ws /\ FlushSendQueue
      BY <2>2 DEF Established
    <3> QED BY <2>2, <3>1 DEF AuthInv, FlushSendQueue, WsIs
  <2> QED BY <1>6, <2>1, <2>2 DEF AuthSettles, TokenOrFail
<1>7. ASSUME NEW s \in Sockets, CloseEvent(s) PROVE AuthInv'
  <2>1. CASE HandleClose
    BY <2>1, AuthQuiet DEF HandleClose
  <2>2. CASE UNCHANGED <<state, ws>>
    <3>1. rs' = [rs EXCEPT ![s] = "closed"] /\ UNCHANGED <<authed, sendQueue>>
      BY <1>7 DEF CloseEvent
    <3> QED BY <2>2, <3>1 DEF AuthInv, TypeOK
  <2> QED BY <1>7, <2>1, <2>2 DEF CloseEvent
<1>8. CASE CloseEventGoesOn
  BY <1>8, AuthQuiet DEF CloseEventGoesOn, HandleClose
<1>9. ASSUME NEW s \in Sockets, PeerCloses(s) PROVE AuthInv'
  BY <1>9 DEF PeerCloses, sendVars, AuthInv, TypeOK
<1>10. ASSUME NEW s \in Sockets, DataArrives(s) \/ PongArrives(s)
       PROVE  AuthInv'
  BY <1>10, AuthQuiet DEF DataArrives, PongArrives, sockVars, sendVars
<1>11. CASE HeartbeatTick
  <2>1. UNCHANGED <<state, ws, authed, sendQueue>>
    BY <1>11 DEF HeartbeatTick, sendVars
  <2>2. rs' = rs \/ CloseSocket(ws)
    BY <1>11 DEF HeartbeatTick
  <2> QED BY <2>1, <2>2 DEF AuthInv, CloseSocket, TypeOK
<1>12. CASE Receive
  BY <1>12, AuthQuiet DEF Receive, sockVars, sendVars
<1>13. CASE Close
  BY <1>13, AuthQuiet DEF Close
<1>14. CASE UNCHANGED vars
  BY <1>14, AuthQuiet DEF vars, sockVars, sendVars
<1> QED BY <1>1, <1>2, <1>3, <1>4, <1>5, <1>6, <1>7, <1>8, <1>9, <1>10, <1>11,
           <1>12, <1>13, <1>14 DEF Next

\* It holds at the start, and so always.
LEMMA AuthAlways ==
  ASSUME TokenOrFail
  PROVE  Spec => []AuthInv
<1>1. Init => AuthInv
  BY DEF Init, AuthInv
<1>2. TypeOK /\ AuthInv /\ [Next]_vars => AuthInv'
  BY AuthStep
<1> QED BY <1>1, <1>2, TypeCorrect, PTL DEF Spec

\* While a connection is usable nothing waits in the send queue: no message
\* sent now overtakes a queued one, whatever the host and the callbacks do.
THEOREM NothingHeldBack ==
  ASSUME TokenOrFail
  PROVE  Spec => []FlushedWhenUsable
<1>1. AuthInv => FlushedWhenUsable
  BY DEF AuthInv, FlushedWhenUsable, WsIs
<1> QED BY <1>1, AuthAlways, PTL

\* No message of the application goes out on a socket before the token does.
THEOREM TokenFirst ==
  ASSUME AlwaysToken
  PROVE  Spec => AuthFirst
<1>1. TypeOK /\ AuthInv /\ [Next]_vars
        => [Len(wire') > Len(wire) => ws \in authed']_vars
  <2> SUFFICES ASSUME TypeOK, AuthInv, Next, wire' # wire
               PROVE  ws \in authed'
    BY DEF TypeOK
  <2>1. ASSUME NEW m \in Msgs PROVE ~Send(m) /\ ~Poll(m)
    BY DEF Send, Poll
  <2>2. CASE SendContinues
    BY <2>2 DEF SendContinues, AuthInv, WsIs, sockVars, AlwaysToken
  <2>3. ASSUME NEW s \in Sockets PROVE ~OpenEvent(s)
    BY DEF OpenEvent, AlwaysToken, HasAuth, sendVars
  <2>4. ASSUME NEW s \in Sockets, AuthSettles(s) PROVE ws \in authed'
    <3>1. ~AuthFails(s)
      BY DEF AuthFails
    <3>2. /\ UNCHANGED rs /\ Established(s)
          /\ authed' = IF WsIs("open") THEN authed \cup {ws} ELSE authed
      BY <2>4, <3>1 DEF AuthSettles, AlwaysToken, TokenOrFail
    <3> QED BY <3>2 DEF Established, FlushSendQueue, WsIs
  <2>5. ASSUME NEW s \in Sockets
        PROVE  /\ ~CloseEvent(s) /\ ~PeerCloses(s)
               /\ ~DataArrives(s) /\ ~PongArrives(s)
    BY DEF CloseEvent, PeerCloses, DataArrives, PongArrives, sendVars
  <2>6. ~RetryCatch /\ ~ReconnectTimer /\ ~CloseEventGoesOn
    BY DEF RetryCatch, ReconnectTimer, CloseEventGoesOn, sendVars
  <2>7. ~HeartbeatTick /\ ~Receive /\ ~Close
    BY DEF HeartbeatTick, Receive, Close, sendVars
  <2> QED BY <2>1, <2>2, <2>3, <2>4, <2>5, <2>6, <2>7 DEF Next
<1>2. TokenOrFail
  BY DEF AlwaysToken
<1> QED BY <1>1, <1>2, AuthAlways, TypeCorrect, PTL DEF Spec, AuthFirst

-----------------------------------------------------------------------------
(* State, socket and timer of a sequential transport *)

\* The transports these results are about: no auth provider to await between
\* the open event and state connected, a task's listeners run without a
\* break, and the callbacks do not call the transport.
Sequential == ~HasAuth /\ ~NativeDispatch /\ ~CallbacksReenter

\* A rejected reconnection is alone in the microtask queue, in a state whose
\* timer is not armed: its catch clause arms the only one.
RetryAlone ==
  \/ \A i \in 1..Len(micro) : micro[i] # "retry"
  \/ micro = <<"retry">> /\ state \in {"disconnected", "closed"}

\* Nothing is left half done between two tasks.
NothingPending == authWait = {} /\ dispatch = NoSocket

\* Which sockets there are in which state. A socket other than this.ws is
\* either dead or one that close() is rid of, so that no close event reaches
\* handleClose() out of turn.
SocketsKnown ==
  /\ \A s \in Sockets :
       /\ owner[s] # "nobody" => s \in listening
       /\ owner[s] # "nobody" => rs[s] \in {"connecting", "closing"}
       /\ owner[s] # "nobody" /\ rs[s] = "closing" => state = "closed"
       /\ rs[s] = "connecting" => state = "connecting"
       /\ rs[s] = "closing" => s = ws \/ state = "closed"
  /\ state \notin {"connecting", "connected"} => ws = NoSocket
  /\ state = "connecting" => rs[ws] = "connecting"

\* The inductive invariant: what the properties say, and why it stays so.
SequentialInv ==
  /\ StateMatchesSocket
  /\ NoLeakedSocket
  /\ TimerMatchesState
  /\ RetryAlone
  /\ NothingPending
  /\ SocketsKnown

\* Steps that leave the connection alone, and at most drop this.ws's
\* readyState or append a send() to the microtasks, keep the invariant.
LEMMA QuietStep ==
  ASSUME SequentialInv, UNCHANGED <<state, ws, rs, owner, listening, authWait,
                                    dispatch, reconnectTimeout, orphans>>,
         RetryAlone'
  PROVE  SequentialInv'
  BY DEF SequentialInv, StateMatchesSocket, NoLeakedSocket, TimerMatchesState,
         NothingPending, SocketsKnown

\* Appending a send() while no retry waits, or taking the head, keeps
\* RetryAlone.
LEMMA MicroStep ==
  ASSUME TypeOK, RetryAlone, UNCHANGED state,
         \/ micro' = micro
         \/ \E m \in Msgs : /\ micro' = Append(micro, m)
                            /\ \A i \in 1..Len(micro) : micro[i] # "retry"
         \/ micro # <<>> /\ micro' = Tail(micro)
  PROVE  RetryAlone'
<1>1. CASE micro' = micro
  BY <1>1 DEF RetryAlone
<1>2. ASSUME NEW m \in Msgs, micro' = Append(micro, m),
             \A i \in 1..Len(micro) : micro[i] # "retry"
      PROVE  RetryAlone'
  <2>1. micro \in Seq(Msgs \cup {"retry"}) /\ m # "retry"
    BY MsgAssumption DEF TypeOK
  <2> QED BY <1>2, <2>1 DEF RetryAlone
<1>3. CASE micro # <<>> /\ micro' = Tail(micro)
  <2>1. micro \in Seq(Msgs \cup {"retry"})
    BY DEF TypeOK
  <2>2. CASE micro = <<"retry">>
    BY <1>3, <2>2 DEF RetryAlone
  <2>3. CASE \A i \in 1..Len(micro) : micro[i] # "retry"
    <3>1. \A i \in 1..Len(micro') : i + 1 \in 1..Len(micro)
                                     /\ micro'[i] = micro[i + 1]
      BY <1>3, <2>1
    <3> QED BY <2>3, <3>1 DEF RetryAlone
  <2> QED BY <2>2, <2>3 DEF RetryAlone
<1> QED BY <1>1, <1>2, <1>3

\* A connection attempt starts when no other socket is left alive.
LEMMA ConnectStep ==
  ASSUME TypeOK, SequentialInv, NEW who \in Msgs \cup {"timer"},
         state \in {"disconnected", "reconnecting"}, Connect(who),
         reconnectTimeout' = "none", UNCHANGED orphans,
         \A i \in 1..Len(micro') : micro'[i] # "retry"
  PROVE  SequentialInv'
<1> USE DEF SequentialInv
<1>1. ws = NoSocket
  BY DEF SocketsKnown
<1>2. \A t \in Sockets : rs[t] \notin {"connecting", "open", "closing"}
  BY <1>1, SocketAssumption DEF SocketsKnown, NoLeakedSocket
<1>3. PICK s \in Sockets :
        /\ state' = "connecting"
        /\ ws' = s
        /\ rs' = [rs EXCEPT ![s] = "connecting"]
        /\ owner' = [owner EXCEPT ![s] = who]
        /\ listening' = listening \cup {s}
        /\ UNCHANGED <<authWait, dispatch>>
  BY DEF Connect
<1>4. rs'[s] = "connecting" /\ \A t \in Sockets \ {s} : rs'[t] = rs[t]
  BY <1>3 DEF TypeOK
<1>5. \A t \in Sockets \ {s} : owner'[t] = owner[t]
  BY <1>3 DEF TypeOK
<1>6. StateMatchesSocket' /\ NoLeakedSocket'
  BY <1>2, <1>3, <1>4, SocketAssumption DEF StateMatchesSocket, NoLeakedSocket
<1>7. TimerMatchesState' /\ RetryAlone' /\ NothingPending'
  BY <1>3 DEF TimerMatchesState, RetryAlone, NothingPending
<1>8. SocketsKnown'
  BY <1>2, <1>3, <1>4, <1>5 DEF SocketsKnown
<1> QED BY <1>6, <1>7, <1>8

\* The open event belongs to this.ws, of a connecting transport.
LEMMA OpenStep ==
  ASSUME Sequential, TypeOK, SequentialInv, NEW s \in Sockets, OpenEvent(s)
  PROVE  SequentialInv'
<1> USE DEF SequentialInv
<1>1. /\ Established(s) /\ UNCHANGED authWait
      /\ rs[s] = "connecting" /\ rs' = [rs EXCEPT ![s] = "open"]
      /\ micro = <<>>
  BY DEF Sequential, OpenEvent, Idle
<1>2. s = ws /\ state = "connecting"
  BY <1>1 DEF SocketsKnown, NoLeakedSocket
<1>3. /\ state' = "connected"
      /\ listening' = listening \ {s}
      /\ owner' = [owner EXCEPT ![s] = "nobody"]
      /\ UNCHANGED <<ws, dispatch, reconnectTimeout, orphans>>
  BY <1>1, <1>2 DEF OpenEvent, Established, Resolve
<1>4. rs'[s] = "open" /\ \A t \in Sockets \ {s} : rs'[t] = rs[t]
  BY <1>1 DEF TypeOK
<1>5. owner'[s] = "nobody" /\ \A t \in Sockets \ {s} : owner'[t] = owner[t]
  BY <1>3 DEF TypeOK
<1>6. StateMatchesSocket' /\ NoLeakedSocket'
  BY <1>2, <1>3, <1>4, SocketAssumption DEF StateMatchesSocket, NoLeakedSocket
<1>7. TimerMatchesState' /\ NothingPending'
  BY <1>1, <1>2, <1>3 DEF TimerMatchesState, NothingPending
<1>8. RetryAlone'
  <2>1. CASE micro' = micro
    BY <1>1, <2>1 DEF RetryAlone
  <2>2. CASE owner[s] \in Msgs /\ micro' = Append(micro, owner[s])
    BY <1>1, <2>2, MsgAssumption DEF RetryAlone
  <2> QED BY <1>1, <2>1, <2>2 DEF Established, Resolve
<1>9. SocketsKnown'
  BY <1>2, <1>3, <1>4, <1>5 DEF SocketsKnown, NoLeakedSocket
<1> QED BY <1>6, <1>7, <1>8, <1>9

\* A close event is that of this.ws, or reaches a closed transport.
LEMMA CloseEventStep ==
  ASSUME Sequential, TypeOK, SequentialInv, NEW s \in Sockets, CloseEvent(s)
  PROVE  SequentialInv'
<1> USE DEF SequentialInv
<1>1. /\ HandleClose /\ micro = <<>> /\ rs[s] # "closed"
      /\ rs' = [rs EXCEPT ![s] = "closed"]
      /\ UNCHANGED <<dispatch, listening, authWait>>
  BY DEF Sequential, CloseEvent, Idle
<1>2. s = ws \/ state = "closed"
  BY <1>1 DEF SocketsKnown, NoLeakedSocket, TypeOK, ReadyStates
<1>3. rs'[s] = "closed" /\ \A t \in Sockets \ {s} : rs'[t] = rs[t]
  BY <1>1 DEF TypeOK
<1>4. owner'[s] = "nobody" /\ \A t \in Sockets \ {s} : owner'[t] = owner[t]
  <2>1. CASE s \in listening
    BY <2>1 DEF CloseEvent, Reject, TypeOK
  <2>2. CASE s \notin listening
    BY <2>2 DEF CloseEvent, SocketsKnown
  <2> QED BY <2>1, <2>2
<1>5. \A t \in Sockets \ {s} : /\ rs[t] \notin {"connecting", "open"}
                               /\ rs[t] = "closing" => state = "closed"
  <2>1. CASE state = "closed"
    BY <2>1, SocketAssumption DEF SocketsKnown, NoLeakedSocket
  <2>2. CASE s = ws
    BY <2>2 DEF SocketsKnown, NoLeakedSocket
  <2> QED BY <1>2, <2>1, <2>2
<1>6. /\ ws' = NoSocket
      /\ state' \in {"disconnected", "reconnecting", "closed"}
      /\ (state = "closed" <=> state' = "closed")
      /\ orphans' = 0
      /\ (reconnectTimeout' = "pending" <=> state' = "reconnecting")
      /\ (state' = "reconnecting" => state = "connected")
  <2>1. CASE state = "connected" /\ ScheduleReconnect("disconnected")
    BY <1>1, <2>1
    DEF HandleClose, ScheduleReconnect, TimerMatchesState, timerVars
  <2>2. CASE state # "closed" /\ state' = "disconnected" /\ UNCHANGED timerVars
    <3>1. state # "reconnecting"
      BY <1>1, <1>2, <2>2, SocketAssumption DEF SocketsKnown
    <3> QED BY <1>1, <2>2, <3>1
            DEF HandleClose, TimerMatchesState, TypeOK, timerVars
  <2>3. CASE state = "closed" /\ UNCHANGED <<state, timerVars>>
    BY <1>1, <2>3 DEF HandleClose, TimerMatchesState, TypeOK, timerVars
  <2> QED BY <1>1, <2>1, <2>2, <2>3 DEF HandleClose
<1>7. StateMatchesSocket' /\ NoLeakedSocket' /\ TimerMatchesState'
  BY <1>3, <1>5, <1>6
  DEF StateMatchesSocket, NoLeakedSocket, TimerMatchesState
<1>8. NothingPending'
  BY <1>1 DEF NothingPending
<1>9. RetryAlone'
  <2>1. CASE owner[s] = "timer" /\ micro' = <<"retry">>
    <3>1. state # "connected"
      BY <1>2, <2>1 DEF SocketsKnown, StateMatchesSocket
    <3> QED BY <1>6, <2>1, <3>1 DEF RetryAlone
  <2>2. CASE micro' = <<>>
    BY <2>2 DEF RetryAlone
  <2> QED BY <1>1, <2>1, <2>2 DEF CloseEvent, Reject
<1>10. SocketsKnown'
  BY <1>1, <1>3, <1>4, <1>5, <1>6 DEF SocketsKnown
<1> QED BY <1>7, <1>8, <1>9, <1>10

\* close() disposes of this.ws and of the only timer.
LEMMA CloseStep ==
  ASSUME Sequential, TypeOK, SequentialInv, Close
  PROVE  SequentialInv'
<1> USE DEF SequentialInv
<1>1. /\ state' = "closed" /\ ws' = NoSocket /\ reconnectTimeout' = "none"
      /\ UNCHANGED <<owner, listening, authWait, dispatch, orphans, micro>>
  BY DEF Close, ClearTimer
<1>2. \A t \in Sockets :
        rs'[t] = IF rs[t] \in {"connecting", "open"} THEN "closing" ELSE rs[t]
  BY SocketAssumption DEF Close, CloseSocket, NoLeakedSocket, TypeOK
<1>3. StateMatchesSocket' /\ NoLeakedSocket' /\ TimerMatchesState'
  BY <1>1, <1>2 DEF StateMatchesSocket, NoLeakedSocket, TimerMatchesState
<1>4. RetryAlone' /\ NothingPending'
  BY <1>1 DEF RetryAlone, NothingPending
<1>5. SocketsKnown'
  BY <1>1, <1>2 DEF SocketsKnown
<1> QED BY <1>3, <1>4, <1>5

\* The catch clause of the timer arms the only timer, or gives up.
LEMMA RetryStep ==
  ASSUME TypeOK, SequentialInv, RetryCatch
  PROVE  SequentialInv'
<1> USE DEF SequentialInv
<1>1. micro = <<"retry">> /\ state \in {"disconnected", "closed"}
  <2>1. micro # <<>> /\ Head(micro) = "retry"
    BY DEF RetryCatch
  <2>2. 1 \in 1..Len(micro) /\ micro[1] = "retry"
    BY <2>1 DEF TypeOK
  <2> QED BY <2>2 DEF RetryAlone
<1>2. micro' = <<>>
  BY <1>1 DEF RetryCatch
<1>3. /\ UNCHANGED <<ws, rs, owner, listening, authWait, dispatch>>
      /\ state' \in {state, "reconnecting"}
      /\ state = "closed" => state' = "closed"
      /\ orphans' = 0
      /\ reconnectTimeout' = "pending" <=> state' = "reconnecting"
  BY <1>1 DEF RetryCatch, ScheduleReconnect, TimerMatchesState, sockVars,
              timerVars
<1>4. StateMatchesSocket' /\ NoLeakedSocket' /\ TimerMatchesState'
  BY <1>1, <1>3 DEF StateMatchesSocket, NoLeakedSocket, TimerMatchesState
<1>5. RetryAlone' /\ NothingPending'
  BY <1>2, <1>3 DEF RetryAlone, NothingPending
<1>6. SocketsKnown'
  BY <1>1, <1>3 DEF SocketsKnown
<1> QED BY <1>4, <1>5, <1>6

\* A socket of a connected transport that starts to close stays this.ws.
LEMMA ClosingStep ==
  ASSUME TypeOK, SequentialInv, NEW s \in Sockets, rs[s] \in {"open", "closing"},
         s = ws, rs' = [rs EXCEPT ![s] = "closing"],
         UNCHANGED <<state, ws, owner, listening, authWait, dispatch,
                     reconnectTimeout, orphans, micro>>
  PROVE  SequentialInv'
<1> USE DEF SequentialInv
<1>1. rs'[s] = "closing" /\ \A t \in Sockets \ {s} : rs'[t] = rs[t]
  BY DEF TypeOK
<1>2. state \notin {"connecting", "closed"} /\ owner[s] = "nobody"
  BY SocketAssumption DEF SocketsKnown
<1>3. StateMatchesSocket' /\ NoLeakedSocket' /\ TimerMatchesState'
  BY <1>1 DEF StateMatchesSocket, NoLeakedSocket, TimerMatchesState
<1>4. RetryAlone' /\ NothingPending'
  BY DEF RetryAlone, NothingPending
<1>5. SocketsKnown'
  BY <1>1, <1>2 DEF SocketsKnown
<1> QED BY <1>3, <1>4, <1>5

\* Every step of a sequential transport keeps the invariant.
LEMMA SequentialStep ==
  ASSUME Sequential, TypeOK, SequentialInv, [Next]_vars
  PROVE  SequentialInv'
<1>1. UserCode => \A i \in 1..Len(micro) : micro[i] # "retry"
  BY DEF UserCode, Sequential
<1>2. ASSUME NEW m \in Msgs, Send(m) PROVE SequentialInv'
  <2>1. CASE UNCHANGED <<state, sockVars>>
    <3>1. micro' \in {micro, Append(micro, m)}
      BY <1>2 DEF Send
    <3>2. RetryAlone'
      BY <1>1, <1>2, <2>1, <3>1, MicroStep DEF Send, SequentialInv
    <3> QED BY <1>2, <2>1, <3>2, QuietStep DEF Send, sockVars, timerVars
  <2>2. CASE state = "disconnected" /\ Connect(m) /\ UNCHANGED micro
    BY <1>1, <1>2, <2>2, ConnectStep
    DEF Send, timerVars, SequentialInv, TimerMatchesState, TypeOK
  <2> QED BY <1>2, <2>1, <2>2 DEF Send
<1>3. ASSUME NEW m \in Msgs, Poll(m) PROVE SequentialInv'
  <2>1. RetryAlone'
    <3>1. micro = <<>> /\ UNCHANGED state /\ micro' \in {micro, Append(micro, m)}
      BY <1>3 DEF Poll, Idle
    <3>2. \A i \in 1..Len(micro) : micro[i] # "retry"
      BY <3>1
    <3> QED BY <3>1, <3>2, MicroStep DEF SequentialInv
  <2> QED BY <1>3, <2>1, QuietStep DEF Poll, sockVars, timerVars
<1>4. ASSUME SendContinues PROVE SequentialInv'
  <2>1. RetryAlone'
    BY <1>4, MicroStep DEF SendContinues, SequentialInv
  <2> QED BY <1>4, <2>1, QuietStep DEF SendContinues, sockVars, timerVars
<1>5. ASSUME RetryCatch PROVE SequentialInv'
  BY <1>5, RetryStep
<1>6. ASSUME ReconnectTimer PROVE SequentialInv'
  <2>1. /\ orphans = 0 /\ reconnectTimeout = "pending"
        /\ state = "reconnecting"
    BY <1>6 DEF ReconnectTimer, SequentialInv, TimerMatchesState
  <2>2. /\ Connect("timer") /\ reconnectTimeout' = "none"
        /\ UNCHANGED <<orphans, micro>> /\ micro = <<>>
    BY <1>6, <2>1 DEF ReconnectTimer, sendVars, Idle
  <2>3. \A i \in 1..Len(micro') : micro'[i] # "retry"
    BY <2>2
  <2> QED BY <2>1, <2>2, <2>3, ConnectStep
<1>7. ASSUME NEW s \in Sockets, OpenEvent(s) PROVE SequentialInv'
  BY <1>7, OpenStep
<1>8. ASSUME NEW s \in Sockets, AuthSettles(s) PROVE SequentialInv'
  BY <1>8 DEF AuthSettles, SequentialInv, NothingPending
<1>9. ASSUME NEW s \in Sockets, CloseEvent(s) PROVE SequentialInv'
  BY <1>9, CloseEventStep
<1>10. ASSUME NEW s \in Sockets, PeerCloses(s) PROVE SequentialInv'
  <2>1. s = ws
    BY <1>10 DEF PeerCloses, SequentialInv, NoLeakedSocket
  <2> QED BY <1>10, <2>1, ClosingStep DEF PeerCloses, timerVars, sendVars
<1>11. ASSUME NEW s \in Sockets, DataArrives(s) \/ PongArrives(s)
       PROVE  SequentialInv'
  <2>1. UNCHANGED <<state, sockVars, timerVars, sendVars>>
    BY <1>11 DEF DataArrives, PongArrives
  <2>2. RetryAlone'
    BY <2>1 DEF SequentialInv, RetryAlone, sendVars
  <2> QED BY <2>1, <2>2, QuietStep DEF sockVars, timerVars
<1>12. ASSUME CloseEventGoesOn PROVE SequentialInv'
  BY <1>12 DEF CloseEventGoesOn, SequentialInv, NothingPending
<1>13. ASSUME HeartbeatTick PROVE SequentialInv'
  <2>1. /\ state = "connected" /\ ws \in Sockets
        /\ rs[ws] \in {"open", "closing"}
    BY <1>13 DEF HeartbeatTick, SequentialInv, StateMatchesSocket, TypeOK
  <2>2. UNCHANGED <<state, ws, owner, listening, authWait, dispatch,
                    reconnectTimeout, orphans, micro>>
    BY <1>13 DEF HeartbeatTick, timerVars, sendVars
  <2>3. CASE UNCHANGED rs
    BY <2>2, <2>3, QuietStep DEF SequentialInv, RetryAlone
  <2>4. CASE rs' = [rs EXCEPT ![ws] = "closing"]
    BY <2>1, <2>2, <2>4, ClosingStep
  <2> QED BY <1>13, <2>3, <2>4 DEF HeartbeatTick, CloseSocket
<1>14. ASSUME Receive PROVE SequentialInv'
  <2>1. UNCHANGED <<state, sockVars, timerVars, sendVars>>
    BY <1>14 DEF Receive
  <2>2. RetryAlone'
    BY <2>1 DEF SequentialInv, RetryAlone, sendVars
  <2> QED BY <2>1, <2>2, QuietStep DEF sockVars, timerVars
<1>15. ASSUME Close PROVE SequentialInv'
  BY <1>15, CloseStep
<1>16. ASSUME UNCHANGED vars PROVE SequentialInv'
  <2>1. RetryAlone'
    BY <1>16 DEF vars, sendVars, SequentialInv, RetryAlone
  <2> QED BY <1>16, <2>1, QuietStep DEF vars, sockVars, timerVars
<1> QED BY <1>2, <1>3, <1>4, <1>5, <1>6, <1>7, <1>8, <1>9, <1>10, <1>11, <1>12,
           <1>13, <1>14, <1>15, <1>16 DEF Next

\* It holds at the start.
LEMMA SequentialInit == Init => SequentialInv
  BY SocketAssumption
  DEF Init, SequentialInv, StateMatchesSocket, NoLeakedSocket,
      TimerMatchesState, RetryAlone, NothingPending, SocketsKnown

\* In a sequential transport every step keeps the invariant, so it holds.
LEMMA SequentialAlways ==
  ASSUME Sequential
  PROVE  Spec => []SequentialInv
<1>1. TypeOK /\ SequentialInv /\ [Next]_vars => SequentialInv'
  BY SequentialStep
<1> QED BY <1>1, SequentialInit, TypeCorrect, PTL DEF Spec

\* A sequential transport that is connected has a socket that opened, and one
\* that is connecting has an attempt under way.
THEOREM SequentialConsistent ==
  ASSUME Sequential
  PROVE  Spec => []StateMatchesSocket
<1>1. SequentialInv => StateMatchesSocket
  BY DEF SequentialInv
<1> QED BY <1>1, SequentialAlways, PTL

\* A sequential transport has no living socket but this.ws: a reconnection, a
\* late close event or close() leaves no connection behind.
THEOREM SequentialNoLeak ==
  ASSUME Sequential
  PROVE  Spec => []NoLeakedSocket
<1>1. SequentialInv => NoLeakedSocket
  BY DEF SequentialInv
<1> QED BY <1>1, SequentialAlways, PTL

\* The reconnect timer of a sequential transport is pending exactly while it
\* is reconnecting, and no handle of a pending timer is ever overwritten.
THEOREM SequentialTimer ==
  ASSUME Sequential
  PROVE  Spec => []TimerMatchesState
<1>1. SequentialInv => TimerMatchesState
  BY DEF SequentialInv
<1> QED BY <1>1, SequentialAlways, PTL

\* In a sequential transport nothing brings back what close() closed: no
\* socket's open event, no timer and no catch clause is left that could.
THEOREM SequentialClosedIsFinal ==
  ASSUME Sequential
  PROVE  Spec => ClosedIsFinal
<1>1. SequentialInv /\ [Next]_vars
        => [state = "closed" => state' = "closed"]_vars
  <2> SUFFICES ASSUME SequentialInv, Next, state = "closed"
               PROVE  state' = "closed"
    OBVIOUS
  <2>1. \A s \in Sockets : ~OpenEvent(s) /\ ~AuthSettles(s)
    BY DEF OpenEvent, AuthSettles, SequentialInv, SocketsKnown, NothingPending
  <2>2. ~ReconnectTimer /\ ~HeartbeatTick
    BY DEF ReconnectTimer, HeartbeatTick, SequentialInv, TimerMatchesState
  <2>3. ASSUME NEW s \in Sockets, CloseEvent(s) PROVE state' = "closed"
    BY <2>3 DEF CloseEvent, HandleClose
  <2>4. CASE RetryCatch
    BY <2>4 DEF RetryCatch, ScheduleReconnect
  <2>5. CASE CloseEventGoesOn
    BY <2>5 DEF CloseEventGoesOn, HandleClose
  <2>6. ASSUME NEW m \in Msgs, Send(m) \/ Poll(m) PROVE state' = "closed"
    BY <2>6 DEF Send, Poll
  <2>7. ASSUME NEW s \in Sockets,
               PeerCloses(s) \/ DataArrives(s) \/ PongArrives(s)
        PROVE  state' = "closed"
    BY <2>7 DEF PeerCloses, DataArrives, PongArrives
  <2>8. CASE SendContinues \/ Receive \/ Close
    BY <2>8 DEF SendContinues, Receive, Close
  <2> QED BY <2>1, <2>2, <2>3, <2>4, <2>5, <2>6, <2>7, <2>8 DEF Next
<1> QED BY <1>1, SequentialAlways, PTL DEF Spec, ClosedIsFinal

-----------------------------------------------------------------------------
(* What the send side promises *)

\* A send() that is about to go on waits in the microtasks once, and one that
\* awaits its own connect() is awaited by one socket.
SendsAccounted ==
  /\ \A i \in 1..Len(micro) : micro[i] \in Msgs =>
       /\ pc[micro[i]] = "ready"
       /\ \A j \in 1..Len(micro) : micro[j] = micro[i] => j = i
  /\ \A s \in Sockets : owner[s] \in Msgs =>
       /\ pc[owner[s]] = "connecting"
       /\ \A t \in Sockets : owner[t] = owner[s] => t = s

\* Steps that leave the send() calls alone keep their account.
LEMMA AccountQuiet ==
  ASSUME SendsAccounted, UNCHANGED <<micro, pc, owner>>
  PROVE  SendsAccounted'
  BY DEF SendsAccounted

\* A send() that was not among the microtasks, and that no socket has to
\* settle any more, may join them.
LEMMA AccountJoin ==
  ASSUME TypeOK, SendsAccounted, NEW m \in Msgs, pc[m] # "ready",
         pc' = [pc EXCEPT ![m] = "ready"], micro' = Append(micro, m),
         \A t \in Sockets : owner'[t] \in Msgs =>
                             owner'[t] # m /\ owner'[t] = owner[t]
  PROVE  SendsAccounted'
<1>1. /\ micro \in Seq(Msgs \cup {"retry"}) /\ Len(micro) \in Nat
      /\ Len(micro') = Len(micro) + 1 /\ micro'[Len(micro) + 1] = m
      /\ \A i \in 1..Len(micro) : micro'[i] = micro[i]
  BY DEF TypeOK
<1>2. \A n \in Msgs : pc'[n] = IF n = m THEN "ready" ELSE pc[n]
  BY DEF TypeOK
<1>3. \A i \in 1..Len(micro) : micro[i] # m
  BY DEF SendsAccounted
<1> QED BY <1>1, <1>2, <1>3 DEF SendsAccounted

\* A send() that fails, or starts to poll, was not in the microtasks.
LEMMA AccountChange ==
  ASSUME TypeOK, SendsAccounted, NEW m \in Msgs, pc[m] # "ready",
         NEW v \in SendStates, pc' = [pc EXCEPT ![m] = v], UNCHANGED micro,
         \A t \in Sockets : owner'[t] \in Msgs =>
                             owner'[t] # m /\ owner'[t] = owner[t]
  PROVE  SendsAccounted'
<1>1. \A n \in Msgs : pc'[n] = IF n = m THEN v ELSE pc[n]
  BY DEF TypeOK
<1> QED BY <1>1 DEF SendsAccounted

\* connect()'s promise is settled.
LEMMA AccountSettle ==
  ASSUME TypeOK, SendsAccounted, NEW s \in Sockets, Resolve(s) \/ Reject(s)
  PROVE  SendsAccounted'
<1>1. owner' = [owner EXCEPT ![s] = "nobody"]
  BY DEF Resolve, Reject
<1>2. \A t \in Sockets : owner'[t] \in Msgs => owner'[t] = owner[t] /\ t # s
  BY <1>1, MsgAssumption DEF TypeOK
<1>3. CASE owner[s] \in Msgs /\ Resolve(s)
  <2>1. pc[owner[s]] # "ready"
    BY <1>3 DEF SendsAccounted
  <2>2. \A t \in Sockets : owner'[t] \in Msgs => owner'[t] # owner[s]
    BY <1>2, <1>3 DEF SendsAccounted
  <2> QED BY <1>2, <1>3, <2>1, <2>2, AccountJoin DEF Resolve
<1>4. CASE owner[s] \in Msgs /\ Reject(s)
  <2>1. pc[owner[s]] # "ready" /\ "failed" \in SendStates
    BY <1>4 DEF SendsAccounted, SendStates
  <2>2. UNCHANGED micro /\ pc' = [pc EXCEPT ![owner[s]] = "failed"]
    BY <1>4, MsgAssumption DEF Reject
  <2>3. \A t \in Sockets : owner'[t] \in Msgs => owner'[t] # owner[s]
    BY <1>2, <1>4 DEF SendsAccounted
  <2> QED BY <1>2, <1>4, <2>1, <2>2, <2>3, AccountChange
<1>5. CASE owner[s] \notin Msgs
  <2>1. UNCHANGED pc /\ micro' \in {micro, Append(micro, "retry")}
    BY <1>5 DEF Resolve, Reject
  <2>2. \A i \in 1..Len(micro') : micro'[i] \in Msgs =>
           i \in 1..Len(micro) /\ micro'[i] = micro[i]
    <3>1. CASE micro' = micro
      BY <3>1
    <3>2. CASE micro' = Append(micro, "retry")
      <4>1. /\ Len(micro') = Len(micro) + 1 /\ Len(micro) \in Nat
            /\ micro'[Len(micro) + 1] = "retry"
            /\ \A i \in 1..Len(micro) : micro'[i] = micro[i]
        BY <3>2 DEF TypeOK
      <4> QED BY <4>1, MsgAssumption
    <3> QED BY <2>1, <3>1, <3>2
  <2> QED BY <1>2, <2>1, <2>2 DEF SendsAccounted
<1> QED BY <1>3, <1>4, <1>5

\* A microtask runs: what it was is off the account.
LEMMA AccountNext ==
  ASSUME TypeOK, SendsAccounted, micro # <<>>, micro' = Tail(micro),
         UNCHANGED owner, NEW v \in {"done", "failed"},
         \/ UNCHANGED pc /\ Head(micro) \notin Msgs
         \/ Head(micro) \in Msgs /\ pc' = [pc EXCEPT ![Head(micro)] = v]
  PROVE  SendsAccounted'
<1>1. /\ Len(micro) \in Nat /\ Len(micro) >= 1 /\ Head(micro) = micro[1]
      /\ Len(micro') = Len(micro) - 1
      /\ \A i \in 1..Len(micro') : i + 1 \in 1..Len(micro)
                                    /\ micro'[i] = micro[i + 1]
  BY DEF TypeOK
<1>2. \A i \in 1..Len(micro') : micro'[i] \in Msgs => micro'[i] # Head(micro)
  BY <1>1 DEF SendsAccounted
<1>3. \A n \in Msgs : n # Head(micro) => pc'[n] = pc[n]
  BY DEF TypeOK
<1>4. \A i \in 1..Len(micro') : micro'[i] \in Msgs =>
        /\ pc'[micro'[i]] = "ready"
        /\ \A j \in 1..Len(micro') : micro'[j] = micro'[i] => j = i
  <2> SUFFICES ASSUME NEW i \in 1..Len(micro'), micro'[i] \in Msgs
               PROVE  /\ pc'[micro'[i]] = "ready"
                      /\ \A j \in 1..Len(micro') : micro'[j] = micro'[i] => j = i
    OBVIOUS
  <2>1. i + 1 \in 1..Len(micro) /\ micro'[i] = micro[i + 1]
    BY <1>1
  <2>2. /\ pc[micro[i + 1]] = "ready"
        /\ \A j \in 1..Len(micro) : micro[j] = micro[i + 1] => j = i + 1
    BY <2>1 DEF SendsAccounted
  <2> QED BY <1>1, <1>2, <1>3, <2>1, <2>2
<1>5. \A s \in Sockets : owner[s] \in Msgs => owner[s] # Head(micro)
  BY <1>1 DEF SendsAccounted
<1> QED BY <1>3, <1>4, <1>5 DEF SendsAccounted

\* Every step keeps the account.
LEMMA AccountStep ==
  ASSUME TypeOK, SendsAccounted, [Next]_vars
  PROVE  SendsAccounted'
<1>1. ASSUME NEW m \in Msgs, Send(m) PROVE SendsAccounted'
  <2>1. pc[m] = "idle" /\ \A t \in Sockets : owner[t] # m
    BY <1>1 DEF Send, SendsAccounted
  <2>3. CASE Connect(m) /\ UNCHANGED micro /\ pc' = [pc EXCEPT ![m] = "connecting"]
    <3>1. PICK s \in Sockets : owner' = [owner EXCEPT ![s] = m]
      BY <2>3 DEF Connect
    <3>2. \A n \in Msgs : pc'[n] = IF n = m THEN "connecting" ELSE pc[n]
      BY <2>3 DEF TypeOK
    <3>3. \A t \in Sockets : owner'[t] = IF t = s THEN m ELSE owner[t]
      BY <3>1 DEF TypeOK
    <3> QED BY <2>1, <2>3, <3>2, <3>3 DEF SendsAccounted
  <2>4. CASE /\ UNCHANGED <<owner, micro>>
             /\ \E v \in SendStates : pc' = [pc EXCEPT ![m] = v]
    BY <2>1, <2>4, AccountChange
  <2>5. CASE /\ UNCHANGED owner /\ micro' = Append(micro, m)
             /\ pc' = [pc EXCEPT ![m] = "ready"]
    BY <2>1, <2>5, AccountJoin
  <2> QED BY <1>1, <2>3, <2>4, <2>5 DEF Send, SendStates, sockVars
<1>2. ASSUME NEW m \in Msgs, Poll(m) PROVE SendsAccounted'
  <2>1. pc[m] = "polling" /\ UNCHANGED owner
        /\ \A t \in Sockets : owner[t] # m
    BY <1>2 DEF Poll, sockVars, SendsAccounted
  <2>2. CASE UNCHANGED micro /\ pc' = [pc EXCEPT ![m] = "failed"]
    BY <2>1, <2>2, AccountChange DEF SendStates
  <2>3. CASE micro' = Append(micro, m) /\ pc' = [pc EXCEPT ![m] = "ready"]
    BY <2>1, <2>3, AccountJoin
  <2> QED BY <1>2, <2>2, <2>3 DEF Poll
<1>3. CASE SendContinues
  <2>1. /\ micro # <<>> /\ micro' = Tail(micro) /\ UNCHANGED owner
        /\ \E v \in {"done", "failed"} : pc' = [pc EXCEPT ![Head(micro)] = v]
    BY <1>3 DEF SendContinues, sockVars
  <2>2. Head(micro) \in Msgs
    BY <1>3 DEF SendContinues, TypeOK
  <2> QED BY <2>1, <2>2, AccountNext
<1>4. CASE RetryCatch
  <2>1. /\ micro # <<>> /\ micro' = Tail(micro) /\ UNCHANGED <<owner, pc>>
        /\ Head(micro) \notin Msgs
    BY <1>4, MsgAssumption DEF RetryCatch, sockVars
  <2> QED BY <2>1, AccountNext
<1>5. CASE ReconnectTimer
  <2>1. CASE UNCHANGED sockVars
    BY <1>5, <2>1, AccountQuiet DEF ReconnectTimer, sockVars, sendVars
  <2>2. CASE Connect("timer")
    <3>1. UNCHANGED <<micro, pc>> /\ "timer" \notin Msgs
      BY <1>5, MsgAssumption DEF ReconnectTimer, sendVars
    <3>2. PICK s \in Sockets : owner' = [owner EXCEPT ![s] = "timer"]
      BY <2>2 DEF Connect
    <3>3. \A t \in Sockets : owner'[t] = IF t = s THEN "timer" ELSE owner[t]
      BY <3>2 DEF TypeOK
    <3> QED BY <3>1, <3>3 DEF SendsAccounted
  <2> QED BY <1>5, <2>1, <2>2 DEF ReconnectTimer
<1>6. ASSUME NEW s \in Sockets, OpenEvent(s) PROVE SendsAccounted'
  BY <1>6, AccountQuiet, AccountSettle DEF OpenEvent, Established, sendVars
<1>7. ASSUME NEW s \in Sockets, AuthSettles(s) PROVE SendsAccounted'
  <2>1. Reject(s) \/ Resolve(s)
    BY <1>7 DEF AuthSettles, AuthFails, Established
  <2> QED BY <2>1, AccountSettle
<1>8. ASSUME NEW s \in Sockets, CloseEvent(s) PROVE SendsAccounted'
  BY <1>8, AccountQuiet, AccountSettle DEF CloseEvent
<1>9. CASE CloseEventGoesOn \/ HeartbeatTick \/ Receive \/ Close
  BY <1>9, AccountQuiet
  DEF CloseEventGoesOn, HeartbeatTick, Receive, Close, sockVars, sendVars
<1>10. ASSUME NEW s \in Sockets,
              PeerCloses(s) \/ DataArrives(s) \/ PongArrives(s)
       PROVE  SendsAccounted'
  BY <1>10, AccountQuiet
  DEF PeerCloses, DataArrives, PongArrives, sockVars, sendVars
<1>11. CASE UNCHANGED vars
  BY <1>11, AccountQuiet DEF vars, sockVars, sendVars
<1> QED BY <1>1, <1>2, <1>3, <1>4, <1>5, <1>6, <1>7, <1>8, <1>9, <1>10, <1>11
        DEF Next

\* And so they are always accounted for.
LEMMA AccountAlways == Spec => []SendsAccounted
<1>1. Init => SendsAccounted
  BY MsgAssumption DEF Init, SendsAccounted
<1>2. TypeOK /\ SendsAccounted /\ [Next]_vars => SendsAccounted'
  BY AccountStep
<1> QED BY <1>1, <1>2, TypeCorrect, PTL DEF Spec

\* A step of the transport is a step of the outbox or leaves it alone.
LEMMA OutboxStep ==
  ASSUME TypeOK, SendsAccounted, FlushedWhenUsable, [Next]_vars
  PROVE  [Outbox!Next]_(Outbox!vars)
<1> DEFINE accepted == {m \in Msgs : pc[m] = "done"}
<1>1. ASSUME UNCHANGED <<sendQueue, wire>>,
             \A m \in Msgs : pc'[m] = "done" <=> pc[m] = "done"
      PROVE  [Outbox!Next]_(Outbox!vars)
  <2>1. accepted' = accepted
    BY <1>1
  <2> QED BY <1>1, <2>1 DEF Outbox!vars
<1>2. ASSUME NEW s \in Sockets, Resolve(s) \/ Reject(s)
      PROVE  \A m \in Msgs : pc'[m] = "done" <=> pc[m] = "done"
  BY <1>2 DEF Resolve, Reject, SendsAccounted, TypeOK
<1>3. ASSUME NEW s \in Sockets, Established(s)
      PROVE  [Outbox!Next]_(Outbox!vars)
  <2>1. \A m \in Msgs : pc'[m] = "done" <=> pc[m] = "done"
    BY <1>2, <1>3 DEF Established
  <2>2. CASE UNCHANGED <<sendQueue, wire>>
    BY <1>1, <2>1, <2>2
  <2>3. CASE wire' = wire \o sendQueue /\ sendQueue' = <<>>
    <3>1. accepted' = accepted
      BY <2>1
    <3> QED BY <2>3, <3>1 DEF Outbox!Flush, Outbox!Next
  <2> QED BY <1>3, <2>2, <2>3 DEF Established, FlushSendQueue
<1>4. ASSUME NEW m \in Msgs, Send(m) PROVE [Outbox!Next]_(Outbox!vars)
  <2>1. \E v \in {"ready", "failed", "polling", "connecting"} :
          pc' = [pc EXCEPT ![m] = v]
    BY <1>4 DEF Send
  <2>2. UNCHANGED <<sendQueue, wire>> /\ pc[m] = "idle"
    BY <1>4 DEF Send
  <2> QED BY <1>1, <2>1, <2>2 DEF TypeOK
<1>5. ASSUME NEW m \in Msgs, Poll(m) PROVE [Outbox!Next]_(Outbox!vars)
  <2>1. \E v \in {"ready", "failed"} : pc' = [pc EXCEPT ![m] = v]
    BY <1>5 DEF Poll
  <2>2. UNCHANGED <<sendQueue, wire>> /\ pc[m] = "polling"
    BY <1>5 DEF Poll
  <2> QED BY <1>1, <2>1, <2>2 DEF TypeOK
<1>6. CASE SendContinues
  <2>1. PICK m \in Msgs : m = Head(micro) /\ pc[m] = "ready"
    <3>1. /\ Head(micro) \in Msgs /\ Head(micro) = micro[1]
          /\ 1 \in 1..Len(micro)
      BY <1>6 DEF SendContinues, TypeOK
    <3> QED BY <3>1 DEF SendsAccounted
  <2>2. m \notin accepted
    BY <2>1
  <2>3. CASE /\ wire' = Append(wire, m) /\ UNCHANGED sendQueue
             /\ state = "connected" /\ WsIs("open")
             /\ pc' = [pc EXCEPT ![m] = "done"]
    <3>1. sendQueue = <<>>
      BY <2>3 DEF FlushedWhenUsable
    <3>2. accepted' = accepted \cup {m}
      BY <2>1, <2>3 DEF TypeOK
    <3> QED BY <2>1, <2>2, <2>3, <3>1, <3>2 DEF Outbox!Transmit, Outbox!Next
  <2>4. CASE /\ sendQueue' = Enqueued(sendQueue, m) /\ UNCHANGED wire
             /\ QueueFullError(sendQueue) /\ pc' = [pc EXCEPT ![m] = "failed"]
    <3>1. UNCHANGED sendQueue
      BY <2>4, OptionAssumption DEF QueueFullError, Enqueued, TypeOK
    <3>2. \A n \in Msgs : pc'[n] = "done" <=> pc[n] = "done"
      BY <2>1, <2>4 DEF TypeOK
    <3> QED BY <1>1, <2>4, <3>1, <3>2
  <2>5. CASE /\ sendQueue' = Enqueued(sendQueue, m) /\ UNCHANGED wire
             /\ ~QueueFullError(sendQueue) /\ pc' = [pc EXCEPT ![m] = "done"]
    <3>1. accepted' = accepted \cup {m}
      BY <2>1, <2>5 DEF TypeOK
    <3>2. \/ /\ Len(sendQueue) < MaxQueueSize
             /\ sendQueue' = Append(sendQueue, m)
          \/ /\ Len(sendQueue) >= MaxQueueSize
             /\ QueueFullBehavior = "drop-oldest"
             /\ sendQueue' = Append(SubSeq(sendQueue, 2, Len(sendQueue)), m)
          \/ /\ Len(sendQueue) >= MaxQueueSize
             /\ QueueFullBehavior = "drop-newest"
             /\ UNCHANGED sendQueue
      BY <2>5, OptionAssumption DEF Enqueued, QueueFullError, TypeOK
    <3>3. Outbox!Hold(m)
      BY <2>2, <2>5, <3>1, <3>2 DEF Outbox!Hold
    <3> QED BY <3>3 DEF Outbox!Next
  <2> QED BY <1>6, <2>1, <2>3, <2>4, <2>5 DEF SendContinues
<1>7. ASSUME NEW s \in Sockets, OpenEvent(s) PROVE [Outbox!Next]_(Outbox!vars)
  BY <1>1, <1>3, <1>7 DEF OpenEvent, sendVars
<1>8. ASSUME NEW s \in Sockets, AuthSettles(s)
      PROVE  [Outbox!Next]_(Outbox!vars)
  <2>1. CASE AuthFails(s)
    BY <1>1, <1>2, <2>1 DEF AuthFails
  <2> QED BY <1>3, <1>8, <2>1 DEF AuthSettles
<1>9. ASSUME NEW s \in Sockets, CloseEvent(s)
      PROVE  [Outbox!Next]_(Outbox!vars)
  BY <1>1, <1>2, <1>9 DEF CloseEvent
<1>10. CASE Close
  <2>1. UNCHANGED <<pc, wire>> /\ sendQueue' = <<>>
    BY <1>10 DEF Close
  <2>2. accepted' = accepted
    BY <2>1
  <2> QED BY <2>1, <2>2 DEF Outbox!Discard, Outbox!Next
<1>11. CASE RetryCatch \/ ReconnectTimer \/ CloseEventGoesOn \/ HeartbeatTick
            \/ Receive \/ UNCHANGED vars
  BY <1>1, <1>11
  DEF RetryCatch, ReconnectTimer, CloseEventGoesOn, HeartbeatTick, Receive,
      vars, sendVars
<1>12. ASSUME NEW s \in Sockets,
              PeerCloses(s) \/ DataArrives(s) \/ PongArrives(s)
       PROVE  [Outbox!Next]_(Outbox!vars)
  BY <1>1, <1>12 DEF PeerCloses, DataArrives, PongArrives, sendVars
<1> QED BY <1>4, <1>5, <1>6, <1>7, <1>8, <1>9, <1>10, <1>11, <1>12 DEF Next

\* Without auth provider, and with one that has a token or fails, the
\* transport implements the outbox, whatever the host and the callbacks do:
\* what send() accepted goes out in the order of acceptance, at most once, and
\* is lost to the overflow behavior and to close() only.
THEOREM SendsAreAnOutbox ==
  ASSUME TokenOrFail
  PROVE  Spec => ImplementsOutbox
<1>1. Init => Outbox!Init
  BY DEF Init, Outbox!Init
<1>2. TypeOK /\ SendsAccounted /\ FlushedWhenUsable /\ [Next]_vars
        => [Outbox!Next]_(Outbox!vars)
  BY OutboxStep
<1>3. Spec => []FlushedWhenUsable
  BY NothingHeldBack
<1> QED BY <1>1, <1>2, <1>3, AccountAlways, TypeCorrect, PTL
        DEF Spec, ImplementsOutbox, Outbox!Spec

-----------------------------------------------------------------------------
(* Sequences in the order of a relation *)

\* Every element of a sequence is related to those after it.
InOrder(q, R) ==
  \A i, j \in 1..Len(q) : i < j => <<q[i], q[j]>> \in R

\* A sequence that loses some elements from the middle keeps its order.
LEMMA OrderDrop ==
  ASSUME NEW S, NEW p \in Seq(S), NEW q \in Seq(S), NEW r \in Seq(S),
         NEW t, t = q \o r, NEW R, InOrder(p \o t, R)
  PROVE  InOrder(p \o r, R)
<1> DEFINE all == p \o t
           kept == p \o r
           from(i) == IF i <= Len(p) THEN i ELSE i + Len(q)
<1>1. /\ Len(p) \in Nat /\ Len(q) \in Nat /\ Len(r) \in Nat
      /\ Len(kept) = Len(p) + Len(r) /\ Len(all) = Len(p) + Len(q) + Len(r)
  OBVIOUS
<1>2. \A i \in 1..Len(kept) : from(i) \in 1..Len(all) /\ kept[i] = all[from(i)]
  OBVIOUS
<1>3. \A i, j \in 1..Len(kept) : i < j => from(i) < from(j)
  BY <1>1
<1> HIDE DEF all, kept, from
<1>4. InOrder(all, R)
  BY DEF all
<1>5. InOrder(kept, R)
  BY <1>2, <1>3, <1>4 DEF InOrder
<1> QED BY <1>5 DEF kept

\* All elements of q are in t.
Within(q, t) ==
  \A i \in 1..Len(q) : \E j \in 1..Len(t) : q[i] = t[j]

\* What is left was there before.
LEMMA WithinDrop ==
  ASSUME NEW S, NEW p \in Seq(S), NEW q \in Seq(S), NEW r \in Seq(S),
         NEW t, t = q \o r
  PROVE  Within(p \o r, p \o t)
<1> SUFFICES ASSUME NEW i \in 1..Len(p \o r)
             PROVE  \E j \in 1..Len(p \o t) : (p \o r)[i] = (p \o t)[j]
  BY DEF Within
<1> DEFINE j == IF i <= Len(p) THEN i ELSE i + Len(q)
<1>1. j \in 1..Len(p \o (q \o r)) /\ (p \o r)[i] = (p \o (q \o r))[j]
  OBVIOUS
<1> HIDE DEF j
<1> QED BY <1>1

\* What drop-oldest leaves of a queue is an end of it.
LEMMA QueueSplit ==
  ASSUME NEW S, NEW q \in Seq(S)
  PROVE  /\ SubSeq(q, 2, Len(q)) \in Seq(S)
         /\ \E h \in Seq(S) : q = h \o SubSeq(q, 2, Len(q))
<1>1. CASE q = <<>>
  <2>1. SubSeq(q, 2, Len(q)) = <<>> /\ q = <<>> \o <<>> /\ <<>> \in Seq(S)
    BY <1>1
  <2> QED BY <2>1
<1>2. CASE q # <<>>
  <2>1. /\ <<q[1]>> \in Seq(S) /\ SubSeq(q, 2, Len(q)) \in Seq(S)
        /\ q = <<q[1]>> \o SubSeq(q, 2, Len(q))
    BY <1>2
  <2> QED BY <2>1
<1> QED BY <1>1, <1>2

\* An element that every other is related to goes to the end.
LEMMA OrderAppend ==
  ASSUME NEW S, NEW p \in Seq(S), NEW m \in S, NEW R, InOrder(p, R),
         \A i \in 1..Len(p) : <<p[i], m>> \in R
  PROVE  InOrder(Append(p, m), R)
<1>1. \A i \in 1..Len(p) : Append(p, m)[i] = p[i]
  OBVIOUS
<1>2. /\ Len(Append(p, m)) = Len(p) + 1 /\ Len(p) \in Nat
      /\ Append(p, m)[Len(p) + 1] = m
  OBVIOUS
<1> QED BY <1>1, <1>2 DEF InOrder

\* So does one that is related both ways, wherever it goes.
LEMMA OrderInsert ==
  ASSUME NEW S, NEW p \in Seq(S), NEW q \in Seq(S), NEW m \in S, NEW R,
         InOrder(p \o q, R),
         \A i \in 1..Len(p \o q) : /\ <<(p \o q)[i], m>> \in R
                                   /\ <<m, (p \o q)[i]>> \in R
  PROVE  InOrder(Append(p, m) \o q, R)
<1> DEFINE old == p \o q
           new == Append(p, m) \o q
           from(i) == IF i <= Len(p) THEN i ELSE i - 1
<1>1. /\ Len(p) \in Nat /\ Len(q) \in Nat
      /\ Len(new) = Len(old) + 1 /\ Len(old) = Len(p) + Len(q)
  OBVIOUS
<1>2. \A i \in 1..Len(new) :
        IF i = Len(p) + 1 THEN new[i] = m
        ELSE from(i) \in 1..Len(old) /\ new[i] = old[from(i)]
  OBVIOUS
<1>3. \A i, j \in 1..Len(new) :
        i < j /\ i # Len(p) + 1 /\ j # Len(p) + 1 => from(i) < from(j)
  BY <1>1
<1>4. InOrder(old, R) /\ \A i \in 1..Len(old) : <<old[i], m>> \in R /\ <<m, old[i]>> \in R
  OBVIOUS
<1> HIDE DEF old, new, from
<1>5. ASSUME NEW i \in 1..Len(new), NEW j \in 1..Len(new), i < j
      PROVE  <<new[i], new[j]>> \in R
  <2>1. CASE i = Len(p) + 1
    <3>1. j # Len(p) + 1
      BY <1>1, <1>5, <2>1
    <3> QED BY <1>2, <1>4, <2>1, <3>1
  <2>2. CASE j = Len(p) + 1
    <3>1. i # Len(p) + 1
      BY <1>1, <1>5, <2>2
    <3> QED BY <1>2, <1>4, <2>2, <3>1
  <2>3. CASE i # Len(p) + 1 /\ j # Len(p) + 1
    <3>1. from(i) < from(j)
      BY <1>3, <1>5, <2>3
    <3>2. /\ from(i) \in 1..Len(old) /\ new[i] = old[from(i)]
          /\ from(j) \in 1..Len(old) /\ new[j] = old[from(j)]
      BY <1>2, <2>3
    <3> QED BY <1>4, <3>1, <3>2 DEF InOrder
  <2> QED BY <2>1, <2>2, <2>3
<1> QED BY <1>5 DEF InOrder, new

\* Concatenation is associative.
LEMMA ConcatAssoc ==
  ASSUME NEW S, NEW p \in Seq(S), NEW q \in Seq(S), NEW r \in Seq(S)
  PROVE  (p \o q) \o r = p \o (q \o r)
  OBVIOUS

\* A sequence is its head and its tail.
LEMMA HeadTail ==
  ASSUME NEW S, NEW r \in Seq(S), r # <<>>
  PROVE  /\ Tail(r) \in Seq(S) /\ <<Head(r)>> \in Seq(S)
         /\ r = <<Head(r)>> \o Tail(r)
  OBVIOUS

\* The head of the second sequence may go to the end of the first.
LEMMA HeadMoves ==
  ASSUME NEW S, NEW p \in Seq(S), NEW r \in Seq(S), r # <<>>
  PROVE  Append(p, Head(r)) \o Tail(r) = p \o r
  OBVIOUS

-----------------------------------------------------------------------------
(* No message goes out twice *)

\* The messages that have gone out, and those that are to go next.
Outgoing == wire \o sendQueue

\* A settled send() stays so, one that goes on settles next, and none is undone.
Advances(m) ==
  /\ pc[m] \in {"done", "failed"} => pc'[m] = pc[m]
  /\ pc[m] = "ready" => pc'[m] \in {"ready", "done", "failed"}
  /\ pc[m] # "idle" => pc'[m] # "idle"

\* What the microtasks become when no send() goes on: they lose their first, or
\* are joined by the catch of a timer, by a send() that waited for the connection,
\* or by one that has just been called on a connected transport.
MicrotasksChange ==
  \/ micro' = micro
  \/ micro # <<>> /\ micro' = Tail(micro)
  \/ micro' = Append(micro, "retry")
  \/ \E m \in Msgs :
       /\ micro' = Append(micro, m)
       /\ \/ pc[m] \in {"connecting", "polling"} /\ UNCHANGED called
          \/ Send(m) /\ state = "connected"

\* Every step advances every send().
LEMMA SendsAdvance ==
  ASSUME TypeOK, SendsAccounted, [Next]_vars, NEW m \in Msgs
  PROVE  Advances(m)
<1>1. ASSUME NEW s \in Sockets, Resolve(s) \/ Reject(s) PROVE Advances(m)
  BY <1>1 DEF Resolve, Reject, SendsAccounted, TypeOK, Advances
<1>2. ASSUME NEW n \in Msgs, Send(n) PROVE Advances(m)
  <2>1. \E v \in {"ready", "failed", "polling", "connecting"} :
          pc' = [pc EXCEPT ![n] = v]
    BY <1>2 DEF Send
  <2> QED BY <1>2, <2>1 DEF Send, TypeOK, Advances
<1>3. ASSUME NEW n \in Msgs, Poll(n) PROVE Advances(m)
  <2>1. \E v \in {"ready", "failed"} : pc' = [pc EXCEPT ![n] = v]
    BY <1>3 DEF Poll
  <2> QED BY <1>3, <2>1 DEF Poll, TypeOK, Advances
<1>4. CASE SendContinues
  <2>1. PICK n \in Msgs : n = Head(micro) /\ pc[n] = "ready"
    <3>1. /\ Head(micro) \in Msgs /\ Head(micro) = micro[1]
          /\ 1 \in 1..Len(micro)
      BY <1>4 DEF SendContinues, TypeOK
    <3> QED BY <3>1 DEF SendsAccounted
  <2>2. \E v \in {"done", "failed"} : pc' = [pc EXCEPT ![n] = v]
    BY <1>4, <2>1 DEF SendContinues
  <2> QED BY <2>1, <2>2 DEF TypeOK, Advances
<1>5. ASSUME NEW s \in Sockets, OpenEvent(s) \/ AuthSettles(s) \/ CloseEvent(s)
      PROVE  Advances(m)
  BY <1>1, <1>5 DEF OpenEvent, AuthSettles, AuthFails, Established, CloseEvent,
                    sendVars, Advances
<1>6. ASSUME NEW s \in Sockets,
             PeerCloses(s) \/ DataArrives(s) \/ PongArrives(s)
      PROVE  Advances(m)
  BY <1>6 DEF PeerCloses, DataArrives, PongArrives, sendVars, Advances
<1>7. CASE RetryCatch \/ ReconnectTimer \/ CloseEventGoesOn \/ HeartbeatTick
           \/ Receive \/ Close \/ UNCHANGED vars
  BY <1>7 DEF RetryCatch, ReconnectTimer, CloseEventGoesOn, HeartbeatTick,
              Receive, Close, vars, sendVars, Advances
<1> QED BY <1>2, <1>3, <1>4, <1>5, <1>6, <1>7 DEF Next

\* The messages on their way are left alone by all but SendContinues and Close.
LEMMA OutgoingStep ==
  ASSUME TypeOK, SendsAccounted, [Next]_vars, ~SendContinues, ~Close
  PROVE  Outgoing' = Outgoing /\ MicrotasksChange
<1>1. ASSUME UNCHANGED <<wire, sendQueue>> PROVE Outgoing' = Outgoing
  BY <1>1 DEF Outgoing
<1>2. ASSUME NEW s \in Sockets, Established(s)
      PROVE  Outgoing' = Outgoing /\ MicrotasksChange
  <2>1. ASSUME wire' = wire \o sendQueue, sendQueue' = <<>>
        PROVE  Outgoing' = Outgoing
    <3>1. wire' \o sendQueue' = wire \o sendQueue
      BY <2>1 DEF TypeOK
    <3> QED BY <3>1 DEF Outgoing
  <2>2. CASE micro' = micro
    BY <1>1, <1>2, <2>1, <2>2
    DEF Established, FlushSendQueue, MicrotasksChange
  <2>3. CASE owner[s] \in Msgs /\ micro' = Append(micro, owner[s])
    <3>1. pc[owner[s]] = "connecting" /\ UNCHANGED called
      BY <1>2, <2>3 DEF SendsAccounted, Established
    <3>2. MicrotasksChange
      BY <2>3, <3>1 DEF MicrotasksChange
    <3> QED BY <1>1, <1>2, <2>1, <3>2 DEF Established, FlushSendQueue
  <2> QED BY <1>2, <2>2, <2>3 DEF Established, Resolve
<1>3. ASSUME NEW m \in Msgs, Send(m)
      PROVE  Outgoing' = Outgoing /\ MicrotasksChange
  BY <1>1, <1>3 DEF Send, MicrotasksChange
<1>4. ASSUME NEW m \in Msgs, Poll(m)
      PROVE  Outgoing' = Outgoing /\ MicrotasksChange
  BY <1>1, <1>4 DEF Poll, MicrotasksChange
<1>5. ASSUME NEW s \in Sockets, OpenEvent(s)
      PROVE  Outgoing' = Outgoing /\ MicrotasksChange
  BY <1>1, <1>2, <1>5 DEF OpenEvent, sendVars, MicrotasksChange
<1>6. ASSUME NEW s \in Sockets, AuthSettles(s)
      PROVE  Outgoing' = Outgoing /\ MicrotasksChange
  <2>1. CASE AuthFails(s)
    BY <1>1, <2>1 DEF AuthFails, Reject, MicrotasksChange
  <2> QED BY <1>2, <1>6, <2>1 DEF AuthSettles
<1>7. ASSUME NEW s \in Sockets, CloseEvent(s)
      PROVE  Outgoing' = Outgoing /\ MicrotasksChange
  BY <1>1, <1>7 DEF CloseEvent, Reject, MicrotasksChange
<1>8. ASSUME NEW s \in Sockets,
             PeerCloses(s) \/ DataArrives(s) \/ PongArrives(s)
      PROVE  Outgoing' = Outgoing /\ MicrotasksChange
  BY <1>1, <1>8
  DEF PeerCloses, DataArrives, PongArrives, sendVars, MicrotasksChange
<1>9. CASE ReconnectTimer \/ CloseEventGoesOn \/ HeartbeatTick \/ Receive
           \/ UNCHANGED vars \/ RetryCatch
  BY <1>1, <1>9
  DEF ReconnectTimer, CloseEventGoesOn, HeartbeatTick, Receive, RetryCatch,
      vars, sendVars, MicrotasksChange
<1> QED BY <1>3, <1>4, <1>5, <1>6, <1>7, <1>8, <1>9 DEF Next

\* A send() that goes on fails, or is accepted: its message goes out ahead of the
\* queue, joins it, at the cost of the oldest one when it is full, or is dropped.
LEMMA OutgoingAccepts ==
  ASSUME TypeOK, SendsAccounted, SendContinues
  PROVE  \E m \in Msgs :
           /\ micro # <<>> /\ m = Head(micro) /\ micro' = Tail(micro)
           /\ pc[m] = "ready" /\ UNCHANGED called
           /\ \/ Outgoing' = Outgoing
              \/ /\ pc'[m] = "done" /\ state = "connected" /\ WsIs("open")
                 /\ Outgoing' = Append(wire, m) \o sendQueue
              \/ /\ pc'[m] = "done"
                 /\ Outgoing' = Append(Outgoing, m)
              \/ /\ pc'[m] = "done"
                 /\ Outgoing' =
                      Append(wire \o SubSeq(sendQueue, 2, Len(sendQueue)), m)
<1>1. PICK m \in Msgs : m = Head(micro) /\ pc[m] = "ready"
  <2>1. /\ Head(micro) \in Msgs /\ Head(micro) = micro[1]
        /\ 1 \in 1..Len(micro)
    BY DEF SendContinues, TypeOK
  <2> QED BY <2>1 DEF SendsAccounted
<1>2. micro # <<>> /\ micro' = Tail(micro) /\ UNCHANGED called
  BY DEF SendContinues
<1>3. CASE /\ wire' = Append(wire, m) /\ UNCHANGED sendQueue
           /\ state = "connected" /\ WsIs("open")
           /\ pc' = [pc EXCEPT ![m] = "done"]
  <2>1. pc'[m] = "done" /\ Outgoing' = Append(wire, m) \o sendQueue
    BY <1>3 DEF Outgoing, TypeOK
  <2> QED BY <1>1, <1>2, <1>3, <2>1
<1>4. CASE /\ sendQueue' = Enqueued(sendQueue, m) /\ UNCHANGED wire
           /\ pc' = [pc EXCEPT ![m] =
                       IF QueueFullError(sendQueue) THEN "failed" ELSE "done"]
  <2>1. CASE UNCHANGED sendQueue
    BY <1>1, <1>2, <1>4, <2>1 DEF Outgoing
  <2>2. CASE /\ ~QueueFullError(sendQueue)
             /\ sendQueue' = Append(sendQueue, m)
    <3>1. pc'[m] = "done"
      BY <1>4, <2>2 DEF TypeOK
    <3>2. wire' \o sendQueue' = Append(wire \o sendQueue, m)
      BY <1>4, <2>2, ConcatAppend DEF TypeOK
    <3> QED BY <1>1, <1>2, <3>1, <3>2 DEF Outgoing
  <2>3. CASE /\ ~QueueFullError(sendQueue)
             /\ sendQueue' = Append(SubSeq(sendQueue, 2, Len(sendQueue)), m)
    <3>1. pc'[m] = "done"
      BY <1>4, <2>3 DEF TypeOK
    <3>2. SubSeq(sendQueue, 2, Len(sendQueue)) \in Seq(Msgs)
      BY DEF TypeOK
    <3>3. wire' \o sendQueue' =
            Append(wire \o SubSeq(sendQueue, 2, Len(sendQueue)), m)
      BY <1>4, <2>3, <3>2, ConcatAppend DEF TypeOK
    <3>4. Outgoing' = Append(wire \o SubSeq(sendQueue, 2, Len(sendQueue)), m)
      BY <3>3 DEF Outgoing
    <3> QED BY <1>1, <1>2, <3>1, <3>4
  <2>4. \/ UNCHANGED sendQueue
        \/ ~QueueFullError(sendQueue) /\ sendQueue' = Append(sendQueue, m)
        \/ /\ ~QueueFullError(sendQueue)
           /\ sendQueue' = Append(SubSeq(sendQueue, 2, Len(sendQueue)), m)
    BY <1>4, OptionAssumption DEF Enqueued, QueueFullError, TypeOK
  <2> QED BY <2>1, <2>2, <2>3, <2>4
<1> QED BY <1>1, <1>3, <1>4 DEF SendContinues

\* Different messages.
Distinct == {e \in Msgs \X Msgs : e[1] # e[2]}

\* They are, and that is all.
LEMMA DistinctFact ==
  \A m, n : <<m, n>> \in Distinct <=> m \in Msgs /\ n \in Msgs /\ m # n
  BY DEF Distinct

\* SentOnce in terms of InOrder.
LEMMA SentOnceIsOrder ==
  ASSUME TypeOK
  PROVE  /\ Outgoing \in Seq(Msgs)
         /\ SentOnce <=> /\ InOrder(Outgoing, Distinct)
                         /\ \A i \in 1..Len(Outgoing) : pc[Outgoing[i]] = "done"
<1>1. Outgoing \in Seq(Msgs) /\ Len(Outgoing) \in Nat
      /\ \A i \in 1..Len(Outgoing) : Outgoing[i] \in Msgs
  BY DEF Outgoing, TypeOK
<1>2. SentOnce <=> \A i \in 1..Len(Outgoing) :
        /\ pc[Outgoing[i]] = "done"
        /\ \A j \in 1..(i - 1) : Outgoing[j] # Outgoing[i]
  BY DEF SentOnce, Outgoing
<1>3. ASSUME \A i \in 1..Len(Outgoing) : \A j \in 1..(i - 1) :
               Outgoing[j] # Outgoing[i]
      PROVE  InOrder(Outgoing, Distinct)
  BY <1>1, <1>3, DistinctFact DEF InOrder
<1>4. ASSUME InOrder(Outgoing, Distinct),
             NEW i \in 1..Len(Outgoing), NEW j \in 1..(i - 1)
      PROVE  Outgoing[j] # Outgoing[i]
  <2>1. j \in 1..Len(Outgoing) /\ j < i
    BY <1>1
  <2>2. <<Outgoing[j], Outgoing[i]>> \in Distinct
    BY <1>4, <2>1 DEF InOrder
  <2> QED BY <2>2, DistinctFact
<1> QED BY <1>1, <1>2, <1>3, <1>4

\* And of the state after a step.
LEMMA SentOnceIsOrderNext ==
  ASSUME TypeOK', InOrder(Outgoing', Distinct),
         \A i \in 1..Len(Outgoing') : pc'[Outgoing'[i]] = "done"
  PROVE  SentOnce'
<1>1. Outgoing' \in Seq(Msgs) /\ Len(Outgoing') \in Nat
  BY DEF Outgoing, TypeOK
<1>2. ASSUME NEW i \in 1..Len(Outgoing'), NEW j \in 1..(i - 1)
      PROVE  Outgoing'[j] # Outgoing'[i]
  <2>1. j \in 1..Len(Outgoing') /\ j < i
    BY <1>1
  <2>2. <<Outgoing'[j], Outgoing'[i]>> \in Distinct
    BY <2>1 DEF InOrder
  <2> QED BY <2>2, DistinctFact
<1> QED BY <1>2 DEF SentOnce, Outgoing

\* No message goes out twice, or is queued again, whatever the auth provider,
\* the host and the callbacks do, over any number of connections.
THEOREM NeverSentTwice == Spec => []SentOnce
<1>1. Init => SentOnce
  BY DEF Init, SentOnce
<1>2. TypeOK /\ TypeOK' /\ SendsAccounted /\ SentOnce /\ [Next]_vars => SentOnce'
  <2> SUFFICES ASSUME TypeOK, TypeOK', SendsAccounted, SentOnce, [Next]_vars
               PROVE  SentOnce'
    OBVIOUS
  <2>1. /\ Outgoing \in Seq(Msgs) /\ InOrder(Outgoing, Distinct)
        /\ \A i \in 1..Len(Outgoing) : pc[Outgoing[i]] = "done"
    BY SentOnceIsOrder
  <2>2. \A m \in Msgs : pc[m] = "done" => pc'[m] = "done"
    BY SendsAdvance DEF Advances
  <2>3. wire \in Seq(Msgs) /\ sendQueue \in Seq(Msgs)
    BY DEF TypeOK
  <2>4. CASE Outgoing' = Outgoing
    BY <2>1, <2>2, <2>4, SentOnceIsOrderNext
  <2>5. CASE Close
    <3>1. Outgoing' = wire
      BY <2>3, <2>5 DEF Close, Outgoing
    <3>2. InOrder(wire, Distinct)
      <4>1. \A i \in 1..Len(wire) :
              Outgoing[i] = wire[i] /\ i \in 1..Len(Outgoing)
        BY <2>3 DEF Outgoing
      <4> QED BY <2>1, <4>1 DEF InOrder
    <3>3. \A i \in 1..Len(wire) : pc'[wire[i]] = "done"
      <4>1. \A i \in 1..Len(wire) :
              Outgoing[i] = wire[i] /\ i \in 1..Len(Outgoing)
        BY <2>3 DEF Outgoing
      <4> QED BY <2>1, <2>2, <2>3, <4>1
    <3> QED BY <3>1, <3>2, <3>3, SentOnceIsOrderNext
  <2>6. CASE SendContinues
    <3>1. PICK m \in Msgs :
            /\ pc[m] = "ready"
            /\ \/ Outgoing' = Outgoing
               \/ /\ pc'[m] = "done"
                  /\ Outgoing' = Append(wire, m) \o sendQueue
               \/ /\ pc'[m] = "done"
                  /\ Outgoing' = Append(Outgoing, m)
               \/ /\ pc'[m] = "done"
                  /\ Outgoing' =
                       Append(wire \o SubSeq(sendQueue, 2, Len(sendQueue)), m)
      BY <2>6, OutgoingAccepts
    <3>2. \A i \in 1..Len(Outgoing) : /\ <<Outgoing[i], m>> \in Distinct
                                      /\ <<m, Outgoing[i]>> \in Distinct
      BY <2>1, <3>1, DistinctFact
    <3>3. CASE pc'[m] = "done" /\ Outgoing' = Append(wire, m) \o sendQueue
      <4>1. InOrder(Outgoing', Distinct)
        BY <2>1, <2>3, <3>2, <3>3, OrderInsert DEF Outgoing
      <4>2. \A i \in 1..Len(Outgoing') :
              Outgoing'[i] = m \/ \E j \in 1..Len(Outgoing) : Outgoing'[i] = Outgoing[j]
        <5>1. \A i \in 1..Len(wire) + 1 + Len(sendQueue) :
                 (Append(wire, m) \o sendQueue)[i] =
                   IF i = Len(wire) + 1 THEN m
                   ELSE (wire \o sendQueue)[IF i <= Len(wire) THEN i ELSE i - 1]
          BY <2>3
        <5>2. \A i \in 1..Len(wire) + 1 + Len(sendQueue) :
                 i # Len(wire) + 1 =>
                   (IF i <= Len(wire) THEN i ELSE i - 1) \in 1..Len(wire \o sendQueue)
          BY <2>3
        <5>3. Len(Append(wire, m) \o sendQueue) = Len(wire) + 1 + Len(sendQueue)
          BY <2>3
        <5> QED BY <3>3, <5>1, <5>2, <5>3 DEF Outgoing
      <4> QED BY <2>1, <2>2, <3>3, <4>1, <4>2, SentOnceIsOrderNext
    <3>4. CASE pc'[m] = "done" /\ Outgoing' = Append(Outgoing, m)
      <4>1. InOrder(Outgoing', Distinct)
        BY <2>1, <3>2, <3>4, OrderAppend
      <4>2. \A i \in 1..Len(Outgoing') :
              \/ Outgoing'[i] = m
              \/ i \in 1..Len(Outgoing) /\ Outgoing'[i] = Outgoing[i]
        BY <2>1, <3>4
      <4> QED BY <2>1, <2>2, <3>4, <4>1, <4>2, SentOnceIsOrderNext
    <3>5. CASE /\ pc'[m] = "done"
               /\ Outgoing' =
                    Append(wire \o SubSeq(sendQueue, 2, Len(sendQueue)), m)
      <4> DEFINE rest == SubSeq(sendQueue, 2, Len(sendQueue))
                 kept == wire \o rest
      <4>1. rest \in Seq(Msgs) /\ \E h \in Seq(Msgs) : sendQueue = h \o rest
        BY <2>3, QueueSplit
      <4>2. rest = SubSeq(sendQueue, 2, Len(sendQueue))
        OBVIOUS
      <4> HIDE DEF rest
      <4>3. kept \in Seq(Msgs)
        BY <2>3, <4>1
      <4>4. InOrder(wire \o sendQueue, Distinct)
        BY <2>1 DEF Outgoing
      <4>5. InOrder(kept, Distinct) /\ Within(kept, Outgoing)
        <5>1. PICK h \in Seq(Msgs) : sendQueue = h \o rest
          BY <4>1
        <5>2. wire \in Seq(Msgs) /\ rest \in Seq(Msgs)
          BY <2>3, <4>1
        <5>3. InOrder(wire \o rest, Distinct)
          BY <4>4, <5>1, <5>2, OrderDrop
        <5>4. Within(wire \o rest, wire \o sendQueue)
          BY <5>1, <5>2, WithinDrop
        <5> QED BY <5>3, <5>4 DEF Outgoing
      <4>6. Outgoing' = Append(kept, m)
        BY <3>5, <4>2
      <4> HIDE DEF kept
      <4>7. \A i \in 1..Len(kept) : <<kept[i], m>> \in Distinct
        BY <3>2, <4>5 DEF Within
      <4>8. InOrder(Outgoing', Distinct)
        BY <4>3, <4>5, <4>6, <4>7, OrderAppend
      <4>9. \A i \in 1..Len(Outgoing') :
              \/ Outgoing'[i] = m
              \/ i \in 1..Len(kept) /\ Outgoing'[i] = kept[i]
        BY <4>3, <4>6
      <4>10. \A i \in 1..Len(Outgoing') : pc'[Outgoing'[i]] = "done"
        <5> TAKE i \in 1..Len(Outgoing')
        <5>1. CASE Outgoing'[i] = m
          BY <3>5, <5>1
        <5>2. CASE i \in 1..Len(kept) /\ Outgoing'[i] = kept[i]
          <6>1. PICK j \in 1..Len(Outgoing) : Outgoing'[i] = Outgoing[j]
            BY <4>5, <5>2 DEF Within
          <6> QED BY <2>1, <2>2, <6>1
        <5> QED BY <4>9, <5>1, <5>2
      <4> QED BY <4>8, <4>10, SentOnceIsOrderNext
    <3> QED BY <2>4, <3>1, <3>3, <3>4, <3>5
  <2> QED BY <2>4, <2>5, <2>6, OutgoingStep
<1> QED BY <1>1, <1>2, AccountAlways, TypeCorrect, PTL DEF Spec

-----------------------------------------------------------------------------
(* The order of the calls *)

\* The k-th call was send(m), and found the transport connected.
Prompt(k, m) == called[k] = [msg |-> m, found |-> "connected"]

\* Pairs in the order of the calls, as far as both found it connected.
ByCall ==
  {e \in (Msgs \cup {"retry"}) \X (Msgs \cup {"retry"}) :
     \A k, l \in 1..Len(called) : Prompt(k, e[1]) /\ Prompt(l, e[2]) => k < l}

\* What has gone out, what is queued and what is about to go on.
Line == Outgoing \o micro

\* Each message is called once. What has gone out, what is queued and the send()
\* calls that are about to go on form one line, in which the calls that found the
\* transport connected stand in their order: they have nothing to wait for.
ConnectedInv ==
  /\ \A k \in 1..Len(called) :
       /\ pc[called[k].msg] # "idle"
       /\ called[k].found = "connected" =>
            pc[called[k].msg] \in {"ready", "done", "failed"}
       /\ \A l \in 1..Len(called) : called[l].msg = called[k].msg => l = k
  /\ InOrder(Line, ByCall)

\* Membership of ByCall.
LEMMA ByCallFact ==
  \A m, n : <<m, n>> \in ByCall <=>
    /\ m \in Msgs \cup {"retry"} /\ n \in Msgs \cup {"retry"}
    /\ \A k, l \in 1..Len(called) : Prompt(k, m) /\ Prompt(l, n) => k < l
  BY DEF ByCall

\* And after a step.
LEMMA ByCallFactNext ==
  \A m, n : <<m, n>> \in ByCall' <=>
    /\ m \in Msgs \cup {"retry"} /\ n \in Msgs \cup {"retry"}
    /\ \A k, l \in 1..Len(called') : Prompt(k, m)' /\ Prompt(l, n)' => k < l
  BY DEF ByCall, Prompt

\* The record of the calls.
LEMMA CalledType ==
  ASSUME TypeOK
  PROVE  /\ called \in Seq([msg : Msgs, found : States]) /\ Len(called) \in Nat
         /\ \A k \in 1..Len(called) : called[k].msg \in Msgs
<1> DEFINE Calls == [msg : Msgs, found : States]
<1>1. called \in Seq(Calls)
  BY DEF TypeOK
<1>2. \A c \in Calls : c.msg \in Msgs
  OBVIOUS
<1> HIDE DEF Calls
<1>3. \A k \in 1..Len(called) : called[k] \in Calls
  BY <1>1
<1>4. Len(called) \in Nat
  BY <1>1
<1> QED BY <1>1, <1>2, <1>3, <1>4 DEF Calls

\* The calls are recorded by Send alone.
LEMMA CalledStep ==
  ASSUME [Next]_vars, \A m \in Msgs : ~Send(m)
  PROVE  UNCHANGED called
<1>1. ASSUME NEW m \in Msgs, Poll(m) PROVE UNCHANGED called
  BY <1>1 DEF Poll
<1>2. ASSUME NEW s \in Sockets, OpenEvent(s) \/ AuthSettles(s) \/ CloseEvent(s)
      PROVE  UNCHANGED called
  BY <1>2 DEF OpenEvent, AuthSettles, AuthFails, Established, CloseEvent,
              sendVars
<1>3. ASSUME NEW s \in Sockets,
             PeerCloses(s) \/ DataArrives(s) \/ PongArrives(s)
      PROVE  UNCHANGED called
  BY <1>3 DEF PeerCloses, DataArrives, PongArrives, sendVars
<1>4. CASE SendContinues \/ RetryCatch \/ ReconnectTimer \/ CloseEventGoesOn
           \/ HeartbeatTick \/ Receive \/ Close \/ UNCHANGED vars
  BY <1>4 DEF SendContinues, RetryCatch, ReconnectTimer, CloseEventGoesOn,
              HeartbeatTick, Receive, Close, vars, sendVars
<1> QED BY <1>1, <1>2, <1>3, <1>4 DEF Next

\* Every step keeps what ConnectedInv says of the calls.
LEMMA CallsKept ==
  ASSUME TypeOK, SendsAccounted, ConnectedInv, [Next]_vars
  PROVE  \A k \in 1..Len(called') :
           /\ pc'[called'[k].msg] # "idle"
           /\ called'[k].found = "connected" =>
                pc'[called'[k].msg] \in {"ready", "done", "failed"}
           /\ \A l \in 1..Len(called') : called'[l].msg = called'[k].msg => l = k
<1>1. \A m \in Msgs : Advances(m)
  BY SendsAdvance
<1>2. called \in Seq([msg : Msgs, found : States]) /\ Len(called) \in Nat
      /\ \A k \in 1..Len(called) : called[k].msg \in Msgs
  BY CalledType
<1>3. CASE UNCHANGED called
  BY <1>1, <1>2, <1>3 DEF Advances, ConnectedInv
<1>4. ASSUME NEW m \in Msgs, Send(m)
      PROVE  \A k \in 1..Len(called') :
               /\ pc'[called'[k].msg] # "idle"
               /\ called'[k].found = "connected" =>
                    pc'[called'[k].msg] \in {"ready", "done", "failed"}
               /\ \A l \in 1..Len(called') : called'[l].msg = called'[k].msg => l = k
  <2>1. /\ called' = Append(called, [msg |-> m, found |-> state]) /\ pc[m] = "idle"
        /\ pc'[m] # "idle" /\ (state = "connected" => pc'[m] = "ready")
    BY <1>4 DEF Send, TypeOK
  <2>2. /\ Len(called') = Len(called) + 1
        /\ called'[Len(called) + 1] = [msg |-> m, found |-> state]
        /\ \A k \in 1..Len(called) : called'[k] = called[k]
    BY <1>2, <2>1
  <2>3. \A k \in 1..Len(called) : called[k].msg # m
    BY <2>1 DEF ConnectedInv
  <2>4. ASSUME NEW k \in 1..Len(called)
        PROVE  /\ pc'[called'[k].msg] # "idle"
               /\ called'[k].found = "connected" =>
                    pc'[called'[k].msg] \in {"ready", "done", "failed"}
    BY <1>1, <1>2, <2>2 DEF Advances, ConnectedInv
  <2>5. /\ pc'[called'[Len(called) + 1].msg] # "idle"
        /\ called'[Len(called) + 1].found = "connected" =>
             pc'[called'[Len(called) + 1].msg] \in {"ready", "done", "failed"}
    BY <2>1, <2>2
  <2>6. ASSUME NEW k \in 1..Len(called'), NEW l \in 1..Len(called'),
               called'[l].msg = called'[k].msg
        PROVE  l = k
    BY <1>2, <2>2, <2>3, <2>6 DEF ConnectedInv
  <2>7. \A k \in 1..Len(called') : k \in 1..Len(called) \/ k = Len(called) + 1
    BY <1>2, <2>2
  <2> QED BY <2>4, <2>5, <2>6, <2>7
<1> QED BY <1>3, <1>4, CalledStep

\* What stands in the line has been called.
LEMMA LineCalled ==
  ASSUME TypeOK, SendsAccounted, SentOnce
  PROVE  /\ Outgoing \in Seq(Msgs \cup {"retry"})
         /\ micro \in Seq(Msgs \cup {"retry"})
         /\ Line \in Seq(Msgs \cup {"retry"})
         /\ \A i \in 1..Len(Line) : Line[i] \in Msgs => pc[Line[i]] # "idle"
<1>1. /\ Outgoing \in Seq(Msgs) /\ micro \in Seq(Msgs \cup {"retry"})
      /\ \A i \in 1..Len(Outgoing) : pc[Outgoing[i]] = "done"
  BY SentOnceIsOrder DEF TypeOK
<1>2. Outgoing \in Seq(Msgs \cup {"retry"})
  BY <1>1
<1>3. \A i \in 1..Len(micro) : micro[i] \in Msgs => pc[micro[i]] = "ready"
  BY DEF SendsAccounted
<1>4. \A i \in 1..Len(Line) :
        \/ i \in 1..Len(Outgoing) /\ Line[i] = Outgoing[i]
        \/ /\ i - Len(Outgoing) \in 1..Len(micro)
           /\ Line[i] = micro[i - Len(Outgoing)]
  BY <1>1 DEF Line
<1>5. Line \in Seq(Msgs \cup {"retry"})
  BY <1>1, <1>2 DEF Line
<1> QED BY <1>1, <1>2, <1>3, <1>4, <1>5

\* A new call is after all others: the line keeps its order, and the call may
\* take its end.
LEMMA NewCallIsLast ==
  ASSUME TypeOK, SendsAccounted, SentOnce, ConnectedInv, NEW m \in Msgs, Send(m)
  PROVE  InOrder(Line', ByCall')
<1>1. /\ Outgoing \in Seq(Msgs \cup {"retry"})
      /\ micro \in Seq(Msgs \cup {"retry"})
      /\ Line \in Seq(Msgs \cup {"retry"})
      /\ \A i \in 1..Len(Line) : Line[i] \in Msgs => pc[Line[i]] # "idle"
  BY LineCalled
<1>2. called' = Append(called, [msg |-> m, found |-> state]) /\ pc[m] = "idle"
  BY DEF Send
<1>3. /\ Len(called') = Len(called) + 1 /\ Len(called) \in Nat
      /\ called'[Len(called) + 1] = [msg |-> m, found |-> state]
      /\ \A k \in 1..Len(called) : called'[k] = called[k]
  BY <1>2 DEF TypeOK
<1>4. \A k \in 1..Len(called') : k \in 1..Len(called) \/ k = Len(called) + 1
  BY <1>3
<1>5. ASSUME NEW x \in Msgs \cup {"retry"}, x # m, NEW k \in 1..Len(called'),
             Prompt(k, x)'
      PROVE  k \in 1..Len(called) /\ Prompt(k, x)
  BY <1>3, <1>4, <1>5 DEF Prompt
<1>6. \A k \in 1..Len(called) : ~Prompt(k, m)'
  BY <1>2, <1>3 DEF ConnectedInv, Prompt
<1>7. \A i \in 1..Len(Line) : Line[i] \in Msgs \cup {"retry"} /\ Line[i] # m
  BY <1>1, <1>2
<1>8. InOrder(Line, ByCall')
  <2> SUFFICES ASSUME NEW i \in 1..Len(Line), NEW j \in 1..Len(Line), i < j
               PROVE  <<Line[i], Line[j]>> \in ByCall'
    BY DEF InOrder
  <2>1. <<Line[i], Line[j]>> \in ByCall
    BY DEF ConnectedInv, InOrder
  <2> QED BY <1>5, <1>7, <2>1, ByCallFact, ByCallFactNext
<1>9. ASSUME NEW x \in Msgs \cup {"retry"}, x # m
      PROVE  <<x, m>> \in ByCall'
  <2> SUFFICES ASSUME NEW k \in 1..Len(called'), NEW l \in 1..Len(called'),
                      Prompt(k, x)', Prompt(l, m)'
               PROVE  k < l
    BY ByCallFactNext
  <2>1. k \in 1..Len(called)
    BY <1>5, <1>9
  <2>2. l = Len(called) + 1
    BY <1>4, <1>6
  <2> QED BY <1>3, <2>1, <2>2
<1>10. Outgoing' = Outgoing /\ (micro' = micro \/ micro' = Append(micro, m))
  BY DEF Send, Outgoing
<1>11. CASE micro' = micro
  BY <1>8, <1>10, <1>11 DEF Line
<1>12. CASE micro' = Append(micro, m)
  <2>1. Line' = Append(Line, m)
    BY <1>1, <1>10, <1>12, ConcatAppend DEF Line
  <2>2. \A i \in 1..Len(Line) : <<Line[i], m>> \in ByCall'
    BY <1>7, <1>9
  <2> QED BY <1>1, <1>8, <2>1, <2>2, OrderAppend
<1> QED BY <1>10, <1>11, <1>12

\* A send() that goes on takes the next place, behind all that have gone out or
\* are queued, provided that nothing is queued when it goes out.
LEMMA GoesOnInOrder ==
  ASSUME TypeOK, SendsAccounted, SentOnce, FlushedWhenUsable, ConnectedInv,
         SendContinues
  PROVE  InOrder(Line', ByCall)
<1>1. /\ Outgoing \in Seq(Msgs \cup {"retry"})
      /\ micro \in Seq(Msgs \cup {"retry"})
      /\ wire \in Seq(Msgs \cup {"retry"}) /\ wire \in Seq(Msgs)
      /\ sendQueue \in Seq(Msgs \cup {"retry"}) /\ sendQueue \in Seq(Msgs)
  BY LineCalled DEF TypeOK
<1>2. PICK m \in Msgs :
        /\ micro # <<>> /\ m = Head(micro) /\ micro' = Tail(micro)
        /\ \/ Outgoing' = Outgoing
           \/ /\ state = "connected" /\ WsIs("open")
              /\ Outgoing' = Append(wire, m) \o sendQueue
           \/ Outgoing' = Append(Outgoing, m)
           \/ Outgoing' =
                Append(wire \o SubSeq(sendQueue, 2, Len(sendQueue)), m)
  BY OutgoingAccepts
<1>3. /\ Tail(micro) \in Seq(Msgs \cup {"retry"})
      /\ <<m>> \in Seq(Msgs \cup {"retry"})
      /\ micro = <<m>> \o Tail(micro)
  BY <1>1, <1>2, HeadTail
<1>4. InOrder(Outgoing \o micro, ByCall)
  BY DEF ConnectedInv, Line
<1>5. CASE Outgoing' = Outgoing
  <2>1. InOrder(Outgoing \o Tail(micro), ByCall)
    BY <1>1, <1>3, <1>4, OrderDrop
  <2> QED BY <1>2, <1>5, <2>1 DEF Line
<1>6. CASE Outgoing' = Append(Outgoing, m)
  <2>1. Append(Outgoing, m) \o Tail(micro) = Outgoing \o micro
    BY <1>1, <1>2, HeadMoves
  <2> QED BY <1>2, <1>4, <1>6, <2>1 DEF Line
<1>7. CASE /\ state = "connected" /\ WsIs("open")
           /\ Outgoing' = Append(wire, m) \o sendQueue
  <2>1. sendQueue = <<>>
    BY <1>7 DEF FlushedWhenUsable
  <2>2. Append(wire, m) \o sendQueue = Append(Outgoing, m)
    BY <1>1, <2>1 DEF Outgoing
  <2> QED BY <1>6, <1>7, <2>2
<1>8. CASE Outgoing' = Append(wire \o SubSeq(sendQueue, 2, Len(sendQueue)), m)
  <2> DEFINE rest == SubSeq(sendQueue, 2, Len(sendQueue))
  <2>1. Outgoing' = Append(wire \o rest, m)
    BY <1>8
  <2>2. /\ rest \in Seq(Msgs \cup {"retry"})
        /\ \E h \in Seq(Msgs \cup {"retry"}) : sendQueue = h \o rest
    BY <1>1, QueueSplit
  <2> HIDE DEF rest
  <2>3. PICK h \in Seq(Msgs \cup {"retry"}) : sendQueue = h \o rest
    BY <2>2
  <2>4. /\ (wire \o sendQueue) \o micro = wire \o (sendQueue \o micro)
        /\ sendQueue \o micro = h \o (rest \o micro)
        /\ (wire \o rest) \o micro = wire \o (rest \o micro)
        /\ rest \o micro \in Seq(Msgs \cup {"retry"})
        /\ wire \o rest \in Seq(Msgs \cup {"retry"})
    <3>1. (wire \o sendQueue) \o micro = wire \o (sendQueue \o micro)
      BY <1>1, ConcatAssoc
    <3>2. (h \o rest) \o micro = h \o (rest \o micro)
      BY <1>1, <2>2, ConcatAssoc
    <3>3. (wire \o rest) \o micro = wire \o (rest \o micro)
      BY <1>1, <2>2, ConcatAssoc
    <3>4. /\ rest \o micro \in Seq(Msgs \cup {"retry"})
          /\ wire \o rest \in Seq(Msgs \cup {"retry"})
      BY <1>1, <2>2
    <3> QED BY <2>3, <3>1, <3>2, <3>3, <3>4
  <2>5. InOrder(wire \o (sendQueue \o micro), ByCall)
    BY <1>4, <2>4 DEF Outgoing
  <2>6. InOrder(wire \o (rest \o micro), ByCall)
    BY <1>1, <2>3, <2>4, <2>5, OrderDrop
  <2>7. Append(wire \o rest, m) \o Tail(micro) = (wire \o rest) \o micro
    BY <1>1, <1>2, <2>4, HeadMoves
  <2> QED BY <1>2, <2>1, <2>4, <2>6, <2>7 DEF Line
<1> QED BY <1>2, <1>5, <1>6, <1>7, <1>8

\* The other steps take from the line, or add to it what is no call that found
\* the transport connected.
LEMMA OthersInOrder ==
  ASSUME TypeOK, SendsAccounted, SentOnce, ConnectedInv, [Next]_vars,
         ~SendContinues, \A m \in Msgs : ~Send(m)
  PROVE  InOrder(Line', ByCall)
<1>1. /\ Outgoing \in Seq(Msgs \cup {"retry"})
      /\ micro \in Seq(Msgs \cup {"retry"})
      /\ Line \in Seq(Msgs \cup {"retry"})
      /\ wire \in Seq(Msgs \cup {"retry"})
      /\ sendQueue \in Seq(Msgs \cup {"retry"})
  BY LineCalled DEF TypeOK
<1>2. InOrder(Outgoing \o micro, ByCall)
  BY DEF ConnectedInv, Line
<1>3. ASSUME NEW x \in Msgs \cup {"retry"}, \A k \in 1..Len(called) : ~Prompt(k, x),
             Outgoing' = Outgoing, micro' = Append(micro, x)
      PROVE  InOrder(Line', ByCall)
  <2>1. Line' = Append(Line, x)
    BY <1>1, <1>3, ConcatAppend DEF Line
  <2>2. \A i \in 1..Len(Line) : <<Line[i], x>> \in ByCall
    BY <1>1, <1>3, ByCallFact
  <2> QED BY <1>1, <1>2, <2>1, <2>2, OrderAppend DEF Line
<1>4. CASE Close
  <2>1. wire' \o sendQueue' = wire /\ micro' = micro
    BY <1>1, <1>4 DEF Close
  <2>2. (wire \o sendQueue) \o micro = wire \o (sendQueue \o micro)
    BY <1>1, ConcatAssoc
  <2>3. InOrder(wire \o micro, ByCall)
    BY <1>1, <1>2, <2>2, OrderDrop DEF Outgoing
  <2> QED BY <2>1, <2>3 DEF Line, Outgoing
<1>5. CASE ~Close
  <2>1. Outgoing' = Outgoing /\ MicrotasksChange
    BY <1>5, OutgoingStep
  <2>2. CASE micro' = micro
    BY <1>2, <2>1, <2>2 DEF Line
  <2>3. CASE micro # <<>> /\ micro' = Tail(micro)
    <3>1. /\ Tail(micro) \in Seq(Msgs \cup {"retry"})
          /\ <<Head(micro)>> \in Seq(Msgs \cup {"retry"})
          /\ micro = <<Head(micro)>> \o Tail(micro)
      BY <1>1, <2>3, HeadTail
    <3>2. InOrder(Outgoing \o Tail(micro), ByCall)
      BY <1>1, <1>2, <3>1, OrderDrop
    <3> QED BY <2>1, <2>3, <3>2 DEF Line
  <2>4. CASE micro' = Append(micro, "retry")
    <3>1. \A k \in 1..Len(called) : ~Prompt(k, "retry")
      BY CalledType, MsgAssumption DEF Prompt
    <3> QED BY <1>3, <2>1, <2>4, <3>1
  <2>5. ASSUME NEW m \in Msgs, micro' = Append(micro, m),
               pc[m] \in {"connecting", "polling"}
        PROVE  InOrder(Line', ByCall)
    <3>1. \A k \in 1..Len(called) : ~Prompt(k, m)
      BY <2>5 DEF ConnectedInv, Prompt
    <3> QED BY <1>3, <2>1, <2>5, <3>1
  <2> QED BY <2>1, <2>2, <2>3, <2>4, <2>5 DEF MicrotasksChange
<1> QED BY <1>4, <1>5

\* The messages whose send() found the transport connected go out in the order of
\* the calls, over any number of connections, through the queue and past it.
THEOREM PromptInOrder ==
  ASSUME TokenOrFail
  PROVE  Spec => []ConnectedOrder
<1>1. Init => ConnectedInv
  BY DEF Init, ConnectedInv, InOrder, Line, Outgoing
<1>2. /\ TypeOK /\ SendsAccounted /\ SentOnce /\ FlushedWhenUsable /\ ConnectedInv
      /\ [Next]_vars
      => ConnectedInv'
  <2> SUFFICES ASSUME TypeOK, SendsAccounted, SentOnce, FlushedWhenUsable,
                      ConnectedInv, [Next]_vars
               PROVE  ConnectedInv'
    OBVIOUS
  <2>1. \A k \in 1..Len(called') :
           /\ pc'[called'[k].msg] # "idle"
           /\ called'[k].found = "connected" =>
                pc'[called'[k].msg] \in {"ready", "done", "failed"}
           /\ \A l \in 1..Len(called') : called'[l].msg = called'[k].msg => l = k
    BY CallsKept
  <2>2. InOrder(Line', ByCall')
    <3>1. CASE \E m \in Msgs : Send(m)
      BY <3>1, NewCallIsLast
    <3>2. CASE \A m \in Msgs : ~Send(m)
      <4>1. ByCall' = ByCall
        BY <3>2, CalledStep DEF ByCall, Prompt
      <4> QED BY <3>2, <4>1, GoesOnInOrder, OthersInOrder
    <3> QED BY <3>1, <3>2
  <2> QED BY <2>1, <2>2 DEF ConnectedInv
<1>3. TypeOK /\ SendsAccounted /\ SentOnce /\ ConnectedInv => ConnectedOrder
  <2> SUFFICES ASSUME TypeOK, SendsAccounted, SentOnce, ConnectedInv,
                      NEW i \in 1..Len(Outgoing), NEW j \in 1..Len(Outgoing),
                      NEW k \in 1..Len(called), NEW l \in 1..Len(called),
                      i < j, Prompt(k, Outgoing[i]), Prompt(l, Outgoing[j])
               PROVE  k < l
    BY DEF ConnectedOrder, Outgoing, Prompt
  <2>1. /\ i \in 1..Len(Line) /\ Line[i] = Outgoing[i]
        /\ j \in 1..Len(Line) /\ Line[j] = Outgoing[j]
    BY LineCalled DEF Line
  <2>2. <<Outgoing[i], Outgoing[j]>> \in ByCall
    BY <2>1 DEF ConnectedInv, InOrder
  <2> QED BY <2>2, ByCallFact
<1> QED BY <1>1, <1>2, <1>3, AccountAlways, NeverSentTwice, NothingHeldBack,
           TypeCorrect, PTL DEF Spec
=============================================================================
