---------------------------- MODULE DurableRpcProofs ----------------------------
(***************************************************************************)
(* Theorems about DurableRpc, for any requests, messages and bounds: type  *)
(* correctness, that a socket's messages reach the session of their own    *)
(* socket, that closed sockets leave nothing in memory, what the current   *)
(* request may be, and, with finitely many calls, that the hooks of a call *)
(* are balanced.                                                           *)
(***************************************************************************)
EXTENDS DurableRpc, FiniteSetTheorems, TLAPS

Id(s) == attachment[s].transportId

-----------------------------------------------------------------------------
(* Types *)

\* The type of what an object keeps of its sockets.
SocketsOK ==
  /\ DOMAIN registry \subseteq 1..ids /\ registry \in [DOMAIN registry -> Requests]
  /\ DOMAIN sessions \subseteq Requests /\ sessions \in [DOMAIN sessions -> 1..ids]
  /\ ids \in Nat
  /\ socket \in [Requests -> {"none", "open", "errored", "closed"}]
  /\ attachment \in [Requests -> Attachments]

\* The type of calls and of the bounds.
CallsOK ==
  /\ timings \in Nat
  /\ call \in [Calls -> {"none", "requesting", "running", "responding", "erroring",
                         "over", "refused", "lost"}]
  /\ ctx \in [Calls -> Requests \cup {None}]
  /\ ends \in [Calls -> Nat]

\* The type of the requests and of the bounds.
FetchOK ==
  /\ currentRequest \in Requests \cup {None}
  /\ fetch \in [Requests -> {"none", "reading", "calling", "over", "upgraded", "thrown"}]
  /\ overlapped \subseteq Requests
  /\ hibernations \in 0..MaxHibernations /\ strays \in 0..MaxStrays

\* The three are TypeOK.
LEMMA TypeParts == TypeOK <=> SocketsOK /\ CallsOK /\ FetchOK
  BY DEF TypeOK, SocketsOK, CallsOK, FetchOK

\* A new transport has the types.
LEMMA NewTransportType ==
  ASSUME SocketsOK, NEW s \in Requests, NewTransport(s),
         socket' \in [Requests -> {"none", "open", "errored", "closed"}]
  PROVE  SocketsOK'
<1>1. ids' = ids + 1 /\ ids' \in Nat /\ 1..ids \subseteq 1..ids' /\ ids' \in 1..ids'
  BY DEF NewTransport, NewId, SocketsOK
<1>2. DOMAIN registry' \subseteq 1..ids' /\ registry' \in [DOMAIN registry' -> Requests]
  <2>1. registry' = With(registry, ids', s) /\ registry \in [DOMAIN registry -> Requests]
    BY DEF NewTransport, SocketsOK
  <2>2. /\ DOMAIN registry' = DOMAIN registry \cup {ids'}
        /\ registry' \in [DOMAIN registry \cup {ids'} -> Requests]
    BY <2>1 DEF With
  <2> QED BY <1>1, <2>2 DEF SocketsOK
<1>3. DOMAIN sessions' \subseteq Requests /\ sessions' \in [DOMAIN sessions' -> 1..ids']
  <2>1. sessions' = With(sessions, s, ids') /\ sessions \in [DOMAIN sessions -> 1..ids']
    BY <1>1 DEF NewTransport, SocketsOK
  <2>2. /\ DOMAIN sessions' = DOMAIN sessions \cup {s}
        /\ sessions' \in [DOMAIN sessions \cup {s} -> 1..ids']
    BY <1>1, <2>1 DEF With
  <2> QED BY <2>2 DEF SocketsOK
<1>4. attachment' \in [Requests -> Attachments]
  <2>1. [transportId |-> ids', state |-> "active"] \in Attachments
    BY <1>1 DEF Attachments
  <2> QED BY <2>1 DEF NewTransport, SocketsOK
<1> QED BY <1>1, <1>2, <1>3, <1>4 DEF SocketsOK

\* So have the maps without the socket that has closed.
LEMMA EndsType ==
  ASSUME SocketsOK, NEW s \in Requests, Ends(s),
         socket' \in [Requests -> {"none", "open", "errored", "closed"}]
  PROVE  SocketsOK'
<1>1. DOMAIN registry' \subseteq 1..ids /\ registry' \in [DOMAIN registry' -> Requests]
  <2>1. registry' = registry \/ registry' = Without(registry, attachment[s].transportId)
    BY DEF Ends
  <2>2. registry \in [DOMAIN registry -> Requests] /\ DOMAIN registry \subseteq 1..ids
    BY DEF SocketsOK
  <2>3. ASSUME NEW i, registry' = Without(registry, i)
        PROVE  DOMAIN registry' \subseteq DOMAIN registry
               /\ registry' \in [DOMAIN registry' -> Requests]
    <3>1. /\ DOMAIN registry' = DOMAIN registry \ {i}
          /\ registry' \in [DOMAIN registry \ {i} -> Requests]
      BY <2>2, <2>3 DEF Without
    <3> QED BY <3>1
  <2> QED BY <2>1, <2>2, <2>3
<1>2. DOMAIN sessions' \subseteq Requests /\ sessions' \in [DOMAIN sessions' -> 1..ids]
  <2>1. sessions' = Without(sessions, s)
    BY DEF Ends
  <2>2. sessions \in [DOMAIN sessions -> 1..ids] /\ DOMAIN sessions \subseteq Requests
    BY DEF SocketsOK
  <2>3. /\ DOMAIN sessions' = DOMAIN sessions \ {s}
        /\ sessions' \in [DOMAIN sessions \ {s} -> 1..ids]
    BY <2>1, <2>2 DEF Without
  <2> QED BY <2>2, <2>3
<1>3. attachment' \in [Requests -> Attachments]
  BY DEF Ends, SocketsOK, Attachments
<1> QED BY <1>1, <1>2, <1>3 DEF Ends, SocketsOK

\* Every step keeps the types.
LEMMA TypeStep ==
  ASSUME TypeOK, [Next]_vars
  PROVE  TypeOK'
<1>1. SocketsOK /\ CallsOK /\ FetchOK
  BY TypeParts
<1>2. ASSUME UNCHANGED <<registry, sessions, socketVars>> PROVE SocketsOK'
  BY <1>1, <1>2 DEF SocketsOK, socketVars
<1>3. ASSUME UNCHANGED <<callVars, timings>> PROVE CallsOK'
  BY <1>1, <1>3 DEF CallsOK, callVars
<1>4. ASSUME UNCHANGED <<currentRequest, fetch, overlapped, boundVars>> PROVE FetchOK'
  BY <1>1, <1>4 DEF FetchOK, boundVars
<1>5. ASSUME NEW q \in Requests,
             FetchThrows(q) \/ GetSchema(q) \/ HttpRpc(q) \/ Upgrade(q)
      PROVE  TypeOK'
  <2>1. CallsOK'
    BY <1>3, <1>5 DEF FetchThrows, GetSchema, HttpRpc, Upgrade, Arrives
  <2>2. FetchOK'
    BY <1>1, <1>5 DEF FetchThrows, GetSchema, HttpRpc, Upgrade, Arrives, SetsCurrent,
                      FetchOK, boundVars, Beside
  <2>3. SocketsOK'
    <3>1. CASE Upgrade(q)
      <4>1. NewTransport(q) /\ socket' \in [Requests -> {"none", "open", "errored", "closed"}]
        BY <1>1, <3>1 DEF Upgrade, SocketsOK
      <4> QED BY <1>1, <4>1, NewTransportType
    <3>2. CASE ~Upgrade(q)
      BY <1>2, <1>5, <3>2 DEF FetchThrows, GetSchema, HttpRpc
    <3> QED BY <3>1, <3>2
  <2> QED BY <2>1, <2>2, <2>3 DEF TypeOK, SocketsOK, CallsOK, FetchOK
<1>6. ASSUME NEW q \in Requests, FetchEnds(q) PROVE TypeOK'
  <2>1. SocketsOK' /\ CallsOK'
    BY <1>2, <1>3, <1>6 DEF FetchEnds
  <2>2. FetchOK'
    BY <1>1, <1>6 DEF FetchEnds, FetchOK, boundVars, Beside
  <2> QED BY <2>1, <2>2 DEF TypeOK, SocketsOK, CallsOK, FetchOK
<1>7. ASSUME NEW q \in Requests, BatchRead(q) PROVE TypeOK'
  <2>1. SocketsOK'
    BY <1>2, <1>7 DEF BatchRead
  <2>2. FetchOK'
    BY <1>1, <1>7 DEF BatchRead, FetchOK, boundVars
  <2>3. CallsOK'
    <3>1. q \in Calls /\ currentRequest \in Requests \cup {None}
      BY <1>1 DEF Calls, FetchOK
    <3> QED BY <1>1, <1>7, <3>1 DEF BatchRead, Begin, CallsOK
  <2> QED BY <2>1, <2>2, <2>3 DEF TypeOK, SocketsOK, CallsOK, FetchOK
<1>8. ASSUME NEW c \in Calls,
             \/ OnRequestSettles(c) \/ MethodReturns(c) \/ MethodThrows(c)
             \/ OnResponseSettles(c) \/ OnErrorSettles(c)
      PROVE  TypeOK'
  <2>1. Others
    BY <1>8 DEF OnRequestSettles, MethodReturns, MethodThrows, OnResponseSettles, OnErrorSettles
  <2>2. SocketsOK' /\ FetchOK'
    BY <1>2, <1>4, <2>1 DEF Others
  <2>3. timings' \in Nat
    BY <1>1, <1>8 DEF OnRequestSettles, MethodReturns, MethodThrows, OnResponseSettles,
                      OnErrorSettles, RemoveTiming, CallsOK
  <2>4. /\ call' \in [Calls -> {"none", "requesting", "running", "responding", "erroring",
                                "over", "refused", "lost"}]
        /\ ctx' \in [Calls -> Requests \cup {None}]
        /\ ends' \in [Calls -> Nat]
    BY <1>1, <1>8 DEF OnRequestSettles, MethodReturns, MethodThrows, OnResponseSettles,
                      OnErrorSettles, Enters, Leaves, EndHook, CallsOK
  <2> QED BY <2>2, <2>3, <2>4 DEF TypeOK, SocketsOK, CallsOK, FetchOK
<1>9. ASSUME NEW s \in Requests, NEW m \in Messages, WebSocketMessage(s, m) PROVE TypeOK'
  <2>1. FetchOK'
    BY <1>4, <1>9 DEF WebSocketMessage
  <2>2. CallsOK'
    <3>1. m \in Calls /\ currentRequest \in Requests \cup {None}
      BY <1>1 DEF Calls, FetchOK
    <3> QED BY <1>1, <1>9, <3>1 DEF WebSocketMessage, Begin, CallsOK
  <2>3. SocketsOK'
    <3>1. CASE IsRegistered(s)
      BY <1>2, <1>9, <3>1 DEF WebSocketMessage, socketVars
    <3>2. CASE ~IsRegistered(s)
      <4>1. NewTransport(s) /\ socket' = socket
        BY <1>9, <3>2 DEF WebSocketMessage
      <4>2. socket' \in [Requests -> {"none", "open", "errored", "closed"}]
        BY <1>1, <4>1 DEF SocketsOK
      <4> QED BY <1>1, <4>1, <4>2, NewTransportType
    <3> QED BY <3>1, <3>2
  <2> QED BY <2>1, <2>2, <2>3 DEF TypeOK, SocketsOK, CallsOK, FetchOK
<1>10. ASSUME NEW s \in Requests, WebSocketClose(s) \/ WebSocketError(s) PROVE TypeOK'
  <2>1. Ends(s) /\ socket' \in [Requests -> {"none", "open", "errored", "closed"}]
    BY <1>1, <1>10 DEF WebSocketClose, WebSocketError, SocketsOK
  <2>2. SocketsOK'
    BY <1>1, <2>1, EndsType
  <2>3. CallsOK' /\ FetchOK'
    BY <1>3, <1>4, <2>1 DEF Ends
  <2> QED BY <2>2, <2>3 DEF TypeOK, SocketsOK, CallsOK, FetchOK
<1>11. ASSUME NEW s \in Requests, StrayAttachment(s) PROVE TypeOK'
  <2>1. CallsOK'
    BY <1>3, <1>11 DEF StrayAttachment, memoryVars
  <2>2. FetchOK'
    BY <1>1, <1>11, DurableRpcAssumption DEF StrayAttachment, memoryVars, FetchOK
  <2>3. SocketsOK'
    BY <1>1, <1>11 DEF StrayAttachment, memoryVars, SocketsOK, Stray, Attachments
  <2> QED BY <2>1, <2>2, <2>3 DEF TypeOK, SocketsOK, CallsOK, FetchOK
<1>12. CASE Hibernate
  <2>1. CallsOK'
    BY <1>1, <1>12 DEF Hibernate, CallsOK
  <2>2. FetchOK'
    BY <1>1, <1>12, DurableRpcAssumption DEF Hibernate, FetchOK
  <2>3. SocketsOK'
    <3>1. DOMAIN registry' = {} /\ DOMAIN sessions' = {}
          /\ registry' = [x \in {} |-> registry'[x]] /\ sessions' = [x \in {} |-> sessions'[x]]
      BY <1>12 DEF Hibernate
    <3> QED BY <1>1, <1>12, <3>1 DEF Hibernate, socketVars, SocketsOK
  <2> QED BY <2>1, <2>2, <2>3 DEF TypeOK, SocketsOK, CallsOK, FetchOK
<1>13. CASE UNCHANGED vars
  <2>1. SocketsOK' /\ CallsOK' /\ FetchOK'
    BY <1>2, <1>3, <1>4, <1>13 DEF vars, memoryVars
  <2> QED BY <2>1 DEF TypeOK, SocketsOK, CallsOK, FetchOK
<1> QED BY <1>5, <1>6, <1>7, <1>8, <1>9, <1>10, <1>11, <1>12, <1>13 DEF Next

\* The first state is typed.
LEMMA TypeInit == Init => TypeOK
<1> SUFFICES ASSUME Init PROVE TypeOK
  OBVIOUS
<1>1. CallsOK /\ FetchOK
  BY DurableRpcAssumption DEF Init, CallsOK, FetchOK
<1>2. DOMAIN registry = {} /\ DOMAIN sessions = {}
      /\ registry = [x \in {} |-> registry[x]] /\ sessions = [x \in {} |-> sessions[x]]
  BY DEF Init
<1>3. SocketsOK
  BY <1>2 DEF Init, SocketsOK, Stray, Attachments
<1> QED BY <1>1, <1>3, TypeParts

\* Every reachable state is typed, for any requests, messages and bounds.
THEOREM TypeCorrect == Spec => []TypeOK
<1>1. TypeOK /\ [Next]_vars => TypeOK'
  BY TypeStep
<1> QED BY <1>1, TypeInit, PTL DEF Spec

-----------------------------------------------------------------------------
(* Sockets, transports and sessions *)

\* What a new transport changes.
LEMMA NewTransportFacts ==
  ASSUME SocketsOK, NEW s \in Requests, NewTransport(s)
  PROVE  \E n \in Nat :
           /\ ids' = n /\ n \notin DOMAIN registry /\ n \in 1..n /\ 1..ids \subseteq 1..n
           /\ n \notin 1..ids
           /\ DOMAIN registry' = DOMAIN registry \cup {n} /\ registry'[n] = s
           /\ \A i \in DOMAIN registry : registry'[i] = registry[i]
           /\ DOMAIN sessions' = DOMAIN sessions \cup {s} /\ sessions'[s] = n
           /\ \A t \in DOMAIN sessions : t # s => sessions'[t] = sessions[t]
           /\ attachment'[s].transportId = n /\ attachment'[s].state = "active"
           /\ \A t \in Requests : t # s => attachment'[t] = attachment[t]
<1>1. PICK n \in Nat : n = ids + 1
  BY DEF SocketsOK
<1>2. ids' = n /\ n \notin DOMAIN registry /\ n \in 1..n /\ 1..ids \subseteq 1..n /\ n \notin 1..ids
  BY <1>1 DEF NewTransport, NewId, SocketsOK
<1>3. /\ DOMAIN registry' = DOMAIN registry \cup {n} /\ registry'[n] = s
      /\ \A i \in DOMAIN registry : registry'[i] = registry[i]
  BY <1>2 DEF NewTransport, With
<1>4. /\ DOMAIN sessions' = DOMAIN sessions \cup {s} /\ sessions'[s] = n
      /\ \A t \in DOMAIN sessions : t # s => sessions'[t] = sessions[t]
  BY <1>2 DEF NewTransport, With
<1>5. /\ attachment'[s].transportId = n /\ attachment'[s].state = "active"
      /\ \A t \in Requests : t # s => attachment'[t] = attachment[t]
  BY <1>2 DEF NewTransport, SocketsOK
<1> QED BY <1>1, <1>2, <1>3, <1>4, <1>5

\* What the end of a socket changes.
LEMMA EndsFacts ==
  ASSUME SocketsOK, NEW s \in Requests, Ends(s)
  PROVE  /\ \A i : i \in DOMAIN registry' <=>
                     i \in DOMAIN registry /\ ~(Attached(s) /\ i = Id(s))
         /\ \A i \in DOMAIN registry' : registry'[i] = registry[i]
         /\ \A t : t \in DOMAIN sessions' <=> t \in DOMAIN sessions /\ t # s
         /\ \A t \in DOMAIN sessions' : sessions'[t] = sessions[t]
         /\ \A t \in Requests : Id(t)' = Id(t) /\ Attached(t)' = Attached(t)
         /\ ids' = ids
<1>1. /\ \A i : i \in DOMAIN registry' <=>
                  i \in DOMAIN registry /\ ~(Attached(s) /\ i = Id(s))
      /\ \A i \in DOMAIN registry' : registry'[i] = registry[i]
  BY DEF Ends, Without, Id
<1>2. /\ \A t : t \in DOMAIN sessions' <=> t \in DOMAIN sessions /\ t # s
      /\ \A t \in DOMAIN sessions' : sessions'[t] = sessions[t]
  BY DEF Ends, Without
<1>3. \A t \in Requests : attachment[t] \in Attachments
  BY DEF SocketsOK
<1>4. \A t \in Requests : Id(t)' = Id(t) /\ Attached(t)' = Attached(t)
  <2>1. CASE Attached(s)
    <3>1. attachment' = [attachment EXCEPT ![s].state = "closed"]
      BY <2>1 DEF Ends
    <3> QED BY <1>3, <2>1, <3>1 DEF SocketsOK, Id, Attached, Attachments
  <2>2. CASE ~Attached(s)
    BY <2>2 DEF Ends, Id, Attached
  <2> QED BY <2>1, <2>2
<1> QED BY <1>1, <1>2, <1>4 DEF Ends

\* The registry says whose each transport is; attachments and sessions agree with it.
SocketsInv ==
  /\ \A s \in Requests : fetch[s] = "none" => socket[s] = "none"
  /\ \A s \in Requests : Attached(s) => Id(s) \in 1..ids
  /\ \A s \in Requests : IsRegistered(s) => registry[Id(s)] = s
  /\ \A s \in Requests : IsRegistered(s) /\ socket[s] = "open" => s \in DOMAIN sessions
  /\ \A s \in DOMAIN sessions :
       /\ socket[s] = "open" /\ sessions[s] \in DOMAIN registry
       /\ registry[sessions[s]] = s
       /\ Attached(s) => Id(s) = sessions[s]

\* The transports that no attachment leads to.
Loose == {i \in DOMAIN registry : ~\E s \in DOMAIN sessions : sessions[s] = i /\ Attached(s)}

\* A transport is made for an open socket that has none.
LEMMA NewTransportSockets ==
  ASSUME SocketsOK, SocketsInv, NEW s \in Requests, NewTransport(s),
         socket'[s] = "open", \A t \in Requests : t # s => socket'[t] = socket[t],
         fetch'[s] # "none", \A t \in Requests : t # s => fetch'[t] = fetch[t],
         ~IsRegistered(s) \/ s \notin DOMAIN sessions
  PROVE  SocketsInv' /\ Loose' \subseteq Loose
<1>1. PICK n \in Nat :
        /\ ids' = n /\ n \notin DOMAIN registry /\ n \in 1..n /\ 1..ids \subseteq 1..n
        /\ n \notin 1..ids
        /\ DOMAIN registry' = DOMAIN registry \cup {n} /\ registry'[n] = s
        /\ \A i \in DOMAIN registry : registry'[i] = registry[i]
        /\ DOMAIN sessions' = DOMAIN sessions \cup {s} /\ sessions'[s] = n
        /\ \A t \in DOMAIN sessions : t # s => sessions'[t] = sessions[t]
        /\ attachment'[s].transportId = n /\ attachment'[s].state = "active"
        /\ \A t \in Requests : t # s => attachment'[t] = attachment[t]
  BY NewTransportFacts
<1>2. /\ Id(s)' = n /\ Attached(s)'
      /\ \A t \in Requests : t # s => Id(t)' = Id(t) /\ Attached(t)' = Attached(t)
  BY <1>1 DEF Id, Attached
<1>3. \A t \in Requests : t # s => IsRegistered(t)' = IsRegistered(t)
  BY <1>1, <1>2 DEF IsRegistered, Id, Attached, SocketsInv
<1>4. DOMAIN sessions \subseteq Requests
  BY DEF SocketsOK
<1>5. SocketsInv'
  <2>1. /\ \A t \in Requests : fetch'[t] = "none" => socket'[t] = "none"
        /\ \A t \in Requests : Attached(t)' => Id(t)' \in 1..ids'
    BY <1>1, <1>2 DEF SocketsInv
  <2>2. \A t \in Requests : IsRegistered(t)' => registry'[Id(t)'] = t
    <3> SUFFICES ASSUME NEW t \in Requests, IsRegistered(t)' PROVE registry'[Id(t)'] = t
      OBVIOUS
    <3>1. CASE t = s
      BY <1>1, <1>2, <3>1
    <3>2. CASE t # s
      <4>1. IsRegistered(t) /\ Id(t) \in DOMAIN registry /\ registry[Id(t)] = t
        BY <1>3, <3>2 DEF SocketsInv, IsRegistered, Id
      <4> QED BY <1>1, <1>2, <3>2, <4>1
    <3> QED BY <3>1, <3>2
  <2>3. \A t \in Requests : IsRegistered(t)' /\ socket'[t] = "open" => t \in DOMAIN sessions'
    BY <1>1, <1>3 DEF SocketsInv
  <2>4. \A t \in DOMAIN sessions' :
          /\ socket'[t] = "open" /\ sessions'[t] \in DOMAIN registry'
          /\ registry'[sessions'[t]] = t
          /\ Attached(t)' => Id(t)' = sessions'[t]
    <3> SUFFICES ASSUME NEW t \in DOMAIN sessions'
                 PROVE  /\ socket'[t] = "open" /\ sessions'[t] \in DOMAIN registry'
                        /\ registry'[sessions'[t]] = t
                        /\ Attached(t)' => Id(t)' = sessions'[t]
      OBVIOUS
    <3>1. CASE t = s
      BY <1>1, <1>2, <3>1
    <3>2. CASE t # s
      <4>1. t \in DOMAIN sessions /\ t \in Requests /\ sessions'[t] = sessions[t]
        BY <1>1, <1>4, <3>2
      <4> QED BY <1>1, <1>2, <3>2, <4>1 DEF SocketsInv
    <3> QED BY <3>1, <3>2
  <2> QED BY <2>1, <2>2, <2>3, <2>4 DEF SocketsInv
<1>6. ASSUME NEW i \in Loose' PROVE i \in Loose
  <2>1. /\ i \in DOMAIN registry'
        /\ \A t \in DOMAIN sessions' : ~(sessions'[t] = i /\ Attached(t)')
    BY DEF Loose
  <2>2. i \in DOMAIN registry
    BY <1>1, <1>2, <2>1
  <2>3. ASSUME NEW t \in DOMAIN sessions, sessions[t] = i, Attached(t) PROVE FALSE
    <3>1. CASE t = s
      <4>1. IsRegistered(s)
        BY <2>2, <2>3, <3>1 DEF SocketsInv, IsRegistered, Id
      <4> QED BY <2>3, <3>1, <4>1
    <3>2. CASE t # s
      BY <1>1, <1>2, <1>4, <2>1, <2>3, <3>2
    <3> QED BY <3>1, <3>2
  <2> QED BY <2>2, <2>3 DEF Loose
<1> QED BY <1>5, <1>6

\* A socket ends with its transport and session.
LEMMA EndsSockets ==
  ASSUME SocketsOK, SocketsInv, NEW s \in Requests, Ends(s),
         socket'[s] # "open", socket[s] # "none",
         \A t \in Requests : t # s => socket'[t] = socket[t]
  PROVE  SocketsInv' /\ Loose' \subseteq Loose
<1>1. /\ \A i : i \in DOMAIN registry' <=>
                  i \in DOMAIN registry /\ ~(Attached(s) /\ i = Id(s))
      /\ \A i \in DOMAIN registry' : registry'[i] = registry[i]
      /\ \A t : t \in DOMAIN sessions' <=> t \in DOMAIN sessions /\ t # s
      /\ \A t \in DOMAIN sessions' : sessions'[t] = sessions[t]
      /\ \A t \in Requests : Id(t)' = Id(t) /\ Attached(t)' = Attached(t)
      /\ ids' = ids /\ fetch' = fetch
  BY EndsFacts DEF Ends
<1>2. DOMAIN sessions \subseteq Requests
  BY DEF SocketsOK
<1>3. \A t \in Requests : IsRegistered(t)' => IsRegistered(t) /\ Id(t) \in DOMAIN registry'
  BY <1>1 DEF IsRegistered, Id
<1>4. SocketsInv'
  <2>1. /\ \A t \in Requests : fetch'[t] = "none" => socket'[t] = "none"
        /\ \A t \in Requests : Attached(t)' => Id(t)' \in 1..ids'
    BY <1>1 DEF SocketsInv
  <2>2. \A t \in Requests : IsRegistered(t)' => registry'[Id(t)'] = t
    <3> SUFFICES ASSUME NEW t \in Requests, IsRegistered(t)' PROVE registry'[Id(t)'] = t
      OBVIOUS
    <3>1. registry[Id(t)] = t /\ registry'[Id(t)] = registry[Id(t)] /\ Id(t)' = Id(t)
      BY <1>1, <1>3 DEF SocketsInv
    <3> QED BY <3>1
  <2>3. \A t \in Requests : IsRegistered(t)' /\ socket'[t] = "open" => t \in DOMAIN sessions'
    BY <1>1, <1>3 DEF SocketsInv
  <2>4. ASSUME NEW t \in DOMAIN sessions'
        PROVE  /\ socket'[t] = "open" /\ sessions'[t] \in DOMAIN registry'
               /\ registry'[sessions'[t]] = t
               /\ Attached(t)' => Id(t)' = sessions'[t]
    <3>1. /\ t \in DOMAIN sessions /\ t \in Requests /\ t # s /\ sessions'[t] = sessions[t]
          /\ socket[t] = "open" /\ sessions[t] \in DOMAIN registry /\ registry[sessions[t]] = t
          /\ Attached(t) => Id(t) = sessions[t]
      BY <1>1, <1>2 DEF SocketsInv
    <3>2. ~(Attached(s) /\ sessions[t] = Id(s))
      BY <3>1 DEF SocketsInv, IsRegistered, Id
    <3>3. sessions[t] \in DOMAIN registry' /\ registry'[sessions[t]] = t
      BY <1>1, <3>1, <3>2
    <3> QED BY <1>1, <3>1, <3>3
  <2> QED BY <2>1, <2>2, <2>3, <2>4 DEF SocketsInv
<1>5. ASSUME NEW i \in Loose' PROVE i \in Loose
  <2>1. /\ i \in DOMAIN registry /\ ~(Attached(s) /\ i = Id(s))
        /\ \A t \in DOMAIN sessions' : ~(sessions'[t] = i /\ Attached(t)')
    BY <1>1 DEF Loose
  <2>2. ASSUME NEW t \in DOMAIN sessions, sessions[t] = i, Attached(t) PROVE FALSE
    <3>1. CASE t = s
      BY <2>1, <2>2, <3>1 DEF SocketsInv
    <3>2. CASE t # s
      BY <1>1, <1>2, <2>1, <2>2, <3>2
    <3> QED BY <3>1, <3>2
  <2> QED BY <2>1, <2>2 DEF Loose
<1> QED BY <1>4, <1>5

\* The transports that nothing leads to are finitely many, and no more than attachments
\* were overwritten.
LooseBounded == IsFiniteSet(Loose) /\ Cardinality(Loose) <= strays

\* Fewer of them are within the bound as well.
LEMMA FewerLoose ==
  ASSUME LooseBounded, strays \in Nat, strays' \in Nat, strays <= strays', Loose' \subseteq Loose
  PROVE  LooseBounded'
<1>1. IsFiniteSet(Loose') /\ Cardinality(Loose') <= Cardinality(Loose)
  BY FS_Subset DEF LooseBounded
<1>2. Cardinality(Loose) \in Nat /\ Cardinality(Loose') \in Nat
  BY <1>1, FS_CardinalityType DEF LooseBounded
<1> QED BY <1>1, <1>2 DEF LooseBounded

\* One more is, too, when one more attachment was overwritten.
LEMMA OneMoreLoose ==
  ASSUME LooseBounded, NEW i, Loose' \subseteq Loose \cup {i}, strays \in Nat,
         strays' = strays + 1
  PROVE  LooseBounded'
<1>1. PICK S : S = Loose
  OBVIOUS
<1>2. IsFiniteSet(S) /\ Cardinality(S) \in Nat /\ Cardinality(S) <= strays
  BY <1>1, FS_CardinalityType DEF LooseBounded
<1>3. /\ IsFiniteSet(S \cup {i}) /\ Cardinality(S \cup {i}) \in Nat
      /\ Cardinality(S \cup {i}) = Cardinality(S) \/ Cardinality(S \cup {i}) = Cardinality(S) + 1
  BY <1>2, FS_AddElement, FS_CardinalityType
<1>4. PICK T : T = Loose'
  OBVIOUS
<1>5. T \subseteq S \cup {i}
  BY <1>1, <1>4
<1>6. IsFiniteSet(T) /\ Cardinality(T) <= Cardinality(S \cup {i}) /\ Cardinality(T) \in Nat
  BY <1>3, <1>5, FS_Subset, FS_CardinalityType
<1>7. Cardinality(T) <= strays + 1
  BY <1>2, <1>3, <1>6
<1> QED BY <1>4, <1>6, <1>7 DEF LooseBounded

\* Every step keeps the sockets in order.
LEMMA SocketsStep ==
  ASSUME TypeOK, SocketsInv, LooseBounded, [Next]_vars
  PROVE  SocketsInv' /\ LooseBounded'
<1>1. SocketsOK /\ FetchOK /\ strays \in Nat
  BY TypeParts DEF FetchOK
<1>2. ASSUME UNCHANGED <<registry, sessions, socketVars, strays>>,
             \A q \in Requests : fetch'[q] = "none" => fetch[q] = "none"
      PROVE  SocketsInv' /\ LooseBounded'
  <2>1. SocketsInv'
    BY <1>2 DEF socketVars, SocketsInv, IsRegistered, Attached, Id
  <2>2. Loose' = Loose
    BY <1>2 DEF socketVars, Loose, Attached
  <2> QED BY <1>2, <2>1, <2>2 DEF LooseBounded
<1>3. ASSUME NEW q \in Requests, FetchThrows(q) \/ GetSchema(q) \/ HttpRpc(q)
      PROVE  SocketsInv' /\ LooseBounded'
  <2>1. /\ UNCHANGED <<registry, sessions, socketVars, strays>>
        /\ \A p \in Requests : fetch'[p] = "none" => fetch[p] = "none"
    BY <1>1, <1>3 DEF FetchThrows, GetSchema, HttpRpc, Arrives, boundVars, FetchOK
  <2> QED BY <1>2, <2>1
<1>4. ASSUME NEW q \in Requests, Upgrade(q) PROVE SocketsInv' /\ LooseBounded'
  <2>1. /\ NewTransport(q) /\ socket'[q] = "open" /\ fetch'[q] # "none" /\ fetch[q] = "none"
        /\ \A t \in Requests : t # q => socket'[t] = socket[t]
        /\ \A t \in Requests : t # q => fetch'[t] = fetch[t]
        /\ UNCHANGED strays
    BY <1>1, <1>4 DEF Upgrade, Arrives, SocketsOK, FetchOK, boundVars
  <2>2. q \notin DOMAIN sessions
    BY <2>1 DEF SocketsInv
  <2>3. SocketsInv' /\ Loose' \subseteq Loose
    BY <1>1, <2>1, <2>2, NewTransportSockets
  <2> QED BY <1>1, <2>1, <2>3, FewerLoose
<1>5. ASSUME NEW q \in Requests, FetchEnds(q) \/ BatchRead(q) PROVE SocketsInv' /\ LooseBounded'
  <2>1. /\ UNCHANGED <<registry, sessions, socketVars, strays>>
        /\ \A p \in Requests : fetch'[p] = "none" => fetch[p] = "none"
    BY <1>1, <1>5 DEF FetchEnds, BatchRead, boundVars, FetchOK
  <2> QED BY <1>2, <2>1
<1>6. ASSUME NEW c \in Calls,
             \/ OnRequestSettles(c) \/ MethodReturns(c) \/ MethodThrows(c)
             \/ OnResponseSettles(c) \/ OnErrorSettles(c)
      PROVE  SocketsInv' /\ LooseBounded'
  <2>1. Others
    BY <1>6 DEF OnRequestSettles, MethodReturns, MethodThrows, OnResponseSettles, OnErrorSettles
  <2> QED BY <1>2, <2>1 DEF Others, boundVars
<1>7. ASSUME NEW s \in Requests, NEW m \in Messages, WebSocketMessage(s, m)
      PROVE  SocketsInv' /\ LooseBounded'
  <2>1. CASE IsRegistered(s)
    <3>1. UNCHANGED <<registry, sessions, socketVars, strays, fetch>>
      BY <1>7, <2>1 DEF WebSocketMessage, socketVars, boundVars
    <3> QED BY <1>2, <3>1
  <2>2. CASE ~IsRegistered(s)
    <3>1. /\ NewTransport(s) /\ socket[s] = "open" /\ UNCHANGED <<socket, fetch, strays>>
      BY <1>7, <2>2 DEF WebSocketMessage, boundVars
    <3>2. fetch'[s] # "none"
      BY <3>1 DEF SocketsInv
    <3>3. SocketsInv' /\ Loose' \subseteq Loose
      BY <1>1, <2>2, <3>1, <3>2, NewTransportSockets
    <3> QED BY <1>1, <3>1, <3>3, FewerLoose
  <2> QED BY <2>1, <2>2
<1>8. ASSUME NEW s \in Requests, WebSocketClose(s) \/ WebSocketError(s)
      PROVE  SocketsInv' /\ LooseBounded'
  <2>1. /\ Ends(s) /\ socket'[s] # "open" /\ socket[s] # "none" /\ UNCHANGED strays
        /\ \A t \in Requests : t # s => socket'[t] = socket[t]
    BY <1>1, <1>8 DEF WebSocketClose, WebSocketError, Ends, boundVars, SocketsOK
  <2>2. SocketsInv' /\ Loose' \subseteq Loose
    BY <1>1, <2>1, EndsSockets
  <2> QED BY <1>1, <2>1, <2>2, FewerLoose
<1>9. ASSUME NEW s \in Requests, StrayAttachment(s) PROVE SocketsInv' /\ LooseBounded'
  <2>1. /\ UNCHANGED <<registry, sessions, ids, socket, fetch>> /\ strays' = strays + 1
        /\ \A t \in Requests : t # s => attachment'[t] = attachment[t]
        /\ attachment'[s] = Stray
    BY <1>1, <1>9 DEF StrayAttachment, memoryVars, SocketsOK
  <2>2. /\ ~Attached(s)'
        /\ \A t \in Requests : t # s => Attached(t)' = Attached(t) /\ Id(t)' = Id(t)
    BY <2>1 DEF Attached, Id, Stray
  <2>3. \A t \in Requests : IsRegistered(t)' => IsRegistered(t) /\ t # s
    BY <2>1, <2>2 DEF IsRegistered, Id
  <2>4. DOMAIN sessions \subseteq Requests
    BY <1>1 DEF SocketsOK
  <2>5. SocketsInv'
    <3>1. /\ \A t \in Requests : fetch'[t] = "none" => socket'[t] = "none"
          /\ \A t \in Requests : Attached(t)' => Id(t)' \in 1..ids'
      BY <2>1, <2>2 DEF SocketsInv
    <3>2. /\ \A t \in Requests : IsRegistered(t)' => registry'[Id(t)'] = t
          /\ \A t \in Requests : IsRegistered(t)' /\ socket'[t] = "open" => t \in DOMAIN sessions'
      BY <2>1, <2>2, <2>3 DEF SocketsInv
    <3>3. \A t \in DOMAIN sessions' :
            /\ socket'[t] = "open" /\ sessions'[t] \in DOMAIN registry'
            /\ registry'[sessions'[t]] = t
            /\ Attached(t)' => Id(t)' = sessions'[t]
      BY <2>1, <2>2, <2>4 DEF SocketsInv
    <3> QED BY <3>1, <3>2, <3>3 DEF SocketsInv
  <2>6. Loose' \subseteq Loose \cup {sessions[s]}
    BY <2>1, <2>2, <2>4 DEF Loose
  <2> QED BY <1>1, <2>1, <2>5, <2>6, OneMoreLoose
<1>10. CASE Hibernate
  <2>1. /\ DOMAIN registry' = {} /\ DOMAIN sessions' = {}
        /\ UNCHANGED <<socketVars, fetch, strays>>
    BY <1>10 DEF Hibernate
  <2>2. SocketsInv'
    BY <2>1 DEF SocketsInv, socketVars, IsRegistered, Attached, Id
  <2>3. Loose' \subseteq Loose
    BY <2>1 DEF Loose
  <2> QED BY <1>1, <2>1, <2>2, <2>3, FewerLoose
<1>11. CASE UNCHANGED vars
  BY <1>2, <1>11 DEF vars, memoryVars, boundVars
<1> QED BY <1>3, <1>4, <1>5, <1>6, <1>7, <1>8, <1>9, <1>10, <1>11 DEF Next

\* No socket has anything at first.
LEMMA SocketsInit == Init => SocketsInv /\ LooseBounded
<1> SUFFICES ASSUME Init PROVE SocketsInv /\ LooseBounded
  OBVIOUS
<1>1. DOMAIN registry = {} /\ DOMAIN sessions = {}
  BY DEF Init
<1>2. SocketsInv
  BY <1>1 DEF Init, SocketsInv, Attached, IsRegistered, Stray
<1>3. Loose = {} /\ strays = 0
  BY <1>1 DEF Loose, Init
<1>4. IsFiniteSet({}) /\ Cardinality({}) = 0
  BY FS_EmptySet
<1> QED BY <1>2, <1>3, <1>4 DEF LooseBounded

\* The transport that an open socket's attachment names is the socket's own and
\* under its session, over any number of sockets, hibernations and overwritten
\* attachments.
THEOREM MessagesReachTheirSession == Spec => []OwnSession
<1>1. TypeOK /\ SocketsInv /\ LooseBounded /\ [Next]_vars => SocketsInv' /\ LooseBounded'
  BY SocketsStep
<1>2. SocketsInv => OwnSession
  BY DEF SocketsInv, OwnSession, IsRegistered, Attached, Id
<1> QED BY <1>1, <1>2, SocketsInit, TypeCorrect, PTL DEF Spec

\* A socket that is over leaves no session, and the transports without a session
\* are at most as many as attachments were overwritten.
THEOREM ClosedLeaveNothing == Spec => []NothingKept
<1>1. TypeOK /\ SocketsInv /\ LooseBounded /\ [Next]_vars => SocketsInv' /\ LooseBounded'
  BY SocketsStep
<1>2. TypeOK /\ SocketsInv /\ LooseBounded => NothingKept
  <2> SUFFICES ASSUME TypeOK, SocketsInv, LooseBounded PROVE NothingKept
    OBVIOUS
  <2> DEFINE O == {i \in DOMAIN registry : ~\E s \in DOMAIN sessions : sessions[s] = i}
  <2>1. O \subseteq Loose
    BY DEF Loose
  <2>2. Cardinality(O) <= Cardinality(Loose) /\ IsFiniteSet(O)
    BY <2>1, FS_Subset DEF LooseBounded
  <2>3. Cardinality(O) \in Nat /\ Cardinality(Loose) \in Nat /\ strays \in Nat
    BY <2>2, FS_CardinalityType DEF LooseBounded, TypeOK
  <2>4. Cardinality(O) <= strays
    <3> HIDE DEF O
    <3> QED BY <2>2, <2>3 DEF LooseBounded
  <2> QED BY <2>4 DEF NothingKept, SocketsInv
<1> QED BY <1>1, <1>2, SocketsInit, TypeCorrect, PTL DEF Spec

-----------------------------------------------------------------------------
(* The current request *)

\* What the calls' own hooks see changes only when a call begins.
CallsGoOn ==
  \A q \in Requests : call'[q] \in UnderWay => call[q] \in UnderWay /\ ctx'[q] = ctx[q]

\* Where nobody reads a body anew and the current request is left alone, a request
\* that was alone sees itself.
LEMMA AloneKept ==
  ASSUME OwnWhenAlone, CallsGoOn, UNCHANGED <<currentRequest, overlapped>>,
         \A q \in Requests : fetch'[q] = "reading" => fetch[q] = "reading"
  PROVE  OwnWhenAlone'
  BY DEF OwnWhenAlone, CallsGoOn

\* A fetch that comes or ends overlaps all others whose body is awaited.
LEMMA AloneBeside ==
  ASSUME TypeOK, OwnWhenAlone, NEW q \in Requests, NEW now,
         fetch' = [fetch EXCEPT ![q] = now],
         now = "reading" => currentRequest' = q,
         overlapped' = overlapped \cup Beside(q), UNCHANGED callVars
  PROVE  OwnWhenAlone'
<1>1. ASSUME NEW p \in Requests, p \notin overlapped', fetch'[p] = "reading"
      PROVE  currentRequest' = p
  <2>1. p = q
    BY <1>1 DEF Beside, TypeOK
  <2> QED BY <1>1, <2>1 DEF TypeOK
<1>2. ASSUME NEW p \in Requests, p \notin overlapped', call'[p] \in UnderWay
      PROVE  ctx'[p] = p
  BY <1>2 DEF OwnWhenAlone, callVars
<1> QED BY <1>1, <1>2 DEF OwnWhenAlone

\* Every step leaves a request that is alone its own.
LEMMA AloneStep ==
  ASSUME TypeOK, OwnWhenAlone, [Next]_vars
  PROVE  OwnWhenAlone'
<1> DEFINE Goes == /\ CallsGoOn /\ UNCHANGED <<currentRequest, overlapped>>
                   /\ \A q \in Requests : fetch'[q] = "reading" => fetch[q] = "reading"
<1>1. Goes => OwnWhenAlone'
  BY AloneKept
<1>2. ASSUME NEW q \in Requests,
             FetchThrows(q) \/ GetSchema(q) \/ HttpRpc(q) \/ Upgrade(q)
      PROVE  OwnWhenAlone'
  <2>1. PICK now : /\ fetch' = [fetch EXCEPT ![q] = now]
                   /\ now = "reading" => currentRequest' = q
    BY <1>2 DEF FetchThrows, GetSchema, HttpRpc, Upgrade, Arrives, SetsCurrent
  <2>2. overlapped' = overlapped \cup Beside(q) /\ UNCHANGED callVars
    BY <1>2 DEF FetchThrows, GetSchema, HttpRpc, Upgrade, Arrives
  <2> QED BY <2>1, <2>2, AloneBeside
<1>3. ASSUME NEW q \in Requests, FetchEnds(q) PROVE OwnWhenAlone'
  BY <1>3, AloneBeside DEF FetchEnds
<1>4. ASSUME NEW q \in Requests, BatchRead(q) PROVE OwnWhenAlone'
  <2>1. /\ q \notin overlapped => currentRequest = q
        /\ UNCHANGED <<currentRequest, overlapped>>
    BY <1>4 DEF BatchRead, OwnWhenAlone
  <2>2. /\ ctx'[q] = currentRequest
        /\ \A p \in Requests \ {q} : call'[p] = call[p] /\ ctx'[p] = ctx[p]
        /\ \A p \in Requests : fetch'[p] = "reading" => fetch[p] = "reading"
    BY <1>4 DEF BatchRead, Begin, TypeOK, Calls
  <2> QED BY <2>1, <2>2 DEF OwnWhenAlone
<1>5. ASSUME NEW c \in Calls,
             \/ OnRequestSettles(c) \/ MethodReturns(c) \/ MethodThrows(c)
             \/ OnResponseSettles(c) \/ OnErrorSettles(c)
      PROVE  Goes
  <2>1. Others
    BY <1>5 DEF OnRequestSettles, MethodReturns, MethodThrows, OnResponseSettles,
                OnErrorSettles
  <2>2. call[c] \in UnderWay
    BY <1>5 DEF OnRequestSettles, MethodReturns, MethodThrows, OnResponseSettles,
                OnErrorSettles, UnderWay
  <2>3. \/ \E now : Enters(c, now)
        \/ Leaves(c, "refused") \/ Leaves(c, "over")
    BY <1>5 DEF OnRequestSettles, MethodReturns, MethodThrows, OnResponseSettles,
                OnErrorSettles
  <2>4. CallsGoOn
    BY <2>2, <2>3 DEF CallsGoOn, Enters, Leaves, TypeOK, Calls, UnderWay
  <2> QED BY <2>1, <2>4 DEF Others
<1>6. ASSUME NEW s \in Requests, NEW m \in Messages, WebSocketMessage(s, m) PROVE Goes
  <2>1. m \notin Requests
    BY DurableRpcAssumption
  <2>2. CallsGoOn
    BY <1>6, <2>1 DEF WebSocketMessage, Begin, TypeOK, CallsGoOn, Calls
  <2> QED BY <1>6, <2>2 DEF WebSocketMessage
<1>7. ASSUME NEW s \in Requests, WebSocketClose(s) \/ WebSocketError(s) PROVE Goes
  BY <1>7 DEF WebSocketClose, WebSocketError, Ends, callVars, CallsGoOn
<1>8. ASSUME NEW s \in Requests, StrayAttachment(s) PROVE Goes
  BY <1>8 DEF StrayAttachment, memoryVars, callVars, CallsGoOn
<1>9. ASSUME Hibernate PROVE OwnWhenAlone'
  <2>1. \A q \in Requests : fetch'[q] # "reading"
    BY <1>9 DEF Hibernate
  <2>2. \A q \in Requests : call'[q] \notin UnderWay
    BY <1>9 DEF Hibernate, UnderWay, Calls
  <2> QED BY <2>1, <2>2 DEF OwnWhenAlone
<1>10. ASSUME UNCHANGED vars PROVE Goes
  BY <1>10 DEF vars, memoryVars, callVars, CallsGoOn
<1> HIDE DEF Goes
<1> QED BY <1>1, <1>2, <1>3, <1>4, <1>5, <1>6, <1>7, <1>8, <1>9, <1>10 DEF Next

\* A POST beside whose reading no other fetch came or ended is the current request
\* until its call begins, and the call's hooks see it to their end, whatever
\* upgrades, thrown requests, sockets and hibernations there were, for any requests.
THEOREM AloneSeesItself == Spec => []OwnWhenAlone
<1>1. Init => OwnWhenAlone
  BY DEF Init, OwnWhenAlone, Calls, UnderWay
<1>2. TypeOK /\ OwnWhenAlone /\ [Next]_vars => OwnWhenAlone'
  BY AloneStep
<1> QED BY <1>1, <1>2, TypeCorrect, PTL DEF Spec

-----------------------------------------------------------------------------
(* The hooks of a call *)

\* The calls under way, or refused, of which the timing has an entry.
Timed == {c \in Calls : call[c] \in {"requesting", "running", "erroring", "refused"}}

\* How often a call's end is to have been heard.
Heard(where) == IF where \in {"responding", "erroring", "over"} THEN 1 ELSE 0

\* A request whose body has not been read has made no call.
HooksInv ==
  /\ \A c \in Calls : call[c] # "lost" => ends[c] = Heard(call[c])
  /\ timings = Cardinality(Timed)
  /\ \A q \in Requests : fetch[q] \in {"none", "reading"} => call[q] = "none"

\* One element more or less.
LEMMA CardinalityStep ==
  ASSUME NEW S, IsFiniteSet(S), NEW c
  PROVE  /\ c \notin S => Cardinality(S \cup {c}) = Cardinality(S) + 1
         /\ c \in S => /\ Cardinality(S \ {c}) = Cardinality(S) - 1 /\ Cardinality(S) # 0
         /\ Cardinality(S) \in Nat
<1>1. Cardinality(S) \in Nat
  BY FS_CardinalityType
<1>2. c \notin S => Cardinality(S \cup {c}) = Cardinality(S) + 1
  BY FS_AddElement
<1>3. ASSUME c \in S PROVE Cardinality(S \ {c}) = Cardinality(S) - 1 /\ Cardinality(S) # 0
  <2>1. Cardinality(S \ {c}) = Cardinality(S) - 1
    BY <1>3, FS_RemoveElement
  <2>2. S # {}
    BY <1>3
  <2>3. Cardinality(S) # 0
    BY <2>2, FS_EmptySet
  <2> QED BY <2>1, <2>3
<1> QED BY <1>1, <1>2, <1>3

\* A call moves on: what is heard of it and its entry in the timing with it.
LEMMA HooksMove ==
  ASSUME TypeOK, HooksInv, IsFiniteSet(Calls), NEW c \in Calls, call[c] # "lost",
         call'[c] # "lost", ends'[c] = Heard(call'[c]),
         \A d \in Calls : d # c => call'[d] = call[d] /\ ends'[d] = ends[d],
         \A q \in Requests : fetch'[q] \in {"none", "reading"} =>
                               fetch[q] \in {"none", "reading"} /\ q # c,
         \/ c \notin Timed /\ c \in Timed' /\ timings' = timings + 1
         \/ c \in Timed /\ c \notin Timed' /\ RemoveTiming
         \/ (c \in Timed <=> c \in Timed') /\ timings' = timings
  PROVE  HooksInv'
<1>1. \A d \in Calls : d # c => (d \in Timed <=> d \in Timed')
  BY DEF Timed
<1>2. IsFiniteSet(Timed)
  <2>1. Timed \subseteq Calls
    BY DEF Timed
  <2> QED BY <2>1, FS_Subset
<1>3. Timed \subseteq Calls /\ Timed' \subseteq Calls
  BY DEF Timed
<1>4. timings' = Cardinality(Timed')
  <2> DEFINE S == Timed
             T == Timed'
  <2>0. /\ IsFiniteSet(S)
        /\ c \in S <=> c \in Timed
        /\ c \in T <=> c \in Timed'
        /\ S \subseteq Calls /\ T \subseteq Calls /\ \A d \in Calls : d # c => (d \in S <=> d \in T)
    BY <1>1, <1>2, <1>3
  <2>1. timings = Cardinality(S) /\ timings \in Nat
    BY DEF HooksInv, TypeOK
  <2> HIDE DEF S, T
  <2>2. CASE c \notin Timed /\ c \in Timed' /\ timings' = timings + 1
    <3>1. T = S \cup {c} /\ c \notin S
      BY <2>0, <2>2
    <3> QED BY <2>0, <2>1, <2>2, <3>1, CardinalityStep DEF T
  <2>3. CASE c \in Timed /\ c \notin Timed' /\ RemoveTiming
    <3>1. T = S \ {c} /\ c \in S
      BY <2>0, <2>3
    <3>2. Cardinality(T) = Cardinality(S) - 1 /\ Cardinality(S) # 0
      BY <2>0, <3>1, CardinalityStep
    <3> QED BY <2>1, <2>3, <3>2 DEF RemoveTiming, T
  <2>4. CASE (c \in Timed <=> c \in Timed') /\ timings' = timings
    <3>1. T = S
      BY <2>0, <2>4
    <3> QED BY <2>1, <2>4, <3>1 DEF T
  <2> QED BY <2>2, <2>3, <2>4
<1>5. \A d \in Calls : call'[d] # "lost" => ends'[d] = Heard(call'[d])
  BY DEF HooksInv
<1>6. \A q \in Requests : fetch'[q] \in {"none", "reading"} => call'[q] = "none"
  BY DEF HooksInv, Calls
<1> QED BY <1>4, <1>5, <1>6 DEF HooksInv, Heard

\* Steps that touch no call and let no request back.
LEMMA HooksKept ==
  ASSUME HooksInv, UNCHANGED <<call, ends, timings>>,
         \A q \in Requests : fetch'[q] \in {"none", "reading"} =>
                               fetch[q] \in {"none", "reading"}
  PROVE  HooksInv'
<1>1. Timed' = Timed
  BY DEF Timed
<1> QED BY <1>1 DEF HooksInv, Heard

\* Every step keeps the hooks balanced.
LEMMA HooksStep ==
  ASSUME TypeOK, HooksInv, IsFiniteSet(Calls), [Next]_vars
  PROVE  HooksInv'
<1>1. ASSUME NEW q \in Requests,
             FetchThrows(q) \/ GetSchema(q) \/ HttpRpc(q) \/ Upgrade(q)
      PROVE  HooksInv'
  <2>1. /\ UNCHANGED <<call, ends, timings>> /\ fetch[q] = "none"
        /\ \A p \in Requests : p # q => fetch'[p] = fetch[p]
    BY <1>1 DEF FetchThrows, GetSchema, HttpRpc, Upgrade, Arrives, callVars, TypeOK
  <2>2. \A p \in Requests : fetch'[p] \in {"none", "reading"} => fetch[p] \in {"none", "reading"}
    BY <2>1
  <2> QED BY <2>1, <2>2, HooksKept
<1>2. ASSUME NEW q \in Requests,
             \/ FetchEnds(q) \/ WebSocketClose(q) \/ WebSocketError(q) \/ StrayAttachment(q)
      PROVE  HooksInv'
  <2>1. /\ UNCHANGED <<call, ends, timings>>
        /\ \A p \in Requests : fetch'[p] \in {fetch[p], "over"}
    BY <1>2 DEF FetchEnds, WebSocketClose, WebSocketError, Ends, StrayAttachment, callVars,
                memoryVars, TypeOK
  <2>2. \A p \in Requests : fetch'[p] \in {"none", "reading"} => fetch[p] \in {"none", "reading"}
    BY <2>1
  <2> QED BY <2>1, <2>2, HooksKept
<1>3. ASSUME NEW c \in Calls, NEW current, Begin(c, current), call[c] = "none",
             \A p \in Requests : fetch'[p] \in {"none", "reading"} =>
                                   fetch[p] \in {"none", "reading"} /\ p # c
      PROVE  HooksInv'
  <2>1. /\ call'[c] = "requesting" /\ timings' = timings + 1 /\ ends' = ends
        /\ \A d \in Calls : d # c => call'[d] = call[d]
    BY <1>3 DEF Begin, TypeOK
  <2>2. ends'[c] = Heard(call'[c])
    BY <1>3, <2>1 DEF HooksInv, Heard
  <2>3. c \notin Timed /\ c \in Timed'
    BY <1>3, <2>1 DEF Timed
  <2> QED BY <1>3, <2>1, <2>2, <2>3, HooksMove
<1>4. ASSUME NEW q \in Requests, BatchRead(q) PROVE HooksInv'
  <2>1. q \in Calls /\ call[q] = "none" /\ Begin(q, currentRequest)
    BY <1>4 DEF BatchRead, HooksInv, Calls
  <2>2. \A p \in Requests : fetch'[p] \in {"none", "reading"} =>
                                fetch[p] \in {"none", "reading"} /\ p # q
    BY <1>4 DEF BatchRead, TypeOK
  <2> QED BY <1>3, <2>1, <2>2
<1>5. ASSUME NEW s \in Requests, NEW m \in Messages, WebSocketMessage(s, m) PROVE HooksInv'
  <2>1. m \in Calls /\ call[m] = "none" /\ Begin(m, currentRequest)
    BY <1>5 DEF WebSocketMessage, Calls
  <2>2. \A p \in Requests : fetch'[p] \in {"none", "reading"} =>
                                fetch[p] \in {"none", "reading"} /\ p # m
    BY <1>5, DurableRpcAssumption DEF WebSocketMessage
  <2> QED BY <1>3, <2>1, <2>2
<1>6. ASSUME NEW c \in Calls, Others, call[c] \notin {"none", "lost"},
             call'[c] # "lost", ends'[c] = Heard(call'[c]),
             \A d \in Calls : d # c => call'[d] = call[d] /\ ends'[d] = ends[d],
             \/ c \in Timed /\ c \notin Timed' /\ RemoveTiming
             \/ (c \in Timed <=> c \in Timed') /\ timings' = timings
      PROVE  HooksInv'
  <2>1. \A p \in Requests : fetch'[p] \in {"none", "reading"} =>
                                fetch[p] \in {"none", "reading"} /\ p # c
    BY <1>6 DEF Others, HooksInv
  <2> QED BY <1>6, <2>1, HooksMove
<1>7. ASSUME NEW c \in Calls, OnRequestSettles(c) PROVE HooksInv'
  <2>1. /\ call[c] = "requesting" /\ call'[c] \in {"running", "refused"} /\ ends' = ends
        /\ \A d \in Calls : d # c => call'[d] = call[d]
    BY <1>7 DEF OnRequestSettles, Enters, Leaves, TypeOK
  <2>2. ends'[c] = Heard(call'[c])
    BY <2>1 DEF HooksInv, Heard
  <2>3. c \in Timed /\ c \in Timed' /\ timings' = timings /\ Others
    BY <1>7, <2>1 DEF OnRequestSettles, Timed
  <2> QED BY <1>6, <2>1, <2>2, <2>3
<1>8. ASSUME NEW c \in Calls, MethodReturns(c) \/ MethodThrows(c) PROVE HooksInv'
  <2>1. /\ call[c] = "running" /\ call'[c] \in {"responding", "erroring"}
        /\ ends'[c] = ends[c] + 1
        /\ \A d \in Calls : d # c => call'[d] = call[d] /\ ends'[d] = ends[d]
    BY <1>8 DEF MethodReturns, MethodThrows, Enters, EndHook, TypeOK
  <2>2. ends[c] = 0
    BY <2>1 DEF HooksInv, Heard
  <2>3. ends'[c] = Heard(call'[c])
    BY <2>1, <2>2 DEF Heard
  <2>4. Others
    BY <1>8 DEF MethodReturns, MethodThrows
  <2>5. CASE MethodReturns(c)
    <3>1. call'[c] = "responding" /\ RemoveTiming
      BY <2>5 DEF MethodReturns, Enters, TypeOK
    <3>2. c \in Timed /\ c \notin Timed'
      BY <2>1, <3>1 DEF Timed
    <3> QED BY <1>6, <2>1, <2>3, <2>4, <3>1, <3>2
  <2>6. CASE MethodThrows(c)
    <3>1. call'[c] = "erroring" /\ timings' = timings
      BY <2>6 DEF MethodThrows, Enters, TypeOK
    <3>2. c \in Timed /\ c \in Timed'
      BY <2>1, <3>1 DEF Timed
    <3> QED BY <1>6, <2>1, <2>3, <2>4, <3>1, <3>2
  <2> QED BY <1>8, <2>5, <2>6
<1>9. ASSUME NEW c \in Calls, OnResponseSettles(c) \/ OnErrorSettles(c) PROVE HooksInv'
  <2>1. /\ call[c] \in {"responding", "erroring"} /\ call'[c] = "over" /\ ends' = ends
        /\ \A d \in Calls : d # c => call'[d] = call[d]
    BY <1>9 DEF OnResponseSettles, OnErrorSettles, Leaves, TypeOK
  <2>2. ends'[c] = Heard(call'[c])
    BY <2>1 DEF HooksInv, Heard
  <2>3. Others /\ c \notin Timed'
    BY <1>9, <2>1 DEF OnResponseSettles, OnErrorSettles, Timed
  <2>4. CASE OnResponseSettles(c)
    <3>1. c \notin Timed /\ timings' = timings
      BY <2>4 DEF OnResponseSettles, Timed
    <3> QED BY <1>6, <2>1, <2>2, <2>3, <3>1
  <2>5. CASE OnErrorSettles(c)
    <3>1. c \in Timed /\ RemoveTiming
      BY <2>5 DEF OnErrorSettles, Timed
    <3> QED BY <1>6, <2>1, <2>2, <2>3, <3>1
  <2> QED BY <1>9, <2>4, <2>5
<1>10. CASE Hibernate
  <2>1. /\ \A c \in Calls : call'[c] = IF call[c] \in {"none", "over"} THEN call[c] ELSE "lost"
        /\ ends' = ends /\ timings' = 0 /\ fetch' = fetch
    BY <1>10 DEF Hibernate
  <2>2. Timed' = {}
    BY <2>1 DEF Timed
  <2>3. timings' = Cardinality(Timed')
    BY <2>1, <2>2, FS_EmptySet
  <2>4. \A c \in Calls : call'[c] # "lost" => ends'[c] = Heard(call'[c])
    BY <2>1 DEF HooksInv
  <2>5. \A q \in Requests : fetch'[q] \in {"none", "reading"} => call'[q] = "none"
    BY <2>1 DEF HooksInv, Calls
  <2> QED BY <2>3, <2>4, <2>5 DEF HooksInv, Heard
<1>11. CASE UNCHANGED vars
  BY <1>11, HooksKept DEF vars, memoryVars, callVars
<1> QED BY <1>1, <1>2, <1>4, <1>5, <1>7, <1>8, <1>9, <1>10, <1>11 DEF Next

\* For any finitely many calls, the application hears one end of each call that its
\* onRequest hooks let pass, and the timing has an entry for each call under way and
\* each call refused, and no other.
THEOREM HooksAreBalanced ==
  ASSUME IsFiniteSet(Calls)
  PROVE  Spec => []HooksBalanced
<1>1. Init => HooksInv
  <2> SUFFICES ASSUME Init PROVE HooksInv
    OBVIOUS
  <2>1. Timed = {} /\ timings = 0
    BY DEF Init, Timed
  <2>2. timings = Cardinality(Timed)
    BY <2>1, FS_EmptySet
  <2> QED BY <2>2 DEF Init, HooksInv, Heard, Calls
<1>2. TypeOK /\ HooksInv /\ [Next]_vars => HooksInv'
  BY HooksStep
<1>3. HooksInv => HooksBalanced
  BY DEF HooksInv, HooksBalanced, Timed, Heard
<1> QED BY <1>1, <1>2, <1>3, TypeCorrect, PTL DEF Spec
=============================================================================
