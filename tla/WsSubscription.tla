---------------------------- MODULE WsSubscription ----------------------------
(***************************************************************************)
(* wsSubscribe() (src/src/transports/streaming.ts): a subscription to a    *)
(* topic over a WebSocket of its own, which resubscribes over a new socket *)
(* when the old one is lost, and hands its data to next().                 *)
(*                                                                         *)
(* Every event handler, timer and call runs to its end before the next one *)
(* starts. All sockets share one record of state, and only the latest is    *)
(* in state.ws: conn is its readyState, and ReconnectTimer overwrites it.   *)
(*                                                                         *)
(* A datum is its number in the order of arrival. Left out are the length   *)
(* of the backoff, the topic and the filter, whether a next() that gets no *)
(* datum ends with done or with state.error, and the handlers added with   *)
(* on(), which see each datum that handleData() gets and change nothing.   *)
(*                                                                         *)
(* A definition whose name has a suffix (Reject_Never) is a faulty variant *)
(* of the one after it, which the properties are tested against.           *)
(***************************************************************************)
EXTENDS Integers, Sequences

CONSTANTS
  BufferSize,            \* options.bufferSize
  AutoReconnect,         \* options.autoReconnect
  MaxReconnectAttempts,  \* options.maxReconnectAttempts
  MaxIn,                 \* bound: data the server sends
  MaxWaiting             \* bound: next() calls waiting at one time

ASSUME OptionAssumption ==
  /\ BufferSize \in Nat
  /\ AutoReconnect \in BOOLEAN
  /\ MaxReconnectAttempts \in Nat
  /\ MaxIn \in Nat
  /\ MaxWaiting \in Nat

VARIABLES
  caller,    \* wsSubscribe() of the caller: "waits", "subscribed", "failed"
  conn,      \* state.ws.readyState
  server,    \* what the server did with the subscribe message on conn
  active,    \* state.active
  paused,    \* state.paused
  attempts,  \* state.reconnectAttempts
  timer,     \* the backoff timer: "none" or "pending"
  buffer,    \* state.buffer
  waiting,   \* state.waitingResolvers.length
  arrived,   \* data received so far (history)
  taken      \* the data next() returned (history)

connVars == <<conn, server, timer>>
dataVars == <<buffer, waiting, arrived, taken>>
vars == <<caller, connVars, active, paused, attempts, dataVars>>

ReadyStates == {"connecting", "open", "closing", "closed"}

\* The server has no subscribe message, an unanswered one, or answered it.
ServerStates == {"idle", "asked", "acked", "refused"}

\* wsSubscribe() up to its first await, with the auth token at hand.
Init ==
  /\ caller = "waits"
  /\ conn = "connecting"
  /\ server = "idle"
  /\ active = "no"
  /\ paused = "no"
  /\ attempts = 0
  /\ timer = "none"
  /\ buffer = <<>>
  /\ waiting = 0
  /\ arrived = 0
  /\ taken = <<>>

\* connect()'s promise is settled; only the first one has somebody waiting,
\* and only the first time counts.
Resolve == caller' = IF caller = "waits" THEN "subscribed" ELSE caller
Reject_Never == UNCHANGED caller
Reject == caller' = IF caller = "waits" THEN "failed" ELSE caller

\* handleError(): every waiting next() is rejected.
HandleError == waiting' = 0

\* handleEnd(): every waiting next() is told that the subscription is done.
HandleEnd_StillActive ==
  /\ waiting' = 0
  /\ UNCHANGED active
HandleEnd_Waiting ==
  /\ active' = "no"
  /\ UNCHANGED waiting
HandleEnd ==
  /\ active' = "no"
  /\ waiting' = 0

-----------------------------------------------------------------------------
(* The socket *)

\* onopen: the token and the subscribe message go out.
Open ==
  /\ conn = "connecting"
  /\ conn' = "open"
  /\ server' = "asked"
  /\ UNCHANGED <<caller, active, paused, attempts, timer, dataVars>>

\* The 30 s of the connection attempt are over: onopen has disarmed this
\* timer, so the socket is still connecting.
ConnectionTimeout_Retries ==
  /\ conn = "connecting"
  /\ conn' = "closing"
  /\ Reject
  /\ timer' = IF active = "yes" THEN "pending" ELSE timer
  /\ UNCHANGED <<server, active, paused, attempts, dataVars>>
ConnectionTimeout ==
  /\ conn = "connecting"
  /\ conn' = "closing"
  /\ Reject
  /\ UNCHANGED <<server, active, paused, attempts, timer, dataVars>>

\* An ack message.
Ack ==
  /\ conn = "open" /\ server = "asked"
  /\ server' = "acked"
  /\ active' = "yes"
  /\ attempts' = 0
  /\ Resolve
  /\ UNCHANGED <<conn, paused, timer, dataVars>>

\* handleData(): the oldest waiting next() gets the datum, or the buffer, at
\* the cost of its oldest datum when it is full.
HandleData_NoLimit(datum) ==
  IF waiting > 0
  THEN /\ waiting' = waiting - 1
       /\ taken' = Append(taken, datum)
       /\ UNCHANGED buffer
  ELSE /\ buffer' = Append(buffer, datum)
       /\ UNCHANGED <<waiting, taken>>
HandleData(datum) ==
  IF waiting > 0
  THEN /\ waiting' = waiting - 1
       /\ taken' = Append(taken, datum)
       /\ UNCHANGED buffer
  ELSE /\ buffer' = IF Len(buffer) < BufferSize
                    THEN Append(buffer, datum)
                    ELSE Append(SubSeq(buffer, 2, Len(buffer)), datum)
       /\ UNCHANGED <<waiting, taken>>

\* A data message, which a paused subscription ignores.
Data ==
  /\ conn = "open" /\ server = "acked" /\ arrived < MaxIn
  /\ arrived' = arrived + 1
  /\ IF paused = "no" THEN HandleData(arrived')
                      ELSE UNCHANGED <<buffer, waiting, taken>>
  /\ UNCHANGED <<caller, connVars, active, paused, attempts>>

\* An error message, in answer to the subscribe message or later. It neither
\* closes the socket nor ends an active subscription.
ErrorMessage ==
  /\ conn = "open"
  /\ server' = IF server = "asked" THEN "refused" ELSE server
  /\ HandleError
  /\ IF active = "no" THEN Reject ELSE UNCHANGED caller
  /\ UNCHANGED <<conn, active, paused, attempts, timer, buffer, arrived, taken>>

\* The server's close frame: the close event is yet to come.
ServerCloses ==
  /\ conn = "open"
  /\ conn' = "closing"
  /\ UNCHANGED <<caller, server, active, paused, attempts, timer,
                 dataVars>>

\* The condition under which onclose tries again, and what it does then.
Reconnects_OneMore == AutoReconnect /\ attempts <= MaxReconnectAttempts
Reconnects == AutoReconnect /\ attempts < MaxReconnectAttempts

BackOff_NotCounted == timer' = "pending" /\ UNCHANGED attempts
BackOff == timer' = "pending" /\ attempts' = attempts + 1

\* onclose of a socket that was connected and closed with a handshake, or
\* onerror and onclose of one that failed.
CloseEvent ==
  /\ conn # "closed"
  /\ conn' = "closed"
  /\ \E wasClean, failed \in BOOLEAN :
       /\ wasClean => conn \in {"open", "closing"} /\ ~failed
       /\ \/ /\ active = "yes" /\ ~wasClean /\ Reconnects
             /\ BackOff
             /\ IF failed THEN HandleError ELSE UNCHANGED waiting
             /\ UNCHANGED <<caller, active>>
          \/ /\ active = "yes" /\ (wasClean \/ ~Reconnects)
             /\ HandleEnd
             /\ UNCHANGED <<caller, attempts, timer>>
          \/ /\ active = "no"
             /\ Reject
             /\ UNCHANGED <<active, attempts, timer, waiting>>
  /\ UNCHANGED <<server, paused, buffer, arrived, taken>>

\* The backoff is over: connect(), whatever has happened in the meantime.
ReconnectTimer ==
  /\ timer = "pending"
  /\ timer' = "none"
  /\ conn' = "connecting"
  /\ server' = "idle"
  /\ UNCHANGED <<caller, active, paused, attempts, dataVars>>

-----------------------------------------------------------------------------
(* The consumer, once it has the subscription *)

\* next(): a buffered datum, an end or an error, or a wait.
NextCall ==
  /\ caller = "subscribed"
  /\ \/ /\ buffer # <<>>
        /\ buffer' = Tail(buffer)
        /\ taken' = Append(taken, Head(buffer))
        /\ UNCHANGED waiting
     \/ /\ buffer = <<>> /\ active = "yes" /\ waiting < MaxWaiting
        /\ waiting' = waiting + 1
        /\ UNCHANGED <<buffer, taken>>
  /\ UNCHANGED <<caller, connVars, active, paused, attempts, arrived>>

Pause ==
  /\ caller = "subscribed" /\ paused = "no"
  /\ paused' = "yes"
  /\ UNCHANGED <<caller, connVars, active, attempts, dataVars>>

Resume ==
  /\ caller = "subscribed" /\ paused = "yes"
  /\ paused' = "no"
  /\ UNCHANGED <<caller, connVars, active, attempts, dataVars>>

\* unsubscribe(), and the return() of an iterator.
Unsubscribe ==
  /\ caller = "subscribed" /\ active = "yes"
  /\ conn' = IF conn = "open" THEN "closing" ELSE conn
  /\ HandleEnd
  /\ UNCHANGED <<caller, server, paused, attempts, timer, buffer,
                 arrived, taken>>

-----------------------------------------------------------------------------
Next ==
  \/ Open
  \/ ConnectionTimeout
  \/ Ack
  \/ Data
  \/ ErrorMessage
  \/ ServerCloses
  \/ CloseEvent
  \/ ReconnectTimer
  \/ NextCall
  \/ Pause
  \/ Resume
  \/ Unsubscribe

Spec == Init /\ [][Next]_vars

\* A connection attempt ends within its 30 s, a closing socket gets its close
\* event and the backoff timer fires. The server answers the subscribe message
\* with an ack or an error, or drops the connection.
FairSpec ==
  /\ Spec
  /\ WF_vars(conn = "connecting" /\ (Open \/ ConnectionTimeout \/ CloseEvent))
  /\ WF_vars(conn = "closing" /\ CloseEvent)
  /\ WF_vars(server = "asked" /\ (Ack \/ ErrorMessage \/ CloseEvent))
  /\ WF_vars(ReconnectTimer)

-----------------------------------------------------------------------------
(* Properties *)

\* Every variable holds a value the code can give it.
TypeOK ==
  /\ caller \in {"waits", "subscribed", "failed"}
  /\ conn \in ReadyStates
  /\ server \in ServerStates
  /\ active \in {"no", "yes"}
  /\ paused \in {"no", "yes"}
  /\ attempts \in 0..MaxReconnectAttempts
  /\ timer \in {"none", "pending"}
  /\ buffer \in Seq(1..MaxIn)
  /\ waiting \in 0..MaxWaiting
  /\ arrived \in 0..MaxIn
  /\ taken \in Seq(1..MaxIn)

\* No next() waits on a subscription that is over, and none while a datum is
\* buffered: handleError(), handleEnd(), handleData() and next() agree.
NoForgottenNext ==
  waiting > 0 => active = "yes" /\ buffer = <<>>

\* An active subscription has a socket that can still bring data or its own
\* end, or a timer that makes a new one: it never sits without either.
ActiveIsAlive ==
  active = "yes" => conn # "closed" \/ timer = "pending"

\* A reconnection never abandons a socket that is still alive, which would go
\* on feeding the same subscription next to its successor.
OneSocket == timer = "pending" => conn = "closed"

\* What the consumer sees is the feed's: data in the order of arrival, each
\* once, at most bufferSize of them waiting, over all sockets.
Source == INSTANCE Feed WITH
  Capacity <- BufferSize,
  produced <- arrived,
  waiting  <- buffer,
  consumed <- taken
ImplementsFeed == Source!Spec

\* The promise of wsSubscribe() is settled, whatever becomes of the socket.
SubscribeSettles == caller = "waits" ~> caller # "waits"

\* A lost connection is replaced by one that opens, or the subscription ends:
\* the attempts are counted even though each of them may fail differently.
ReconnectEnds ==
  active = "yes" /\ conn = "closed" ~> active = "no" \/ conn = "open"

-----------------------------------------------------------------------------
(* What the documentation says and the code does not do *)

\* "Unsubscribe and close the subscription": what has ended stays so.
EndIsFinal ==
  [][caller = "subscribed" /\ active = "no" => active' = "no"]_vars
=============================================================================
