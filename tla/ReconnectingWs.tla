---------------------------- MODULE ReconnectingWs ----------------------------
(***************************************************************************)
(* ReconnectingWebSocketTransport (src/src/transports/reconnecting-ws.ts): *)
(* the client transport that keeps one WebSocket to the server, reconnects *)
(* it with backoff, authenticates each connection with its first message,  *)
(* and queues what it cannot send or deliver yet.                          *)
(*                                                                         *)
(* The program is single threaded; what interleaves are the tasks of the   *)
(* host's event loop (socket events, timers, the auth provider's answer),  *)
(* the microtasks that continue its promises, and the application's calls. *)
(* A task runs only when the microtask queue is empty (Idle); the          *)
(* application's calls run at any point where user code can run.           *)
(*                                                                         *)
(* A definition whose name has a suffix (Reject_Nobody) is a faulty variant *)
(* of the one after it; the specification never uses it, the runs'          *)
(* properties are tested against it.                                       *)
(*                                                                         *)
(* A message is its identity, a receive() that waits is counted, time is   *)
(* abstracted: an armed timer may fire at any time, whatever the backoff,  *)
(* the heartbeat interval or the connection timeout. Microtasks run in the *)
(* order they are queued, however many promises each passes through.       *)
(***************************************************************************)
EXTENDS Integers, Sequences

CONSTANTS
  Msgs,                 \* the messages the application sends, one send() each
  Sockets,              \* slots for the WebSocket objects alive at one time
  NoSocket,             \* null
  AutoReconnect,        \* options.autoReconnect
  MaxReconnectAttempts, \* options.maxReconnectAttempts
  MaxQueueSize,         \* options.maxQueueSize
  QueueFullBehavior,    \* options.queueFullBehavior
  HeartbeatEnabled,     \* options.heartbeatInterval > 0
  AuthOutcomes,         \* what options.auth() may answer; {} without provider
  NativeDispatch,       \* the host drains microtasks between two listeners
  CallbacksReenter,     \* onDisconnect of a failed attempt calls the transport
  MaxIn,                \* bound: messages the server sends
  MaxReceives           \* bound: receive() calls waiting at one time

ASSUME SocketAssumption == NoSocket \notin Sockets
ASSUME MsgAssumption == Msgs \cap {"timer", "nobody", "retry"} = {}
ASSUME OptionAssumption ==
  /\ AutoReconnect \in BOOLEAN
  /\ MaxReconnectAttempts \in Nat
  /\ MaxQueueSize \in Nat
  /\ QueueFullBehavior \in {"error", "drop-oldest", "drop-newest"}
  /\ HeartbeatEnabled \in BOOLEAN
  /\ AuthOutcomes \subseteq {"token", "none", "fail"}
  /\ NativeDispatch \in BOOLEAN
  /\ CallbacksReenter \in BOOLEAN
  /\ MaxIn \in Nat
  /\ MaxReceives \in Nat

VARIABLES
  state,            \* this.state
  ws,               \* this.ws
  rs,               \* [Sockets]: readyState
  owner,            \* [Sockets]: who awaits connect()'s unsettled promise
  listening,        \* sockets with connect()'s error and close listeners
  authWait,         \* sockets whose onOpen awaits the auth provider
  authed,           \* sockets the token was sent on (history)
  dispatch,         \* the socket whose close event is between two listeners
  attempts,         \* this.reconnectAttempts
  reconnectTimeout, \* "pending" while the timer it refers to is
  orphans,          \* pending reconnect timers whose handle was overwritten
  heartbeat,        \* "off": no heartbeatTimer; "pending": a pong is owed
  sendQueue,        \* this.sendQueue
  pc,               \* [Msgs]: where the send() of each message stands
  micro,            \* microtasks: a send() that goes on, or a timer's catch
  called,           \* the send() calls, and the state each found (history)
  wire,             \* the messages handed to an open socket (history)
  messageQueue,     \* this.messageQueue, the messages by order of arrival
  receiveQueue,     \* this.receiveQueue.length
  arrived,          \* messages that arrived so far (history)
  taken             \* the messages receive() returned (history)

sockVars  == <<ws, rs, owner, listening, authWait, authed, dispatch>>
timerVars == <<attempts, reconnectTimeout, orphans>>
sendVars  == <<sendQueue, pc, micro, called, wire>>
recvVars  == <<messageQueue, receiveQueue, arrived, taken>>
vars == <<state, sockVars, timerVars, heartbeat, sendVars, recvVars>>

\* ConnectionState
States == {"disconnected", "connecting", "connected", "reconnecting", "closed"}

\* WebSocket.readyState; a free slot counts as closed.
ReadyStates == {"connecting", "open", "closing", "closed"}

\* A send() is not called yet, awaits its own connect(), polls, is about to go
\* on in a microtask, or has settled.
SendStates == {"idle", "connecting", "polling", "ready", "done", "failed"}

\* options.auth is set.
HasAuth_Ignored == FALSE
HasAuth == AuthOutcomes # {}

Init ==
  /\ state = "disconnected"
  /\ ws = NoSocket
  /\ rs = [s \in Sockets |-> "closed"]
  /\ owner = [s \in Sockets |-> "nobody"]
  /\ listening = {}
  /\ authWait = {}
  /\ authed = {}
  /\ dispatch = NoSocket
  /\ attempts = 0
  /\ reconnectTimeout = "none"
  /\ orphans = 0
  /\ heartbeat = "off"
  /\ sendQueue = <<>>
  /\ pc = [m \in Msgs |-> "idle"]
  /\ micro = <<>>
  /\ called = <<>>
  /\ wire = <<>>
  /\ messageQueue = <<>>
  /\ receiveQueue = 0
  /\ arrived = 0
  /\ taken = <<>>

-----------------------------------------------------------------------------
(* The event loop *)

\* A new task starts only when no microtask and no listener is left to run.
Idle == micro = <<>> /\ dispatch = NoSocket

\* User code runs in its own tasks, and between transport.send(m) and that
\* call's continuation; while a timer's catch is pending, only in onDisconnect.
UserCode == CallbacksReenter \/ \A i \in 1..Len(micro) : micro[i] # "retry"

-----------------------------------------------------------------------------
(* Queues and promises *)

\* A queue after enforceQueueLimit() and the push it allows.
Enqueued_NoLimit(queue, m) == Append(queue, m)
Enqueued_InFront(queue, m) == <<m>> \o queue
Enqueued(queue, m) ==
  IF Len(queue) < MaxQueueSize THEN Append(queue, m)
  ELSE IF QueueFullBehavior = "drop-oldest"
       THEN Append(SubSeq(queue, 2, Len(queue)), m)
       ELSE queue

\* enforceQueueLimit() throws.
QueueFullError(queue) ==
  Len(queue) >= MaxQueueSize /\ QueueFullBehavior = "error"

\* connect()'s promise resolves: a send() that awaits it goes on.
Resolve(s) ==
  /\ owner' = [owner EXCEPT ![s] = "nobody"]
  /\ IF owner[s] \in Msgs
     THEN /\ micro' = Append(micro, owner[s])
          /\ pc' = [pc EXCEPT ![owner[s]] = "ready"]
     ELSE UNCHANGED <<micro, pc>>

\* connect()'s promise rejects: the send() that awaits it fails, or the
\* reconnect timer's catch clause runs.
Reject_Nobody(s) == UNCHANGED <<owner, micro, pc>>
Reject(s) ==
  /\ owner' = [owner EXCEPT ![s] = "nobody"]
  /\ micro' = IF owner[s] = "timer" THEN Append(micro, "retry") ELSE micro
  /\ pc' = IF owner[s] \in Msgs THEN [pc EXCEPT ![owner[s]] = "failed"]
                                ELSE pc

\* this.ws?.readyState is r.
WsIs(r) == ws # NoSocket /\ rs[ws] = r

\* WebSocket.close(): the close event comes later, in a task of its own.
CloseSocket_Forgotten(s) == UNCHANGED rs
CloseSocket(s) ==
  rs' = IF s # NoSocket /\ rs[s] \in {"connecting", "open"}
        THEN [rs EXCEPT ![s] = "closing"]
        ELSE rs

-----------------------------------------------------------------------------
(* Connecting *)

\* A slot whose last socket can have no further effect.
Free(s) ==
  /\ rs[s] = "closed" /\ owner[s] = "nobody" /\ s \notin authWait
  /\ s \notin {ws, dispatch}

\* connect() in a state in which it does not return at once.
Connect(who) ==
  \E s \in Sockets :
    /\ Free(s)
    /\ state' = "connecting"
    /\ ws' = s
    /\ rs' = [rs EXCEPT ![s] = "connecting"]
    /\ owner' = [owner EXCEPT ![s] = who]
    /\ listening' = listening \cup {s}
    /\ authed' = authed \ {s}
    /\ UNCHANGED <<authWait, dispatch>>

\* No attempt is left.
GivesUp == attempts >= MaxReconnectAttempts

\* scheduleReconnect() called in state from.
ScheduleReconnect(from) ==
  \/ /\ from = "closed"
     /\ state' = from
     /\ UNCHANGED <<timerVars, receiveQueue>>
  \/ /\ from # "closed" /\ GivesUp
     /\ state' = from
     /\ receiveQueue' = 0
     /\ UNCHANGED timerVars
  \/ /\ from # "closed" /\ ~GivesUp
     /\ state' = "reconnecting"
     /\ attempts' = attempts + 1
     /\ reconnectTimeout' = "pending"
     /\ orphans' = IF reconnectTimeout = "pending" THEN orphans + 1
                                                   ELSE orphans
     /\ UNCHANGED receiveQueue

\* The reconnect timer fires: connect() returns at once while the transport
\* is connecting or connected, but not once it is closed.
ReconnectTimer ==
  /\ Idle
  /\ \/ /\ reconnectTimeout = "pending" /\ reconnectTimeout' = "none"
        /\ UNCHANGED orphans
     \/ /\ orphans > 0 /\ orphans' = orphans - 1
        /\ UNCHANGED reconnectTimeout
  /\ IF state \in {"connecting", "connected"}
     THEN UNCHANGED <<state, sockVars>>
     ELSE Connect("timer")
  /\ UNCHANGED <<attempts, heartbeat, sendVars, recvVars>>

\* The catch clause of the reconnect timer, after its connect() rejected.
RetryCatch ==
  /\ micro # <<>> /\ Head(micro) = "retry"
  /\ micro' = Tail(micro)
  /\ ScheduleReconnect(state)
  /\ UNCHANGED <<sockVars, heartbeat, sendQueue, pc, called, wire,
                 messageQueue, arrived, taken>>

\* flushSendQueue(): all of the queue, provided this.ws is open.
FlushSendQueue_Kept == wire' = wire \o sendQueue /\ UNCHANGED sendQueue
FlushSendQueue_Skipped == UNCHANGED <<wire, sendQueue>>
FlushSendQueue ==
  IF ws # NoSocket /\ rs'[ws] = "open"
  THEN wire' = wire \o sendQueue /\ sendQueue' = <<>>
  ELSE UNCHANGED <<wire, sendQueue>>

\* onOpen once the authentication is done, on whatever this.ws is by now:
\* startHeartbeat(), flushSendQueue(), onConnect() and resolve().
Established(s) ==
  /\ state' = "connected"
  /\ attempts' = 0
  /\ heartbeat' = IF HeartbeatEnabled THEN "on" ELSE "off"
  /\ FlushSendQueue
  /\ Resolve(s)
  /\ UNCHANGED <<ws, dispatch, reconnectTimeout, orphans, called, recvVars>>

\* The open event. cleanup() detaches the listeners of this.ws; without an
\* auth provider sendAuth() returns within the same task.
OpenEvent(s) ==
  /\ Idle /\ rs[s] = "connecting"
  /\ rs' = [rs EXCEPT ![s] = "open"]
  /\ listening' = IF ws = s THEN listening \ {s} ELSE listening
  /\ UNCHANGED authed
  /\ IF HasAuth
     THEN /\ authWait' = authWait \cup {s}
          /\ UNCHANGED <<state, ws, owner, dispatch, timerVars, heartbeat,
                         sendVars, recvVars>>
     ELSE /\ UNCHANGED authWait
          /\ Established(s)

\* sendAuth() throws: onOpen's catch clause closes this.ws and rejects.
AuthFails(s) ==
  /\ CloseSocket(ws)
  /\ Reject(s)
  /\ UNCHANGED <<state, ws, authed, dispatch, timerVars, heartbeat, sendQueue,
                 called, wire, recvVars>>

\* The auth provider answers: a token goes out on this.ws, and throws while
\* that socket is still CONNECTING (InvalidStateError).
AuthSettles(s) ==
  /\ Idle /\ s \in authWait
  /\ authWait' = authWait \ {s}
  /\ UNCHANGED listening
  /\ \E outcome \in AuthOutcomes :
       \/ /\ \/ outcome = "fail"
             \/ outcome = "token" /\ WsIs("connecting")
          /\ AuthFails(s)
       \/ /\ \/ outcome = "none"
             \/ outcome = "token" /\ ~WsIs("connecting")
          /\ authed' = IF outcome = "token" /\ WsIs("open")
                       THEN authed \cup {ws}
                       ELSE authed
          /\ UNCHANGED rs
          /\ Established(s)

-----------------------------------------------------------------------------
(* Disconnecting *)

\* handleClose(), which does not look at which socket has closed.
HandleClose_StateKept ==
  /\ ws' = NoSocket
  /\ heartbeat' = "off"
  /\ UNCHANGED <<state, timerVars, receiveQueue>>
HandleClose ==
  /\ ws' = NoSocket
  /\ heartbeat' = "off"
  /\ \/ /\ state = "connected" /\ AutoReconnect
        /\ ScheduleReconnect("disconnected")
     \/ /\ state # "closed" /\ ~(state = "connected" /\ AutoReconnect)
        /\ state' = "disconnected"
        /\ receiveQueue' = 0
        /\ UNCHANGED timerVars
     \/ /\ state = "closed"
        /\ UNCHANGED <<state, receiveQueue, timerVars>>

\* The close event, with the error event before it when the connection
\* failed: connect()'s listeners first, which reject its promise, then
\* handleClose(). A host that drains microtasks between two listeners runs
\* what the rejection wakes before handleClose().
CloseEvent(s) ==
  /\ Idle /\ rs[s] # "closed"
  /\ rs' = [rs EXCEPT ![s] = "closed"]
  /\ IF s \in listening
     THEN Reject(s)
     ELSE UNCHANGED <<owner, micro, pc>>
  /\ IF NativeDispatch /\ s \in listening /\ owner[s] # "nobody"
     THEN /\ dispatch' = s
          /\ UNCHANGED <<state, ws, heartbeat, receiveQueue, timerVars>>
     ELSE /\ UNCHANGED dispatch
          /\ HandleClose
  /\ UNCHANGED <<listening, authWait, authed, sendQueue, called, wire,
                 messageQueue, arrived, taken>>

\* The second listener of a close event, after the microtasks in between.
CloseEventGoesOn ==
  /\ dispatch # NoSocket /\ micro = <<>>
  /\ dispatch' = NoSocket
  /\ HandleClose
  /\ UNCHANGED <<rs, owner, listening, authWait, authed, sendVars,
                 messageQueue, arrived, taken>>

\* The peer's close frame (or a failing network): the socket is CLOSING and
\* its close event is yet to come.
PeerCloses(s) ==
  /\ Idle /\ rs[s] = "open"
  /\ rs' = [rs EXCEPT ![s] = "closing"]
  /\ UNCHANGED <<state, ws, owner, listening, authWait, authed, dispatch,
                 timerVars, heartbeat, sendVars, recvVars>>

\* What close() does to the reconnect timer.
ClearTimer_Not == UNCHANGED reconnectTimeout
ClearTimer == reconnectTimeout' = "none"

\* close() and abort().
Close ==
  /\ UserCode /\ state # "closed"
  /\ state' = "closed"
  /\ heartbeat' = "off"
  /\ ClearTimer
  /\ CloseSocket(ws)
  /\ ws' = NoSocket
  /\ receiveQueue' = 0
  /\ messageQueue' = <<>>
  /\ sendQueue' = <<>>
  /\ UNCHANGED <<owner, listening, authWait, authed, dispatch, attempts,
                 orphans, pc, micro, called, wire, arrived, taken>>

-----------------------------------------------------------------------------
(* Sending *)

\* send() up to its first await: ensureConnected() returns, throws, polls or
\* connects. connect() returns at once when the state is already connected.
Send(m) ==
  /\ UserCode /\ pc[m] = "idle"
  /\ called' = Append(called, [msg |-> m, found |-> state])
  /\ \/ /\ state = "connected"
        /\ pc' = [pc EXCEPT ![m] = "ready"]
        /\ micro' = Append(micro, m)
        /\ UNCHANGED <<state, sockVars>>
     \/ /\ state = "closed"
        /\ pc' = [pc EXCEPT ![m] = "failed"]
        /\ UNCHANGED <<state, sockVars, micro>>
     \/ /\ state \in {"connecting", "reconnecting"}
        /\ pc' = [pc EXCEPT ![m] = "polling"]
        /\ UNCHANGED <<state, sockVars, micro>>
     \/ /\ state = "disconnected"
        /\ Connect(m)
        /\ pc' = [pc EXCEPT ![m] = "connecting"]
        /\ UNCHANGED micro
  /\ UNCHANGED <<timerVars, heartbeat, sendQueue, wire, recvVars>>

\* checkConnection(), every 50 ms: connected, closed or past the timeout.
Poll(m) ==
  /\ Idle /\ pc[m] = "polling"
  /\ \/ /\ state = "connected"
        /\ pc' = [pc EXCEPT ![m] = "ready"]
        /\ micro' = Append(micro, m)
     \/ /\ state # "connected" \* closed, or the connection timeout expired
        /\ pc' = [pc EXCEPT ![m] = "failed"]
        /\ UNCHANGED micro
  /\ UNCHANGED <<state, sockVars, timerVars, heartbeat, sendQueue, called,
                 wire, recvVars>>

\* send() after ensureConnected(): out on the open socket, or queued.
SendContinues ==
  /\ micro # <<>> /\ Head(micro) # "retry"
  /\ micro' = Tail(micro)
  /\ LET m == Head(micro) IN
     \/ /\ state = "connected" /\ WsIs("open")
        /\ wire' = Append(wire, m)
        /\ pc' = [pc EXCEPT ![m] = "done"]
        /\ UNCHANGED sendQueue
     \/ /\ ~(state = "connected" /\ WsIs("open"))
        /\ sendQueue' = Enqueued(sendQueue, m)
        /\ pc' = [pc EXCEPT ![m] =
                    IF QueueFullError(sendQueue) THEN "failed" ELSE "done"]
        /\ UNCHANGED wire
  /\ UNCHANGED <<state, sockVars, timerVars, heartbeat, called, recvVars>>

-----------------------------------------------------------------------------
(* Receiving and the heartbeat *)

\* handleMessage() of a message that is no pong, on any socket still open.
DataArrives(s) ==
  /\ Idle /\ rs[s] = "open" /\ arrived < MaxIn
  /\ arrived' = arrived + 1
  /\ \/ /\ receiveQueue > 0
        /\ receiveQueue' = receiveQueue - 1
        /\ taken' = Append(taken, arrived')
        /\ UNCHANGED messageQueue
     \/ /\ receiveQueue = 0
        /\ messageQueue' = Enqueued(messageQueue, arrived')
        /\ UNCHANGED <<receiveQueue, taken>>
  /\ UNCHANGED <<state, sockVars, timerVars, heartbeat, sendVars>>

\* handleMessage() of a pong.
PongArrives(s) ==
  /\ Idle /\ rs[s] = "open" /\ heartbeat = "pending"
  /\ heartbeat' = "on"
  /\ UNCHANGED <<state, sockVars, timerVars, sendVars, recvVars>>

\* A receive() that has to wait.
ReceiveWaits_Always ==
  receiveQueue < MaxReceives /\ receiveQueue' = receiveQueue + 1
ReceiveWaits ==
  /\ messageQueue = <<>> /\ state # "closed"
  /\ receiveQueue < MaxReceives
  /\ receiveQueue' = receiveQueue + 1

\* receive(): a queued message, a rejection when closed, or a wait.
Receive ==
  /\ UserCode
  /\ \/ /\ messageQueue # <<>>
        /\ messageQueue' = Tail(messageQueue)
        /\ taken' = Append(taken, Head(messageQueue))
        /\ UNCHANGED receiveQueue
     \/ /\ ReceiveWaits
        /\ UNCHANGED <<messageQueue, taken>>
  /\ UNCHANGED <<state, sockVars, timerVars, heartbeat, sendVars, arrived>>

\* sendHeartbeat(): a ping, or the end of a socket that owes a pong.
HeartbeatTick ==
  /\ Idle /\ heartbeat # "off" /\ state = "connected" /\ ws # NoSocket
  /\ \/ heartbeat = "pending" /\ CloseSocket(ws) /\ UNCHANGED heartbeat
     \/ heartbeat' = "pending" /\ UNCHANGED rs
  /\ UNCHANGED <<state, ws, owner, listening, authWait, authed, dispatch,
                 timerVars, sendVars, recvVars>>

-----------------------------------------------------------------------------
Next ==
  \/ \E m \in Msgs : Send(m) \/ Poll(m)
  \/ SendContinues
  \/ RetryCatch
  \/ ReconnectTimer
  \/ \E s \in Sockets :
       \/ OpenEvent(s)
       \/ AuthSettles(s)
       \/ CloseEvent(s)
       \/ PeerCloses(s)
       \/ DataArrives(s)
       \/ PongArrives(s)
  \/ CloseEventGoesOn
  \/ HeartbeatTick
  \/ Receive
  \/ Close

Spec == Init /\ [][Next]_vars

\* What the host guarantees: it runs every microtask, and every task it has
\* queued although others come in between (so strong fairness: a task is not
\* enabled while a microtask runs). A socket that is connecting or closing
\* comes to an end, a provider answers, a timer fires. Nothing is assumed of
\* the peer, the application or an open connection.
FairSpec ==
  /\ Spec
  /\ WF_vars(SendContinues)
  /\ WF_vars(RetryCatch)
  /\ WF_vars(CloseEventGoesOn)
  /\ \A s \in Sockets :
       /\ SF_vars(rs[s] \in {"connecting", "closing"}
                     /\ (OpenEvent(s) \/ CloseEvent(s)))
       /\ SF_vars(AuthSettles(s))
  /\ \A m \in Msgs : SF_vars(Poll(m))
  /\ SF_vars(ReconnectTimer)

-----------------------------------------------------------------------------
(* Properties of every configuration *)

\* Every variable holds a value the code can give it.
TypeOK ==
  /\ state \in States
  /\ ws \in Sockets \cup {NoSocket}
  /\ rs \in [Sockets -> ReadyStates]
  /\ owner \in [Sockets -> Msgs \cup {"timer", "nobody"}]
  /\ listening \subseteq Sockets
  /\ authWait \subseteq Sockets
  /\ authed \subseteq Sockets
  /\ dispatch \in Sockets \cup {NoSocket}
  /\ attempts \in 0..MaxReconnectAttempts
  /\ reconnectTimeout \in {"none", "pending"}
  /\ orphans \in Nat
  /\ heartbeat \in {"off", "on", "pending"}
  /\ sendQueue \in Seq(Msgs)
  /\ pc \in [Msgs -> SendStates]
  /\ micro \in Seq(Msgs \cup {"retry"})
  /\ called \in Seq([msg : Msgs, found : States])
  /\ wire \in Seq(Msgs)
  /\ messageQueue \in Seq(1..MaxIn)
  /\ receiveQueue \in 0..MaxReceives
  /\ arrived \in 0..MaxIn
  /\ taken \in Seq(1..MaxIn)

\* Neither queue outgrows maxQueueSize, whichever of handleMessage(), send(),
\* a flush and close() come in between and whatever the overflow behavior.
QueuesBounded ==
  /\ Len(sendQueue) <= MaxQueueSize
  /\ Len(messageQueue) <= MaxQueueSize

\* receive() hands out the messages in the order they arrived, over all the
\* sockets of the transport's life, and none of them twice.
InboundInOrder ==
  LET seen == taken \o messageQueue
  IN \A i \in 1..Len(seen) : \A j \in 1..(i - 1) : seen[j] < seen[i]

\* No receive() waits while a message is queued: handleMessage() serves the
\* waiting one first and receive() looks at the queue first.
NoLostWakeup == messageQueue # <<>> => receiveQueue = 0

\* While the connection is usable nothing waits in the send queue: a message
\* sent now cannot overtake a queued one.
FlushedWhenUsable ==
  state = "connected" /\ WsIs("open") => sendQueue = <<>>

\* With a provider that always has a token, no message of the application
\* goes out on a socket before the token does, although onOpen, the flush and
\* send() all act on whatever this.ws is when they get to run.
AuthFirst == [][Len(wire') > Len(wire) => ws \in authed']_vars

\* No message goes out twice, or goes out and is still queued, or does either
\* before its send() has accepted it, although every reconnection flushes and
\* the overflow behavior drops.
SentOnce ==
  LET out == wire \o sendQueue
  IN \A i \in 1..Len(out) :
       pc[out[i]] = "done" /\ \A j \in 1..(i - 1) : out[j] # out[i]

\* The messages whose send() found the transport connected go out in the order
\* of these calls, over however many connections, although each goes on in a
\* microtask of its own, is queued or sent by what it finds then, and those
\* that connected or polled come in between.
ConnectedOrder ==
  LET out == wire \o sendQueue
  IN \A i, j \in 1..Len(out) : \A k, l \in 1..Len(called) :
       /\ i < j
       /\ called[k] = [msg |-> out[i], found |-> "connected"]
       /\ called[l] = [msg |-> out[j], found |-> "connected"]
       => k < l

\* What the send side promises: the messages it accepted go out in the order
\* of acceptance, each at most once, and are only lost to the overflow
\* behavior and to close().
Outbox == INSTANCE Outbox WITH
  offered <- {m \in Msgs : pc[m] = "done"},
  pending <- sendQueue,
  sent    <- wire
ImplementsOutbox == Outbox!Spec

-----------------------------------------------------------------------------
(* Properties of a transport without auth provider, whose callbacks do not *)
(* call it, on a host that runs a task's listeners without a break         *)

\* A connected transport has a socket that opened, a connecting one has an
\* attempt under way: in neither state does it wait for nothing.
StateMatchesSocket ==
  /\ state = "connected" => ws # NoSocket /\ rs[ws] \in {"open", "closing"}
  /\ state = "connecting" => ws # NoSocket /\ rs[ws] # "closed"

\* Every socket that lives is the one the transport knows: a reconnection, a
\* late close event or close() leaves no connection behind.
NoLeakedSocket ==
  \A s \in Sockets : rs[s] \in {"connecting", "open"} => s = ws

\* A reconnect timer is pending exactly in state reconnecting, and never two:
\* none can fire into another state, and no reconnecting transport is stuck.
TimerMatchesState == 
  orphans = 0 /\ (reconnectTimeout = "pending" <=> state = "reconnecting")

\* close() is final: no handler, timer or promise that was under way brings
\* the transport back.
ClosedIsFinal == [][state = "closed" => state' = "closed"]_vars

\* Every send() settles: its connection attempt, its polling or its
\* continuation comes to an end.
SendSettles ==
  \A m \in Msgs : pc[m] # "idle" ~> pc[m] \in {"done", "failed"}

\* A queued message is sent, unless the transport is closed or has used up
\* its reconnection attempts.
QueueDrains ==
  []<>(\/ sendQueue = <<>>
       \/ state = "closed"
       \/ state = "disconnected" /\ attempts = MaxReconnectAttempts)
=============================================================================
