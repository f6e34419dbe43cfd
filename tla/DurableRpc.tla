------------------------------- MODULE DurableRpc -------------------------------
(***************************************************************************)
(* One instance of a Durable Object that serves RPC: DurableRPCBase        *)
(* (core/src/base.ts), which composition/factory.ts repeats, the           *)
(* attachments of its sockets (core/src/websocket-state.ts) and the hooks  *)
(* around its methods (core/src/middleware.ts). The sockets outlive the    *)
(* memory of the object, which may be dropped at any time between events.  *)
(*                                                                         *)
(* A socket has the name of the request that was upgraded to it; a POST    *)
(* carries one call and a message of a socket another. The middleware are  *)
(* serverTimingMiddleware() and after it one of the application's, whose   *)
(* hooks take their time and may throw; all calls are of one method.       *)
(***************************************************************************)
EXTENDS Naturals, FiniteSets

CONSTANTS
  Requests,         \* what fetch() is called with
  Messages,         \* what sockets bring, one call each
  None,             \* no request
  MaxHibernations,  \* bound on the times that the memory is dropped
  MaxStrays         \* bound on the attachments that the application overwrites

Calls == Requests \cup Messages

ASSUME DurableRpcAssumption ==
  /\ Requests \cap Messages = {} /\ None \notin Calls
  /\ MaxHibernations \in Nat /\ MaxStrays \in Nat

VARIABLES
  registry,        \* _transportRegistry: [id -> the socket of the transport]
  sessions,        \* _sessions: [socket -> the id of its session's transport]
  currentRequest,  \* _currentRequest
  timings,         \* how many entries the map of serverTimingMiddleware() has
  ids,             \* transports made so far (external: ids are never used twice)
  socket,          \* [Requests]: the socket as the runtime sees it
  attachment,      \* [Requests]: what is attached to it, kept by the runtime
  fetch,           \* [Requests]: where fetch() stands
  call,            \* [Calls]: where the call stands
  ctx,             \* [Calls]: ctx.request of the call's hooks
  ends,            \* [Calls]: onResponse and onError hooks of the application run (history)
  overlapped,      \* the requests that others came or ended beside while they were read (history)
  hibernations, strays  \* uses of the bounds

memoryVars == <<registry, sessions, currentRequest, timings>>
socketVars == <<ids, socket, attachment>>
callVars == <<call, ctx, ends>>
boundVars == <<hibernations, strays>>
vars == <<memoryVars, socketVars, fetch, callVars, overlapped, boundVars>>

\* deserializeAttachment() with nothing that isWebSocketAttachment() accepts.
Stray == [transportId |-> 0, state |-> "stray"]

Init ==
  /\ registry = <<>>
  /\ sessions = <<>>
  /\ currentRequest = None
  /\ timings = 0
  /\ ids = 0
  /\ socket = [q \in Requests |-> "none"]
  /\ attachment = [q \in Requests |-> Stray]
  /\ fetch = [q \in Requests |-> "none"]
  /\ call = [c \in Calls |-> "none"]
  /\ ctx = [c \in Calls |-> None]
  /\ ends = [c \in Calls |-> 0]
  /\ overlapped = {}
  /\ hibernations = 0
  /\ strays = 0

Without(f, x) == [y \in DOMAIN f \ {x} |-> f[y]]
With(f, x, v) == [y \in DOMAIN f \cup {x} |-> IF y = x THEN v ELSE f[y]]

-----------------------------------------------------------------------------
(* fetch() *)

\* The requests other than q whose body is awaited.
Beside(q) == {p \in Requests \ {q} : fetch[p] = "reading"}

\* Every fetch() begins with its own request as the current one.
SetsCurrent_IfNone(q) == currentRequest' = IF currentRequest = None THEN q ELSE currentRequest
SetsCurrent(q) == currentRequest' = q

Arrives(q, now) ==
  /\ fetch[q] = "none"
  /\ fetch' = [fetch EXCEPT ![q] = now]
  /\ overlapped' = overlapped \cup Beside(q)
  /\ UNCHANGED <<callVars, boundVars, timings>>

\* onFetch(), a plugin or getSchema() throws: the request stays the current one.
FetchThrows(q) ==
  /\ Arrives(q, "thrown") /\ SetsCurrent(q)
  /\ UNCHANGED <<registry, sessions, socketVars>>

\* GET of the schema.
GetSchema(q) ==
  /\ Arrives(q, "over") /\ currentRequest' = None
  /\ UNCHANGED <<registry, sessions, socketVars>>

\* handleHttpRpc() awaits the body, or has an answer without it.
HttpRpc(q) ==
  /\ Arrives(q, "reading") /\ SetsCurrent(q)
  /\ UNCHANGED <<registry, sessions, socketVars>>

\* The transport of a socket; its id is new in the object's whole life.
NewId == ids + 1

\* A transport for s and a session over it.
NewTransport_SessionKept(s) ==
  /\ ids' = NewId
  /\ registry' = With(registry, ids', s)
  /\ sessions' = IF s \in DOMAIN sessions THEN sessions ELSE With(sessions, s, ids')
  /\ attachment' = [attachment EXCEPT ![s] = [transportId |-> ids', state |-> "active"]]

NewTransport(s) ==
  /\ ids' = NewId
  /\ registry' = With(registry, ids', s)
  /\ sessions' = With(sessions, s, ids')
  /\ attachment' = [attachment EXCEPT ![s] = [transportId |-> ids', state |-> "active"]]

\* handleWebSocketUpgrade(): the request stays the current one.
Upgrade(q) ==
  /\ Arrives(q, "upgraded") /\ SetsCurrent(q)
  /\ NewTransport(q)
  /\ socket' = [socket EXCEPT ![q] = "open"]

\* The batch is answered, or could not be; the finally clause.
FetchEnds(q) ==
  /\ \/ fetch[q] = "reading"
     \/ fetch[q] = "calling" /\ call[q] \in {"over", "refused"}
  /\ fetch' = [fetch EXCEPT ![q] = "over"]
  /\ currentRequest' = None
  /\ overlapped' = overlapped \cup Beside(q)
  /\ UNCHANGED <<registry, sessions, timings, socketVars, callVars, boundVars>>

-----------------------------------------------------------------------------
(* A method call and its hooks: wrapWithMiddleware(). *)

\* getContext(), and the first onRequest hook, that of the timing.
Begin(c, current) ==
  /\ call' = [call EXCEPT ![c] = "requesting"]
  /\ ctx' = [ctx EXCEPT ![c] = current]
  /\ timings' = timings + 1
  /\ UNCHANGED ends

\* The body has been read; the requests that came meanwhile have had their effect.
BatchRead(q) ==
  /\ fetch[q] = "reading"
  /\ fetch' = [fetch EXCEPT ![q] = "calling"]
  /\ Begin(q, currentRequest)
  /\ UNCHANGED <<registry, sessions, currentRequest, socketVars, overlapped, boundVars>>

\* findAndRemoveTiming()
RemoveTiming == timings' = IF timings = 0 THEN 0 ELSE timings - 1

EndHook(c) == ends' = [ends EXCEPT ![c] = @ + 1]

Enters(c, now) == call' = [call EXCEPT ![c] = now] /\ UNCHANGED ctx

\* The wrapper returns or throws, and its locals are gone.
Leaves(c, now) ==
  /\ call' = [call EXCEPT ![c] = now]
  /\ ctx' = [ctx EXCEPT ![c] = None]

Others == UNCHANGED <<registry, sessions, currentRequest, socketVars, fetch, overlapped, boundVars>>

\* runOnRequest() is over, or a hook of the application has thrown.
OnRequestSettles(c) ==
  /\ call[c] = "requesting"
  /\ Enters(c, "running") \/ Leaves(c, "refused")
  /\ UNCHANGED <<timings, ends>> /\ Others

\* The method settles: onResponse hooks in order, onError hooks in reverse order.
MethodReturns(c) ==
  /\ call[c] = "running"
  /\ RemoveTiming /\ EndHook(c) /\ Enters(c, "responding")
  /\ Others

MethodThrows(c) ==
  /\ call[c] = "running"
  /\ EndHook(c) /\ Enters(c, "erroring")
  /\ UNCHANGED timings /\ Others

\* The application's onResponse hook settles; what it throws is caught and logged.
OnResponseSettles_AsMethod(c) ==
  /\ call[c] = "responding"
  /\ \/ Leaves(c, "over") /\ UNCHANGED ends
     \/ Enters(c, "erroring") /\ EndHook(c)
  /\ UNCHANGED timings /\ Others

OnResponseSettles(c) ==
  /\ call[c] = "responding"
  /\ Leaves(c, "over")
  /\ UNCHANGED <<timings, ends>> /\ Others

\* So does its onError hook; that of the timing is next.
OnErrorSettles(c) ==
  /\ call[c] = "erroring"
  /\ Leaves(c, "over") /\ RemoveTiming
  /\ UNCHANGED ends /\ Others

-----------------------------------------------------------------------------
(* The events of the sockets. *)

Attached(s) == attachment[s].state # "stray"

\* The transport that the attachment names, if the memory has it.
IsRegistered(s) == Attached(s) /\ attachment[s].transportId \in DOMAIN registry

\* webSocketMessage(): enqueued at the transport, whose session begins the call.
WebSocketMessage(s, m) ==
  /\ socket[s] = "open" /\ call[m] = "none"
  /\ IF IsRegistered(s)
     THEN UNCHANGED <<registry, sessions, ids, attachment>>
     ELSE NewTransport(s)
  /\ Begin(m, currentRequest)
  /\ UNCHANGED <<currentRequest, socket, fetch, overlapped, boundVars>>

\* webSocketClose() and webSocketError() for s.
Ends_SessionKept(s) ==
  /\ IF Attached(s)
     THEN /\ attachment' = [attachment EXCEPT ![s].state = "closed"]
          /\ registry' = Without(registry, attachment[s].transportId)
     ELSE UNCHANGED <<attachment, registry>>
  /\ UNCHANGED <<sessions, ids, currentRequest, timings, fetch, callVars, overlapped, boundVars>>

Ends(s) ==
  /\ IF Attached(s)
     THEN /\ attachment' = [attachment EXCEPT ![s].state = "closed"]
          /\ registry' = Without(registry, attachment[s].transportId)
     ELSE UNCHANGED <<attachment, registry>>
  /\ sessions' = Without(sessions, s)
  /\ UNCHANGED <<ids, currentRequest, timings, fetch, callVars, overlapped, boundVars>>

WebSocketClose(s) ==
  /\ socket[s] \in {"open", "errored"}
  /\ socket' = [socket EXCEPT ![s] = "closed"]
  /\ Ends(s)

WebSocketError(s) ==
  /\ socket[s] = "open"
  /\ socket' = [socket EXCEPT ![s] = "errored"]
  /\ Ends(s)

\* Code of the application attaches something of its own to a socket (external).
StrayAttachment(s) ==
  /\ socket[s] = "open" /\ Attached(s)
  /\ strays < MaxStrays /\ strays' = strays + 1
  /\ attachment' = [attachment EXCEPT ![s] = Stray]
  /\ UNCHANGED <<memoryVars, ids, socket, fetch, callVars, overlapped, hibernations>>

\* The runtime drops the memory while no event is handled (external). The method
\* of a message may still be waiting for something: webSocketMessage() is over.
Hibernate ==
  /\ \A q \in Requests : fetch[q] \notin {"reading", "calling"}
  /\ hibernations < MaxHibernations /\ hibernations' = hibernations + 1
  /\ registry' = <<>> /\ sessions' = <<>> /\ currentRequest' = None /\ timings' = 0
  /\ call' = [c \in Calls |-> IF call[c] \in {"none", "over"} THEN call[c] ELSE "lost"]
  /\ ctx' = [c \in Calls |-> None]
  /\ UNCHANGED <<socketVars, fetch, ends, overlapped, strays>>

Next ==
  \/ \E q \in Requests :
       \/ FetchThrows(q) \/ GetSchema(q) \/ HttpRpc(q) \/ Upgrade(q)
       \/ BatchRead(q) \/ FetchEnds(q)
       \/ WebSocketClose(q) \/ WebSocketError(q) \/ StrayAttachment(q)
       \/ \E m \in Messages : WebSocketMessage(q, m)
  \/ \E c \in Calls :
       \/ OnRequestSettles(c) \/ MethodReturns(c) \/ MethodThrows(c)
       \/ OnResponseSettles(c) \/ OnErrorSettles(c)
  \/ Hibernate

Spec == Init /\ [][Next]_vars

-----------------------------------------------------------------------------
(* Properties *)

Attachments == [transportId : Nat, state : {"stray", "active", "closed"}]

\* Every variable holds a value the code can give it.
TypeOK ==
  /\ DOMAIN registry \subseteq 1..ids /\ registry \in [DOMAIN registry -> Requests]
  /\ DOMAIN sessions \subseteq Requests /\ sessions \in [DOMAIN sessions -> 1..ids]
  /\ currentRequest \in Requests \cup {None}
  /\ timings \in Nat /\ ids \in Nat
  /\ socket \in [Requests -> {"none", "open", "errored", "closed"}]
  /\ attachment \in [Requests -> Attachments]
  /\ fetch \in [Requests -> {"none", "reading", "calling", "over", "upgraded", "thrown"}]
  /\ call \in [Calls -> {"none", "requesting", "running", "responding", "erroring",
                         "over", "refused", "lost"}]
  /\ ctx \in [Calls -> Requests \cup {None}]
  /\ ends \in [Calls -> Nat]
  /\ overlapped \subseteq Requests
  /\ hibernations \in 0..MaxHibernations /\ strays \in 0..MaxStrays

\* Whatever was dropped in hibernation, rebuilt since or closed: the transport
\* that a socket's attachment names is that socket's own and under its session,
\* so that no message reaches the session of another socket (base.ts:245).
OwnSession ==
  \A s \in Requests : IsRegistered(s) /\ socket[s] = "open" =>
    LET id == attachment[s].transportId IN
    registry[id] = s /\ s \in DOMAIN sessions /\ sessions[s] = id

\* A socket that has closed or failed leaves neither session nor transport in
\* memory, except transports that an overwritten attachment has cut off: at
\* most one for each time that was done.
NothingKept ==
  /\ \A s \in DOMAIN sessions : socket[s] = "open"
  /\ Cardinality({i \in DOMAIN registry : ~\E s \in DOMAIN sessions : sessions[s] = i}) <= strays

UnderWay == {"requesting", "running", "responding", "erroring"}

\* A POST that is alone has the one field _currentRequest for itself: if no other
\* fetch came or ended while its body was awaited, whatever upgrades, requests that
\* threw, sockets and hibernations there were before or are now, it is the current
\* request until its call begins, and the call's hooks see it to their end
\* (base.ts:149, rpc-interface.ts:249).
OwnWhenAlone ==
  \A q \in Requests \ overlapped :
    /\ fetch[q] = "reading" => currentRequest = q
    /\ call[q] \in UnderWay => ctx[q] = q

\* For each call that passes the onRequest hooks the application hears one
\* end, also when its own hook throws; serverTimingMiddleware() then holds an
\* entry for each call under way and, for ever, one for each call refused.
HooksBalanced ==
  /\ \A c \in Calls : call[c] # "lost" =>
       ends[c] = IF call[c] \in {"responding", "erroring", "over"} THEN 1 ELSE 0
  /\ timings = Cardinality({c \in Calls : call[c] \in {"requesting", "running", "erroring", "refused"}})

-----------------------------------------------------------------------------
(* What the comments and the documentation say and the code does not do *)

\* "Current request (available during fetch handling)": the hooks of a call by POST
\* see the request that carried it.
OwnRequest ==
  \A q \in Requests : call[q] \in UnderWay => ctx[q] = q
=============================================================================
