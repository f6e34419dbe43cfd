# A verification project for rpc.do

rpc.do is a TypeScript library with two halves: a client (`src/src`), which
turns a proxy into RPC calls over HTTP, WebSocket, SSE and capnweb transports,
and a server base class for Durable Objects (`src/core/src`). This directory
holds TLA+ modules translated from that code, TLC configurations that check
them on small instances, and theorems about them that TLAPS checks.

Contents: [inventory](#1-inventory), [plan](#2-plan), [the modules and the
code](#3-the-modules-and-the-code), [runs, bounds and what they
show](#4-runs-and-what-they-show), [fairness](#5-fairness),
[proofs](#6-proofs), [where the code and its documentation
disagree](#7-where-the-code-and-its-documentation-disagree), [what is not
modelled](#8-what-is-not-modelled). `PROJECT.json` maps each definition to the
lines it stands for and lists the hazards of the code at their lines.

## 1. Inventory

| Component | Source | State it keeps | Operations | What is hard | What makes it correct |
|---|---|---|---|---|---|
| Reconnecting WebSocket transport | `transports/reconnecting-ws.ts` | connection state, socket, backoff timer and attempt count, heartbeat, send and receive queues, polling senders | `connect`, `send`, `receive`, `abort`, `close`; socket, timer and auth events | every `await` is a place where the socket may have changed; timers with an overwritten handle; queue overflow | order and bounds of the queues, agreement of state, socket and timer, finality of `close()`, every `send()` settles |
| WebSocket subscription | `transports/streaming.ts` | active, paused, buffer, waiting `next()` calls, attempts, socket | `wsSubscribe`, `next`, `pause`, `resume`, `unsubscribe`; socket events, two timers | reconnection shares the record of the old socket; ends by five different ways | an ordered bounded feed; no `next()` forgotten; no socket abandoned; an end is an end |
| SSE stream | `transports/streaming.ts` | closed, error, buffer, waiting resolvers, last event id, attempts | `sseStream`, `next`, `close`; response, read loop, timers | several loops and timers over one record; timeouts that leave resolvers behind; resumption by event id | chunks once and in order, none stranded |
| Batching | `middleware/batching.ts` | collected calls, window timer, id counter | `call`, flush by limit, timer and close | three ways to flush; responses incomplete or out of order | every call in exactly one place until it settles; its own result |
| Retry | `middleware/retry.ts` | attempt count and sleep of each call | `call` | retry of what was executed; composition with batching | one attempt at a time, at most `maxAttempts`, every call settles |
| HTTP, capnweb, composite transports | `transports.ts`, `capnweb-loader.ts` | session promise, cached and pipeline sessions, loaded module | `call`, `getSessionSync`, `primeSession`, `close` | a session shared by concurrent calls and dropped by the first to end; `close()` while the library loads | a call made alone gets a session that is not used up; one live socket; every call settles |
| Auth providers | `auth.ts` | cached token and its expiry | token lookup, background refresh | refresh racing expiry and invalidation | one refresh at a time; no token older than its life |
| DO client proxy | `do-client.ts`, `index.ts` | transport promise, proxy caches | path proxy, pipelined call, call with middleware, `close`, sql/storage/collection proxies | lazily made transport shared by first calls; calls that bypass the hooks | every call settles; one transport |
| Client middleware | `middleware/*.ts` | maps of pending calls keyed by method | `onRequest`, `onResponse`, `onError` | concurrent calls of one method share an entry | each call's own timing |
| Durable Object server and hibernation | `core/src/base.ts`, `websocket-state.ts`, `composition/*` | transports, sessions, current request, socket attachments | `fetch`, upgrade, `webSocketMessage/Close/Error` | hibernation drops memory and keeps sockets; fetches interleave at awaits | a message reaches the session of its own socket; a request sees itself |
| Server middleware, RPC interface | `core/src/middleware.ts`, `rpc-interface.ts` | hook list | wrap a method call | order and failure of hooks | hooks nest |
| Collections | `core/src/collections.ts`, `do-collections.ts` | SQL tables | `put`, `get`, `find`, verbs, relationships | filters; several statements without a transaction | find agrees with its filter; status only advances |
| Introspection, mixins, events | `core/src/introspection.ts` etc. | none | reflection | nothing of order | |
| Errors, guards, wrapping, server and expose helpers | `errors.ts`, `utils/*`, `server.ts`, `expose.ts` | none | conversions, routing | nothing of order | |
| Query hooks | `adapters/nextjs.ts` | shared query cache, state of each component | `useRPC`, `refetch`, `clearRPCCache`, `invalidateRPCQueries` | requests shared, answered in any order and outlived by their components | nobody left loading; nobody shown older data than before |
| `react.ts`, SvelteKit stores, route handlers, CLI, code generation, test mocks | | in the framework, or none | | sequential file and text work | |

How they interact: the DO client proxy makes a transport once and calls it;
the middleware of `middleware/*.ts` wraps a transport (`withRetry`,
`withBatching`) or hooks around its calls; capnweb runs its sessions over the
reconnecting transport, which only sees opaque messages; the proxy opens SSE
streams and subscriptions beside the transport; on the server side the sockets
of the clients are the Durable Object's hibernatable sockets. Everything runs
on one thread. What interleaves are tasks of the host (socket events, timers,
answers) and the continuations of promises, so every `await` is a point where
others run, and nothing else is. On the server the runtime may also drop the
memory of the object between two events.

## 2. Plan

Order: what every client call depends on first.

1. **Reconnecting transport** — done: `ReconnectingWs` with its abstract
   specification `Outbox`, `MCReconnectingWs`, `ReconnectingWsProofs`.
2. **Subscriptions and streams** — done: `WsSubscription` with its abstract
   specification `Feed`, and `SseStream`, which implements it too, each with its
   proofs.
3. **Batching under retries** — done: `Batching`, composed with `withRetry()`
   in `RetriedBatching`, which implements the abstract `RemoteCalls`, and its
   proofs.
4. **Sessions and calls of the client** — done: `Sessions`, composed with the
   proxy, `composite()` and the hooks in `ClientCalls`, and its proofs.
5. **Server** — done: `DurableRpc` and its proofs.
6. **Query hooks** — done: `QueryHooks` and its proofs.
7. Left, in this order: the background refresh of `cachedAuth()`; the filters of
   the collections against a reference definition.

## 3. The modules and the code

In every module one action is one handler, call or timer up to the point where
it gives up the thread. A definition with a suffix (`HandleClose_StateKept`) is
a faulty variant, as a plausible mistake in the code would make it; no
specification uses it, and each property is tested for finding the variant that
`PROJECT.json` pairs it with.

**`ReconnectingWs`** (`ReconnectingWebSocketTransport`). `state`, `ws`,
`attempts` (`reconnectAttempts`), `reconnectTimeout`, `heartbeat`
(`heartbeatTimer` and `pendingPong`), `sendQueue`, `messageQueue` and
`receiveQueue` are the fields of the class. `rs`, `owner`, `listening` and
`authWait` are what lives in closures: the ready state of each socket object,
who awaits the promise of its `connect()`, whether its listeners are attached,
and whether its `onOpen` is suspended in `await auth()`. `micro` is the microtask
queue, in the order of queueing; `orphans` counts pending reconnect timers whose
handle was overwritten. `Connect`, `Established`, `AuthFails`, `HandleClose`,
`ScheduleReconnect`, `FlushSendQueue` and `Enqueued` are the methods of that name
(`Enqueued` is `enforceQueueLimit()` and the push). Three constants open the
environment: `AuthOutcomes` (what the provider may answer), `NativeDispatch` (the
host drains microtasks between two listeners of one event, as browsers and
Workers do; the mock sockets of the tests do not) and `CallbacksReenter` (an
`onDisconnect` that calls the transport after a failed attempt).

**`Outbox`** is what a sender is promised: accepted messages go out in the order
of acceptance, at most once, and only overflow and `close()` lose one.
`offered` is the set of messages whose `send()` succeeded, `pending` the send
queue, `sent` what was handed to an open socket. It says nothing of the order in
which `send()` was called: that is `ConnectedOrder`, for which `called` records the
calls with the state they found. `SentOnce` says that an accepted message is at one
place of the socket and the queue, if it is at any.

**`WsSubscription`** (`wsSubscribe()`). `conn` is `state.ws.readyState`,
`server` what the server did with the subscribe message, `caller` the promise of
`wsSubscribe()`, the rest are the fields of `state`. **`Feed`** is what the
consumer is promised: data in the order of arrival, each once, at most
`bufferSize` waiting. `InOrder` states what follows for the data themselves.

**`SseStream`** (`sseStream()`). Each `connect()` is a record with its stage and
the last chunk the server sent on it, so that several can be under way. The
server is external: it resumes after `Last-Event-ID`, and its events carry ids.
A message is a set of lines, read in any order; `kind` and `rest` of the record are
what has not yet come of one. `Read` brings its end (`ReadsEnd`) or a part of it
with which the read ends (`ReadsPart`). `parseSSEBuffer()` keeps nothing but an
unfinished last line: a break inside a line forgets the lines before it, data lines
too, and one between two lines hands out what has come as if it were the message.
`HandleSSEMessage` is what such a part does: an id may be noted and its chunk be
lost, an `error` or `end` event may be taken for data, and a chunk without all its
data lines is `Garbled`. `torn` records the messages in which a read ended.
`NothingLost` is the part of `ResumesExactly` that needs no condition on the source;
`ImplementsFeed` says that the stream is a `Feed` with room for every chunk.

**`Batching`** (`withBatching()` and `withDebouncedBatching()`, which differ in
when their window ends; in the model it ends at any time). `pendingRequests`,
`batchTimer` and `requestIdCounter` are the variables of the closure, `inFlight`
the batches `transport.call()` has not settled. **`RetriedBatching`** composes it
with the loop of `withRetry()`: `phase` and `attempt` are where each call
stands, and every attempt takes a new id of the batching transport.
**`RemoteCalls`** is what a caller is promised by a transport that retries: one final
verdict, success only if the server has executed the call, and at most
`MaxExecutions` executions, late ones included. `executed` counts what the server
did, also with batches whose answer was lost.

**`Sessions`** (`http()`, `capnweb()`, `createReconnectingCapnwebTransport()`,
`loadCapnweb()`). A session and its promise have one number in `session`, in the
order of their making. `sessionPromise`, `cached` and `pipelineSession` are the
closure variables of each transport, `module` is what the loader has. `GetSession`,
`GetSessionSync`, `AfterCall` (the `finally` clause) and `CloseTransports` are the
functions of that kind; `ModuleLoaded` resolves all promises that wait for the
import in their order, as the host does within one task. What a batch or a socket
does is external: `BatchSent`, `SessionEnds`. It has no `Next` of its own.
**`ClientCalls`** makes the calls (`createDOClient()`): `Pipelined` goes to the
session without hooks, `Call` through `getTransport()`; `made`, `maker` are
`_transport` and `_transportPromise`; `hop` is how far the loop of `composite()`
has come; `HookSettles` ends the hook of the application that runs after that of
`timingMiddleware()`, whose map is `timings`. `Quiet` keeps tasks from running
before continuations that are due.

**`DurableRpc`** (`DurableRPCBase`, `composition/factory.ts`,
`websocket-state.ts`, `wrapWithMiddleware()`). `registry`, `sessions` and
`currentRequest` are `_transportRegistry`, `_sessions` and `_currentRequest`;
`timings` is the map of `serverTimingMiddleware()`. These four are lost in
`Hibernate`; `socket` and `attachment`, which the runtime keeps, are not. The
actions on a request are the outcomes of `fetch()` up to its first `await` and
`BatchRead` and `FetchEnds` after it; a call passes through `Begin`,
`OnRequestSettles`, `MethodReturns` or `MethodThrows`, and the hooks that end
it. `StrayAttachment` is the application's own `serializeAttachment()`. `overlapped`
records the POSTs beside which another fetch came or ended while their body was read;
`OwnWhenAlone` is what the one field for the current request leaves to the others.

**`QueryHooks`** (`useRPC()`). `queryCache` maps each key to the request whose
promise its entry holds; `loading`, `isRefetching` and `life` are the state and
the mounted ref of each component; `fetching` are the suspended `fetchData()`
calls, in the order in which they go on once their request has settled. `shown`
records by key what was last given to `setData()`, and `disturbed` the keys on
which a callback or the cache functions have broken the sharing.

**`ReconnectingWsProofs`**, **`FeedProofs`**, **`WsSubscriptionProofs`**,
**`SseStreamProofs`**, **`RetriedBatchingProofs`**, **`ClientCallsProofs`**,
**`DurableRpcProofs`** and **`QueryHooksProofs`** hold the theorems of section 6.
**`MCReconnectingWs`**, **`MCClientCalls`**, **`MCDurableRpc`** and
**`MCQueryHooks`** add what TLC needs: symmetry, a constraint, functions as
constants.

## 4. Runs and what they show

| Run | Instance | Shows |
|---|---|---|
| `rws_core` | 2 messages, 2 sockets, 2 attempts, queues of 1 with drop-oldest, heartbeat; no auth, no native dispatch, no reentrance | State, socket and timer agree, `close()` is final, order, bounds, no forgotten `receive()`, the refinement of `Outbox`, and the liveness of sends and of the queue |
| `rws_auth` | 3 messages, 3 sockets, a provider that answers or fails, native dispatch, reentrant callbacks, queues of 2 with error, nothing received | What survives overlapping sockets and timers: `FlushedWhenUsable`, `ConnectedOrder` and `AuthFirst` |
| `rws_closed` | see section 7 | One disagreement |
| `ws_subscription` | buffer of 2, 4 data, 2 attempts, 2 waiting `next()` | The feed, no forgotten `next()`, no abandoned socket, reconnection ends |
| `ws_unsubscribe` | see section 7 | One disagreement |
| `sse_stream` | 2 chunks, 3 connections, 2 attempts, 2 waiting `next()`, 2 reads that end in a message | No chunk lost over reconnections but those of torn messages and of timed-out `next()` calls, and each once and in order while no message was torn; no stream without connection or timer |
| `sse_drained` | see section 7 | One disagreement |
| `retried_batching` | 2 calls of 3 attempts each, batches of 2 | No call lost, doubled or mixed up; the refinement of `RemoteCalls`; every call settles |
| `client_calls` | 3 calls of one client over one transport of each kind or a composite of a socket and HTTP, `http()` with a timeout, one `close()` | A call alone never gets a used session; one live socket; whoever waits waits for something under way; the timing keeps no entry too many; every call settles |
| `durable_rpc` | 3 requests, 2 messages, one hibernation, one overwritten attachment | Messages on the session of their own socket; nothing kept of closed sockets; a POST without another fetch beside it sees itself; one end heard of each call |
| `durable_context` | see section 7 | One disagreement |
| `query_hooks` | 2 components, 2 keys, 3 requests, 3 fetches under way, one write | Nobody left loading, nobody shown an older answer than before, no entry of the cache that outlives its request |

Why the bounds are enough. Two messages are the fewest that can be reordered, and
with a queue of one the second overflows; a third, in `rws_auth`, makes the
connection on which the other two are called; two sockets are an old and a new one,
three let a third start while the first two are unsettled (a bound on slots, not on
reconnections: a slot is taken again once its socket can do nothing more). Two
attempts give a failed, a repeated and a last one. `MaxOrphans` cuts behaviours in
which a misbehaving reconnection piles up more than one timer; it is a CONSTRAINT of
`rws_auth` and `rws_closed`, and in `rws_core` `TimerMatchesState` shows that there
are none. Four data overrun a buffer of two twice. In `SseStream` a timer waits when
`MaxConnections` requests were made; two chunks are the fewest of which the second
can move the id past a lost first, and two ends of a read (`MaxTorn`) can fall in
one message or in both. In `RetriedBatching` `MaxId` is the number of calls times
`MaxAttempts`, so it never stops an attempt. In `ClientCalls` three calls are one
that ends, one that shares its session and one that comes later; a client with a
factory makes `MaxFactoryCalls` of two, the one that runs it and one beside it,
since the composite takes each through two transports; `MaxCloses` of one falls
anywhere among them. In `DurableRpc` three requests are two sockets, or a socket and
a POST, and a fetch between them; `MaxHibernations` and `MaxStrays` of one put a
loss of memory and an overwritten attachment anywhere in their lives. In
`QueryHooks` a third request (`MaxRequests`) is one made after the cache lost the
first of two, `MaxFetches` lets both components and a refetch wait at once, and
`MaxWrites` of one tells an older answer from a newer. The proofs need none of these
bounds. Symmetry is declared for sets whose members nothing distinguishes, and only
in runs without liveness. Deadlock is not checked: a transport that has given up, a
stream that is over and calls that have settled stop for good.

Properties of `ReconnectingWs` outside their environment, found with TLC by setting
one of the three constants at a time: `StateMatchesSocket`, `NoLeakedSocket`,
`TimerMatchesState` and `ClosedIsFinal` fail with an auth provider, with native
dispatch and with reentrant callbacks alike; `QueueDrains` fails with a provider and
with reentrance; `SendSettles`, `QueuesBounded`, `InboundInOrder`, `NoLostWakeup`
and `SentOnce` hold in all of them. So do `FlushedWhenUsable`, `ImplementsOutbox`
and `ConnectedOrder` with a provider that has a token or fails; one that may also
answer that it has no token breaks all three, the last with four messages: the
answer that comes for an old socket makes the transport connected while the new one
is still connecting (a token would fail to go out), and when that opens it is usable
before it is flushed. `NobodyForgotten` fails with `OnBatchThrows`; `ResumesExactly`
fails with `ErrorsGoOn`, and `NothingLost` and the other two properties hold. A
reader who relies on one of these properties relies on the environment too.

## 5. Fairness

The host runs each microtask (weak fairness) and each task it has queued, though
others come first; a task is disabled while microtasks run, hence strong fairness
for tasks in `ReconnectingWs`. A socket that is connecting or closing comes to an
end, because the network stack times out; an auth provider answers, because a
provider that never does keeps `connect()` from ever settling and no liveness
property could hold. Nothing is assumed of the peer, the application, or an open
connection. In `WsSubscription` the three timers of the code are fair, and the
server answers a subscribe message or drops the connection: `onopen` has disarmed
the timeout, and without this assumption `SubscribeSettles` is false. In
`RetriedBatching` timers and continuations are fair and the transport underneath
settles every batch, as the request timeouts of the transports make it do. In
`ClientCalls` the host runs continuations and timers, imports, factories and
hooks settle, and the peer of a socket answers or the socket dies. Nothing is
assumed of an HTTP server: the timeout of `http()` must be enough, and is.
Pipelined calls have no timeout, so `CallsSettle` does not speak of them.
`DurableRpc` and `QueryHooks` state safety only.

## 6. Proofs

Each proof module proves, for every value of the constants, what the runs check on
small ones. The assumptions are those named in the modules and the conditions
given here; TLC evaluates the former in every run.

`ReconnectingWsProofs`:

- `TypeCorrect`, with a lemma for each handler.
- `BoundedQueues`, for `MaxQueueSize > 0`. The condition is needed: with a limit
  of 0 and drop-oldest, `enforceQueueLimit()` shifts an empty queue and the push
  that follows exceeds the limit by one.
- `NoForgottenReceive` and `ReceivedInOrder`, in every environment.
- `NeverSentTwice` in every environment: `SendsAccounted` says where each message
  is between `send()` and the socket, and that it is there once.
- `NothingHeldBack`, `PromptInOrder` and `SendsAreAnOutbox`, by which every step is a
  step of `Outbox` or a stutter, under `TokenOrFail`: a provider, if there is one,
  never answers that it has no token. TLC refutes all three without it (section 4).
  `AuthInv` says which microtask or suspended listener will flush, and that the send
  queue is empty on a usable connection where nobody has to. `ConnectedInv` puts
  what has gone out, what is queued and the `send()` calls about to go on in one
  line, in which the calls that found the transport connected stand in their order.
- `TokenFirst` under `AlwaysToken`: a provider is configured and has a token or fails.
- `SequentialConsistent`, `SequentialNoLeak`, `SequentialTimer` and
  `SequentialClosedIsFinal` under `Sequential`: no provider, no native dispatch,
  no reentrance. The properties do not carry themselves over a step: a failed
  attempt passes through `handleClose()`, which sets `disconnected`, and only
  then does a microtask arm the next timer. `SequentialInv` therefore also says
  that this microtask is alone in its queue (`RetryAlone`), that nothing is
  suspended in the provider or between two listeners (`NothingPending`), and
  which sockets can be in which state (`SocketsKnown`).
  None of the three conditions can be left out: TLC finds each of the four
  properties violated when one of them is.

`WsSubscriptionProofs`: `TypeCorrect`, `NobodyForgotten`, `AlwaysAlive`,
`NeverTwoSockets`, and `SubscriptionIsAFeed`, the refinement of `Feed`, for
`BufferSize > 0`: with a buffer of 0 the code shifts nothing and pushes all the
same. `ConnectionInv` ties the attempt, the socket and the two timers together.
`FeedProofs` proves of every implementation of `Feed` that it hands out data in
order and each once (`AlwaysInOrder`); `ConsumedInOrder` is what the subscription
inherits from it through the refinement.

`SseStreamProofs`: `TypeCorrect`, `NobodyForgotten`, `AlwaysAlive` and
`OnlyTornIsLost`, whatever a response does after an error event. The last is the
half of `ResumesExactly` that survives two connections at once and reads that end
anywhere: a chunk up to the id to resume from is missing only if a timed-out
`next()` was given it or a read ended in the chunk's own message, because each
connection's reads are accounted for by themselves (`Delivered`: every chunk that a
connection has begun to bring is held, or was torn, whether its id was noted or
not). For streams that an error event ends (`ErrorsEnd`) `NothingLostOrRepeated`
adds that none comes twice or late as long as no message was torn; with `ErrorsGoOn`
TLC finds this violated. Its invariant `OneReader` says that then one connection at
most, the latest, can still give chunks, and that it has sent what the stream has
noted. `StreamIsAFeed`, under `ErrorsEnd` and where no message is torn, is the
refinement of `Feed`. TLC refutes `NothingLost` without its last part: a chunk is
missing as soon as one message may be torn.

`RetriedBatchingProofs`: `TypeCorrect`, `ResultsAreOwn`, `NobodyIsForgotten` for an
`onBatch` that does not throw, `OneAtATime`, and `CallsAreRemoteCalls`, the
refinement of `RemoteCalls`. `IdsInv` says that an id is in one place only; `LoopInv`
ties where each call's loop stands to its entry; `ExecInv`, that nothing is done for
an id not yet given out and that a result comes from an execution, so that the
executions of a call are bounded by the ids it has used.

`ClientCallsProofs`, for any transports, composites and bounds: `TypeCorrect` and
`TimingsAreAccounted`, for finitely many calls, where `BegunInv` bounds the entries
of the timing by the calls that began; `OneSocketEach` from `SocketInv`, by which an
open socket is that of the promise its transport keeps, and a session being made is
that of the promise or was doomed by `close()`; and `AloneIsFresh` from `FreshInv`,
by which the promise an HTTP transport keeps is of a session that could not be made
or that a `call()` under way is on; and `NobodyIsStranded`, that whoever waits waits
for a factory, an import or a session under way, from `StageInv` and `HandInv`, which
say what each stage of a call has in hand and that a promise handed to it is one
somebody will settle (`Promised`). Every action of a call has the same shape
(`CallEffect`: it may take the promise with it and may begin one session), so that
each invariant is shown once for the calls and once for the host.

`DurableRpcProofs`: `TypeCorrect`; `MessagesReachTheirSession` and
`ClosedLeaveNothing` from `SocketsInv`, by which the registry says whose each
transport is and attachments and sessions agree with it, and `LooseBounded`, by
which transports that nothing leads to are as few as overwritten attachments;
`AloneSeesItself`, whose property carries itself over a step: a fetch that comes or
ends overlaps all others that wait for their body; and, for finitely many calls,
`HooksAreBalanced` from `HooksInv`.

`QueryHooksProofs`: `TypeCorrect`, `NobodyLeftLoading`, and `NewerOnly`, that no
component goes back on a key that is not disturbed. The invariant `OneAtATime` says
of such a key that it has one request under way and that this is the one of the
cache, that the fetch which made it goes on first, and that it has seen all that
is shown. Of it `FlightsAreSingle` states the sharing, and `EntriesAreLive`, which
holds of disturbed keys too, that the request of an entry of the cache still has
its fetch, which will take the entry out.

The types (`TypeOK`) of the modules whose run does not list them were checked by TLC
before they were proved, as were `SentOnce` with three messages and each provider,
`NothingLost` with `ErrorsGoOn` and the bounds of `sse_stream` but for one torn
read, and `SingleFlight`.

Only model-checked: liveness (`SendSettles`, `QueueDrains`, `SubscribeSettles`,
`ReconnectEnds`, `CallsSettle`), which is out of this prover's reach under
fairness, as are ENABLED, induction over data, and whatever would need a
RECURSIVE operator.

## 7. Where the code and its documentation disagree

- `rws_closed`: a transport that `close()` closes while the auth provider is
  awaited is connected again when the token arrives
  (`reconnecting-ws.ts:377`).
- `ws_unsubscribe`: `unsubscribe()` during a reconnection is undone by the ack on
  the new socket (`streaming.ts:708`).
- `sse_drained`: chunks buffered when an SSE response ends are never handed out
  (`streaming.ts:436`), and since `sseStream()` awaits the whole first response
  that is every chunk of a response without a failure.
- `durable_context`: with two POSTs at once the hooks of a call are shown the request
  of the other caller, or none (`base.ts:149`), although the field is documented as
  the request being handled and the documentation's middleware checks its headers.
  `OwnWhenAlone` says what is left: a POST that nothing overlaps sees itself.

The other hazards, with the properties that watch them or the reason why none
does, are in `PROJECT.json`.

## 8. What is not modelled

Components: the rows of the inventory without a module, for which `PROJECT.json`
says why. Inside the modelled ones: the length of backoffs and intervals (a timer
may fire at any time); callbacks that throw (`onSuccess` of `useRPC()`, too), or
that call the transport from the middle of `scheduleReconnect()`; a WebSocket
constructor that throws; the number of promises a continuation passes through
(microtasks run in the order they were queued); `createRpcSession()`;
`retryObserver()`, which only counts; the texts of errors and messages; for
subscriptions, handlers added with `on()` that call the subscription back;
`binding()`; the sql, storage, collection and schema proxies of the client;
`broadcast()`, colo detection and the SQL and storage methods of the server; an
instance of the object that is reset with its sockets closed; `useRPCMutation()` and
the SvelteKit stores.

What the reading of the code showed and no run states, mostly since nothing in the
repository promises otherwise or it is the environment's doing:

- With a factory, calls made beside the first one get the transport without its
  middleware (`do-client.ts:707`), and a factory that rejects is never asked
  again (`do-client.ts:710`).
- A failed import stays in `sessionPromise`, because `await getSession()` is
  outside of the `try` (`transports.ts:342`), although the loader clears its own
  cache for a retry (`capnweb-loader.ts:135`). `AfterCall` is what a later call
  finds.
- Pipelined calls have neither hooks nor timeout (`do-client.ts:755`). A call
  that ends resets the session promise of calls begun since (`transports.ts:379`).
- `close()` while the reconnecting transport is being made leaves it open
  (`transports.ts:777`); the WebSocket session cached by a promise that resolves
  after `close()` is a disposed one (`transports.ts:607`).
- An SSE message that arrives in several reads may be handed out in parts, lose its
  lines, or have its id noted without its chunk, which is then never sent again; an
  error event may be handed out as data, after which the stream ends in order
  (`streaming.ts:267` and `282`). The model has all of this.
- A `send()` that polls for the connection is overtaken by one called after the
  connection is back (`reconnecting-ws.ts:341`), although `docs/BACKPRESSURE.md:94`
  has the order preserved. `ConnectedOrder` leaves the sends that poll out.
- `composite()` tries the next transport after an error of the method, too
  (`transports.ts:838`). An `onResponse` hook that throws is followed by the
  `onError` hooks on the client (`do-client.ts:401`), and not on the server.
- Both timing middleware match calls by method, first in first out; on the
  server a call refused by a later `onRequest` leaves its entry for ever
  (`middleware.ts:172`), which `HooksBalanced` counts.
- An upgrade leaves its request the current one, so that a socket's call may see
  that of another connection (`base.ts:165`). `composition/factory.ts:314`
  spreads getters into an object and freezes their values. A method that still
  waits when the object hibernates is lost with its caller's answer.
- `useRPC()`: the waiter of a failed request deletes a newer entry of the cache
  (`nextjs.ts:383`), one reason for a key to be disturbed; a `refetch` kept from
  an earlier render uses the old key with the new arguments; an answer for a key
  that a component has left is still given to `setData()`.
- A caller of `cachedAuth()` that finds its token expired waits for a background
  refresh under way, and when that fails gets the expired token (`auth.ts:110`).
