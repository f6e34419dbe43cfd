------------------------------ MODULE ClientCalls ------------------------------
(***************************************************************************)
(* The calls of a client (createDOClient() in src/src/do-client.ts) over   *)
(* the sessions of Sessions. A client is given one transport, or a factory *)
(* that makes a composite() of several. Its calls go straight to the       *)
(* session when the transport has one at hand, and else through            *)
(* getTransport() and the hooks of the middleware: here timingMiddleware() *)
(* (src/src/middleware/timing.ts) and after it one of the application's,   *)
(* which takes its time and may throw. All calls are of one method, the    *)
(* case in which timingMiddleware() has to tell them apart.                *)
(***************************************************************************)
EXTENDS Sessions

CONSTANTS
  Route,            \* the transports of composite(), in order
  MaxFactoryCalls,  \* bound on the calls of a client with a factory
  MaxCloses         \* bound on the uses of close()

ASSUME RouteAssumption ==
  /\ Route \in Seq(Transports) /\ Len(Route) > 0
  /\ \A i, j \in DOMAIN Route : Route[i] = Route[j] => i = j
  /\ MaxCloses \in Nat /\ MaxFactoryCalls \in Nat

VARIABLES
  given,    \* what createDOClient() was given: a transport, or Factory
  made,     \* _transport and _transportPromise
  maker,    \* the call whose getTransport() has run the factory
  path,     \* [Calls]: the call's way to the transport
  hop,      \* [Calls]: the variable transport of composite()'s loop
  timings,  \* how many entries the map of timingMiddleware() has
  thrown,   \* a hook of the application has thrown (history)
  closes    \* uses of close() so far

clientVars == <<given, made, maker, path, hop, timings, thrown, closes>>
vars == <<sessionVars, callVars, clientVars>>

Factory == "factory"
Nobody == "nobody"
Closer == "closer"  \* close(), which may be the first to want the transport

\* What the client's transport calls, one after the other.
RouteOf == IF given = Factory THEN Route ELSE <<given>>

\* createDOClient(): a transport given as such is primed.
Init ==
  /\ given \in Transports \cup {Factory}
  /\ SessionsInit(IF given = Factory THEN {} ELSE {given})
  /\ made = IF given = Factory THEN "none" ELSE "ready"
  /\ maker = Nobody
  /\ path = [c \in Calls |-> "none"]
  /\ hop = [c \in Calls |-> 0]
  /\ timings = 0
  /\ thrown = FALSE
  /\ closes = 0

-----------------------------------------------------------------------------
(* timingMiddleware(). *)

\* onRequest(): entries that are too old go, the call's own is added.
TimingRequest == \E fresh \in 0..timings : timings' = fresh + 1

\* onResponse() and onError(): the oldest entry of the method goes.
TimingEnds_Kept == timings' = timings
TimingEnds == timings' = IF timings = 0 THEN 0 ELSE timings - 1

-----------------------------------------------------------------------------
(* The call of the composite and the hooks around it. *)

\* The caller's promise settles, one way or the other.
Settled(c) ==
  /\ stage' = [stage EXCEPT ![c] = "settled"]
  /\ path' = [path EXCEPT ![c] = "none"]

\* transport.call() of the client's transport.
Begin(c) ==
  /\ Await(c, RouteOf[1], sessionPromise)
  /\ hop' = [hop EXCEPT ![c] = 1]

\* wrapTransportWithMiddleware(): call() runs the onRequest hooks.
Hooked(c) ==
  /\ TimingRequest
  /\ stage' = [stage EXCEPT ![c] = "requesting"]
  /\ path' = [path EXCEPT ![c] = "wrapped"]
  /\ UNCHANGED <<via, accepted, sessionVars, hop, given, made, maker, thrown, closes>>

\* The transport's call() is over with its locals; the hooks follow if there are
\* any, and else the caller has its result or its error.
Leaves(c, hooks) ==
  /\ via' = [via EXCEPT ![c] = 0]
  /\ accepted' = [accepted EXCEPT ![c] = FALSE]
  /\ hop' = [hop EXCEPT ![c] = 0]
  /\ IF path[c] = "wrapped"
     THEN TimingEnds /\ stage' = [stage EXCEPT ![c] = hooks] /\ UNCHANGED path
     ELSE UNCHANGED timings /\ Settled(c)

\* composite(): the loop goes on with the next transport, whatever the error was.
HasNext(c) == path[c] # "pipelined" /\ hop[c] < Len(RouteOf)

AttemptFails(c, kept) ==
  IF HasNext(c)
  THEN /\ Await(c, RouteOf[hop[c] + 1], kept)
       /\ hop' = [hop EXCEPT ![c] = @ + 1]
       /\ UNCHANGED <<path, timings>>
  ELSE /\ Leaves(c, "erroring")
       /\ sessionPromise' = kept
       /\ UNCHANGED <<module, session, cached, pipelineSession>>

\* Where the attempt leaves the transport's session; a pipelined call has no call().
Kept(c) ==
  IF path[c] = "pipelined" THEN sessionPromise ELSE AfterCall(session[via[c]].transport)

Unmoved == UNCHANGED <<given, made, maker, thrown, closes>>

\* The answer: a result or an error of the method.
Answer(c) ==
  /\ Answerable(c)
  /\ \/ /\ Leaves(c, "responding")
        /\ sessionPromise' = Kept(c)
        /\ UNCHANGED <<module, session, cached, pipelineSession>>
     \/ AttemptFails(c, Kept(c))
  /\ Unmoved

\* The session is gone, or http()'s timer has fired; the finally clause runs.
Rejected(c) ==
  /\ \/ Aborted(c)
     \/ /\ stage[c] = "inFlight" /\ path[c] # "pipelined"
        /\ Armed(session[via[c]].transport) /\ Quiet
  /\ AttemptFails(c, Kept(c))
  /\ Unmoved

\* There is no session; no finally clause runs.
Unreachable(c) ==
  /\ SessionRejects(c)
  /\ AttemptFails(c, sessionPromise)
  /\ Unmoved

Arrives(c) == SessionArrives(c) /\ UNCHANGED clientVars

\* The application's hook settles. What onRequest throws passes by the onError
\* hooks; what onResponse throws does not.
HookSettles(c) ==
  /\ Quiet
  /\ \/ /\ stage[c] = "requesting"
        /\ \/ Begin(c) /\ UNCHANGED <<path, timings, thrown>>
           \/ /\ Settled(c) /\ thrown' = TRUE
              /\ UNCHANGED <<timings, hop, via, accepted, sessionVars>>
     \/ /\ stage[c] = "responding"
        /\ \/ Settled(c) /\ UNCHANGED <<timings, thrown>>
           \/ /\ TimingEnds /\ thrown' = TRUE
              /\ stage' = [stage EXCEPT ![c] = "erroring"] /\ UNCHANGED path
        /\ UNCHANGED <<hop, via, accepted, sessionVars>>
     \/ /\ stage[c] = "erroring"
        /\ Settled(c)
        /\ UNCHANGED <<timings, thrown, hop, via, accepted, sessionVars>>
  /\ UNCHANGED <<given, made, maker, closes>>

-----------------------------------------------------------------------------
(* The proxy. *)

\* rawTransport?.getSessionSync() has a session; a factory is no rawTransport.
SessionAtHand == given # Factory /\ HasSyncSession(given)

\* apply(): on the session itself, without hooks, timeout and finally clause.
Pipelined(c) ==
  /\ stage[c] = "idle" /\ SessionAtHand
  /\ GetSessionSync(given)
  /\ stage' = [stage EXCEPT ![c] = "inFlight"]
  /\ via' = [via EXCEPT ![c] = SyncSession(given)]
  /\ accepted' = [accepted EXCEPT ![c] = session'[SyncSession(given)].stage = "open"]
  /\ path' = [path EXCEPT ![c] = "pipelined"]
  /\ UNCHANGED <<given, made, maker, hop, timings, thrown, closes>>

\* The promise of the factory's transport is what the calls beside the maker get.
Waits(c, way) ==
  /\ stage' = [stage EXCEPT ![c] = "awaitingTransport"]
  /\ path' = [path EXCEPT ![c] = way]
  /\ UNCHANGED <<hop, timings, via, accepted, sessionVars>>

Refused(c) ==
  /\ Settled(c)
  /\ UNCHANGED <<hop, timings, via, accepted, sessionVars>>

\* apply(): through getTransport(). A factory that rejects leaves its promise.
Call(c) ==
  /\ stage[c] = "idle" /\ ~SessionAtHand
  /\ given = Factory => Cardinality({d \in Calls : stage[d] # "idle"}) < MaxFactoryCalls
  /\ \/ made = "ready" /\ Hooked(c)
     \/ /\ made = "none"
        /\ \/ Waits(c, "wrapped") /\ made' = "making" /\ maker' = c
           \/ Refused(c) /\ UNCHANGED <<made, maker>>
        /\ UNCHANGED <<given, thrown, closes>>
     \/ made = "making" /\ Waits(c, "raw") /\ UNCHANGED <<given, made, maker, thrown, closes>>
     \/ made = "rejected" /\ Refused(c) /\ UNCHANGED <<given, made, maker, thrown, closes>>

\* The factory's promise settles.
FactorySettles ==
  /\ made = "making" /\ Quiet
  /\ made' \in {"ready", "rejected"}
  /\ UNCHANGED <<given, maker, path, hop, timings, thrown, closes, sessionVars, callVars>>

\* await _transportPromise is over, in the maker and in the others.
TransportArrives(c) ==
  /\ stage[c] = "awaitingTransport"
  /\ \/ made = "ready" /\ path[c] = "wrapped" /\ Hooked(c)
     \/ /\ made = "ready" /\ path[c] = "raw"
        /\ Begin(c) /\ UNCHANGED <<given, made, maker, path, timings, thrown, closes>>
     \/ /\ made = "rejected"
        /\ Refused(c) /\ UNCHANGED <<given, made, maker, thrown, closes>>

\* close(): through getTransport(), so that it runs the factory if nothing has;
\* composite() closes all its transports.
Close ==
  /\ closes < MaxCloses /\ closes' = closes + 1
  /\ \/ /\ made = "ready"
        /\ CloseTransports({RouteOf[i] : i \in DOMAIN RouteOf})
        /\ UNCHANGED <<made, maker>>
     \/ /\ made = "none"
        /\ made' = "making" /\ maker' = Closer
        /\ UNCHANGED <<sessionVars, callVars>>
  /\ UNCHANGED <<given, path, hop, timings, thrown>>

Next ==
  \/ \E c \in Calls :
       \/ Call(c) \/ Pipelined(c) \/ TransportArrives(c) \/ HookSettles(c)
       \/ Arrives(c) \/ Unreachable(c) \/ Answer(c) \/ Rejected(c)
  \/ FactorySettles \/ Close
  \/ /\ \/ ModuleLoaded \/ ModuleFails \/ PipelineReset
        \/ \E s \in Ids : ReconnectingMade(s) \/ BatchSent(s) \/ SessionEnds(s)
     /\ UNCHANGED clientVars

Spec == Init /\ [][Next]_vars

\* The host runs continuations and timers; imports, factories and hooks settle;
\* the peer of a socket answers. Nothing is assumed of HTTP servers.
FairSpec ==
  /\ Spec
  /\ WF_vars(FactorySettles)
  /\ WF_vars((ModuleLoaded \/ ModuleFails \/ PipelineReset
              \/ \E s \in Ids : ReconnectingMade(s)) /\ UNCHANGED clientVars)
  /\ \A c \in Calls :
       /\ WF_vars(TransportArrives(c) \/ HookSettles(c) \/ Arrives(c) \/ Unreachable(c) \/ Rejected(c))
       /\ WF_vars(stage[c] = "inFlight" /\ Persistent(session[via[c]].transport) /\ Answer(c))

-----------------------------------------------------------------------------
(* Properties *)

\* Every variable holds a value the code can give it; in particular no loop of
\* composite() runs past its last transport.
TypeOK ==
  /\ SessionsTypeOK
  /\ given \in Transports \cup {Factory}
  /\ made \in {"none", "making", "rejected", "ready"}
  /\ maker \in Calls \cup {Nobody, Closer}
  /\ path \in [Calls -> {"none", "pipelined", "wrapped", "raw"}]
  /\ hop \in [Calls -> 0..Len(RouteOf)]
  /\ timings \in 0..Cardinality(Calls)
  /\ thrown \in BOOLEAN
  /\ closes \in 0..MaxCloses

\* What the next call() of an HTTP transport finds in sessionPromise is a session
\* whose batch has gone only while another call() on it is still under way: a call
\* made alone always gets a session of its own, also after calls that timed out,
\* failed or were closed ("Resetting here lets the next sequential call create a
\* fresh session", transports.ts:376).
FreshWhenAlone ==
  \A t \in Transports : ~Persistent(t) /\ sessionPromise[t] # 0 =>
    LET s == sessionPromise[t] IN
    session[s].stage \in {"sent", "dead"} =>
      \E c \in Calls : via[c] = s /\ path[c] # "pipelined"
                      /\ stage[c] \in {"awaitingSession", "inFlight"}

\* capnweb() never has two live sockets, however often it is closed and called
\* again while the library is still loading ("Use a promise to prevent concurrent
\* calls from creating multiple sessions", transports.ts:593).
OneLiveSocket ==
  \A t \in Transports : Kind[t] = "ws" =>
    Cardinality({s \in Uses(t) : session[s].stage = "open"}) <= 1

\* As long as no hook throws, timingMiddleware() keeps no more entries than calls
\* it has seen begin and not end, although calls of one method take each other's.
TimingsAccounted ==
  ~thrown =>
    timings <= Cardinality({c \in Calls : path[c] = "wrapped" /\
                      stage[c] \in {"requesting", "awaitingSession", "inFlight"}})

\* Nobody waits for what nothing is going to bring. A call that waits for the
\* transport has a factory that runs or has run, one that waits for its session has
\* an import that is under way, and one in flight is on a session that is gone, or
\* that has taken the call, or whose batch has been sent.
NobodyStranded ==
  \A c \in Calls :
    /\ stage[c] = "awaitingTransport" => made # "none" /\ path[c] \in {"wrapped", "raw"}
    /\ stage[c] = "awaitingSession" =>
         /\ via[c] \in Ids
         /\ session[via[c]].stage = "making" =>
              \/ module = "loading"
              \/ module = "loaded" /\ Kind[session[via[c]].transport] = "reconnecting"
    /\ stage[c] = "inFlight" =>
         /\ via[c] \in Ids
         /\ \/ session[via[c]].stage = "dead"
            \/ session[via[c]].stage = "open" /\ accepted[c]
            \/ session[via[c]].stage = "sent" /\ ~Persistent(session[via[c]].transport)

\* Every call that goes through call() settles: an import, a factory, a socket
\* or a server that fails rejects it, and http()'s timeout is enough for a
\* server that never answers.
CallsSettle ==
  \A c \in Calls : stage[c] # "idle" /\ path[c] # "pipelined" ~>
                    stage[c] = "settled"
=============================================================================
