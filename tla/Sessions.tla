-------------------------------- MODULE Sessions --------------------------------
(***************************************************************************)
(* The capnweb sessions of the client transports (src/src/transports.ts):  *)
(* http(), capnweb() and createReconnectingCapnwebTransport() each keep    *)
(* the promise of one session, made by the first call() and shared by the  *)
(* next; an HTTP session is good for one batch.  loadCapnweb()             *)
(* (src/src/capnweb-loader.ts) imports the protocol library once.          *)
(*                                                                         *)
(* A session and its promise have one number. What an attempt of a call    *)
(* does on its transport is here; who makes the attempt is in ClientCalls. *)
(***************************************************************************)
EXTENDS Naturals, Sequences, FiniteSets

CONSTANTS
  Calls,       \* calls of the application
  Transports,  \* transports it has made
  Kind,        \* [Transports]: which factory made it
  Timed        \* the transports of http() with a timeout

ASSUME SessionsAssumption ==
  /\ Kind \in [Transports -> {"http", "ws", "reconnecting"}]
  /\ Timed \subseteq {t \in Transports : Kind[t] = "http"}

VARIABLES
  module,          \* modulePromise and resolvedModule of the loader
  session,         \* the sessions in the order of their promises
  sessionPromise,  \* [Transports]: the promise kept, 0 for null
  cached,          \* [Transports]: cachedWsSession, or cachedSession and the transport under it
  pipelineSession, \* [Transports]: the HTTP session of this microtask
  stage,           \* [Calls]: where the call stands
  via,             \* [Calls]: the session it waits for or has been made on
  accepted         \* [Calls]: the session took it (external: it is in the batch, or was sent)

sessionVars == <<module, session, sessionPromise, cached, pipelineSession>>
callVars == <<stage, via, accepted>>

\* A call awaits getTransport(), a hook, the session or the answer.
Stages == {"idle", "awaitingTransport", "requesting", "awaitingSession", "inFlight",
           "responding", "erroring", "settled"}

SessionStages == {"making", "failed", "open", "sent", "dead"}
Ids == 1..Len(session)
Uses(t) == {s \in Ids : session[s].transport = t}

Persistent(t) == Kind[t] # "http"

\* A loaded library resolves within the task; reconnecting() also imports its
\* transport.
MadeAtOnce(t) == module = "loaded" /\ Kind[t] # "reconnecting"

New(t, now) == [transport |-> t, stage |-> now, doomed |-> FALSE]

\* At most one transport is primed: primeSession() begins the session of a socket
\* and loads the library for HTTP. Another client may have loaded it before.
SessionsInit(primed) ==
  LET begun == {t \in primed : Persistent(t)} IN
  /\ module \in {"loaded", IF primed = {} THEN "absent" ELSE "loading"}
  /\ session \in IF begun = {} THEN {<<>>}
                  ELSE {<<New(t, IF MadeAtOnce(t) THEN "open" ELSE "making")>> : t \in begun}
  /\ sessionPromise = [t \in Transports |-> IF t \in begun THEN 1 ELSE 0]
  /\ cached = [t \in Transports |-> IF t \in begun /\ MadeAtOnce(t) THEN 1 ELSE 0]
  /\ pipelineSession = [t \in Transports |-> 0]
  /\ stage = [c \in Calls |-> "idle"]
  /\ via = [c \in Calls |-> 0]
  /\ accepted = [c \in Calls |-> FALSE]

-----------------------------------------------------------------------------
(* Making sessions. *)

\* loadCapnweb(): one import for all who ask before it has settled.
LoadCapnweb_Once == module' = IF module = "absent" /\ Ids = {} THEN "loading" ELSE module
LoadCapnweb == module' = IF module = "absent" THEN "loading" ELSE module

\* getSession() when kept is what the transport keeps of an earlier one.
GetSession(t, kept) ==
  IF kept[t] # 0
  THEN sessionPromise' = kept /\ UNCHANGED <<module, session, cached>>
  ELSE /\ LoadCapnweb
       /\ session' = Append(session, New(t, IF MadeAtOnce(t) THEN "open" ELSE "making"))
       /\ sessionPromise' = [kept EXCEPT ![t] = Len(session')]
       /\ cached' = IF MadeAtOnce(t) /\ Persistent(t)
                    THEN [cached EXCEPT ![t] = Len(session')] ELSE cached

\* getSessionSync(): 0 when there is none; primeSession() has seen to it that
\* there is one soon.
HasSyncSession(t) == IF Persistent(t) THEN cached[t] # 0 ELSE module = "loaded"

GetSessionSync(t) ==
  /\ IF Persistent(t) \/ pipelineSession[t] # 0
     THEN UNCHANGED <<session, pipelineSession>>
     ELSE /\ session' = Append(session, New(t, "open"))
          /\ pipelineSession' = [pipelineSession EXCEPT ![t] = Len(session')]
  /\ UNCHANGED <<module, sessionPromise, cached>>

SyncSession(t) == IF Persistent(t) THEN cached[t] ELSE pipelineSession'[t]

\* The library has arrived: the promises that wait for it resolve in their order.
\* close() has registered the disposal of a doomed session before any call continues.
ModuleLoaded ==
  LET Made(s) == session[s].stage = "making" /\ Kind[session[s].transport] # "reconnecting" IN
  /\ module = "loading"
  /\ module' = "loaded"
  /\ session' = [s \in Ids |-> IF Made(s)
                   THEN [session[s] EXCEPT !.stage = IF session[s].doomed THEN "dead" ELSE "open"]
                   ELSE session[s]]
  /\ cached' = [t \in Transports |->
       LET made == {s \in Uses(t) : Made(s)} IN
       IF Persistent(t) /\ made # {}
       THEN CHOOSE s \in made : \A r \in made : r <= s ELSE cached[t]]
  /\ UNCHANGED <<sessionPromise, pipelineSession, callVars>>

\* The import has failed: the loader forgets it, every promise that waits rejects.
ModuleFails ==
  /\ module = "loading"
  /\ module' = "absent"
  /\ session' = [s \in Ids |-> IF session[s].stage = "making"
                   THEN [session[s] EXCEPT !.stage = "failed"] ELSE session[s]]
  /\ UNCHANGED <<sessionPromise, cached, pipelineSession, callVars>>

\* createReconnectingCapnwebTransport(): both imports are there. close() in
\* between has found no transport to close.
ReconnectingMade(s) ==
  /\ session[s].stage = "making" /\ Kind[session[s].transport] = "reconnecting"
  /\ module = "loaded"
  /\ session' = [session EXCEPT ![s].stage = "open"]
  /\ cached' = [cached EXCEPT ![session[s].transport] = s]
  /\ UNCHANGED <<module, sessionPromise, pipelineSession, callVars>>

-----------------------------------------------------------------------------
(* Attempts of calls. *)

\* call(): await getSession().
Await(c, t, kept) ==
  /\ GetSession(t, kept)
  /\ stage' = [stage EXCEPT ![c] = "awaitingSession"]
  /\ via' = [via EXCEPT ![c] = sessionPromise'[t]]
  /\ UNCHANGED <<accepted, pipelineSession>>

\* The session is there: the method is called on it, whatever has become of it.
SessionArrives(c) ==
  /\ stage[c] = "awaitingSession" /\ session[via[c]].stage \notin {"making", "failed"}
  /\ stage' = [stage EXCEPT ![c] = "inFlight"]
  /\ accepted' = [accepted EXCEPT ![c] = session[via[c]].stage = "open"]
  /\ UNCHANGED <<via, sessionVars>>

\* await getSession() throws: outside of the try block.
SessionRejects(c) == stage[c] = "awaitingSession" /\ session[via[c]].stage = "failed"

\* The session has been aborted under a call (external: every call on it rejects).
Aborted(c) == stage[c] = "inFlight" /\ session[via[c]].stage = "dead"

\* An answer can come (external): an HTTP server answers a batch.
Answerable(c) ==
  /\ stage[c] = "inFlight" /\ accepted[c]
  /\ session[via[c]].stage = IF Persistent(session[via[c]].transport) THEN "open" ELSE "sent"

\* The timer of http() that a call races with.
Armed_Never(t) == FALSE
Armed(t) == t \in Timed

\* The finally clause: what the transport keeps after an attempt on it.
AfterCall_Kept(t) == sessionPromise
AfterCall(t) == IF Persistent(t) THEN sessionPromise ELSE [sessionPromise EXCEPT ![t] = 0]

-----------------------------------------------------------------------------
(* What ends sessions. *)

\* A continuation is due: the host runs no task before it.
Due(c) ==
  \/ stage[c] = "awaitingSession" /\ session[via[c]].stage # "making"
  \/ Aborted(c)
Quiet == (\A c \in Calls : ~Due(c)) /\ \A t \in Transports : pipelineSession[t] = 0

\* The session sends its batch in a task after the one that made it (external).
BatchSent(s) ==
  /\ Quiet /\ session[s].stage = "open" /\ ~Persistent(session[s].transport)
  /\ session' = [session EXCEPT ![s].stage = "sent"]
  /\ UNCHANGED <<module, sessionPromise, cached, pipelineSession, callVars>>

\* The response is over or has failed, or the socket has dropped (external): every
\* call still on the session rejects.
SessionEnds(s) ==
  /\ Quiet
  /\ session[s].stage = IF Persistent(session[s].transport) THEN "open" ELSE "sent"
  /\ Kind[session[s].transport] # "reconnecting"
  /\ session' = [session EXCEPT ![s].stage = "dead"]
  /\ UNCHANGED <<module, sessionPromise, cached, pipelineSession, callVars>>

\* queueMicrotask() of getSessionSync().
PipelineReset ==
  /\ \E t \in Transports : pipelineSession[t] # 0
  /\ pipelineSession' = [t \in Transports |-> 0]
  /\ UNCHANGED <<module, session, sessionPromise, cached, callVars>>

\* What close() of these transports does to their sessions: http() and capnweb()
\* dispose of the session kept, now or once it is made; reconnecting() closes
\* the transport it has.
Closed_OnlyMade(ts) ==
  [s \in Ids |->
     LET t == session[s].transport IN
     IF t \in ts /\ session[s].stage \in {"open", "sent"}
        /\ s = IF Kind[t] = "reconnecting" THEN cached[t] ELSE sessionPromise[t]
     THEN [session[s] EXCEPT !.stage = "dead"] ELSE session[s]]

Closed(ts) ==
  [s \in Ids |->
     LET t == session[s].transport IN
     CASE t \in ts /\ Kind[t] = "reconnecting" /\ s = cached[t] ->
            [session[s] EXCEPT !.stage = "dead"]
       [] t \in ts /\ Kind[t] # "reconnecting" /\ s = sessionPromise[t] ->
            IF session[s].stage = "making" THEN [session[s] EXCEPT !.doomed = TRUE]
            ELSE [session[s] EXCEPT !.stage = IF @ = "failed" THEN @ ELSE "dead"]
       [] OTHER -> session[s]]

CloseTransports(ts) ==
  /\ session' = Closed(ts)
  /\ sessionPromise' = [t \in Transports |-> IF t \in ts THEN 0 ELSE sessionPromise[t]]
  /\ cached' = [t \in Transports |-> IF t \in ts THEN 0 ELSE cached[t]]
  /\ UNCHANGED <<module, pipelineSession, callVars>>

SessionsTypeOK ==
  /\ module \in {"absent", "loading", "loaded"}
  /\ session \in Seq([transport : Transports, stage : SessionStages, doomed : BOOLEAN])
  /\ sessionPromise \in [Transports -> 0..Len(session)]
  /\ cached \in [Transports -> 0..Len(session)]
  /\ pipelineSession \in [Transports -> 0..Len(session)]
  /\ stage \in [Calls -> Stages]
  /\ via \in [Calls -> 0..Len(session)]
  /\ accepted \in [Calls -> BOOLEAN]
=============================================================================
