---------------------------- MODULE ClientCallsProofs ----------------------------
(***************************************************************************)
(* Theorems about ClientCalls, for any transports, composites and bounds   *)
(* and finitely many calls: type correctness, that a call made alone gets  *)
(* a session of its own, that capnweb() has one live socket at most, that  *)
(* no call waits for what nothing is going to bring, and the bound on the  *)
(* entries of timingMiddleware().                                          *)
(***************************************************************************)
EXTENDS ClientCalls, FiniteSetTheorems, WellFoundedInduction, TLAPS

Record == [transport : Transports, stage : SessionStages, doomed : BOOLEAN]

\* A call is on a session, or waits for it.
OnSession == {"awaitingSession", "inFlight"}

-----------------------------------------------------------------------------
(* Types *)

\* The type of the sessions.
SessionsOK ==
  /\ module \in {"absent", "loading", "loaded"}
  /\ session \in Seq(Record)
  /\ sessionPromise \in [Transports -> 0..Len(session)]
  /\ cached \in [Transports -> 0..Len(session)]
  /\ pipelineSession \in [Transports -> 0..Len(session)]

\* The type of the calls; one on a session has one, and a pipelined one is on it.
CallsOK ==
  /\ stage \in [Calls -> Stages]
  /\ via \in [Calls -> 0..Len(session)]
  /\ accepted \in [Calls -> BOOLEAN]
  /\ path \in [Calls -> {"none", "pipelined", "wrapped", "raw"}]
  /\ hop \in [Calls -> 0..Len(RouteOf)]
  /\ \A c \in Calls : stage[c] \in OnSession => via[c] \in Ids
  /\ \A c \in Calls : path[c] = "pipelined" => stage[c] = "inFlight"

\* The type of the client, but for the bound on the timings.
ClientOK ==
  /\ given \in Transports \cup {Factory}
  /\ made \in {"none", "making", "rejected", "ready"}
  /\ maker \in Calls \cup {Nobody, Closer}
  /\ timings \in Nat
  /\ thrown \in BOOLEAN
  /\ closes \in 0..MaxCloses

\* The three make an inductive invariant.
Typed == SessionsOK /\ CallsOK /\ ClientOK

\* A client has a way of at least one transport.
LEMMA RouteFacts ==
  ASSUME ClientOK
  PROVE  /\ Len(RouteOf) \in Nat /\ Len(RouteOf) > 0
         /\ \A i \in 1..Len(RouteOf) : RouteOf[i] \in Transports
<1>1. CASE given = Factory
  BY <1>1, RouteAssumption DEF RouteOf
<1>2. CASE given # Factory
  <2>1. RouteOf = <<given>> /\ given \in Transports
    BY <1>2 DEF RouteOf, ClientOK
  <2> QED BY <2>1
<1> QED BY <1>1, <1>2

\* A set of natural numbers has a smallest.
LEMMA SmallestOf ==
  ASSUME NEW T \in SUBSET Nat, T # {}
  PROVE  \E x \in T : \A y \in T : x <= y
<1>1. PICK x \in T : \A y \in T : ~ (<<y, x>> \in OpToRel(<, Nat))
  <2> HIDE DEF OpToRel
  <2> QED BY NatLessThanWellFounded, WFMin
<1>2. \A y \in T : ~ (<<y, x>> \in {ss \in Nat \X Nat : ss[1] < ss[2]})
  BY <1>1 DEF OpToRel
<1>3. ASSUME NEW y \in T PROVE x <= y
  <2>1. x \in Nat /\ y \in Nat
    OBVIOUS
  <2>2. ~ (y < x)
    BY <1>2, <2>1
  <2> QED BY <2>1, <2>2
<1> QED BY <1>3

\* A set of sessions has a latest.
LEMMA LatestOf ==
  ASSUME NEW n \in Nat, NEW T \in SUBSET (1..n), T # {}
  PROVE  \E x \in T : \A y \in T : y <= x
<1> DEFINE U == {n - x : x \in T}
<1>1. U \in SUBSET Nat /\ U # {}
  <2>1. \A x \in T : n - x \in Nat
    OBVIOUS
  <2> QED BY <2>1
<1>2. PICK u \in U : \A v \in U : u <= v
  BY <1>1, SmallestOf
<1>3. PICK x \in T : u = n - x
  OBVIOUS
<1>4. ASSUME NEW y \in T PROVE y <= x
  <2>1. n - y \in U
    OBVIOUS
  <2>2. u <= n - y
    BY <1>2, <2>1
  <2> QED BY <1>3, <2>2
<1> QED BY <1>4

-----------------------------------------------------------------------------
(* Sessions *)

\* getSession() leaves the sessions there are and gives the transport a promise.
LEMMA GetSessionFacts ==
  ASSUME SessionsOK, NEW t \in Transports, NEW kept \in [Transports -> 0..Len(session)],
         GetSession(t, kept), UNCHANGED pipelineSession
  PROVE  /\ SessionsOK'
         /\ Len(session) \in Nat /\ Len(session') \in Nat /\ Len(session) <= Len(session')
         /\ \A s \in Ids : session'[s] = session[s]
         /\ sessionPromise'[t] \in Ids'
         /\ \A u \in Transports : u # t => sessionPromise'[u] = kept[u]
         /\ module = "loaded" => module' = "loaded"
         /\ module = "loading" => module' = "loading"
         /\ \/ kept[t] # 0 /\ sessionPromise' = kept /\ session' = session
            \/ /\ kept[t] = 0 /\ Len(session') = Len(session) + 1
               /\ sessionPromise'[t] = Len(session')
               /\ session'[Len(session')] = New(t, IF MadeAtOnce(t) THEN "open" ELSE "making")
               /\ module # "loaded" => module' = "loading"
<1>1. Len(session) \in Nat
  BY DEF SessionsOK
<1>2. CASE kept[t] # 0
  <2>1. sessionPromise' = kept /\ UNCHANGED <<module, session, cached, pipelineSession>>
    BY <1>2 DEF GetSession
  <2>2. kept[t] \in 1..Len(session)
    BY <1>1, <1>2
  <2> QED BY <1>1, <1>2, <2>1, <2>2 DEF SessionsOK, Ids
<1>3. CASE kept[t] = 0
  <2> DEFINE now == IF MadeAtOnce(t) THEN "open" ELSE "making"
  <2>1. /\ session' = Append(session, New(t, now))
        /\ sessionPromise' = [kept EXCEPT ![t] = Len(session')]
        /\ cached' = IF MadeAtOnce(t) /\ Persistent(t)
                     THEN [cached EXCEPT ![t] = Len(session')] ELSE cached
        /\ module' = IF module = "absent" THEN "loading" ELSE module
    BY <1>3 DEF GetSession, LoadCapnweb
  <2>2. New(t, now) \in Record
    BY DEF New, Record, SessionStages
  <2> HIDE DEF now
  <2>3. /\ session' \in Seq(Record) /\ Len(session') = Len(session) + 1
        /\ session'[Len(session')] = New(t, now)
        /\ \A s \in 1..Len(session) : session'[s] = session[s]
    BY <2>1, <2>2 DEF SessionsOK
  <2> DEFINE n == Len(session)
             m == Len(session')
  <2>4. n \in Nat /\ m \in Nat /\ n <= m /\ m \in 1..m /\ 0..n \subseteq 0..m
        /\ m \in 0..m
    BY <1>1, <2>3
  <2>5. /\ sessionPromise' = [kept EXCEPT ![t] = m] /\ kept \in [Transports -> 0..n]
        /\ cached' \in {cached, [cached EXCEPT ![t] = m]} /\ cached \in [Transports -> 0..n]
        /\ pipelineSession' = pipelineSession /\ pipelineSession \in [Transports -> 0..n]
    BY <2>1 DEF SessionsOK
  <2> HIDE DEF n, m
  <2>6. /\ sessionPromise' \in [Transports -> 0..m] /\ cached' \in [Transports -> 0..m]
        /\ pipelineSession' \in [Transports -> 0..m]
        /\ sessionPromise'[t] = m
        /\ \A u \in Transports : u # t => sessionPromise'[u] = kept[u]
    BY <2>4, <2>5
  <2>7. SessionsOK'
    BY <2>1, <2>3, <2>6 DEF SessionsOK, m
  <2>8. sessionPromise'[t] \in Ids'
    BY <2>4, <2>6 DEF Ids, m
  <2>9. module \in {"absent", "loading", "loaded"}
    BY DEF SessionsOK
  <2> QED BY <1>3, <2>1, <2>3, <2>4, <2>6, <2>7, <2>8, <2>9 DEF Ids, now, n, m
<1> QED BY <1>2, <1>3

\* As many sessions, of the same transports.
LEMMA RestagedFacts ==
  ASSUME SessionsOK, session' \in [Ids -> Record]
  PROVE  session' \in Seq(Record) /\ Len(session') = Len(session) /\ Ids' = Ids
<1>1. Len(session) \in Nat
  BY DEF SessionsOK
<1>2. session' \in Seq(Record) /\ Len(session') = Len(session)
  BY <1>1 DEF Ids
<1> QED BY <1>2 DEF Ids

-----------------------------------------------------------------------------
(* What a call does to the sessions and to the timings. *)

\* The calls of which the timing has, and of which it has had, an entry.
Running == {c \in Calls : path[c] = "wrapped" /\ stage[c] \in OnSession \cup {"requesting"}}
Begun == {c \in Calls : stage[c] \notin {"idle", "awaitingTransport"}}

\* A call that leaves a session takes the promise of an HTTP session with it.
TakesPromise(c, kept) ==
  stage[c] \in OnSession /\ path[c] # "pipelined" =>
    \/ via'[c] = via[c] /\ stage'[c] \in OnSession /\ path'[c] = path[c]
    \/ session[via[c]].stage = "failed"
    \/ Persistent(session[via[c]].transport)
    \/ kept[session[via[c]].transport] = 0

\* A call ends its attempt, or goes on with the next.
SessionEffect(c) ==
  \E kept \in [Transports -> 0..Len(session)] :
    /\ \A t \in Transports : kept[t] = sessionPromise[t] \/ (~Persistent(t) /\ kept[t] = 0)
    /\ TakesPromise(c, kept)
    /\ UNCHANGED pipelineSession
    /\ \/ /\ sessionPromise' = kept /\ UNCHANGED <<module, session, cached>>
          /\ via'[c] \in {0, via[c]}
          /\ stage'[c] \in OnSession => via'[c] = via[c] /\ stage[c] \in OnSession
       \/ \E t \in Transports :
            /\ GetSession(t, kept)
            /\ via'[c] = sessionPromise'[t] /\ stage'[c] = "awaitingSession"
            /\ path'[c] # "pipelined"

\* An entry comes, goes or stays with its call, or a hook has thrown.
TimingEffect(c) ==
  /\ thrown => thrown'
  /\ c \in Begun => c \in Begun'
  /\ \/ /\ c \notin Running /\ c \in Running' /\ c \notin Begun /\ c \in Begun'
        /\ timings' \in 0..(timings + 1)
     \/ c \in Running /\ c \notin Running' /\ TimingEnds
     \/ (c \in Running <=> c \in Running') /\ timings' = timings
     \/ thrown' /\ timings' \in 0..timings

\* The step of a call that is not pipelined.
CallEffect(c) ==
  /\ given' = given /\ closes' = closes
  /\ made' \in {"none", "making", "rejected", "ready"} /\ maker' \in {maker, c}
  /\ timings' \in Nat /\ thrown' \in BOOLEAN
  /\ stage' \in [Calls -> Stages]
  /\ accepted' \in [Calls -> BOOLEAN]
  /\ path' \in [Calls -> {"none", "pipelined", "wrapped", "raw"}]
  /\ hop' \in [Calls -> 0..Len(RouteOf)]
  /\ via' = [via EXCEPT ![c] = via'[c]]
  /\ \A d \in Calls : d # c => stage'[d] = stage[d] /\ path'[d] = path[d]
  /\ path'[c] = "pipelined" => stage'[c] = "inFlight"
  /\ SessionEffect(c) /\ TimingEffect(c)

\* With the sessions as they are.
LEMMA NoSessionEffect ==
  ASSUME Typed, NEW c \in Calls, UNCHANGED sessionVars, via'[c] \in {0, via[c]},
         stage'[c] \in OnSession => via'[c] = via[c] /\ stage[c] \in OnSession,
         stage[c] \in OnSession => stage'[c] \in OnSession /\ path'[c] = path[c]
  PROVE  SessionEffect(c)
<1>1. sessionPromise \in [Transports -> 0..Len(session)]
  BY DEF Typed, SessionsOK
<1>2. TakesPromise(c, sessionPromise)
  BY DEF TakesPromise, OnSession
<1> QED BY <1>1, <1>2 DEF SessionEffect, sessionVars

\* With the next attempt of a call that has left its session, if it had one.
LEMMA AwaitEffect ==
  ASSUME Typed, NEW c \in Calls, NEW t \in Transports,
         NEW kept \in [Transports -> 0..Len(session)], Await(c, t, kept),
         path[c] # "pipelined", path'[c] # "pipelined",
         \A u \in Transports : kept[u] = sessionPromise[u] \/ (~Persistent(u) /\ kept[u] = 0),
         TakesPromise(c, kept)
  PROVE  SessionEffect(c) /\ stage' = [stage EXCEPT ![c] = "awaitingSession"]
         /\ via' = [via EXCEPT ![c] = via'[c]] /\ UNCHANGED accepted
<1>1. /\ GetSession(t, kept) /\ UNCHANGED <<accepted, pipelineSession>>
      /\ stage' = [stage EXCEPT ![c] = "awaitingSession"]
      /\ via' = [via EXCEPT ![c] = sessionPromise'[t]]
  BY DEF Await
<1>2. stage'[c] = "awaitingSession" /\ via'[c] = sessionPromise'[t]
  BY <1>1 DEF Typed, CallsOK
<1>3. SessionEffect(c)
  BY <1>1, <1>2 DEF SessionEffect
<1> QED BY <1>1, <1>2, <1>3

\* The hooks begin.
LEMMA HookedEffect ==
  ASSUME Typed, NEW c \in Calls, Hooked(c), stage[c] \in {"idle", "awaitingTransport"}
  PROVE  CallEffect(c)
<1>1. /\ stage' = [stage EXCEPT ![c] = "requesting"] /\ path' = [path EXCEPT ![c] = "wrapped"]
      /\ UNCHANGED <<via, accepted, sessionVars, hop, given, made, maker, thrown, closes>>
      /\ stage'[c] = "requesting" /\ path'[c] = "wrapped"
  BY DEF Hooked, Typed, CallsOK
<1>2. timings' \in 0..(timings + 1) /\ timings' \in Nat
  BY DEF Hooked, TimingRequest, Typed, ClientOK
<1>3. TimingEffect(c)
  <2>1. c \notin Running /\ c \in Running' /\ c \notin Begun /\ c \in Begun'
    BY <1>1 DEF Running, Begun, OnSession
  <2> QED BY <1>1, <1>2, <2>1 DEF TimingEffect
<1>4. SessionEffect(c)
  BY <1>1, NoSessionEffect DEF OnSession
<1> QED BY <1>1, <1>2, <1>3, <1>4 DEF CallEffect, Typed, CallsOK, ClientOK, Stages

\* Before any hook a call waits for the transport, or is refused.
LEMMA WaitsEffect ==
  ASSUME Typed, NEW c \in Calls, stage[c] \in {"idle", "awaitingTransport"},
         NEW now \in {"awaitingTransport", "settled"}, NEW way \in {"none", "wrapped", "raw"},
         stage' = [stage EXCEPT ![c] = now], path' = [path EXCEPT ![c] = way],
         UNCHANGED <<hop, timings, via, accepted, sessionVars, given, thrown, closes>>,
         made' \in {"none", "making", "rejected", "ready"}, maker' \in {maker, c}
  PROVE  CallEffect(c)
<1>1. stage'[c] = now /\ path'[c] = way
  BY DEF Typed, CallsOK
<1>2. TimingEffect(c)
  <2>1. c \notin Running /\ c \notin Running' /\ c \notin Begun
    BY <1>1 DEF Running, Begun, OnSession
  <2> QED BY <2>1 DEF TimingEffect
<1>3. SessionEffect(c)
  BY <1>1, NoSessionEffect DEF OnSession
<1> QED BY <1>1, <1>2, <1>3 DEF CallEffect, Typed, CallsOK, ClientOK, Stages

\* The first attempt begins.
LEMMA BeginEffect ==
  ASSUME Typed, NEW c \in Calls, Begin(c),
         \/ stage[c] = "requesting" /\ path[c] # "pipelined"
         \/ stage[c] = "awaitingTransport" /\ path[c] = "raw",
         UNCHANGED <<given, made, maker, path, timings, thrown, closes>>
  PROVE  CallEffect(c)
<1>1. /\ Await(c, RouteOf[1], sessionPromise) /\ RouteOf[1] \in Transports
      /\ sessionPromise \in [Transports -> 0..Len(session)]
  BY RouteFacts DEF Begin, Typed, SessionsOK
<1>2. TakesPromise(c, sessionPromise)
  BY DEF TakesPromise, OnSession
<1>3. SessionEffect(c) /\ stage' = [stage EXCEPT ![c] = "awaitingSession"]
      /\ via' = [via EXCEPT ![c] = via'[c]] /\ UNCHANGED accepted
  BY <1>1, <1>2, AwaitEffect
<1>4. stage'[c] = "awaitingSession"
  BY <1>3 DEF Typed, CallsOK
<1>5. TimingEffect(c)
  <2>1. (c \in Running <=> c \in Running') /\ c \in Begun'
    BY <1>4 DEF Running, Begun, OnSession
  <2> QED BY <2>1 DEF TimingEffect
<1>6. hop' \in [Calls -> 0..Len(RouteOf)]
  <2>1. 1 \in 0..Len(RouteOf)
    BY RouteFacts DEF Typed
  <2> QED BY <2>1 DEF Begin, Typed, CallsOK
<1> QED BY <1>3, <1>4, <1>5, <1>6 DEF CallEffect, Typed, CallsOK, ClientOK, Stages

\* What is kept after an attempt: all, or all but the promise of its HTTP session.
LEMMA KeptFacts ==
  ASSUME Typed, NEW c \in Calls, stage[c] \in OnSession
  PROVE  /\ Kept(c) \in [Transports -> 0..Len(session)]
         /\ \A t \in Transports : \/ Kept(c)[t] = sessionPromise[t]
                                  \/ ~Persistent(t) /\ Kept(c)[t] = 0
         /\ path[c] # "pipelined" => \/ Persistent(session[via[c]].transport)
                                     \/ Kept(c)[session[via[c]].transport] = 0
<1> DEFINE u == session[via[c]].transport
<1>1. u \in Transports
  <2>1. via[c] \in 1..Len(session) /\ session \in Seq(Record)
    BY DEF Typed, SessionsOK, CallsOK, Ids
  <2>2. session[via[c]] \in Record
    BY <2>1
  <2> QED BY <2>2 DEF Record
<1>2. sessionPromise \in [Transports -> 0..Len(session)] /\ 0 \in 0..Len(session)
  <2>1. Len(session) \in Nat
    BY DEF Typed, SessionsOK
  <2> QED BY <2>1 DEF Typed, SessionsOK
<1>3. \/ Kept(c) = sessionPromise /\ path[c] = "pipelined"
      \/ Kept(c) = sessionPromise /\ Persistent(u)
      \/ Kept(c) = [sessionPromise EXCEPT ![u] = 0] /\ ~Persistent(u)
  BY DEF Kept, AfterCall
<1> HIDE DEF u
<1>4. /\ Kept(c) \in [Transports -> 0..Len(session)]
      /\ \A t \in Transports : Kept(c)[t] = sessionPromise[t] \/ (~Persistent(t) /\ Kept(c)[t] = 0)
      /\ path[c] # "pipelined" => Persistent(u) \/ Kept(c)[u] = 0
  BY <1>1, <1>2, <1>3
<1> QED BY <1>4 DEF u

\* The attempt is over and there is no other.
LEMMA LeavesEffect ==
  ASSUME Typed, NEW c \in Calls, NEW hooks \in {"responding", "erroring"},
         NEW kept \in [Transports -> 0..Len(session)],
         stage[c] \in OnSession, Leaves(c, hooks), sessionPromise' = kept,
         UNCHANGED <<module, session, cached, pipelineSession>>,
         UNCHANGED <<given, made, maker, thrown, closes>>,
         \A t \in Transports : kept[t] = sessionPromise[t] \/ (~Persistent(t) /\ kept[t] = 0),
         path[c] # "pipelined" => \/ session[via[c]].stage = "failed"
                                 \/ Persistent(session[via[c]].transport)
                                 \/ kept[session[via[c]].transport] = 0
  PROVE  CallEffect(c)
<1>1. /\ via' = [via EXCEPT ![c] = 0] /\ via'[c] = 0
      /\ accepted' = [accepted EXCEPT ![c] = FALSE] /\ hop' = [hop EXCEPT ![c] = 0]
  BY DEF Leaves, Typed, CallsOK
<1>2. PICK now \in {"responding", "erroring", "settled"} :
        stage' = [stage EXCEPT ![c] = now] /\ stage'[c] = now
  BY DEF Leaves, Settled, Typed, CallsOK
<1>3. PICK way \in {path[c], "none"} :
        path' = [path EXCEPT ![c] = way] /\ path'[c] = way /\ way # "pipelined"
  BY DEF Leaves, Settled, Typed, CallsOK
<1>4. TakesPromise(c, kept)
  BY DEF TakesPromise
<1>5. SessionEffect(c)
  BY <1>1, <1>2, <1>4 DEF SessionEffect, OnSession
<1>6. TimingEffect(c) /\ timings' \in Nat
  <2>1. c \notin Running' /\ c \in Begun'
    BY <1>2 DEF Running, Begun, OnSession
  <2>2. c \in Running <=> path[c] = "wrapped"
    BY DEF Running
  <2>3. IF path[c] = "wrapped" THEN TimingEnds ELSE timings' = timings
    BY DEF Leaves
  <2>4. timings' \in Nat
    BY <2>3 DEF TimingEnds, Typed, ClientOK
  <2> QED BY <2>1, <2>2, <2>3, <2>4 DEF TimingEffect
<1>7. hop' \in [Calls -> 0..Len(RouteOf)]
  <2>1. 0 \in 0..Len(RouteOf)
    BY RouteFacts DEF Typed
  <2> QED BY <1>1, <2>1 DEF Typed, CallsOK
<1> QED BY <1>1, <1>2, <1>3, <1>5, <1>6, <1>7 DEF CallEffect, Typed, CallsOK, ClientOK, Stages

\* The attempt fails.
LEMMA FailsEffect ==
  ASSUME Typed, NEW c \in Calls, NEW kept \in [Transports -> 0..Len(session)],
         stage[c] \in OnSession, AttemptFails(c, kept), Unmoved,
         \A t \in Transports : kept[t] = sessionPromise[t] \/ (~Persistent(t) /\ kept[t] = 0),
         path[c] # "pipelined" => \/ session[via[c]].stage = "failed"
                                 \/ Persistent(session[via[c]].transport)
                                 \/ kept[session[via[c]].transport] = 0
  PROVE  CallEffect(c)
<1>1. UNCHANGED <<given, made, maker, thrown, closes>>
  BY DEF Unmoved
<1>2. CASE HasNext(c)
  <2> DEFINE i == hop[c] + 1
  <2>1. i \in 1..Len(RouteOf) /\ i \in 0..Len(RouteOf) /\ path[c] # "pipelined"
    <3>1. hop[c] \in 0..Len(RouteOf) /\ hop[c] < Len(RouteOf) /\ Len(RouteOf) \in Nat
      BY <1>2, RouteFacts DEF HasNext, Typed, CallsOK
    <3> QED BY <1>2, <3>1 DEF HasNext
  <2>2. /\ Await(c, RouteOf[i], kept) /\ hop' = [hop EXCEPT ![c] = i]
        /\ UNCHANGED <<path, timings>>
    BY <1>2 DEF AttemptFails
  <2> HIDE DEF i
  <2>3. RouteOf[i] \in Transports
    BY <2>1, RouteFacts DEF Typed
  <2>4. TakesPromise(c, kept)
    BY DEF TakesPromise
  <2>5. SessionEffect(c) /\ stage' = [stage EXCEPT ![c] = "awaitingSession"]
        /\ via' = [via EXCEPT ![c] = via'[c]] /\ UNCHANGED accepted
    BY <2>1, <2>2, <2>3, <2>4, AwaitEffect
  <2>6. stage'[c] = "awaitingSession"
    BY <2>5 DEF Typed, CallsOK
  <2>7. TimingEffect(c)
    <3>1. (c \in Running <=> c \in Running') /\ c \in Begun'
      BY <2>2, <2>6 DEF Running, Begun, OnSession
    <3> QED BY <1>1, <2>2, <3>1 DEF TimingEffect
  <2>8. hop' \in [Calls -> 0..Len(RouteOf)]
    BY <2>1, <2>2 DEF Typed, CallsOK
  <2> QED BY <1>1, <2>1, <2>2, <2>5, <2>6, <2>7, <2>8
          DEF CallEffect, Typed, CallsOK, ClientOK, Stages
<1>3. CASE ~HasNext(c)
  <2>1. /\ Leaves(c, "erroring") /\ sessionPromise' = kept
        /\ UNCHANGED <<module, session, cached, pipelineSession>>
    BY <1>3 DEF AttemptFails
  <2> QED BY <1>1, <2>1, LeavesEffect
<1> QED BY <1>2, <1>3

\* The hook of the application settles.
LEMMA HookSettlesEffect ==
  ASSUME Typed, NEW c \in Calls, HookSettles(c)
  PROVE  CallEffect(c)
<1>1. CASE Begin(c) /\ UNCHANGED <<path, timings, thrown>> /\ stage[c] = "requesting"
  <2>1. UNCHANGED <<given, made, maker, path, timings, thrown, closes>> /\ path[c] # "pipelined"
    BY <1>1 DEF HookSettles, Typed, CallsOK
  <2> QED BY <1>1, <2>1, BeginEffect
<1>2. CASE /\ stage[c] \in {"requesting", "responding", "erroring"}
           /\ UNCHANGED <<hop, via, accepted, sessionVars>>
           /\ \/ Settled(c) /\ UNCHANGED timings
                 /\ (stage[c] = "requesting" => thrown' = TRUE) /\ thrown' \in {TRUE, thrown}
              \/ /\ stage[c] = "responding" /\ TimingEnds /\ thrown' = TRUE
                 /\ stage' = [stage EXCEPT ![c] = "erroring"] /\ UNCHANGED path
  <2>1. PICK now \in {"erroring", "settled"} :
          stage' = [stage EXCEPT ![c] = now] /\ stage'[c] = now
    BY <1>2 DEF Settled, Typed, CallsOK
  <2>2. PICK way \in {path[c], "none"} : path' = [path EXCEPT ![c] = way] /\ path'[c] = way
    BY <1>2 DEF Settled, Typed, CallsOK
  <2>3. way # "pipelined" /\ UNCHANGED <<given, made, maker, closes>>
    BY <1>2, <2>2 DEF HookSettles, Typed, CallsOK
  <2>4. SessionEffect(c)
    BY <1>2, <2>1, NoSessionEffect DEF OnSession
  <2>5. timings' \in 0..timings /\ timings' \in Nat /\ thrown' \in BOOLEAN
    <3>1. timings' = timings \/ TimingEnds
      BY <1>2
    <3>2. thrown' \in {TRUE, thrown}
      BY <1>2
    <3>3. timings' \in 0..timings /\ timings' \in Nat
      BY <3>1 DEF TimingEnds, Typed, ClientOK
    <3> QED BY <3>2, <3>3 DEF Typed, ClientOK
  <2>6. TimingEffect(c)
    <3>1. c \notin Running' /\ c \in Begun'
      BY <2>1 DEF Running, Begun, OnSession
    <3>2. stage[c] # "requesting" => c \notin Running
      BY <1>2 DEF Running, OnSession
    <3>3. thrown => thrown'
      BY <1>2
    <3>4. thrown' \/ (timings' = timings /\ stage[c] # "requesting")
      BY <1>2
    <3> QED BY <2>5, <3>1, <3>2, <3>3, <3>4 DEF TimingEffect
  <2> QED BY <1>2, <2>1, <2>2, <2>3, <2>4, <2>5, <2>6
          DEF CallEffect, Typed, CallsOK, ClientOK, Stages
<1> QED BY <1>1, <1>2 DEF HookSettles, Typed, ClientOK

\* What a call does that is not pipelined has an effect of that kind.
LEMMA CallEffects ==
  ASSUME Typed, NEW c \in Calls,
         \/ Call(c) \/ TransportArrives(c) \/ HookSettles(c)
         \/ Arrives(c) \/ Unreachable(c) \/ Answer(c) \/ Rejected(c)
  PROVE  CallEffect(c)
<1>1. CASE Call(c)
  <2>1. stage[c] = "idle"
    BY <1>1 DEF Call
  <2>2. CASE Hooked(c)
    BY <2>1, <2>2, HookedEffect
  <2>3. CASE ~Hooked(c)
    <3>1. PICK now \in {"awaitingTransport", "settled"}, way \in {"none", "wrapped", "raw"} :
            stage' = [stage EXCEPT ![c] = now] /\ path' = [path EXCEPT ![c] = way]
      BY <1>1, <2>3 DEF Call, Waits, Refused, Settled
    <3>2. /\ UNCHANGED <<hop, timings, via, accepted, sessionVars, given, thrown, closes>>
          /\ made' \in {"none", "making", "rejected", "ready"} /\ maker' \in {maker, c}
      BY <1>1, <2>3 DEF Call, Waits, Refused, Typed, ClientOK
    <3> QED BY <2>1, <3>1, <3>2, WaitsEffect
  <2> QED BY <2>2, <2>3
<1>2. CASE TransportArrives(c)
  <2>1. stage[c] = "awaitingTransport"
    BY <1>2 DEF TransportArrives
  <2>2. CASE Hooked(c)
    BY <2>1, <2>2, HookedEffect
  <2>3. CASE Begin(c) /\ path[c] = "raw" /\ UNCHANGED <<given, made, maker, path, timings, thrown, closes>>
    BY <2>1, <2>3, BeginEffect
  <2>4. CASE Refused(c) /\ UNCHANGED <<given, made, maker, thrown, closes>>
    <3>1. /\ stage' = [stage EXCEPT ![c] = "settled"] /\ path' = [path EXCEPT ![c] = "none"]
          /\ UNCHANGED <<hop, timings, via, accepted, sessionVars, given, thrown, closes>>
          /\ made' \in {"none", "making", "rejected", "ready"} /\ maker' \in {maker, c}
      BY <2>4 DEF Refused, Settled, Typed, ClientOK
    <3> QED BY <2>1, <3>1, WaitsEffect
  <2> QED BY <1>2, <2>2, <2>3, <2>4 DEF TransportArrives
<1>3. CASE Arrives(c)
  <2>1. /\ stage[c] = "awaitingSession" /\ stage' = [stage EXCEPT ![c] = "inFlight"]
        /\ stage'[c] = "inFlight"
        /\ accepted' = [accepted EXCEPT ![c] = session[via[c]].stage = "open"]
        /\ UNCHANGED <<via, sessionVars, clientVars>>
    BY <1>3 DEF Arrives, SessionArrives, Typed, CallsOK
  <2>2. SessionEffect(c)
    BY <2>1, NoSessionEffect DEF OnSession, clientVars
  <2>3. TimingEffect(c)
    <3>1. (c \in Running <=> c \in Running') /\ c \in Begun'
      BY <2>1 DEF Running, Begun, OnSession, clientVars
    <3> QED BY <2>1, <3>1 DEF TimingEffect, clientVars
  <2>4. accepted' \in [Calls -> BOOLEAN]
    BY <2>1 DEF Typed, CallsOK
  <2>5. via' = [via EXCEPT ![c] = via'[c]] /\ UNCHANGED clientVars
    BY <2>1 DEF Typed, CallsOK
  <2> QED BY <2>1, <2>2, <2>3, <2>4, <2>5
          DEF CallEffect, clientVars, Typed, CallsOK, ClientOK, Stages
<1>4. CASE Unreachable(c)
  <2>1. /\ stage[c] \in OnSession /\ session[via[c]].stage = "failed"
        /\ AttemptFails(c, sessionPromise) /\ Unmoved
    BY <1>4 DEF Unreachable, SessionRejects, OnSession
  <2>2. sessionPromise \in [Transports -> 0..Len(session)]
    BY DEF Typed, SessionsOK
  <2> QED BY <2>1, <2>2, FailsEffect
<1>5. CASE Answer(c) \/ Rejected(c)
  <2>1. stage[c] \in OnSession /\ Unmoved
    BY <1>5 DEF Answer, Rejected, Answerable, Aborted, OnSession
  <2>2. CASE AttemptFails(c, Kept(c))
    BY <2>1, <2>2, KeptFacts, FailsEffect
  <2>3. CASE /\ Leaves(c, "responding") /\ sessionPromise' = Kept(c)
             /\ UNCHANGED <<module, session, cached, pipelineSession>>
    <3>1. UNCHANGED <<given, made, maker, thrown, closes>>
      BY <2>1 DEF Unmoved
    <3> QED BY <2>1, <2>3, <3>1, KeptFacts, LeavesEffect
  <2> QED BY <1>5, <2>2, <2>3 DEF Answer, Rejected
<1>6. CASE HookSettles(c)
  BY <1>6, HookSettlesEffect
<1> QED BY <1>1, <1>2, <1>3, <1>4, <1>5, <1>6

\* Such an effect keeps the types and the sessions there are.
LEMMA EffectTyped ==
  ASSUME Typed, NEW c \in Calls, CallEffect(c)
  PROVE  Typed'
<1>1. PICK kept \in [Transports -> 0..Len(session)] :
        /\ UNCHANGED pipelineSession
        /\ \/ /\ sessionPromise' = kept /\ UNCHANGED <<module, session, cached>>
              /\ via'[c] \in {0, via[c]}
              /\ stage'[c] \in OnSession => via'[c] = via[c] /\ stage[c] \in OnSession
           \/ \E t \in Transports :
                GetSession(t, kept) /\ via'[c] = sessionPromise'[t]
  BY DEF CallEffect, SessionEffect
<1>2. Len(session) \in Nat
  BY DEF Typed, SessionsOK
<1>3. /\ SessionsOK' /\ Len(session') \in Nat /\ Len(session) <= Len(session')
      /\ via'[c] \in 0..Len(session')
      /\ stage'[c] \in OnSession => via'[c] \in Ids'
  <2>1. CASE /\ sessionPromise' = kept /\ UNCHANGED <<module, session, cached>>
             /\ via'[c] \in {0, via[c]}
             /\ stage'[c] \in OnSession => via'[c] = via[c] /\ stage[c] \in OnSession
    <3>1. SessionsOK'
      BY <1>1, <2>1 DEF Typed, SessionsOK
    <3>2. via'[c] \in 0..Len(session') /\ (stage'[c] \in OnSession => via'[c] \in Ids')
      BY <1>2, <2>1 DEF Typed, CallsOK, Ids
    <3> QED BY <1>2, <2>1, <3>1, <3>2
  <2>2. ASSUME NEW t \in Transports, GetSession(t, kept), via'[c] = sessionPromise'[t]
        PROVE  /\ SessionsOK' /\ Len(session') \in Nat /\ Len(session) <= Len(session')
               /\ via'[c] \in Ids'
    BY <1>1, <2>2, GetSessionFacts DEF Typed
  <2>3. Ids' = 1..Len(session')
    BY DEF Ids
  <2> QED BY <1>1, <2>1, <2>2, <2>3
<1>4. ClientOK'
  BY DEF CallEffect, Typed, ClientOK
<1>5. CallsOK'
  <2>1. RouteOf' = RouteOf
    BY DEF RouteOf, CallEffect
  <2>2. \A d \in Calls : d # c => via'[d] = via[d] /\ stage'[d] = stage[d] /\ path'[d] = path[d]
    BY DEF CallEffect, Typed, CallsOK
  <2>3. via' \in [Calls -> 0..Len(session')]
    <3>1. via \in [Calls -> 0..Len(session)] /\ via' = [via EXCEPT ![c] = via'[c]]
      BY DEF CallEffect, Typed, CallsOK
    <3>2. 0..Len(session) \subseteq 0..Len(session')
      BY <1>2, <1>3
    <3> QED BY <1>3, <3>1, <3>2
  <2>4. Ids \subseteq Ids'
    BY <1>2, <1>3 DEF Ids
  <2>5. \A d \in Calls : stage'[d] \in OnSession => via'[d] \in Ids'
    BY <1>3, <2>2, <2>4 DEF Typed, CallsOK
  <2>6. \A d \in Calls : path'[d] = "pipelined" => stage'[d] = "inFlight"
    BY <2>2 DEF CallEffect, Typed, CallsOK
  <2> QED BY <2>1, <2>3, <2>5, <2>6 DEF CallEffect, CallsOK
<1> QED BY <1>3, <1>4, <1>5 DEF Typed

\* A call on the session at hand.
LEMMA PipelinedFacts ==
  ASSUME Typed, NEW c \in Calls, Pipelined(c)
  PROVE  /\ Typed'
         /\ \/ session' = session
            \/ /\ Len(session') = Len(session) + 1 /\ Len(session) \in Nat
               /\ ~Persistent(session'[Len(session')].transport)
         /\ \A s \in Ids : session'[s] = session[s]
         /\ UNCHANGED <<module, sessionPromise, timings, thrown>>
         /\ stage[c] = "idle" /\ stage'[c] = "inFlight" /\ path'[c] = "pipelined"
         /\ \A d \in Calls : d # c => stage'[d] = stage[d] /\ path'[d] = path[d] /\ via'[d] = via[d]
<1> DEFINE v == SyncSession(given)
<1>1. /\ stage[c] = "idle" /\ given \in Transports /\ HasSyncSession(given) /\ GetSessionSync(given)
      /\ stage' = [stage EXCEPT ![c] = "inFlight"] /\ via' = [via EXCEPT ![c] = v]
      /\ accepted' = [accepted EXCEPT ![c] = session'[v].stage = "open"]
      /\ path' = [path EXCEPT ![c] = "pipelined"]
      /\ UNCHANGED <<given, made, maker, hop, timings, thrown, closes, module, sessionPromise, cached>>
  BY DEF Pipelined, SessionAtHand, GetSessionSync, Typed, ClientOK
<1>2. Len(session) \in Nat
  BY DEF Typed, SessionsOK
<1>3. /\ SessionsOK' /\ Len(session') \in Nat /\ Len(session) <= Len(session')
      /\ v \in Ids'
      /\ \A s \in Ids : session'[s] = session[s]
      /\ \/ session' = session
         \/ /\ Len(session') = Len(session) + 1
            /\ ~Persistent(session'[Len(session')].transport)
  <2>1. CASE Persistent(given) \/ pipelineSession[given] # 0
    <3>1. UNCHANGED <<session, pipelineSession>>
      BY <1>1, <2>1 DEF GetSessionSync
    <3>2. v \in 0..Len(session) /\ v # 0
      BY <1>1, <2>1, <3>1 DEF SyncSession, HasSyncSession, Typed, SessionsOK
    <3> QED BY <1>1, <1>2, <3>1, <3>2 DEF Typed, SessionsOK, Ids
  <2>2. CASE ~Persistent(given) /\ pipelineSession[given] = 0
    <3>1. /\ session' = Append(session, New(given, "open"))
          /\ pipelineSession' = [pipelineSession EXCEPT ![given] = Len(session')]
      BY <1>1, <2>2 DEF GetSessionSync
    <3>2. New(given, "open") \in Record /\ New(given, "open").transport = given
      BY <1>1 DEF New, Record, SessionStages
    <3>3. /\ session' \in Seq(Record) /\ Len(session') = Len(session) + 1
          /\ session'[Len(session')].transport = given
          /\ \A s \in 1..Len(session) : session'[s] = session[s]
      BY <3>1, <3>2 DEF Typed, SessionsOK
    <3> DEFINE n == Len(session)
               m == Len(session')
    <3>4. n \in Nat /\ m \in Nat /\ n <= m /\ m \in 1..m /\ m \in 0..m /\ 0..n \subseteq 0..m
      BY <1>2, <3>3
    <3>5. /\ sessionPromise' = sessionPromise /\ sessionPromise \in [Transports -> 0..n]
          /\ cached' = cached /\ cached \in [Transports -> 0..n]
          /\ pipelineSession' = [pipelineSession EXCEPT ![given] = m]
          /\ pipelineSession \in [Transports -> 0..n]
          /\ module' \in {"absent", "loading", "loaded"}
      BY <1>1, <3>1 DEF Typed, SessionsOK
    <3> HIDE DEF n, m
    <3>6. /\ sessionPromise' \in [Transports -> 0..m] /\ cached' \in [Transports -> 0..m]
          /\ pipelineSession' \in [Transports -> 0..m] /\ pipelineSession'[given] = m
      BY <1>1, <3>4, <3>5
    <3>7. SessionsOK'
      BY <3>3, <3>5, <3>6 DEF SessionsOK, m
    <3>8. v = m
      BY <2>2, <3>6 DEF SyncSession
    <3>9. v \in Ids'
      BY <3>4, <3>8 DEF Ids, m
    <3> QED BY <2>2, <3>3, <3>4, <3>7, <3>9 DEF Ids, n, m
  <2> QED BY <2>1, <2>2
<1> HIDE DEF v
<1>4. ClientOK'
  BY <1>1 DEF Typed, ClientOK
<1>5. /\ stage'[c] = "inFlight" /\ path'[c] = "pipelined" /\ via'[c] = v
      /\ \A d \in Calls : d # c => stage'[d] = stage[d] /\ path'[d] = path[d] /\ via'[d] = via[d]
  BY <1>1 DEF Typed, CallsOK
<1>6. CallsOK'
  <2>1. RouteOf' = RouteOf
    BY <1>1 DEF RouteOf
  <2>2. via' \in [Calls -> 0..Len(session')]
    <3>1. via \in [Calls -> 0..Len(session)] /\ v \in 1..Len(session')
      BY <1>3 DEF Typed, CallsOK, Ids
    <3>2. 0..Len(session) \subseteq 0..Len(session') /\ v \in 0..Len(session')
      BY <1>2, <1>3, <3>1
    <3> QED BY <1>1, <3>1, <3>2
  <2>3. Ids \subseteq Ids'
    BY <1>2, <1>3 DEF Ids
  <2>4. \A d \in Calls : stage'[d] \in OnSession => via'[d] \in Ids'
    BY <1>3, <1>5, <2>3 DEF Typed, CallsOK
  <2>5. \A d \in Calls : path'[d] = "pipelined" => stage'[d] = "inFlight"
    BY <1>5 DEF Typed, CallsOK
  <2>6. /\ stage' \in [Calls -> Stages] /\ accepted' \in [Calls -> BOOLEAN]
        /\ path' \in [Calls -> {"none", "pipelined", "wrapped", "raw"}]
        /\ hop' \in [Calls -> 0..Len(RouteOf)]
    BY <1>1 DEF Typed, CallsOK, Stages
  <2> QED BY <2>1, <2>2, <2>4, <2>5, <2>6 DEF CallsOK
<1> QED BY <1>1, <1>2, <1>3, <1>4, <1>5, <1>6 DEF Typed

-----------------------------------------------------------------------------
(* What happens to the sessions beside the calls. *)

\* Sessions move on, promises are kept or dropped.
SessionsMove ==
  /\ session' \in [Ids -> Record]
  /\ \A s \in Ids : /\ session'[s].transport = session[s].transport
                    /\ session[s].stage = "failed" /\ ~Persistent(session[s].transport)
                         => session'[s].stage = "failed"
  /\ \A t \in Transports : sessionPromise'[t] \in {sessionPromise[t], 0}
  /\ UNCHANGED <<callVars, path, hop, given, timings, thrown>>

\* The session of s in a new stage.
LEMMA StageFacts ==
  ASSUME Typed, NEW s \in Ids, NEW now \in SessionStages,
         session' = [session EXCEPT ![s].stage = now]
  PROVE  /\ session' \in [Ids -> Record] /\ session'[s].stage = now
         /\ \A r \in Ids : /\ session'[r].transport = session[r].transport
                           /\ session'[r].doomed = session[r].doomed
                           /\ r # s => session'[r] = session[r]
<1>1. session \in [Ids -> Record] /\ \A r \in Ids : session[r] \in Record
  BY DEF Typed, SessionsOK, Ids
<1>2. session' = [session EXCEPT ![s] = [session[s] EXCEPT !.stage = now]]
  OBVIOUS
<1>3. /\ [session[s] EXCEPT !.stage = now] \in Record
      /\ [session[s] EXCEPT !.stage = now].stage = now
      /\ [session[s] EXCEPT !.stage = now].transport = session[s].transport
      /\ [session[s] EXCEPT !.stage = now].doomed = session[s].doomed
  BY <1>1 DEF Record
<1> DEFINE n == [session[s] EXCEPT !.stage = now]
<1> HIDE DEF n
<1>4. /\ session' = [session EXCEPT ![s] = n] /\ n \in Record /\ n.stage = now
      /\ n.transport = session[s].transport /\ n.doomed = session[s].doomed
  BY <1>2, <1>3 DEF n
<1> QED BY <1>1, <1>4

\* close() of some transports.
LEMMA ClosedFacts ==
  ASSUME Typed, NEW ts, session' = Closed(ts)
  PROVE  /\ session' \in [Ids -> Record]
         /\ \A s \in Ids :
              /\ session'[s].transport = session[s].transport
              /\ session[s].transport \notin ts => session'[s] = session[s]
              /\ Kind[session[s].transport] # "reconnecting" /\ s # sessionPromise[session[s].transport]
                   => session'[s] = session[s]
              /\ session[s].transport \in ts /\ Kind[session[s].transport] # "reconnecting"
                 /\ s = sessionPromise[session[s].transport] =>
                   /\ session'[s].stage \in {"making", "failed", "dead"}
                   /\ session[s].stage = "failed" => session'[s].stage = "failed"
                   /\ session'[s].stage = "making" => session'[s].doomed /\ session[s].stage = "making"
<1>1. session \in [Ids -> Record] /\ \A r \in Ids : session[r] \in Record
  BY DEF Typed, SessionsOK, Ids
<1>2. DOMAIN session' = Ids /\ session' = [s \in Ids |-> session'[s]]
  BY DEF Closed
<1> SUFFICES ASSUME NEW s \in Ids
             PROVE  /\ session'[s] \in Record
                    /\ session'[s].transport = session[s].transport
                    /\ session[s].transport \notin ts => session'[s] = session[s]
                    /\ Kind[session[s].transport] # "reconnecting"
                       /\ s # sessionPromise[session[s].transport] => session'[s] = session[s]
                    /\ session[s].transport \in ts /\ Kind[session[s].transport] # "reconnecting"
                       /\ s = sessionPromise[session[s].transport] =>
                         /\ session'[s].stage \in {"making", "failed", "dead"}
                         /\ session[s].stage = "failed" => session'[s].stage = "failed"
                         /\ session'[s].stage = "making" =>
                              session'[s].doomed /\ session[s].stage = "making"
  BY <1>2
<1>3. PICK r \in Record : r = session[s]
  BY <1>1
<1> DEFINE t == r.transport
<1>4. session'[s] = CASE t \in ts /\ Kind[t] = "reconnecting" /\ s = cached[t] ->
            [r EXCEPT !.stage = "dead"]
       [] t \in ts /\ Kind[t] # "reconnecting" /\ s = sessionPromise[t] ->
            IF r.stage = "making" THEN [r EXCEPT !.doomed = TRUE]
            ELSE [r EXCEPT !.stage = IF r.stage = "failed" THEN r.stage ELSE "dead"]
       [] OTHER -> r
  BY <1>3 DEF Closed
<1>5. CASE t \notin ts
  BY <1>3, <1>4, <1>5
<1>6. CASE t \in ts /\ Kind[t] = "reconnecting"
  <2>1. session'[s] = r \/ session'[s] = [r EXCEPT !.stage = "dead"]
    BY <1>4, <1>6
  <2> QED BY <1>3, <1>6, <2>1 DEF Record, SessionStages
<1>7. CASE t \in ts /\ Kind[t] # "reconnecting" /\ s # sessionPromise[t]
  BY <1>3, <1>4, <1>7
<1>8. CASE t \in ts /\ Kind[t] # "reconnecting" /\ s = sessionPromise[t]
  <2>1. session'[s] = IF r.stage = "making" THEN [r EXCEPT !.doomed = TRUE]
            ELSE [r EXCEPT !.stage = IF r.stage = "failed" THEN r.stage ELSE "dead"]
    BY <1>4, <1>8
  <2>2. CASE r.stage = "making"
    <3>1. session'[s] = [r EXCEPT !.doomed = TRUE]
      BY <2>1, <2>2
    <3> QED BY <1>3, <1>8, <2>2, <3>1 DEF Record, SessionStages
  <2>3. CASE r.stage # "making"
    <3>1. session'[s] \in {[r EXCEPT !.stage = "failed"], [r EXCEPT !.stage = "dead"]}
          /\ (r.stage = "failed" => session'[s] = [r EXCEPT !.stage = "failed"])
      BY <2>1, <2>3
    <3> QED BY <1>3, <1>8, <2>3, <3>1 DEF Record, SessionStages
  <2> QED BY <2>2, <2>3
<1> QED BY <1>5, <1>6, <1>7, <1>8

\* The library arrives.
LEMMA LoadedFacts ==
  ASSUME Typed, ModuleLoaded, UNCHANGED clientVars
  PROVE  /\ SessionsMove /\ cached' \in [Transports -> 0..Len(session)]
         /\ module' = "loaded" /\ UNCHANGED <<sessionPromise, pipelineSession>>
         /\ \A s \in Ids :
              /\ session[s].stage # "making" => session'[s] = session[s]
              /\ session[s].stage = "making" /\ Kind[session[s].transport] # "reconnecting" =>
                   session'[s].stage = IF session[s].doomed THEN "dead" ELSE "open"
<1>1. session \in [Ids -> Record] /\ \A r \in Ids : session[r] \in Record
  BY DEF Typed, SessionsOK, Ids
<1> DEFINE Made(s) == session[s].stage = "making" /\ Kind[session[s].transport] # "reconnecting"
           Now(s) == IF session[s].doomed THEN "dead" ELSE "open"
<1>2. /\ module' = "loaded"
      /\ session' = [s \in Ids |-> IF Made(s) THEN [session[s] EXCEPT !.stage = Now(s)]
                                   ELSE session[s]]
      /\ UNCHANGED <<sessionPromise, pipelineSession, callVars>>
  BY DEF ModuleLoaded
<1>3. ASSUME NEW s \in Ids
      PROVE  /\ session'[s] \in Record /\ session'[s].transport = session[s].transport
             /\ session[s].stage # "making" => session'[s] = session[s]
             /\ Made(s) => session'[s].stage = Now(s)
  <2>1. PICK r \in Record : r = session[s]
    BY <1>1
  <2>2. PICK now \in {"dead", "open"} : now = Now(s)
    OBVIOUS
  <2>3. session'[s] = IF Made(s) THEN [r EXCEPT !.stage = now] ELSE r
    BY <1>2, <2>1, <2>2
  <2>4. Made(s) => r.stage = "making"
    BY <2>1
  <2> HIDE DEF Made, Now
  <2> QED BY <2>1, <2>2, <2>3, <2>4 DEF Record, SessionStages
<1>4. session' \in [Ids -> Record]
  <2> HIDE DEF Made, Now
  <2> QED BY <1>2, <1>3
<1>5. cached' \in [Transports -> 0..Len(session)]
  <2> DEFINE M(t) == {s \in Uses(t) : Made(s)}
             Last(t) == IF Persistent(t) /\ M(t) # {}
                        THEN CHOOSE s \in M(t) : \A r \in M(t) : r <= s ELSE cached[t]
  <2>1. cached' = [t \in Transports |-> Last(t)]
    BY DEF ModuleLoaded
  <2>2. ASSUME NEW t \in Transports PROVE Last(t) \in 0..Len(session)
    <3>1. CASE Persistent(t) /\ M(t) # {}
      <4>1. Len(session) \in Nat /\ M(t) \in SUBSET (1..Len(session))
        BY DEF Typed, SessionsOK, Uses, Ids
      <4>2. PICK x \in M(t) : \A y \in M(t) : y <= x
        BY <3>1, <4>1, LatestOf
      <4> HIDE DEF M
      <4>3. Last(t) \in M(t)
        BY <3>1, <4>2
      <4> QED BY <4>1, <4>3
    <3>2. CASE ~(Persistent(t) /\ M(t) # {})
      <4>1. Last(t) = cached[t]
        BY <3>2
      <4> QED BY <4>1 DEF Typed, SessionsOK
    <3> QED BY <3>1, <3>2
  <2> HIDE DEF Last
  <2> QED BY <2>1, <2>2
<1>6. \A s \in Ids : session[s].stage = "failed" => session'[s].stage = "failed"
  BY <1>3
<1> QED BY <1>2, <1>3, <1>4, <1>5, <1>6 DEF SessionsMove, clientVars

\* The steps in which only the sessions and their promises move.
Environment ==
  \/ FactorySettles \/ Close
  \/ /\ \/ ModuleLoaded \/ ModuleFails \/ PipelineReset
        \/ \E s \in Ids : ReconnectingMade(s) \/ BatchSent(s) \/ SessionEnds(s)
     /\ UNCHANGED clientVars

\* Such a move keeps the types.
LEMMA MoveTyped ==
  ASSUME Typed, SessionsMove,
         module' \in {"absent", "loading", "loaded"},
         sessionPromise' \in [Transports -> 0..Len(session)],
         cached' \in [Transports -> 0..Len(session)],
         pipelineSession' \in [Transports -> 0..Len(session)],
         made' \in {"none", "making", "rejected", "ready"},
         maker' \in Calls \cup {Nobody, Closer}, closes' \in 0..MaxCloses
  PROVE  Typed'
<1>1. session' \in Seq(Record) /\ Len(session') = Len(session) /\ Ids' = Ids
  BY RestagedFacts DEF SessionsMove, Typed
<1>2. SessionsOK'
  BY <1>1 DEF SessionsOK
<1>3. RouteOf' = RouteOf
  BY DEF SessionsMove, RouteOf
<1>4. CallsOK'
  BY <1>1, <1>3 DEF SessionsMove, callVars, Typed, CallsOK
<1>5. ClientOK'
  BY DEF SessionsMove, Typed, ClientOK
<1> QED BY <1>2, <1>4, <1>5 DEF Typed

\* What moves, step by step.
LEMMA EnvironmentFacts ==
  ASSUME Typed, Environment
  PROVE  Typed' /\ SessionsMove
<1>1. /\ session \in [Ids -> Record] /\ Len(session) \in Nat
      /\ module \in {"absent", "loading", "loaded"}
      /\ sessionPromise \in [Transports -> 0..Len(session)]
      /\ cached \in [Transports -> 0..Len(session)]
      /\ pipelineSession \in [Transports -> 0..Len(session)]
      /\ \A r \in Ids : session[r] \in Record
  BY DEF Typed, SessionsOK, Ids
<1>2. ASSUME UNCHANGED <<sessionPromise, pipelineSession, callVars, clientVars>>,
             module' \in {"absent", "loading", "loaded"},
             cached' \in [Transports -> 0..Len(session)], SessionsMove
      PROVE  Typed' /\ SessionsMove
  BY <1>1, <1>2, MoveTyped DEF clientVars, Typed, ClientOK
<1>3. ASSUME NEW s \in Ids, NEW now \in SessionStages, now = "failed" \/ session[s].stage # "failed",
             session' = [session EXCEPT ![s].stage = now],
             UNCHANGED <<sessionPromise, callVars, clientVars>>
      PROVE  SessionsMove
  BY <1>3, StageFacts DEF SessionsMove, clientVars
<1>4. CASE FactorySettles
  <2>1. SessionsMove
    BY <1>1, <1>4 DEF FactorySettles, sessionVars, SessionsMove
  <2>2. UNCHANGED sessionVars /\ made' \in {"ready", "rejected"} /\ UNCHANGED <<maker, closes>>
    BY <1>4 DEF FactorySettles
  <2> QED BY <1>1, <2>1, <2>2, MoveTyped DEF sessionVars, Typed, ClientOK
<1>5. CASE Close
  <2>1. closes' \in 0..MaxCloses
    BY <1>5, RouteAssumption DEF Close, Typed, ClientOK
  <2>2. CASE made = "none" /\ UNCHANGED <<sessionVars, callVars>>
    <3>1. SessionsMove
      BY <1>1, <1>5, <2>2 DEF Close, sessionVars, SessionsMove
    <3>2. made' = "making" /\ maker' = Closer
      BY <1>5, <2>2 DEF Close
    <3> QED BY <1>1, <2>1, <2>2, <3>1, <3>2, MoveTyped DEF sessionVars
  <2>3. CASE made = "ready"
    <3>1. PICK ts : CloseTransports(ts)
      BY <1>5, <2>3 DEF Close
    <3>2. /\ session' = Closed(ts) /\ UNCHANGED <<module, pipelineSession, callVars>>
          /\ sessionPromise' = [t \in Transports |-> IF t \in ts THEN 0 ELSE sessionPromise[t]]
          /\ cached' = [t \in Transports |-> IF t \in ts THEN 0 ELSE cached[t]]
      BY <3>1 DEF CloseTransports
    <3>3. UNCHANGED <<given, path, hop, timings, thrown, made, maker>>
      BY <1>5, <2>3 DEF Close
    <3>4. 0 \in 0..Len(session)
      BY <1>1
    <3>5. /\ sessionPromise' \in [Transports -> 0..Len(session)]
          /\ cached' \in [Transports -> 0..Len(session)]
          /\ \A t \in Transports : sessionPromise'[t] \in {sessionPromise[t], 0}
      BY <1>1, <3>2, <3>4
    <3>6. /\ session' \in [Ids -> Record]
          /\ \A s \in Ids : session'[s].transport = session[s].transport
      BY <3>2, ClosedFacts
    <3>7. ASSUME NEW s \in Ids, session[s].stage = "failed", ~Persistent(session[s].transport)
          PROVE  session'[s].stage = "failed"
      <4>1. Kind[session[s].transport] # "reconnecting"
        BY <3>7 DEF Persistent
      <4> QED BY <3>2, <3>7, <4>1, ClosedFacts
    <3>8. SessionsMove
      BY <3>2, <3>3, <3>5, <3>6, <3>7 DEF SessionsMove
    <3> QED BY <1>1, <2>1, <3>2, <3>3, <3>5, <3>8, MoveTyped DEF Typed, ClientOK
  <2> QED BY <1>5, <2>2, <2>3 DEF Close
<1>6. CASE ModuleLoaded /\ UNCHANGED clientVars
  <2>1. UNCHANGED callVars
    BY <1>6 DEF ModuleLoaded
  <2> QED BY <1>2, <1>6, <2>1, LoadedFacts
<1>7. CASE ModuleFails /\ UNCHANGED clientVars
  <2>1. ASSUME NEW s \in Ids
        PROVE  /\ session'[s] \in Record /\ session'[s].transport = session[s].transport
               /\ session[s].stage = "failed" => session'[s].stage = "failed"
    <3>1. PICK r \in Record : r = session[s]
      BY <1>1
    <3>2. session'[s] = IF r.stage = "making" THEN [r EXCEPT !.stage = "failed"] ELSE r
      BY <1>7, <3>1 DEF ModuleFails
    <3> QED BY <3>1, <3>2 DEF Record, SessionStages
  <2>2. session' = [s \in Ids |-> session'[s]]
    BY <1>7 DEF ModuleFails
  <2>3. session' \in [Ids -> Record]
    BY <2>1, <2>2
  <2>4. UNCHANGED <<sessionPromise, cached, pipelineSession, callVars>> /\ module' = "absent"
    BY <1>7 DEF ModuleFails
  <2>5. SessionsMove
    BY <1>7, <2>1, <2>3, <2>4 DEF SessionsMove, clientVars
  <2> QED BY <1>1, <1>2, <1>7, <2>4, <2>5
<1>8. CASE PipelineReset /\ UNCHANGED clientVars
  <2>1. /\ UNCHANGED <<module, session, sessionPromise, cached, callVars>>
        /\ pipelineSession' = [t \in Transports |-> 0]
    BY <1>8 DEF PipelineReset
  <2>2. SessionsMove
    BY <1>1, <1>8, <2>1 DEF SessionsMove, clientVars
  <2>3. 0 \in 0..Len(session)
    BY <1>1
  <2>4. pipelineSession' \in [Transports -> 0..Len(session)]
    BY <2>1, <2>3
  <2> QED BY <1>1, <1>8, <2>1, <2>2, <2>4, MoveTyped DEF clientVars, Typed, ClientOK
<1>9. ASSUME NEW s \in Ids, ReconnectingMade(s), UNCHANGED clientVars PROVE Typed' /\ SessionsMove
  <2>1. /\ session' = [session EXCEPT ![s].stage = "open"] /\ session[s].stage = "making"
        /\ UNCHANGED <<module, sessionPromise, pipelineSession, callVars>>
        /\ cached' = [cached EXCEPT ![session[s].transport] = s]
    BY <1>9 DEF ReconnectingMade
  <2>2. SessionsMove
    BY <1>3, <1>9, <2>1 DEF SessionStages
  <2>3. s \in 0..Len(session)
    BY <1>1 DEF Ids
  <2>4. cached' \in [Transports -> 0..Len(session)]
    BY <1>1, <2>1, <2>3
  <2> QED BY <1>1, <1>2, <1>9, <2>1, <2>2, <2>4
<1>10. ASSUME NEW s \in Ids, BatchSent(s) \/ SessionEnds(s), UNCHANGED clientVars
       PROVE  Typed' /\ SessionsMove
  <2>1. PICK now \in {"sent", "dead"} : session' = [session EXCEPT ![s].stage = now]
    BY <1>10 DEF BatchSent, SessionEnds
  <2>2. /\ session[s].stage # "failed"
        /\ UNCHANGED <<module, sessionPromise, cached, pipelineSession, callVars>>
    BY <1>10 DEF BatchSent, SessionEnds
  <2>3. SessionsMove
    BY <1>3, <1>10, <2>1, <2>2 DEF SessionStages
  <2> QED BY <1>1, <1>2, <1>10, <2>2, <2>3
<1> QED BY <1>4, <1>5, <1>6, <1>7, <1>8, <1>9, <1>10 DEF Environment

-----------------------------------------------------------------------------
(* Type correctness, and the timings. *)

\* There are as many entries as calls that have begun, at most.
BegunInv == timings <= Cardinality(Begun)

\* A step is that of a call or of its surroundings.
LEMMA Steps ==
  ASSUME Typed, [Next]_vars
  PROVE  \/ \E c \in Calls : CallEffect(c) \/ Pipelined(c)
         \/ Environment
         \/ UNCHANGED vars
<1>1. ASSUME NEW c \in Calls,
             \/ Call(c) \/ TransportArrives(c) \/ HookSettles(c)
             \/ Arrives(c) \/ Unreachable(c) \/ Answer(c) \/ Rejected(c)
      PROVE  CallEffect(c)
  BY <1>1, CallEffects
<1> QED BY <1>1 DEF Next, Environment

\* Every step keeps the types: a call or the environment makes it.
LEMMA TypedStep ==
  ASSUME Typed, [Next]_vars
  PROVE  Typed'
<1>1. ASSUME NEW c \in Calls, CallEffect(c) PROVE Typed'
  BY <1>1, EffectTyped
<1>2. ASSUME NEW c \in Calls, Pipelined(c) PROVE Typed'
  BY <1>2, PipelinedFacts
<1>3. CASE Environment
  BY <1>3, EnvironmentFacts
<1>4. CASE UNCHANGED vars
  <2>1. RouteOf' = RouteOf /\ Ids' = Ids
    BY <1>4 DEF vars, clientVars, sessionVars, RouteOf, Ids
  <2>2. SessionsOK' /\ ClientOK'
    BY <1>4 DEF vars, clientVars, sessionVars, Typed, SessionsOK, ClientOK
  <2>3. CallsOK'
    BY <1>4, <2>1 DEF vars, clientVars, sessionVars, callVars, Typed, CallsOK
  <2> QED BY <2>2, <2>3 DEF Typed
<1> QED BY <1>1, <1>2, <1>3, <1>4, Steps

\* The clients rpc() and withMiddleware() make are typed.
LEMMA TypedInit == Init => Typed
<1> SUFFICES ASSUME Init PROVE Typed
  OBVIOUS
<1> DEFINE primed == IF given = Factory THEN {} ELSE {given}
<1>1. SessionsInit(primed) /\ given \in Transports \cup {Factory}
  BY DEF Init
<1> DEFINE begun == {t \in primed : Persistent(t)}
<1>2. \/ begun = {} /\ session = <<>>
      \/ \E t \in begun : session = <<New(t, IF MadeAtOnce(t) THEN "open" ELSE "making")>>
  BY <1>1 DEF SessionsInit
<1>3. begun \subseteq Transports
  BY <1>1
<1>4. /\ module \in {"absent", "loading", "loaded"}
      /\ sessionPromise = [t \in Transports |-> IF t \in begun THEN 1 ELSE 0]
      /\ cached = [t \in Transports |-> IF t \in begun /\ MadeAtOnce(t) THEN 1 ELSE 0]
      /\ pipelineSession = [t \in Transports |-> 0]
      /\ stage = [c \in Calls |-> "idle"] /\ via = [c \in Calls |-> 0]
      /\ accepted = [c \in Calls |-> FALSE]
  BY <1>1 DEF SessionsInit
<1>5. ASSUME NEW t \in Transports PROVE \A now \in SessionStages : New(t, now) \in Record
  BY DEF New, Record
<1> HIDE DEF begun, primed
<1>6. session \in Seq(Record) /\ Len(session) \in Nat /\ (begun # {} => Len(session) = 1)
  <2>1. CASE begun = {} /\ session = <<>>
    BY <2>1
  <2>2. ASSUME NEW t \in begun, NEW now \in {"open", "making"}, session = <<New(t, now)>>
        PROVE  session \in Seq(Record) /\ Len(session) = 1
    <3>1. New(t, now) \in Record
      BY <1>3, <1>5 DEF SessionStages
    <3> QED BY <2>2, <3>1
  <2> QED BY <1>2, <2>1, <2>2
<1>7. SessionsOK
  <2>1. 0 \in 0..Len(session)
    BY <1>6
  <2>2. ASSUME begun # {} PROVE 1 \in 0..Len(session)
    <3>1. Len(session) = 1
      BY <1>6, <2>2
    <3> QED BY <3>1
  <2> QED BY <1>4, <1>6, <2>1, <2>2 DEF SessionsOK
<1>8. ClientOK
  <2>1. timings \in Nat /\ thrown \in BOOLEAN /\ closes \in 0..MaxCloses
    <3>1. timings = 0 /\ thrown = FALSE /\ closes = 0
      BY DEF Init
    <3>2. MaxCloses \in Nat
      BY RouteAssumption
    <3>3. closes \in 0..MaxCloses
      BY <3>1, <3>2
    <3> QED BY <3>1, <3>3
  <2>2. made \in {"none", "making", "rejected", "ready"} /\ maker \in Calls \cup {Nobody, Closer}
    BY DEF Init
  <2> QED BY <1>1, <2>1, <2>2 DEF ClientOK
<1>9. CallsOK
  <2>1. 0 \in 0..Len(session) /\ 0 \in 0..Len(RouteOf)
    BY <1>6, <1>8, RouteFacts
  <2> QED BY <1>4, <2>1 DEF Init, CallsOK, Stages, OnSession
<1> QED BY <1>7, <1>8, <1>9 DEF Typed

\* A call that is not disturbed by its own step keeps its place in both sets.
LEMMA OthersKept ==
  ASSUME NEW c \in Calls,
         \A d \in Calls : d # c => stage'[d] = stage[d] /\ path'[d] = path[d]
  PROVE  \A d \in Calls : d # c => (d \in Begun <=> d \in Begun') /\ (d \in Running <=> d \in Running')
  BY DEF Begun, Running

\* A set with one element more or less, and its size.
LEMMA SizeFacts ==
  ASSUME NEW S \in SUBSET Calls, NEW T \in SUBSET Calls, IsFiniteSet(Calls), NEW c \in Calls,
         \A d \in Calls : d # c => (d \in S <=> d \in T)
  PROVE  /\ Cardinality(S) \in Nat /\ Cardinality(T) \in Nat
         /\ c \notin S /\ c \in T => Cardinality(T) = Cardinality(S) + 1
         /\ c \in S /\ c \notin T => Cardinality(S) = Cardinality(T) + 1
         /\ (c \in S <=> c \in T) => Cardinality(T) = Cardinality(S)
<1>1. IsFiniteSet(S) /\ IsFiniteSet(T)
  BY FS_Subset
<1>2. Cardinality(S) \in Nat /\ Cardinality(T) \in Nat
  BY <1>1, FS_CardinalityType
<1>3. ASSUME c \notin S, c \in T PROVE Cardinality(T) = Cardinality(S) + 1
  <2>1. T = S \cup {c}
    BY <1>3
  <2> QED BY <1>1, <1>3, <2>1, FS_AddElement
<1>4. ASSUME c \in S, c \notin T PROVE Cardinality(S) = Cardinality(T) + 1
  <2>1. S = T \cup {c}
    BY <1>4
  <2> QED BY <1>1, <1>4, <2>1, FS_AddElement
<1>5. ASSUME c \in S <=> c \in T PROVE S = T
  BY <1>5
<1> QED BY <1>2, <1>3, <1>4, <1>5

\* Both bounds on the timings are kept by a call's effect.
LEMMA TimingsEffect ==
  ASSUME Typed, IsFiniteSet(Calls), NEW c \in Calls, CallEffect(c)
  PROVE  /\ BegunInv => BegunInv'
         /\ TimingsAccounted => TimingsAccounted'
<1>1. \A d \in Calls : d # c => (d \in Begun <=> d \in Begun') /\ (d \in Running <=> d \in Running')
  BY OthersKept DEF CallEffect
<1>2. TimingEffect(c) /\ timings' \in Nat /\ timings \in Nat
  BY DEF CallEffect, Typed, ClientOK
<1> DEFINE B == Begun
           C == Begun'
           R == Running
           S == Running'
<1>3. B \in SUBSET Calls /\ C \in SUBSET Calls /\ R \in SUBSET Calls /\ S \in SUBSET Calls
  BY DEF Begun, Running
<1>4. (BegunInv <=> timings <= Cardinality(B)) /\ (BegunInv' <=> timings' <= Cardinality(C))
  BY DEF BegunInv
<1>5. /\ TimingsAccounted <=> (~thrown => timings <= Cardinality(R))
      /\ TimingsAccounted' <=> (~thrown' => timings' <= Cardinality(S))
  BY DEF TimingsAccounted, Running, OnSession
<1>6. /\ c \in B <=> c \in Begun
      /\ c \in C <=> c \in Begun'
      /\ c \in R <=> c \in Running
      /\ c \in S <=> c \in Running'
      /\ \A d \in Calls : d # c => (d \in B <=> d \in C) /\ (d \in R <=> d \in S)
  BY <1>1
<1> HIDE DEF B, C, R, S
<1>7. /\ Cardinality(B) \in Nat /\ Cardinality(C) \in Nat
      /\ c \notin B /\ c \in C => Cardinality(C) = Cardinality(B) + 1
      /\ (c \in B <=> c \in C) => Cardinality(C) = Cardinality(B)
  BY <1>3, <1>6, SizeFacts
<1>8. /\ Cardinality(R) \in Nat /\ Cardinality(S) \in Nat
      /\ c \notin R /\ c \in S => Cardinality(S) = Cardinality(R) + 1
      /\ c \in R /\ c \notin S => Cardinality(R) = Cardinality(S) + 1
      /\ (c \in R <=> c \in S) => Cardinality(S) = Cardinality(R)
  BY <1>3, <1>6, SizeFacts
<1>9. /\ thrown => thrown'
      /\ c \in B => c \in C
      /\ \/ c \notin R /\ c \in S /\ c \notin B /\ c \in C /\ timings' \in 0..(timings + 1)
         \/ c \in R /\ c \notin S /\ timings' = IF timings = 0 THEN 0 ELSE timings - 1
         \/ (c \in R <=> c \in S) /\ timings' = timings
         \/ thrown' /\ timings' \in 0..timings
  BY <1>2, <1>6 DEF TimingEffect, TimingEnds
<1>10. BegunInv => BegunInv'
  <2>1. Cardinality(B) <= Cardinality(C)
    BY <1>7, <1>9
  <2>2. timings' <= timings \/ (Cardinality(C) = Cardinality(B) + 1 /\ timings' <= timings + 1)
    BY <1>2, <1>7, <1>9
  <2> QED BY <1>2, <1>4, <1>7, <2>1, <2>2
<1>11. TimingsAccounted => TimingsAccounted'
  <2> SUFFICES ASSUME TimingsAccounted, ~thrown' PROVE timings' <= Cardinality(S)
    BY <1>5
  <2>1. timings <= Cardinality(R)
    BY <1>5, <1>9
  <2> QED BY <1>2, <1>8, <1>9, <2>1
<1> QED BY <1>10, <1>11

\* And by every step.
LEMMA TimingsStep ==
  ASSUME Typed, IsFiniteSet(Calls), [Next]_vars
  PROVE  /\ BegunInv => BegunInv'
         /\ TimingsAccounted => TimingsAccounted'
<1>1. ASSUME NEW c \in Calls, CallEffect(c)
      PROVE  (BegunInv => BegunInv') /\ (TimingsAccounted => TimingsAccounted')
  BY <1>1, TimingsEffect
<1>2. ASSUME NEW c \in Calls, Pipelined(c)
      PROVE  (BegunInv => BegunInv') /\ (TimingsAccounted => TimingsAccounted')
  <2>1. /\ UNCHANGED <<timings, thrown>>
        /\ stage[c] = "idle" /\ stage'[c] = "inFlight" /\ path'[c] = "pipelined"
        /\ \A d \in Calls : d # c => stage'[d] = stage[d] /\ path'[d] = path[d]
    BY <1>2, PipelinedFacts
  <2>2. Running' = Running
    BY <2>1 DEF Running, OnSession
  <2>3. TimingsAccounted => TimingsAccounted'
    BY <2>1, <2>2 DEF TimingsAccounted, Running, OnSession
  <2>4. /\ \A d \in Calls : d # c => (d \in Begun <=> d \in Begun')
        /\ c \notin Begun /\ c \in Begun' /\ Begun \in SUBSET Calls /\ Begun' \in SUBSET Calls
    BY <2>1 DEF Begun
  <2> DEFINE B == Begun
             C == Begun'
  <2>5. /\ c \notin B /\ c \in C /\ B \in SUBSET Calls /\ C \in SUBSET Calls
        /\ \A d \in Calls : d # c => (d \in B <=> d \in C)
        /\ BegunInv <=> timings <= Cardinality(B)
        /\ BegunInv' <=> timings <= Cardinality(C)
        /\ timings \in Nat
    BY <2>1, <2>4 DEF BegunInv, Typed, ClientOK
  <2> HIDE DEF B, C
  <2>6. /\ Cardinality(B) \in Nat /\ Cardinality(C) \in Nat
        /\ Cardinality(C) = Cardinality(B) + 1
    BY <2>5, SizeFacts
  <2>7. BegunInv => BegunInv'
    BY <2>5, <2>6
  <2> QED BY <2>3, <2>7
<1>3. ASSUME UNCHANGED <<stage, path, timings, thrown>>
      PROVE  (BegunInv => BegunInv') /\ (TimingsAccounted => TimingsAccounted')
  BY <1>3 DEF BegunInv, Begun, TimingsAccounted
<1>4. CASE Environment
  BY <1>3, <1>4, EnvironmentFacts DEF SessionsMove, callVars
<1>5. CASE UNCHANGED vars
  BY <1>3, <1>5 DEF vars, callVars, clientVars
<1> QED BY <1>1, <1>2, <1>4, <1>5, Steps

\* Typed is preserved for ever.
LEMMA AlwaysTyped == Spec => []Typed
<1>1. Typed /\ [Next]_vars => Typed'
  BY TypedStep
<1> QED BY <1>1, TypedInit, PTL DEF Spec

\* Every reachable state is typed, for any transports, composites and bounds and
\* finitely many calls: no loop of composite() runs past its last transport, and the
\* timing has no more entries than there are calls.
THEOREM TypeCorrect ==
  ASSUME IsFiniteSet(Calls)
  PROVE  Spec => []TypeOK
<1>1. Init => BegunInv
  <2> SUFFICES ASSUME Init PROVE BegunInv
    OBVIOUS
  <2>1. timings = 0 /\ Begun = {}
    BY DEF Init, SessionsInit, Begun
  <2>2. timings <= Cardinality(Begun)
    BY <2>1, FS_EmptySet
  <2> QED BY <2>2 DEF BegunInv
<1>2. Typed /\ BegunInv /\ [Next]_vars => BegunInv'
  BY TimingsStep
<1>3. Typed /\ BegunInv => TypeOK
  <2> SUFFICES ASSUME Typed, BegunInv PROVE TypeOK
    OBVIOUS
  <2>1. timings \in 0..Cardinality(Calls)
    <3>1. Begun \subseteq Calls
      BY DEF Begun
    <3>2. Cardinality(Begun) <= Cardinality(Calls) /\ IsFiniteSet(Begun)
      BY <3>1, FS_Subset
    <3>3. Cardinality(Begun) \in Nat /\ Cardinality(Calls) \in Nat
      BY <3>2, FS_CardinalityType
    <3>4. timings \in Nat /\ timings <= Cardinality(Begun)
      BY DEF Typed, ClientOK, BegunInv
    <3> QED BY <3>2, <3>3, <3>4
  <2>2. SessionsTypeOK
    BY DEF Typed, SessionsOK, CallsOK, SessionsTypeOK, Record
  <2> QED BY <2>1, <2>2 DEF Typed, CallsOK, ClientOK, TypeOK
<1> QED BY <1>1, <1>2, <1>3, AlwaysTyped, PTL DEF Spec

\* For any finitely many calls, and as long as no hook throws, timingMiddleware()
\* has no more entries than calls under way.
THEOREM TimingsAreAccounted ==
  ASSUME IsFiniteSet(Calls)
  PROVE  Spec => []TimingsAccounted
<1>1. Init => TimingsAccounted
  <2> SUFFICES ASSUME Init PROVE TimingsAccounted
    OBVIOUS
  <2>1. timings = 0 /\ \A c \in Calls : stage[c] = "idle"
    BY DEF Init, SessionsInit
  <2>2. {c \in Calls : path[c] = "wrapped" /\
               stage[c] \in {"requesting", "awaitingSession", "inFlight"}} = {}
    BY <2>1
  <2> QED BY <2>1, <2>2, FS_EmptySet DEF TimingsAccounted
<1>2. Typed /\ TimingsAccounted /\ [Next]_vars => TimingsAccounted'
  BY TimingsStep
<1> QED BY <1>1, <1>2, AlwaysTyped, PTL DEF Spec

-----------------------------------------------------------------------------
(* The socket of capnweb() *)

\* An open socket is that of the promise kept, and a session that is being made is
\* that or will be disposed of; there is none of these once the library is there.
SocketInv ==
  \A s \in Ids : Kind[session[s].transport] = "ws" =>
    /\ session[s].stage = "open" => s = sessionPromise[session[s].transport]
    /\ session[s].stage = "making" =>
         /\ module = "loading"
         /\ s = sessionPromise[session[s].transport] \/ session[s].doomed

\* A call makes a session only where no promise is kept.
LEMMA SocketEffect ==
  ASSUME Typed, SocketInv, NEW c \in Calls, CallEffect(c)
  PROVE  SocketInv'
<1>1. PICK kept \in [Transports -> 0..Len(session)] :
        /\ \A t \in Transports : kept[t] = sessionPromise[t] \/ (~Persistent(t) /\ kept[t] = 0)
        /\ UNCHANGED pipelineSession
        /\ \/ sessionPromise' = kept /\ UNCHANGED <<module, session>>
           \/ \E t \in Transports : GetSession(t, kept)
  BY DEF CallEffect, SessionEffect
<1>2. \A t \in Transports : Kind[t] = "ws" => kept[t] = sessionPromise[t]
  BY <1>1 DEF Persistent
<1>3. \A s \in Ids : session[s].transport \in Transports
  <2>1. \A s \in Ids : session[s] \in Record
    BY DEF Typed, SessionsOK, Ids
  <2> QED BY <2>1 DEF Record
<1>4. CASE sessionPromise' = kept /\ UNCHANGED <<module, session>>
  BY <1>2, <1>3, <1>4 DEF SocketInv, Ids
<1>5. ASSUME NEW t \in Transports, GetSession(t, kept) PROVE SocketInv'
  <2>1. /\ Len(session) \in Nat /\ Len(session') \in Nat
        /\ \A s \in Ids : session'[s] = session[s]
        /\ \A u \in Transports : u # t => sessionPromise'[u] = kept[u]
        /\ module = "loading" => module' = "loading"
        /\ \/ kept[t] # 0 /\ sessionPromise' = kept /\ session' = session
           \/ /\ kept[t] = 0 /\ Len(session') = Len(session) + 1
              /\ sessionPromise'[t] = Len(session')
              /\ session'[Len(session')] = New(t, IF MadeAtOnce(t) THEN "open" ELSE "making")
              /\ module # "loaded" => module' = "loading"
    BY <1>1, <1>5, GetSessionFacts DEF Typed
  <2>2. CASE sessionPromise' = kept /\ session' = session
    BY <1>2, <1>3, <2>1, <2>2 DEF SocketInv, Ids
  <2>3. CASE /\ kept[t] = 0 /\ Len(session') = Len(session) + 1
             /\ sessionPromise'[t] = Len(session')
             /\ session'[Len(session')] = New(t, IF MadeAtOnce(t) THEN "open" ELSE "making")
             /\ module # "loaded" => module' = "loading"
    <3>1. ASSUME NEW s \in Ids, Kind[session[s].transport] = "ws"
          PROVE  /\ session[s].stage = "open" => s = sessionPromise'[session[s].transport]
                 /\ session[s].stage = "making" =>
                      /\ module' = "loading"
                      /\ s = sessionPromise'[session[s].transport] \/ session[s].doomed
      <4>1. s # 0
        BY DEF Ids
      <4>2. CASE session[s].transport = t
        <5>1. sessionPromise[t] = 0
          BY <1>2, <2>3, <3>1, <4>2
        <5> QED BY <2>1, <3>1, <4>1, <4>2, <5>1 DEF SocketInv
      <4>3. CASE session[s].transport # t
        <5>1. sessionPromise'[session[s].transport] = sessionPromise[session[s].transport]
          BY <1>2, <1>3, <2>1, <3>1, <4>3
        <5> QED BY <2>1, <3>1, <5>1 DEF SocketInv
      <4> QED BY <4>2, <4>3
    <3> DEFINE m == Len(session')
    <3>2. /\ session'[m].transport = t /\ sessionPromise'[t] = m
          /\ Kind[t] = "ws" /\ session'[m].stage = "making" => module' = "loading"
      BY <2>3 DEF New, MadeAtOnce
    <3>3. \A s \in Ids' : s \in Ids \/ s = m
      BY <2>1, <2>3 DEF Ids
    <3> HIDE DEF m
    <3>4. ASSUME NEW s \in Ids', Kind[session'[s].transport] = "ws"
          PROVE  /\ session'[s].stage = "open" => s = sessionPromise'[session'[s].transport]
                 /\ session'[s].stage = "making" =>
                      /\ module' = "loading"
                      /\ s = sessionPromise'[session'[s].transport] \/ session'[s].doomed
      <4>1. CASE s \in Ids
        BY <2>1, <3>1, <3>4, <4>1
      <4>2. CASE s = m
        BY <3>2, <3>4, <4>2
      <4> QED BY <3>3, <4>1, <4>2
    <3> QED BY <3>4 DEF SocketInv
  <2> QED BY <2>1, <2>2, <2>3
<1> QED BY <1>1, <1>4, <1>5

\* close() and the loader are what its doomed sessions are about.
LEMMA SocketEnvironment ==
  ASSUME Typed, SocketInv, Environment
  PROVE  SocketInv'
<1>1. Ids' = Ids
  BY EnvironmentFacts, RestagedFacts DEF SessionsMove, Typed
<1>2. \A s \in Ids : /\ session'[s].transport = session[s].transport
                    /\ session[s].transport \in Transports
  <2>1. \A s \in Ids : session[s] \in Record
    BY DEF Typed, SessionsOK, Ids
  <2> QED BY <2>1, EnvironmentFacts DEF SessionsMove, Record
<1>3. ASSUME UNCHANGED <<module, sessionPromise>>,
             \A s \in Ids : Kind[session[s].transport] = "ws" =>
               \/ session'[s] = session[s]
               \/ session'[s].stage \notin {"open", "making"}
      PROVE  SocketInv'
  BY <1>1, <1>2, <1>3 DEF SocketInv
<1>4. CASE FactorySettles
  BY <1>3, <1>4 DEF FactorySettles, sessionVars
<1>5. CASE Close
  <2>1. CASE UNCHANGED sessionVars
    BY <1>3, <2>1 DEF sessionVars
  <2>2. ASSUME NEW ts, CloseTransports(ts) PROVE SocketInv'
    <3>1. /\ session' = Closed(ts) /\ module' = module
          /\ \A t \in Transports : sessionPromise'[t] = IF t \in ts THEN 0 ELSE sessionPromise[t]
      BY <2>2 DEF CloseTransports
    <3>2. ASSUME NEW s \in Ids, Kind[session'[s].transport] = "ws"
          PROVE  /\ session'[s].stage = "open" => s = sessionPromise'[session'[s].transport]
                 /\ session'[s].stage = "making" =>
                      /\ module' = "loading"
                      /\ s = sessionPromise'[session'[s].transport] \/ session'[s].doomed
      <4>1. PICK t \in Transports : t = session[s].transport /\ t = session'[s].transport
        BY <1>2
      <4>2. CASE t \notin ts
        <5>1. session'[s] = session[s] /\ sessionPromise'[t] = sessionPromise[t]
          BY <3>1, <4>1, <4>2, ClosedFacts
        <5> QED BY <3>1, <3>2, <4>1, <5>1 DEF SocketInv
      <4>3. CASE t \in ts /\ s # sessionPromise[t]
        <5>1. session'[s] = session[s]
          BY <3>1, <3>2, <4>1, <4>3, ClosedFacts
        <5> QED BY <3>1, <3>2, <4>1, <4>3, <5>1 DEF SocketInv
      <4>4. CASE t \in ts /\ s = sessionPromise[t]
        <5>1. /\ session'[s].stage \in {"making", "failed", "dead"}
              /\ session'[s].stage = "making" => session'[s].doomed /\ session[s].stage = "making"
          BY <3>1, <3>2, <4>1, <4>4, ClosedFacts
        <5> QED BY <3>1, <3>2, <4>1, <5>1 DEF SocketInv
      <4> QED BY <4>2, <4>3, <4>4
    <3> QED BY <1>1, <3>2 DEF SocketInv
  <2> QED BY <1>5, <2>1, <2>2 DEF Close
<1>6. CASE ModuleLoaded /\ UNCHANGED clientVars
  <2>1. /\ UNCHANGED sessionPromise
        /\ \A s \in Ids :
              /\ session[s].stage # "making" => session'[s] = session[s]
              /\ session[s].stage = "making" /\ Kind[session[s].transport] # "reconnecting" =>
                   session'[s].stage = IF session[s].doomed THEN "dead" ELSE "open"
    BY <1>6, LoadedFacts
  <2> QED BY <1>1, <1>2, <2>1 DEF SocketInv
<1>7. CASE ModuleFails
  <2>1. /\ UNCHANGED sessionPromise
        /\ \A s \in Ids : session'[s] = IF session[s].stage = "making"
                          THEN [session[s] EXCEPT !.stage = "failed"] ELSE session[s]
    BY <1>7 DEF ModuleFails
  <2>2. ASSUME NEW s \in Ids
        PROVE  IF session[s].stage = "making" THEN session'[s].stage = "failed"
               ELSE session'[s] = session[s]
    <3>1. PICK r \in Record : r = session[s]
      BY DEF Typed, SessionsOK, Ids
    <3> QED BY <2>1, <3>1 DEF Record
  <2> QED BY <1>1, <1>2, <2>1, <2>2 DEF SocketInv
<1>8. CASE PipelineReset
  BY <1>3, <1>8 DEF PipelineReset
<1>9. ASSUME NEW s \in Ids, ReconnectingMade(s) PROVE SocketInv'
  <2>1. /\ session' = [session EXCEPT ![s].stage = "open"] /\ UNCHANGED <<module, sessionPromise>>
        /\ Kind[session[s].transport] = "reconnecting"
    BY <1>9 DEF ReconnectingMade
  <2>2. \A r \in Ids : r # s => session'[r] = session[r]
    BY <2>1, StageFacts DEF SessionStages
  <2> QED BY <1>3, <2>1, <2>2
<1>10. ASSUME NEW s \in Ids, BatchSent(s) \/ SessionEnds(s) PROVE SocketInv'
  <2>1. PICK now \in {"sent", "dead"} :
          session' = [session EXCEPT ![s].stage = now] /\ UNCHANGED <<module, sessionPromise>>
    BY <1>10 DEF BatchSent, SessionEnds
  <2>2. session'[s].stage = now /\ \A r \in Ids : r # s => session'[r] = session[r]
    BY <2>1, StageFacts DEF SessionStages
  <2> QED BY <1>3, <2>1, <2>2
<1> QED BY <1>4, <1>5, <1>6, <1>7, <1>8, <1>9, <1>10 DEF Environment

\* However often it is closed and called while the library loads, a transport of
\* capnweb() has one live socket at most.
THEOREM OneSocketEach == Spec => []OneLiveSocket
<1>1. Init => SocketInv
  <2> SUFFICES ASSUME Init PROVE SocketInv
    OBVIOUS
  <2> DEFINE primed == IF given = Factory THEN {} ELSE {given}
             begun == {t \in primed : Persistent(t)}
  <2>1. /\ SessionsInit(primed) /\ given \in Transports \cup {Factory}
    BY DEF Init
  <2>2. /\ module \in {"loaded", IF primed = {} THEN "absent" ELSE "loading"}
        /\ \/ session = <<>>
           \/ \E t \in begun : session = <<New(t, IF MadeAtOnce(t) THEN "open" ELSE "making")>>
        /\ sessionPromise = [t \in Transports |-> IF t \in begun THEN 1 ELSE 0]
    BY <2>1 DEF SessionsInit
  <2>3. CASE session = <<>>
    BY <2>3 DEF SocketInv, Ids
  <2>4. ASSUME NEW t \in begun, session = <<New(t, IF MadeAtOnce(t) THEN "open" ELSE "making")>>
        PROVE  SocketInv
    <3>1. Ids = {1} /\ t \in Transports /\ primed # {}
      BY <2>1, <2>4 DEF Ids
    <3>2. /\ session[1].transport = t /\ sessionPromise[t] = 1
          /\ session[1].stage = "making" /\ Kind[t] = "ws" => module # "loaded"
      BY <2>2, <2>4, <3>1 DEF New, MadeAtOnce
    <3>3. module # "loaded" => module = "loading"
      BY <2>2, <3>1
    <3> HIDE DEF primed, begun
    <3> QED BY <3>1, <3>2, <3>3 DEF SocketInv
  <2> QED BY <2>2, <2>3, <2>4
<1>2. Typed /\ SocketInv /\ [Next]_vars => SocketInv'
  <2> SUFFICES ASSUME Typed, SocketInv, [Next]_vars PROVE SocketInv'
    OBVIOUS
  <2>1. ASSUME NEW c \in Calls, Pipelined(c) PROVE SocketInv'
    <3>1. /\ \/ session' = session
             \/ /\ Len(session') = Len(session) + 1 /\ Len(session) \in Nat
                /\ ~Persistent(session'[Len(session')].transport)
          /\ \A s \in Ids : session'[s] = session[s]
          /\ UNCHANGED <<module, sessionPromise>>
      BY <2>1, PipelinedFacts
    <3>2. \A s \in Ids' : s \in Ids \/ Kind[session'[s].transport] # "ws"
      BY <3>1 DEF Ids, Persistent
    <3> QED BY <3>1, <3>2 DEF SocketInv
  <2>2. ASSUME NEW c \in Calls, CallEffect(c) PROVE SocketInv'
    BY <2>2, SocketEffect
  <2>3. CASE UNCHANGED vars
    BY <2>3 DEF vars, sessionVars, SocketInv, Ids
  <2> QED BY <2>1, <2>2, <2>3, Steps, SocketEnvironment
<1>3. Typed /\ SocketInv => OneLiveSocket
  <2> SUFFICES ASSUME Typed, SocketInv, NEW t \in Transports, Kind[t] = "ws"
               PROVE  Cardinality({s \in Uses(t) : session[s].stage = "open"}) <= 1
    BY DEF OneLiveSocket
  <2> DEFINE L == {s \in Uses(t) : session[s].stage = "open"}
  <2>1. L \subseteq {sessionPromise[t]}
    BY DEF SocketInv, Uses
  <2>2. Cardinality(L) <= Cardinality({sessionPromise[t]}) /\ Cardinality({sessionPromise[t]}) = 1
    BY <2>1, FS_Singleton, FS_Subset
  <2> QED BY <2>2
<1> QED BY <1>1, <1>2, <1>3, AlwaysTyped, PTL DEF Spec

-----------------------------------------------------------------------------
(* The batches of http() *)

\* The promise kept of an HTTP session is one that could not be made, or a call()
\* that is under way has it.
FreshInv ==
  \A t \in Transports : ~Persistent(t) /\ sessionPromise[t] # 0 =>
    /\ session[sessionPromise[t]].transport = t
    /\ \/ session[sessionPromise[t]].stage = "failed"
       \/ \E c \in Calls : /\ via[c] = sessionPromise[t] /\ path[c] # "pipelined"
                          /\ stage[c] \in OnSession

\* A call that leaves takes the promise with it, one that begins has it.
LEMMA FreshEffect ==
  ASSUME Typed, FreshInv, NEW c \in Calls, CallEffect(c)
  PROVE  FreshInv'
<1>1. PICK kept \in [Transports -> 0..Len(session)] :
        /\ \A t \in Transports : kept[t] = sessionPromise[t] \/ (~Persistent(t) /\ kept[t] = 0)
        /\ TakesPromise(c, kept)
        /\ UNCHANGED pipelineSession
        /\ \/ sessionPromise' = kept /\ UNCHANGED <<module, session, cached>>
           \/ \E t \in Transports :
                /\ GetSession(t, kept)
                /\ via'[c] = sessionPromise'[t] /\ stage'[c] = "awaitingSession"
                /\ path'[c] # "pipelined"
  BY DEF CallEffect, SessionEffect
<1>2. \A d \in Calls : d # c => stage'[d] = stage[d] /\ path'[d] = path[d] /\ via'[d] = via[d]
  BY DEF CallEffect, Typed, CallsOK
<1>3. ASSUME NEW t \in Transports, ~Persistent(t), kept[t] # 0
      PROVE  /\ kept[t] = sessionPromise[t] /\ kept[t] \in Ids
             /\ session[kept[t]].transport = t
             /\ \/ session[kept[t]].stage = "failed"
                \/ \E d \in Calls : /\ via'[d] = kept[t] /\ path'[d] # "pipelined"
                                   /\ stage'[d] \in OnSession
  <2>1. kept[t] = sessionPromise[t] /\ session[kept[t]].transport = t
    BY <1>1, <1>3 DEF FreshInv
  <2>2. kept[t] \in Ids
    <3>1. kept[t] \in 0..Len(session) /\ Len(session) \in Nat
      BY DEF Typed, SessionsOK
    <3> QED BY <1>3, <3>1 DEF Ids
  <2>3. ASSUME session[kept[t]].stage # "failed"
        PROVE  \E d \in Calls : /\ via'[d] = kept[t] /\ path'[d] # "pipelined"
                                /\ stage'[d] \in OnSession
    <3>1. PICK d \in Calls : via[d] = kept[t] /\ path[d] # "pipelined" /\ stage[d] \in OnSession
      BY <1>3, <2>1, <2>3 DEF FreshInv
    <3>2. ASSUME d # c
          PROVE  via'[d] = kept[t] /\ path'[d] # "pipelined" /\ stage'[d] \in OnSession
      BY <1>2, <3>1, <3>2
    <3>3. ASSUME d = c
          PROVE  via'[d] = kept[t] /\ path'[d] # "pipelined" /\ stage'[d] \in OnSession
      <4>1. via'[c] = via[c] /\ stage'[c] \in OnSession /\ path'[c] = path[c]
        BY <1>1, <1>3, <2>1, <2>3, <3>1, <3>3 DEF TakesPromise
      <4> QED BY <3>1, <3>3, <4>1
    <3>4. via'[d] = kept[t] /\ path'[d] # "pipelined" /\ stage'[d] \in OnSession
      BY <3>2, <3>3
    <3> QED BY <3>4
  <2> QED BY <2>1, <2>2, <2>3
<1>4. CASE sessionPromise' = kept /\ UNCHANGED <<module, session, cached>>
  BY <1>3, <1>4 DEF FreshInv
<1>5. ASSUME NEW u \in Transports, GetSession(u, kept),
             via'[c] = sessionPromise'[u], stage'[c] = "awaitingSession", path'[c] # "pipelined"
      PROVE  FreshInv'
  <2>1. /\ \A s \in Ids : session'[s] = session[s]
        /\ \A t \in Transports : t # u => sessionPromise'[t] = kept[t]
        /\ \/ kept[u] # 0 /\ sessionPromise' = kept /\ session' = session
           \/ /\ sessionPromise'[u] = Len(session')
              /\ session'[Len(session')] = New(u, IF MadeAtOnce(u) THEN "open" ELSE "making")
    BY <1>1, <1>5, GetSessionFacts DEF Typed
  <2>2. CASE sessionPromise' = kept /\ session' = session
    BY <1>3, <2>2 DEF FreshInv
  <2>3. CASE /\ sessionPromise'[u] = Len(session')
             /\ session'[Len(session')] = New(u, IF MadeAtOnce(u) THEN "open" ELSE "making")
    <3>1. session'[sessionPromise'[u]].transport = u
      BY <2>3 DEF New
    <3>2. stage'[c] \in OnSession
      BY <1>5 DEF OnSession
    <3> QED BY <1>3, <1>5, <2>1, <3>1, <3>2 DEF FreshInv
  <2> QED BY <2>1, <2>2, <2>3
<1> QED BY <1>1, <1>4, <1>5

\* A call() of an HTTP transport gets a session whose batch has gone only while
\* another call() on that session is under way, for any transports and calls.
THEOREM AloneIsFresh == Spec => []FreshWhenAlone
<1>1. Init => FreshInv
  <2> SUFFICES ASSUME Init PROVE FreshInv
    OBVIOUS
  <2>1. \A t \in Transports : ~Persistent(t) => sessionPromise[t] = 0
    BY DEF Init, SessionsInit
  <2> QED BY <2>1 DEF FreshInv
<1>2. Typed /\ FreshInv /\ [Next]_vars => FreshInv'
  <2> SUFFICES ASSUME Typed, FreshInv, [Next]_vars PROVE FreshInv'
    OBVIOUS
  <2>1. \A t \in Transports : sessionPromise[t] # 0 => sessionPromise[t] \in Ids
    <3>1. sessionPromise \in [Transports -> 0..Len(session)] /\ Len(session) \in Nat
      BY DEF Typed, SessionsOK
    <3> QED BY <3>1 DEF Ids
  <2>2. ASSUME NEW c \in Calls, Pipelined(c) PROVE FreshInv'
    <3>1. /\ \A s \in Ids : session'[s] = session[s]
          /\ UNCHANGED sessionPromise /\ stage[c] = "idle"
          /\ \A d \in Calls : d # c => stage'[d] = stage[d] /\ path'[d] = path[d] /\ via'[d] = via[d]
      BY <2>2, PipelinedFacts
    <3>2. \A d \in Calls : stage[d] \in OnSession => d # c
      BY <3>1 DEF OnSession
    <3> QED BY <2>1, <3>1, <3>2 DEF FreshInv
  <2>3. ASSUME NEW c \in Calls, CallEffect(c) PROVE FreshInv'
    BY <2>3, FreshEffect
  <2>4. CASE Environment
    <3>1. SessionsMove
      BY <2>4, EnvironmentFacts
    <3>2. /\ UNCHANGED <<stage, via, path>>
          /\ \A s \in Ids : /\ session'[s].transport = session[s].transport
                            /\ session[s].stage = "failed" /\ ~Persistent(session[s].transport)
                                 => session'[s].stage = "failed"
          /\ \A t \in Transports : sessionPromise'[t] \in {sessionPromise[t], 0}
      BY <3>1 DEF SessionsMove, callVars
    <3> QED BY <2>1, <3>2 DEF FreshInv
  <2>5. CASE UNCHANGED vars
    BY <2>5 DEF vars, sessionVars, callVars, clientVars, FreshInv
  <2> QED BY <2>2, <2>3, <2>4, <2>5, Steps
<1>3. FreshInv => FreshWhenAlone
  BY DEF FreshInv, FreshWhenAlone, OnSession
<1> QED BY <1>1, <1>2, <1>3, AlwaysTyped, PTL DEF Spec

-----------------------------------------------------------------------------
(* What the calls wait for *)

\* A session that is being made is being imported, or is of reconnecting() and will
\* be made once its own import is there; what is sent is a batch.
StageInv ==
  \A s \in Ids :
    /\ session[s].stage = "making" =>
         \/ module = "loading"
         \/ module = "loaded" /\ Kind[session[s].transport] = "reconnecting"
    /\ session[s].stage = "sent" => ~Persistent(session[s].transport)

\* A session at hand has been made.
HandInv ==
  \A t \in Transports :
    /\ cached[t] # 0 => session[cached[t]].stage \notin {"making", "failed"}
    /\ pipelineSession[t] # 0 => session[pipelineSession[t]].stage \notin {"making", "failed"}

\* The part of NobodyStranded about one call.
NotStranded(c) ==
  /\ stage[c] = "awaitingTransport" => made # "none" /\ path[c] \in {"wrapped", "raw"}
  /\ stage[c] = "inFlight" =>
       \/ session[via[c]].stage = "dead"
       \/ session[via[c]].stage = "open" /\ accepted[c]
       \/ session[via[c]].stage = "sent" /\ ~Persistent(session[via[c]].transport)

\* A promise of the transport is never taken back; a call begins to wait for it
\* when there is one, and is in flight on a session that has been made.
Promised(c) ==
  /\ made # "none" => made' # "none"
  /\ stage'[c] = "awaitingTransport" => made' # "none" /\ path'[c] \in {"wrapped", "raw"}
  /\ \A d \in Calls : d # c => accepted'[d] = accepted[d]
  /\ stage'[c] = "inFlight" =>
       /\ session[via[c]].stage \notin {"making", "failed"}
       /\ accepted'[c] <=> session[via[c]].stage = "open"
       /\ UNCHANGED <<via, session>> /\ stage[c] = "awaitingSession"

\* Every step of a call keeps to that.
LEMMA CallPromises ==
  ASSUME Typed, NEW c \in Calls,
         \/ Call(c) \/ TransportArrives(c) \/ HookSettles(c)
         \/ Arrives(c) \/ Unreachable(c) \/ Answer(c) \/ Rejected(c)
  PROVE  Promised(c)
<1>1. ASSUME NEW now \in Stages \ {"awaitingTransport", "inFlight"},
             stage' = [stage EXCEPT ![c] = now],
             accepted' = accepted \/ accepted' = [accepted EXCEPT ![c] = FALSE],
             made' = made
      PROVE  Promised(c)
  <2>1. stage'[c] = now /\ \A d \in Calls : d # c => accepted'[d] = accepted[d]
    BY <1>1 DEF Typed, CallsOK
  <2> QED BY <1>1, <2>1 DEF Promised
<1>2. ASSUME Hooked(c) PROVE Promised(c)
  <2>1. /\ stage' = [stage EXCEPT ![c] = "requesting"] /\ UNCHANGED <<accepted, made>>
    BY <1>2 DEF Hooked
  <2> QED BY <1>1, <2>1 DEF Stages
<1>3. ASSUME Settled(c), UNCHANGED accepted, made' = made \/ made' = "making" PROVE Promised(c)
  <2>1. stage' = [stage EXCEPT ![c] = "settled"] /\ stage'[c] = "settled"
    BY <1>3 DEF Settled, Typed, CallsOK
  <2> QED BY <1>3, <2>1 DEF Promised
<1>4. ASSUME NEW way \in {"wrapped", "raw"}, Waits(c, way), made' = "making" PROVE Promised(c)
  <2>1. /\ stage'[c] = "awaitingTransport" /\ path'[c] = way /\ UNCHANGED accepted
    BY <1>4 DEF Waits, Typed, CallsOK
  <2> QED BY <1>4, <2>1 DEF Promised
<1>5. ASSUME Begin(c), made' = made PROVE Promised(c)
  <2>1. stage' = [stage EXCEPT ![c] = "awaitingSession"] /\ UNCHANGED accepted
    BY <1>5 DEF Begin, Await
  <2> QED BY <1>1, <1>5, <2>1 DEF Stages
<1>6. ASSUME NEW hooks \in {"responding", "erroring"}, Leaves(c, hooks), made' = made
      PROVE  Promised(c)
  <2>1. PICK now \in {"responding", "erroring", "settled"} : stage' = [stage EXCEPT ![c] = now]
    BY <1>6 DEF Leaves, Settled
  <2>2. accepted' = [accepted EXCEPT ![c] = FALSE]
    BY <1>6 DEF Leaves
  <2> QED BY <1>1, <1>6, <2>1, <2>2 DEF Stages
<1>7. ASSUME NEW kept, AttemptFails(c, kept), made' = made PROVE Promised(c)
  <2>1. CASE HasNext(c)
    <3>1. stage' = [stage EXCEPT ![c] = "awaitingSession"] /\ UNCHANGED accepted
      BY <1>7, <2>1 DEF AttemptFails, Await
    <3> QED BY <1>1, <1>7, <3>1 DEF Stages
  <2>2. CASE ~HasNext(c)
    BY <1>6, <1>7, <2>2 DEF AttemptFails
  <2> QED BY <2>1, <2>2
<1>8. CASE Call(c)
  <2>1. CASE made = "ready" /\ Hooked(c)
    BY <1>2, <2>1
  <2>2. CASE made = "none" /\ Waits(c, "wrapped") /\ made' = "making"
    BY <1>4, <2>2
  <2>3. CASE Refused(c) /\ UNCHANGED made
    BY <1>3, <2>3 DEF Refused
  <2>4. CASE made = "making" /\ Waits(c, "raw") /\ UNCHANGED made
    BY <1>4, <2>4
  <2> QED BY <1>8, <2>1, <2>2, <2>3, <2>4 DEF Call
<1>9. CASE TransportArrives(c)
  <2>1. CASE Hooked(c)
    BY <1>2, <2>1
  <2>2. CASE Begin(c) /\ UNCHANGED made
    BY <1>5, <2>2
  <2>3. CASE Refused(c) /\ UNCHANGED made
    BY <1>3, <2>3 DEF Refused
  <2> QED BY <1>9, <2>1, <2>2, <2>3 DEF TransportArrives
<1>10. CASE HookSettles(c)
  <2>1. UNCHANGED made
    BY <1>10 DEF HookSettles
  <2>2. CASE Begin(c)
    BY <1>5, <2>1, <2>2
  <2>3. CASE Settled(c) /\ UNCHANGED accepted
    BY <1>3, <2>1, <2>3
  <2>4. CASE stage' = [stage EXCEPT ![c] = "erroring"] /\ UNCHANGED accepted
    BY <1>1, <2>1, <2>4 DEF Stages
  <2> QED BY <1>10, <2>2, <2>3, <2>4 DEF HookSettles
<1>11. CASE Arrives(c)
  <2>1. /\ stage[c] = "awaitingSession" /\ session[via[c]].stage \notin {"making", "failed"}
        /\ stage' = [stage EXCEPT ![c] = "inFlight"]
        /\ accepted' = [accepted EXCEPT ![c] = session[via[c]].stage = "open"]
        /\ UNCHANGED <<via, session, made>>
    BY <1>11 DEF Arrives, SessionArrives, sessionVars, clientVars
  <2>2. /\ stage'[c] = "inFlight"
        /\ \A d \in Calls : d # c => accepted'[d] = accepted[d]
    BY <2>1 DEF Typed, CallsOK
  <2>3. accepted'[c] <=> session[via[c]].stage = "open"
    BY <2>1 DEF Typed, CallsOK
  <2> QED BY <2>1, <2>2, <2>3 DEF Promised
<1>12. CASE Unreachable(c)
  <2>1. AttemptFails(c, sessionPromise) /\ made' = made
    BY <1>12 DEF Unreachable, Unmoved
  <2> QED BY <1>7, <2>1
<1>13. CASE Answer(c) \/ Rejected(c)
  <2>1. made' = made
    BY <1>13 DEF Answer, Rejected, Unmoved
  <2>2. AttemptFails(c, Kept(c)) \/ Leaves(c, "responding")
    BY <1>13 DEF Answer, Rejected
  <2> QED BY <1>6, <1>7, <2>1, <2>2
<1> QED BY <1>8, <1>9, <1>10, <1>11, <1>12, <1>13

\* A session is made only once, and goes from open to sent to dead.
LEMMA SessionsAge ==
  ASSUME Typed, Environment
  PROVE  \A s \in Ids :
           /\ session[s].stage = "dead" => session'[s].stage = "dead"
           /\ session[s].stage = "sent" => session'[s].stage \in {"sent", "dead"}
           /\ session[s].stage = "open" =>
                \/ session'[s].stage \in {"open", "dead"}
                \/ session'[s].stage = "sent" /\ ~Persistent(session[s].transport)
           /\ session'[s].stage = "making" => session[s].stage = "making"
           /\ session'[s].stage = "failed" => session[s].stage \in {"making", "failed"}
           /\ session'[s].stage = "sent" => session[s].stage \in {"open", "sent"}
<1> DEFINE Age(s) ==
      /\ session[s].stage = "dead" => session'[s].stage = "dead"
      /\ session[s].stage = "sent" => session'[s].stage \in {"sent", "dead"}
      /\ session[s].stage = "open" =>
           \/ session'[s].stage \in {"open", "dead"}
           \/ session'[s].stage = "sent" /\ ~Persistent(session[s].transport)
      /\ session'[s].stage = "making" => session[s].stage = "making"
      /\ session'[s].stage = "failed" => session[s].stage \in {"making", "failed"}
      /\ session'[s].stage = "sent" => session[s].stage \in {"open", "sent"}
<1> SUFFICES ASSUME NEW s \in Ids PROVE Age(s)
  OBVIOUS
<1>1. PICK r \in Record : r = session[s]
  BY DEF Typed, SessionsOK, Ids
<1>2. ASSUME session'[s] = session[s] PROVE Age(s)
  <2>1. session[s].stage \in SessionStages
    BY <1>1 DEF Record
  <2> QED BY <1>2, <2>1 DEF SessionStages
<1>3. CASE FactorySettles \/ PipelineReset
  BY <1>2, <1>3 DEF FactorySettles, PipelineReset, sessionVars
<1>4. CASE Close
  <2>1. CASE UNCHANGED sessionVars
    BY <1>2, <2>1 DEF sessionVars
  <2>2. ASSUME NEW ts, session' = Closed(ts) PROVE Age(s)
    <3> DEFINE t == r.transport
    <3>1. session'[s] \in {r, [r EXCEPT !.stage = "dead"], [r EXCEPT !.doomed = TRUE]}
          \/ (r.stage = "failed" /\ session'[s] = [r EXCEPT !.stage = "failed"])
      BY <1>1, <2>2 DEF Closed
    <3> QED BY <1>1, <3>1 DEF Record, SessionStages
  <2> QED BY <1>4, <2>1, <2>2 DEF Close, CloseTransports
<1>5. CASE ModuleLoaded /\ UNCHANGED clientVars
  <2>1. session'[s] \in {r, [r EXCEPT !.stage = "dead"], [r EXCEPT !.stage = "open"]}
        /\ (r.stage # "making" => session'[s] = r)
    BY <1>1, <1>5 DEF ModuleLoaded
  <2> QED BY <1>1, <1>2, <2>1 DEF Record, SessionStages
<1>6. CASE ModuleFails
  <2>1. session'[s] = IF r.stage = "making" THEN [r EXCEPT !.stage = "failed"] ELSE r
    BY <1>1, <1>6 DEF ModuleFails
  <2> QED BY <1>1, <2>1 DEF Record, SessionStages
<1>7. ASSUME NEW x \in Ids, ReconnectingMade(x) PROVE Age(s)
  <2>1. session[x].stage = "making" /\ session' = [session EXCEPT ![x].stage = "open"]
    BY <1>7 DEF ReconnectingMade
  <2>2. session'[x].stage = "open" /\ \A y \in Ids : y # x => session'[y] = session[y]
    BY <2>1, StageFacts DEF SessionStages
  <2> QED BY <1>2, <2>1, <2>2
<1>8. ASSUME NEW x \in Ids, BatchSent(x) PROVE Age(s)
  <2>1. /\ session[x].stage = "open" /\ ~Persistent(session[x].transport)
        /\ session' = [session EXCEPT ![x].stage = "sent"]
    BY <1>8 DEF BatchSent
  <2>2. session'[x].stage = "sent" /\ \A y \in Ids : y # x => session'[y] = session[y]
    BY <2>1, StageFacts DEF SessionStages
  <2> QED BY <1>2, <2>1, <2>2
<1>9. ASSUME NEW x \in Ids, SessionEnds(x) PROVE Age(s)
  <2>1. session' = [session EXCEPT ![x].stage = "dead"]
    BY <1>9 DEF SessionEnds
  <2>2. session'[x].stage = "dead" /\ \A y \in Ids : y # x => session'[y] = session[y]
    BY <2>1, StageFacts DEF SessionStages
  <2> QED BY <1>2, <2>2
<1> QED BY <1>3, <1>4, <1>5, <1>6, <1>7, <1>8, <1>9 DEF Environment

\* What is being made is being imported, whatever a call does.
LEMMA StageEffect ==
  ASSUME Typed, StageInv, NEW c \in Calls, CallEffect(c)
  PROVE  StageInv' /\ \A s \in Ids : session'[s] = session[s]
<1>1. PICK kept \in [Transports -> 0..Len(session)] :
        /\ UNCHANGED pipelineSession
        /\ \/ UNCHANGED <<module, session>>
           \/ \E t \in Transports : GetSession(t, kept)
  BY DEF CallEffect, SessionEffect
<1>2. CASE UNCHANGED <<module, session>>
  BY <1>2 DEF StageInv, Ids
<1>3. ASSUME NEW t \in Transports, GetSession(t, kept)
      PROVE  StageInv' /\ \A s \in Ids : session'[s] = session[s]
  <2>1. /\ Len(session) \in Nat /\ \A s \in Ids : session'[s] = session[s]
        /\ module = "loading" => module' = "loading"
        /\ module = "loaded" => module' = "loaded"
        /\ \/ session' = session
           \/ /\ Len(session') = Len(session) + 1
              /\ session'[Len(session')] = New(t, IF MadeAtOnce(t) THEN "open" ELSE "making")
              /\ module # "loaded" => module' = "loading"
    BY <1>1, <1>3, GetSessionFacts DEF Typed
  <2>2. CASE session' = session
    BY <2>1, <2>2 DEF StageInv, Ids
  <2>3. CASE /\ Len(session') = Len(session) + 1
             /\ session'[Len(session')] = New(t, IF MadeAtOnce(t) THEN "open" ELSE "making")
             /\ module # "loaded" => module' = "loading"
    <3> DEFINE m == Len(session')
    <3>1. session'[m].transport = t /\ session'[m].stage # "sent"
          /\ (session'[m].stage = "making" => ~MadeAtOnce(t))
      BY <2>3 DEF New
    <3>2. session'[m].stage = "making" =>
            module' = "loading" \/ (module' = "loaded" /\ Kind[t] = "reconnecting")
      BY <2>1, <2>3, <3>1 DEF MadeAtOnce
    <3>3. \A s \in Ids' : s \in Ids \/ s = m
      BY <2>1, <2>3 DEF Ids
    <3> HIDE DEF m
    <3>4. ASSUME NEW s \in Ids'
          PROVE  /\ session'[s].stage = "making" =>
                      \/ module' = "loading"
                      \/ module' = "loaded" /\ Kind[session'[s].transport] = "reconnecting"
                 /\ session'[s].stage = "sent" => ~Persistent(session'[s].transport)
      BY <2>1, <3>1, <3>2, <3>3 DEF StageInv
    <3> QED BY <2>1, <3>4 DEF StageInv
  <2> QED BY <2>1, <2>2, <2>3
<1> QED BY <1>1, <1>2, <1>3

\* And whatever happens beside the calls.
LEMMA StageEnvironment ==
  ASSUME Typed, StageInv, Environment
  PROVE  StageInv'
<1>1. Ids' = Ids /\ \A s \in Ids : session'[s].transport = session[s].transport
  BY EnvironmentFacts, RestagedFacts DEF SessionsMove, Typed
<1>2. \A s \in Ids : session'[s].stage = "making" => session[s].stage = "making"
  BY SessionsAge
<1>3. \A s \in Ids : session'[s].stage = "sent" => ~Persistent(session[s].transport)
  <2>1. \A s \in Ids : session[s] \in Record /\ session'[s] \in Record
    BY EnvironmentFacts DEF SessionsMove, Typed, SessionsOK, Ids
  <2> SUFFICES ASSUME NEW s \in Ids, session'[s].stage = "sent"
               PROVE  ~Persistent(session[s].transport)
    OBVIOUS
  <2>2. session[s].stage \in {"sent", "open", "making", "failed", "dead"}
    BY <2>1 DEF Record, SessionStages
  <2>3. session[s].stage \notin {"making", "failed", "dead"}
    BY SessionsAge
  <2> QED BY <2>2, <2>3, SessionsAge DEF StageInv
<1>4. CASE UNCHANGED module
  BY <1>1, <1>2, <1>3, <1>4 DEF StageInv
<1>5. CASE ModuleLoaded /\ UNCHANGED clientVars
  <2>1. ASSUME NEW s \in Ids, session'[s].stage = "making"
        PROVE  Kind[session[s].transport] = "reconnecting"
    BY <1>2, <1>5, <2>1, LoadedFacts
  <2>2. module' = "loaded"
    BY <1>5 DEF ModuleLoaded
  <2> QED BY <1>1, <1>3, <2>1, <2>2 DEF StageInv
<1>6. CASE ModuleFails
  <2>1. ASSUME NEW s \in Ids PROVE session'[s].stage # "making"
    <3>1. PICK r \in Record : r = session[s]
      BY DEF Typed, SessionsOK, Ids
    <3>2. session'[s] = IF r.stage = "making" THEN [r EXCEPT !.stage = "failed"] ELSE r
      BY <1>6, <3>1 DEF ModuleFails
    <3> QED BY <3>2 DEF Record
  <2> QED BY <1>1, <1>3, <2>1 DEF StageInv
<1> QED BY <1>4, <1>5, <1>6
        DEF Environment, FactorySettles, Close, CloseTransports, PipelineReset, ReconnectingMade,
            BatchSent, SessionEnds, sessionVars

\* What is at hand when a call has taken its step has been made.
LEMMA HandEffect ==
  ASSUME Typed, HandInv, NEW c \in Calls, CallEffect(c)
  PROVE  HandInv'
<1>1. PICK kept \in [Transports -> 0..Len(session)] :
        /\ UNCHANGED pipelineSession
        /\ \/ UNCHANGED <<session, cached>>
           \/ \E t \in Transports : GetSession(t, kept)
  BY DEF CallEffect, SessionEffect
<1>2. \A t \in Transports : /\ cached[t] # 0 => cached[t] \in Ids
                            /\ pipelineSession[t] # 0 => pipelineSession[t] \in Ids
  BY DEF Typed, SessionsOK, Ids
<1>3. CASE UNCHANGED <<session, cached>>
  BY <1>1, <1>3 DEF HandInv
<1>4. ASSUME NEW t \in Transports, GetSession(t, kept) PROVE HandInv'
  <2>1. /\ \A s \in Ids : session'[s] = session[s]
        /\ \/ session' = session
           \/ session'[Len(session')] = New(t, IF MadeAtOnce(t) THEN "open" ELSE "making")
    BY <1>1, <1>4, GetSessionFacts DEF Typed
  <2>2. CASE kept[t] # 0
    <3>1. UNCHANGED <<session, cached>>
      BY <1>4, <2>2 DEF GetSession
    <3> QED BY <1>1, <3>1 DEF HandInv
  <2>3. CASE kept[t] = 0
    <3>1. /\ session' = Append(session, New(t, IF MadeAtOnce(t) THEN "open" ELSE "making"))
          /\ cached' = IF MadeAtOnce(t) /\ Persistent(t)
                       THEN [cached EXCEPT ![t] = Len(session')] ELSE cached
      BY <1>4, <2>3 DEF GetSession
    <3>2. session'[Len(session')] = New(t, IF MadeAtOnce(t) THEN "open" ELSE "making")
      <4>1. session \in Seq(Record)
        BY DEF Typed, SessionsOK
      <4> QED BY <3>1, <4>1
    <3>3. CASE MadeAtOnce(t) /\ Persistent(t)
      <4>1. session'[Len(session')].stage = "open"
        BY <3>2, <3>3 DEF New
      <4>2. \A u \in Transports : cached'[u] = IF u = t THEN Len(session') ELSE cached[u]
        BY <3>1, <3>3 DEF Typed, SessionsOK
      <4> QED BY <1>1, <1>2, <2>1, <4>1, <4>2 DEF HandInv
    <3>4. CASE ~(MadeAtOnce(t) /\ Persistent(t))
      <4>1. cached' = cached
        BY <3>1, <3>4
      <4> QED BY <1>1, <1>2, <2>1, <4>1 DEF HandInv
    <3> QED BY <3>3, <3>4
  <2> QED BY <2>2, <2>3
<1> QED BY <1>1, <1>3, <1>4

\* And when anything else has happened.
LEMMA HandEnvironment ==
  ASSUME Typed, HandInv, Environment
  PROVE  HandInv'
<1>1. \A t \in Transports : /\ cached[t] # 0 => cached[t] \in Ids
                            /\ pipelineSession[t] # 0 => pipelineSession[t] \in Ids
  BY DEF Typed, SessionsOK, Ids
<1>2. \A s \in Ids : session[s].stage \notin {"making", "failed"} =>
                       session'[s].stage \notin {"making", "failed"}
  <2>1. \A s \in Ids : session[s] \in Record
    BY DEF Typed, SessionsOK, Ids
  <2> QED BY <2>1, SessionsAge DEF Record, SessionStages
<1>3. ASSUME \A t \in Transports : cached'[t] \in {0, cached[t]},
             \A t \in Transports : pipelineSession'[t] \in {0, pipelineSession[t]}
      PROVE  HandInv'
  BY <1>1, <1>2, <1>3 DEF HandInv
<1>4. CASE FactorySettles
  BY <1>3, <1>4 DEF FactorySettles, sessionVars
<1>5. CASE Close
  <2>1. CASE UNCHANGED sessionVars
    BY <1>3, <2>1 DEF sessionVars
  <2>2. ASSUME NEW ts, CloseTransports(ts) PROVE HandInv'
    BY <1>3, <2>2 DEF CloseTransports
  <2> QED BY <1>5, <2>1, <2>2 DEF Close
<1>6. CASE ModuleLoaded /\ UNCHANGED clientVars
  <2> DEFINE M(t) == {s \in Uses(t) : session[s].stage = "making"
                                        /\ Kind[session[s].transport] # "reconnecting"}
             Last(t) == IF Persistent(t) /\ M(t) # {}
                        THEN CHOOSE s \in M(t) : \A r \in M(t) : r <= s ELSE cached[t]
  <2>1. cached' = [t \in Transports |-> Last(t)] /\ UNCHANGED pipelineSession
    BY <1>6 DEF ModuleLoaded
  <2>2. ASSUME NEW t \in Transports, Last(t) # 0
        PROVE  session'[Last(t)].stage \notin {"making", "failed"}
    <3>1. CASE Persistent(t) /\ M(t) # {}
      <4>1. Len(session) \in Nat /\ M(t) \in SUBSET (1..Len(session))
        BY DEF Typed, SessionsOK, Uses, Ids
      <4>2. PICK x \in M(t) : \A y \in M(t) : y <= x
        BY <3>1, <4>1, LatestOf
      <4>3. \A s \in M(t) : session'[s].stage \in {"dead", "open"}
        BY <1>6, LoadedFacts DEF Uses
      <4> HIDE DEF M
      <4>4. Last(t) \in M(t)
        BY <3>1, <4>2
      <4> QED BY <4>3, <4>4
    <3>2. CASE ~(Persistent(t) /\ M(t) # {})
      <4>1. Last(t) = cached[t]
        BY <3>2
      <4> QED BY <1>1, <1>2, <2>2, <4>1 DEF HandInv
    <3> QED BY <3>1, <3>2
  <2> HIDE DEF Last
  <2> QED BY <1>1, <1>2, <2>1, <2>2 DEF HandInv
<1>7. CASE ModuleFails
  BY <1>3, <1>7 DEF ModuleFails
<1>8. CASE PipelineReset
  BY <1>3, <1>8 DEF PipelineReset
<1>9. ASSUME NEW s \in Ids, ReconnectingMade(s) PROVE HandInv'
  <2>1. /\ session' = [session EXCEPT ![s].stage = "open"] /\ UNCHANGED pipelineSession
        /\ cached' = [cached EXCEPT ![session[s].transport] = s]
    BY <1>9 DEF ReconnectingMade
  <2>2. session'[s].stage = "open"
    BY <2>1, StageFacts DEF SessionStages
  <2>3. \A t \in Transports : cached'[t] \in {s, cached[t]}
    BY <2>1 DEF Typed, SessionsOK
  <2> QED BY <1>1, <1>2, <2>1, <2>2, <2>3 DEF HandInv
<1>10. ASSUME NEW s \in Ids, BatchSent(s) \/ SessionEnds(s) PROVE HandInv'
  BY <1>3, <1>10 DEF BatchSent, SessionEnds
<1> QED BY <1>4, <1>5, <1>6, <1>7, <1>8, <1>9, <1>10 DEF Environment

\* The session a pipelined call is made on has been made.
LEMMA PipelinedHand ==
  ASSUME Typed, HandInv, NEW c \in Calls, Pipelined(c)
  PROVE  /\ HandInv' /\ UNCHANGED made
         /\ \A d \in Calls : d # c => accepted'[d] = accepted[d]
         /\ session'[via'[c]].stage \notin {"making", "failed"}
         /\ accepted'[c] <=> session'[via'[c]].stage = "open"
         /\ \/ session' = session
            \/ session'[Len(session')] = New(given, "open")
<1> DEFINE v == SyncSession(given)
<1>1. /\ given \in Transports /\ HasSyncSession(given) /\ GetSessionSync(given)
      /\ via' = [via EXCEPT ![c] = v]
      /\ accepted' = [accepted EXCEPT ![c] = session'[v].stage = "open"]
      /\ UNCHANGED <<made, cached>>
  BY DEF Pipelined, SessionAtHand, GetSessionSync, Typed, ClientOK
<1>2. /\ \A t \in Transports : /\ cached[t] # 0 => cached[t] \in Ids
                               /\ pipelineSession[t] # 0 => pipelineSession[t] \in Ids
      /\ \A s \in Ids : session'[s] = session[s]
  BY PipelinedFacts DEF Typed, SessionsOK, Ids
<1>3. /\ HandInv' /\ session'[v].stage \notin {"making", "failed"}
      /\ session' = session \/ session'[Len(session')] = New(given, "open")
  <2>1. CASE Persistent(given) \/ pipelineSession[given] # 0
    <3>1. UNCHANGED <<session, pipelineSession>>
      BY <1>1, <2>1 DEF GetSessionSync
    <3>2. HandInv'
      BY <1>1, <3>1 DEF HandInv
    <3>3. v # 0 /\ v \in {cached[given], pipelineSession[given]}
          /\ (Persistent(given) => v = cached[given])
          /\ (~Persistent(given) => v = pipelineSession[given])
      BY <1>1, <2>1, <3>1 DEF SyncSession, HasSyncSession
    <3> QED BY <1>1, <3>1, <3>2, <3>3 DEF HandInv
  <2>2. CASE ~Persistent(given) /\ pipelineSession[given] = 0
    <3>1. /\ session' = Append(session, New(given, "open"))
          /\ pipelineSession' = [pipelineSession EXCEPT ![given] = Len(session')]
      BY <1>1, <2>2 DEF GetSessionSync
    <3>2. session'[Len(session')] = New(given, "open") /\ New(given, "open").stage = "open"
      <4>1. session \in Seq(Record)
        BY DEF Typed, SessionsOK
      <4> QED BY <3>1, <4>1 DEF New
    <3>3. \A u \in Transports :
            pipelineSession'[u] = IF u = given THEN Len(session') ELSE pipelineSession[u]
      BY <3>1 DEF Typed, SessionsOK
    <3>4. v = Len(session')
      BY <1>1, <2>2, <3>3 DEF SyncSession
    <3>5. HandInv'
      <4>1. ASSUME NEW u \in Transports, cached[u] # 0
            PROVE  session'[cached[u]].stage \notin {"making", "failed"}
        <5>1. session'[cached[u]] = session[cached[u]]
          BY <1>2, <4>1
        <5> QED BY <4>1, <5>1 DEF HandInv
      <4>2. ASSUME NEW u \in Transports, u # given, pipelineSession[u] # 0
            PROVE  session'[pipelineSession[u]].stage \notin {"making", "failed"}
        <5>1. session'[pipelineSession[u]] = session[pipelineSession[u]]
          BY <1>2, <4>2
        <5> QED BY <4>2, <5>1 DEF HandInv
      <4>3. session'[Len(session')].stage = "open"
        BY <3>2
      <4>4. ASSUME NEW u \in Transports, pipelineSession'[u] # 0
            PROVE  session'[pipelineSession'[u]].stage \notin {"making", "failed"}
        BY <3>3, <4>2, <4>3, <4>4
      <4>5. cached' = cached
        BY <1>1
      <4> QED BY <4>1, <4>4, <4>5 DEF HandInv
    <3> QED BY <3>2, <3>4, <3>5
  <2> QED BY <2>1, <2>2
<1> HIDE DEF v
<1>4. /\ via'[c] = v /\ (accepted'[c] <=> session'[v].stage = "open")
      /\ \A d \in Calls : d # c => accepted'[d] = accepted[d]
  BY <1>1 DEF Typed, CallsOK
<1> QED BY <1>1, <1>3, <1>4

\* For any transports, composites and calls: no call is left waiting for a factory,
\* an import or a session of which nothing more will be heard.
THEOREM NobodyIsStranded == Spec => []NobodyStranded
<1> DEFINE Inv == StageInv /\ HandInv /\ \A c \in Calls : NotStranded(c)
<1>1. Init => Inv
  <2> SUFFICES ASSUME Init PROVE Inv
    OBVIOUS
  <2> DEFINE primed == IF given = Factory THEN {} ELSE {given}
             begun == {t \in primed : Persistent(t)}
  <2>1. /\ SessionsInit(primed) /\ given \in Transports \cup {Factory}
    BY DEF Init
  <2>2. /\ module \in {"loaded", IF primed = {} THEN "absent" ELSE "loading"}
        /\ \/ session = <<>>
           \/ \E t \in begun : session = <<New(t, IF MadeAtOnce(t) THEN "open" ELSE "making")>>
        /\ \A c \in Calls : stage[c] = "idle"
        /\ cached = [t \in Transports |-> IF t \in begun /\ MadeAtOnce(t) THEN 1 ELSE 0]
        /\ pipelineSession = [t \in Transports |-> 0]
    BY <2>1 DEF SessionsInit
  <2>3. CASE session = <<>>
    <3>1. begun = {}
      <4>1. session \in IF begun = {} THEN {<<>>}
              ELSE {<<New(t, IF MadeAtOnce(t) THEN "open" ELSE "making")>> : t \in begun}
        BY <2>1 DEF SessionsInit
      <4>2. ASSUME begun # {} PROVE FALSE
        <5>1. PICK x : session = <<x>>
          BY <4>1, <4>2
        <5> QED BY <2>3, <5>1
      <4> QED BY <4>2
    <3>2. \A t \in Transports : cached[t] = 0 /\ pipelineSession[t] = 0
      BY <2>2, <3>1
    <3> QED BY <2>2, <2>3, <3>2 DEF StageInv, HandInv, NotStranded, Ids
  <2>4. ASSUME NEW t \in begun, session = <<New(t, IF MadeAtOnce(t) THEN "open" ELSE "making")>>
        PROVE  Inv
    <3>1. Ids = {1} /\ t \in Transports /\ primed # {}
      BY <2>1, <2>4 DEF Ids
    <3>2. /\ session[1].transport = t /\ session[1].stage # "sent"
          /\ session[1].stage = "making" => ~MadeAtOnce(t)
      BY <2>4 DEF New
    <3>3. module \in {"loaded", "loading"}
      BY <2>2, <3>1
    <3> HIDE DEF primed, begun
    <3>4. HandInv
      <4>1. \A u \in Transports : /\ pipelineSession[u] = 0
                                  /\ cached[u] # 0 => cached[u] = 1 /\ MadeAtOnce(u) /\ u \in begun
        BY <2>2
      <4>2. \A u \in begun : u = t
        BY DEF begun, primed
      <4>3. MadeAtOnce(t) => session[1].stage = "open"
        BY <2>4 DEF New
      <4> QED BY <4>1, <4>2, <4>3 DEF HandInv
    <3> QED BY <2>2, <3>1, <3>2, <3>3, <3>4 DEF StageInv, NotStranded, MadeAtOnce
  <2> QED BY <2>2, <2>3, <2>4
<1>2. Typed /\ Inv /\ [Next]_vars => Inv'
  <2> SUFFICES ASSUME Typed, Inv, [Next]_vars PROVE Inv'
    OBVIOUS
  <2>1. ASSUME NEW c \in Calls,
               \/ Call(c) \/ TransportArrives(c) \/ HookSettles(c)
               \/ Arrives(c) \/ Unreachable(c) \/ Answer(c) \/ Rejected(c)
        PROVE  Inv'
    <3>1. CallEffect(c) /\ Promised(c)
      BY <2>1, CallEffects, CallPromises
    <3>2. StageInv' /\ HandInv' /\ \A s \in Ids : session'[s] = session[s]
      BY <3>1, StageEffect, HandEffect
    <3>3. ASSUME NEW d \in Calls, d # c PROVE NotStranded(d)'
      <4>1. /\ stage'[d] = stage[d] /\ path'[d] = path[d] /\ via'[d] = via[d]
            /\ accepted'[d] = accepted[d]
        BY <3>1, <3>3 DEF CallEffect, Promised, Typed, CallsOK
      <4>2. stage[d] = "inFlight" => session'[via[d]] = session[via[d]]
        BY <3>2 DEF Typed, CallsOK, OnSession
      <4>3. NotStranded(d) /\ (made # "none" => made' # "none")
        BY <3>1 DEF Promised
      <4> QED BY <4>1, <4>2, <4>3 DEF NotStranded
    <3>4. NotStranded(c)'
      <4>1. stage'[c] = "awaitingTransport" => made' # "none" /\ path'[c] \in {"wrapped", "raw"}
        BY <3>1 DEF Promised
      <4>2. ASSUME stage'[c] = "inFlight"
            PROVE  \/ session'[via'[c]].stage = "dead"
                   \/ session'[via'[c]].stage = "open" /\ accepted'[c]
                   \/ session'[via'[c]].stage = "sent" /\ ~Persistent(session'[via'[c]].transport)
        <5>1. /\ session[via[c]].stage \notin {"making", "failed"}
              /\ accepted'[c] <=> session[via[c]].stage = "open"
              /\ UNCHANGED <<via, session>> /\ stage[c] = "awaitingSession"
          BY <3>1, <4>2 DEF Promised
        <5>2. via[c] \in Ids
          BY <5>1 DEF Typed, CallsOK, OnSession
        <5>3. PICK r \in Record : r = session[via[c]]
          BY <5>2 DEF Typed, SessionsOK, Ids
        <5>4. r.stage \in SessionStages
          BY DEF Record
        <5>5. session[via[c]].stage = "sent" => ~Persistent(session[via[c]].transport)
          BY <5>2 DEF StageInv
        <5> QED BY <5>1, <5>3, <5>4, <5>5 DEF SessionStages
      <4> QED BY <4>1, <4>2 DEF NotStranded
    <3> QED BY <3>2, <3>3, <3>4
  <2>2. ASSUME NEW c \in Calls, Pipelined(c) PROVE Inv'
    <3>1. /\ \/ session' = session
             \/ Len(session') = Len(session) + 1 /\ Len(session) \in Nat
          /\ \A s \in Ids : session'[s] = session[s]
          /\ UNCHANGED module
          /\ stage'[c] = "inFlight" /\ via'[c] \in Ids'
          /\ \A d \in Calls : d # c => stage'[d] = stage[d] /\ path'[d] = path[d] /\ via'[d] = via[d]
      BY <2>2, PipelinedFacts DEF Typed, CallsOK, OnSession
    <3>2. /\ HandInv' /\ UNCHANGED made
          /\ \A d \in Calls : d # c => accepted'[d] = accepted[d]
          /\ session'[via'[c]].stage \notin {"making", "failed"}
          /\ accepted'[c] <=> session'[via'[c]].stage = "open"
          /\ session' = session \/ session'[Len(session')] = New(given, "open")
      BY <2>2, PipelinedHand
    <3>3. \A s \in Ids' : \/ s \in Ids
                          \/ session'[s].stage = "open"
      BY <3>1, <3>2 DEF Ids, New
    <3>4. StageInv'
      BY <3>1, <3>3 DEF StageInv
    <3>5. ASSUME NEW d \in Calls, d # c PROVE NotStranded(d)'
      <4>1. stage[d] = "inFlight" => session'[via[d]] = session[via[d]]
        BY <3>1 DEF Typed, CallsOK, OnSession
      <4>2. NotStranded(d)
        OBVIOUS
      <4> QED BY <3>1, <3>2, <3>5, <4>1, <4>2 DEF NotStranded
    <3>6. NotStranded(c)'
      <4>1. Typed'
        BY <2>2, PipelinedFacts
      <4>2. session'[via'[c]] \in Record
        BY <3>1, <4>1 DEF Typed, SessionsOK, Ids
      <4>3. session'[via'[c]].stage \in SessionStages
        BY <4>2 DEF Record
      <4>4. session'[via'[c]].stage = "sent" => ~Persistent(session'[via'[c]].transport)
        BY <3>1, <3>4 DEF StageInv
      <4> QED BY <3>1, <3>2, <4>3, <4>4 DEF NotStranded, SessionStages
    <3> QED BY <3>2, <3>4, <3>5, <3>6
  <2>3. CASE Environment
    <3>1. SessionsMove /\ StageInv' /\ HandInv'
      BY <2>3, EnvironmentFacts, StageEnvironment, HandEnvironment
    <3>2. UNCHANGED <<stage, via, accepted, path>> /\ (made # "none" => made' # "none")
      BY <2>3, <3>1 DEF SessionsMove, callVars, Environment, FactorySettles, Close, clientVars
    <3>3. ASSUME NEW d \in Calls PROVE NotStranded(d)'
      <4>1. stage[d] = "inFlight" =>
              /\ via[d] \in Ids
              /\ session'[via[d]].transport = session[via[d]].transport
              /\ session[via[d]].stage = "dead" => session'[via[d]].stage = "dead"
              /\ session[via[d]].stage = "sent" => session'[via[d]].stage \in {"sent", "dead"}
              /\ session[via[d]].stage = "open" =>
                   \/ session'[via[d]].stage \in {"open", "dead"}
                   \/ session'[via[d]].stage = "sent" /\ ~Persistent(session[via[d]].transport)
        BY <2>3, <3>1, SessionsAge DEF SessionsMove, Typed, CallsOK, OnSession
      <4>2. NotStranded(d)
        OBVIOUS
      <4> QED BY <3>2, <4>1, <4>2 DEF NotStranded
    <3> QED BY <3>1, <3>3
  <2>4. CASE UNCHANGED vars
    <3>1. UNCHANGED <<session, module, cached, pipelineSession, stage, via, accepted, path, made>>
      BY <2>4 DEF vars, sessionVars, callVars, clientVars
    <3> QED BY <3>1 DEF StageInv, HandInv, NotStranded, Ids
  <2> QED BY <2>1, <2>2, <2>3, <2>4 DEF Next, Environment
<1>3. Typed /\ Inv => NobodyStranded
  BY DEF StageInv, NotStranded, NobodyStranded, Typed, CallsOK, OnSession
<1> QED BY <1>1, <1>2, <1>3, AlwaysTyped, PTL DEF Spec
=============================================================================
