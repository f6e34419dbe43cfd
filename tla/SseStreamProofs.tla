---------------------------- MODULE SseStreamProofs ----------------------------
(***************************************************************************)
(* Theorems about SseStream, for any number of chunks, connections and     *)
(* attempts: type correctness, that no next() is forgotten, that an open    *)
(* stream is alive, and that only a chunk whose own message was torn is     *)
(* lost; and for a source whose responses end after an error event, that    *)
(* none is lost, repeated or reordered as long as no message was torn.     *)
(***************************************************************************)
EXTENDS SseStream, TLAPS

\* The source whose chunks come in order: after an error a response ends.
ErrorsEnd == ~ErrorsGoOn

-----------------------------------------------------------------------------
(* Lemmas about sequences *)

\* A sequence grows and shrinks within its type.
LEMMA SeqType ==
  ASSUME NEW S, NEW q \in Seq(S)
  PROVE  /\ \A x \in S : Append(q, x) \in Seq(S)
         /\ q # <<>> => Head(q) \in S /\ Tail(q) \in Seq(S)
  OBVIOUS

\* What one element more, at the end, changes.
LEMMA AppendFacts ==
  ASSUME NEW S, NEW q \in Seq(S), NEW x \in S
  PROVE  /\ Append(q, x) \in Seq(S)
         /\ Len(q) \in Nat
         /\ Len(Append(q, x)) = Len(q) + 1
         /\ \A i \in 1..Len(q) : Append(q, x)[i] = q[i]
         /\ Append(q, x)[Len(q) + 1] = x
  OBVIOUS

\* The members of a sequence to which one was appended.
LEMMA MembersAppend ==
  ASSUME NEW S, NEW q \in Seq(S), NEW x \in S
  PROVE  Members(Append(q, x)) = Members(q) \cup {x}
<1>1. \A y : y \in Members(Append(q, x)) => y \in Members(q) \cup {x}
  BY AppendFacts DEF Members
<1>2. \A y \in Members(q) : y \in Members(Append(q, x))
  BY AppendFacts DEF Members
<1>3. x \in Members(Append(q, x))
  BY AppendFacts DEF Members
<1> QED BY <1>1, <1>2, <1>3

\* What is appended to the second sequence, or moved to the first from it.
LEMMA ConcatFacts ==
  ASSUME NEW S, NEW p \in Seq(S), NEW q \in Seq(S), NEW x \in S
  PROVE  /\ p \o q \in Seq(S)
         /\ p \o Append(q, x) = Append(p \o q, x)
         /\ p \o <<>> = p
         /\ q # <<>> => Append(p, Head(q)) \o Tail(q) = p \o q
<1>1. p \o q \in Seq(S) /\ p \o <<>> = p
  OBVIOUS
<1>2. p \o Append(q, x) = Append(p \o q, x)
  OBVIOUS
<1>3. q # <<>> => Append(p, Head(q)) \o Tail(q) = p \o q
  OBVIOUS
<1> QED BY <1>1, <1>2, <1>3

\* An element of a sequence.
LEMMA ElementType ==
  ASSUME NEW S, NEW q \in Seq(S), NEW c \in 1..Len(q)
  PROVE  q[c] \in S
  OBVIOUS

\* What a new value of one element changes.
LEMMA ExceptFacts ==
  ASSUME NEW S, NEW q \in Seq(S), NEW c \in 1..Len(q), NEW x \in S
  PROVE  /\ [q EXCEPT ![c] = x] \in Seq(S)
         /\ Len([q EXCEPT ![c] = x]) = Len(q)
         /\ \A d \in 1..Len(q) :
              [q EXCEPT ![c] = x][d] = IF d = c THEN x ELSE q[d]
  OBVIOUS

\* The type of a connection.
Connections == [stage : Stages, sent : 0..MaxData,
                kind : Kinds \cup {"none"}, rest : SUBSET LinesOf("data")]

-----------------------------------------------------------------------------
(* The connections *)

\* An element of the connections.
LEMMA ConnectionType ==
  ASSUME TypeOK, NEW c \in 1..Len(connections)
  PROVE  connections \in Seq(Connections) /\ connections[c] \in Connections
<1>1. connections \in Seq(Connections)
  BY DEF TypeOK, Connections
<1> QED BY <1>1, ElementType

\* What a new value of one connection changes.
LEMMA ChangeFacts ==
  ASSUME TypeOK, NEW c \in 1..Len(connections), NEW new \in Connections,
         connections' = [connections EXCEPT ![c] = new]
  PROVE  /\ connections' \in Seq(Connections)
         /\ Len(connections') = Len(connections)
         /\ \A d \in 1..Len(connections) :
              connections'[d] = IF d = c THEN new ELSE connections[d]
  BY ConnectionType, ExceptFacts

\* What a step of a connection does that ends what was coming.
LEMMA GoesFacts ==
  ASSUME TypeOK, NEW c \in 1..Len(connections), NEW stage \in Stages,
         Goes(c, stage)
  PROVE  /\ connections' \in Seq(Connections)
         /\ Len(connections') = Len(connections)
         /\ \A d \in 1..Len(connections) :
              /\ connections'[d].sent = connections[d].sent
              /\ connections'[d].stage = IF d = c THEN stage
                                                  ELSE connections[d].stage
              /\ connections'[d].rest = IF d = c THEN {}
                                                 ELSE connections[d].rest
<1> DEFINE new == [connections[c] EXCEPT !.stage = stage, !.kind = "none",
                                         !.rest = {}]
<1>1. connections[c] \in Connections
  BY ConnectionType
<1>2. /\ new \in Connections /\ new.stage = stage /\ new.rest = {}
      /\ new.sent = connections[c].sent
  BY <1>1 DEF Connections
<1>3. connections' = [connections EXCEPT ![c] = new]
  BY DEF Goes
<1> HIDE DEF new
<1>4. /\ connections' \in Seq(Connections)
      /\ Len(connections') = Len(connections)
      /\ \A d \in 1..Len(connections) :
           connections'[d] = IF d = c THEN new ELSE connections[d]
  BY <1>2, <1>3, ChangeFacts
<1> QED BY <1>2, <1>4

\* The message a read goes on with is typed, and a new one has all its lines.
LEMMA ComingFacts ==
  ASSUME TypeOK, NEW c \in 1..Len(connections), NEW m \in Coming(c),
         connections[c].stage = "reading"
  PROVE  /\ m \in Connections /\ m.stage = "reading"
         /\ Number(m) \in 0..MaxData /\ Number(m) \in {0, m.sent}
         /\ connections[c].rest # {} => m = connections[c]
         /\ connections[c].rest = {} =>
              /\ m.kind \in Kinds
              /\ m.rest = LinesOf(m.kind)
              /\ m.sent = IF m.kind = "data" THEN connections[c].sent + 1
                                             ELSE connections[c].sent
<1> DEFINE now == connections[c]
<1>1. now \in Connections /\ now.stage = "reading"
  BY ConnectionType
<1>2. CASE now.rest # {} /\ m = now
  BY <1>1, <1>2, SseAssumption DEF Connections, Number, Garbled
<1>3. ASSUME now.rest = {}, NEW kind \in Kinds, kind = "data" => now.sent < MaxData,
             m = [now EXCEPT !.kind = kind, !.rest = LinesOf(kind),
                             !.sent = IF kind = "data" THEN @ + 1 ELSE @]
      PROVE  /\ m \in Connections /\ m.stage = "reading"
             /\ m.kind = kind /\ m.rest = LinesOf(kind)
             /\ m.sent = IF kind = "data" THEN now.sent + 1 ELSE now.sent
  <2>1. now.sent \in 0..MaxData
    BY <1>1 DEF Connections
  <2>2. (IF kind = "data" THEN now.sent + 1 ELSE now.sent) \in 0..MaxData
    BY <1>3, <2>1, SseAssumption
  <2>3. LinesOf(kind) \in SUBSET LinesOf("data")
    BY DEF LinesOf
  <2> QED BY <1>1, <1>3, <2>2, <2>3 DEF Connections
<1>4. CASE now.rest = {}
  <2>1. PICK kind \in Kinds : /\ kind = "data" => now.sent < MaxData
                              /\ m = [now EXCEPT !.kind = kind,
                                       !.rest = LinesOf(kind),
                                       !.sent = IF kind = "data" THEN @ + 1 ELSE @]
    BY <1>4 DEF Coming
  <2>2. /\ m \in Connections /\ m.stage = "reading"
        /\ m.kind = kind /\ m.rest = LinesOf(kind)
        /\ m.sent = IF kind = "data" THEN now.sent + 1 ELSE now.sent
    BY <1>3, <1>4, <2>1
  <2>3. m.sent \in 0..MaxData
    BY <2>2 DEF Connections
  <2> QED BY <1>4, <2>2, <2>3, SseAssumption DEF Number, Garbled
<1> QED BY <1>2, <1>4 DEF Coming

\* The connection after a read.
LEMMA AfterFacts ==
  ASSUME NEW m \in Connections, NEW left \in SUBSET LinesOf("data")
  PROVE  /\ After(m, left) \in Connections
         /\ After(m, left).sent = m.sent /\ After(m, left).rest = left
         /\ closed' = "no" => After(m, left).stage \in {"reading", "ending"}
         /\ closed' # "no" => After(m, left).stage = "over"
         /\ m.kind = "error" /\ left = {} /\ ~ErrorsGoOn =>
              After(m, left).stage \in {"ending", "over"}
  BY DEF After, Connections, Stages

\* What a read may do of a message with this number.
Handles(n) ==
  /\ lastEventId' \in {lastEventId, n}
  /\ \/ (EnqueueData(n) \/ EnqueueData(Garbled)) /\ UNCHANGED stateVars
     \/ /\ UNCHANGED <<buffer, taken, swallowed>>
        /\ \/ UNCHANGED <<stateVars, waiting>>
           \/ HandleStreamError \/ HandleStreamEnd

\* A read that brings the end of a message, or a part of it.
ReadsAs(c, m, left) ==
  /\ Handles(Number(m))
  /\ \/ ReadsEnd(m) /\ left = {} /\ UNCHANGED torn
     \/ Len(torn) < MaxTorn /\ torn' = Append(torn, Number(m))
  /\ connections' = [connections EXCEPT ![c] = After(m, left)]

\* Every read is one of these.
LEMMA ReadFacts ==
  ASSUME TypeOK, NEW c \in 1..Len(connections), Read(c)
  PROVE  \E m \in Coming(c) : \E left \in SUBSET LinesOf("data") :
           ReadsAs(c, m, left)
<1>1. ASSUME NEW m, NEW part, HandleSSEMessage(m, part)
      PROVE  Handles(Number(m))
  BY <1>1 DEF HandleSSEMessage, Handles, stateVars
<1>2. ASSUME UNCHANGED <<stateVars, buffer, waiting, taken, swallowed>>,
             NEW n, lastEventId' \in {lastEventId, n}
      PROVE  Handles(n)
  BY <1>2 DEF Handles
<1>3. PICK m \in Coming(c) :
        \/ /\ ReadsEnd(m)
           /\ connections' = [connections EXCEPT ![c] = After(m, {})]
        \/ \E part \in SUBSET m.rest \ {{}} :
             /\ ReadsPart(m, part)
             /\ connections' = [connections EXCEPT ![c] = After(m, m.rest \ part)]
  BY DEF Read
<1>4. CASE /\ ReadsEnd(m)
           /\ connections' = [connections EXCEPT ![c] = After(m, {})]
  <2>1. Handles(Number(m)) /\ UNCHANGED torn
    BY <1>1, <1>2, <1>4 DEF ReadsEnd
  <2>2. ReadsAs(c, m, {})
    BY <1>4, <2>1 DEF ReadsAs
  <2> QED BY <2>2
<1>5. ASSUME NEW part \in SUBSET m.rest \ {{}}, ReadsPart(m, part),
             connections' = [connections EXCEPT ![c] = After(m, m.rest \ part)]
      PROVE  \E left \in SUBSET LinesOf("data") : ReadsAs(c, m, left)
  <2>1. Handles(Number(m))
    BY <1>1, <1>2, <1>5 DEF ReadsPart
  <2>2. m \in Connections
    BY ComingFacts DEF Read
  <2>3. m.rest \ part \in SUBSET LinesOf("data")
    BY <2>2 DEF Connections
  <2>4. ReadsAs(c, m, m.rest \ part)
    BY <1>5, <2>1 DEF ReadsAs, ReadsPart
  <2> QED BY <2>3, <2>4
<1> QED BY <1>3, <1>4, <1>5

\* As long as no message was torn, a connection that has more to bring is the
\* latest and between two messages, no timer would start another next to it, and
\* it has sent just what the stream has noted.
OneReader ==
  /\ Len(connections) > 0
  /\ torn = <<>> =>
       /\ timers \in 0..1
       /\ \A c \in 1..Len(connections) :
            connections[c].stage \in {"fetching", "reading"} =>
              /\ c = Len(connections)
              /\ timers = 0
              /\ connections[c].sent = lastEventId
              /\ connections[c].rest = {}

\* What a read does that ends in no message.
ReadsWhole(c, new) ==
  /\ new \in Connections /\ new.rest = {}
  /\ connections' = [connections EXCEPT ![c] = new]
  /\ \/ /\ lastEventId' = lastEventId + 1 /\ lastEventId' \in 0..MaxData
        /\ EnqueueData(lastEventId')
        /\ new.sent = lastEventId' /\ UNCHANGED stateVars
     \/ /\ UNCHANGED <<lastEventId, buffer, taken, swallowed>>
        /\ new.sent = lastEventId
        /\ \/ UNCHANGED stateVars
           \/ timers' \in {timers, timers + 1} /\ new.stage \in {"ending", "over"}

\* When nothing was torn a read brings whole messages: the next chunk, or none.
LEMMA WholeFacts ==
  ASSUME ErrorsEnd, TypeOK, OneReader, NEW c \in 1..Len(connections), Read(c),
         torn' = <<>>
  PROVE  torn = <<>> /\ \E new : ReadsWhole(c, new)
<1>1. PICK m \in Coming(c) : \E left \in SUBSET LinesOf("data") :
        ReadsAs(c, m, left)
  BY ReadFacts
<1>2. PICK left \in SUBSET LinesOf("data") : ReadsAs(c, m, left)
  BY <1>1
<1>3. connections[c].stage = "reading" /\ closed = "no"
  BY DEF Read
<1>4. Number(m) \in 0..MaxData /\ torn \in Seq(0..MaxData) /\ m \in Connections
  BY <1>3, ComingFacts DEF TypeOK
<1>5. Append(torn, Number(m)) # <<>>
  BY <1>4
<1>6. ReadsEnd(m) /\ left = {} /\ torn = <<>>
  BY <1>2, <1>5 DEF ReadsAs
<1>7. connections[c].sent = lastEventId /\ connections[c].rest = {}
  BY <1>3, <1>6 DEF OneReader
<1>8. /\ m.kind \in Kinds /\ m.rest = LinesOf(m.kind)
      /\ m.sent = IF m.kind = "data" THEN lastEventId + 1 ELSE lastEventId
  BY <1>3, <1>7, ComingFacts
<1>9. HandleSSEMessage(m, LinesOf(m.kind))
  BY <1>6, <1>8 DEF ReadsEnd, LinesOf
<1> DEFINE new == After(m, {})
<1>10. /\ new \in Connections /\ new.sent = m.sent /\ new.rest = {}
       /\ m.kind = "error" => new.stage \in {"ending", "over"}
       /\ closed' # "no" => new.stage = "over"
       /\ connections' = [connections EXCEPT ![c] = new]
  BY <1>2, <1>4, <1>6, AfterFacts DEF ReadsAs, ErrorsEnd
<1> HIDE DEF new
<1>11. CASE m.kind = "data"
  <2>1. Number(m) = lastEventId + 1
    BY <1>8, <1>11 DEF Number
  <2>2. lastEventId' = Number(m) /\ EnqueueData(Number(m)) /\ UNCHANGED stateVars
    BY <1>9, <1>11 DEF HandleSSEMessage, LinesOf
  <2>3. ReadsWhole(c, new)
    BY <1>4, <1>8, <1>10, <1>11, <2>1, <2>2 DEF ReadsWhole
  <2> QED BY <1>6, <2>3
<1>12. CASE m.kind # "data"
  <2>1. /\ UNCHANGED <<lastEventId, buffer, taken, swallowed>>
        /\ \/ UNCHANGED stateVars
           \/ m.kind = "error" /\ HandleStreamError
           \/ m.kind = "end" /\ HandleStreamEnd
    BY <1>9, <1>12 DEF HandleSSEMessage, LinesOf, Texts
  <2>2. CASE UNCHANGED stateVars
    <3>1. ReadsWhole(c, new)
      BY <1>8, <1>10, <1>12, <2>1, <2>2 DEF ReadsWhole
    <3> QED BY <1>6, <3>1
  <2>3. CASE m.kind = "error" /\ HandleStreamError
    <3>1. timers' \in {timers, timers + 1} /\ new.stage \in {"ending", "over"}
      BY <1>10, <2>3 DEF HandleStreamError, stateVars
    <3>2. ReadsWhole(c, new)
      BY <1>8, <1>10, <1>12, <2>1, <3>1 DEF ReadsWhole
    <3> QED BY <1>6, <3>2
  <2>4. CASE m.kind = "end" /\ HandleStreamEnd
    <3>1. timers' \in {timers, timers + 1} /\ new.stage \in {"ending", "over"}
      BY <1>3, <1>10, <2>4 DEF HandleStreamEnd
    <3>2. ReadsWhole(c, new)
      BY <1>8, <1>10, <1>12, <2>1, <3>1 DEF ReadsWhole
    <3> QED BY <1>6, <3>2
  <2> QED BY <2>1, <2>2, <2>3, <2>4
<1> QED BY <1>11, <1>12

\* handleStreamError() arms a timer for the only reader, which stops.
LEMMA ErrorStep ==
  ASSUME TypeOK, OneReader, NEW c \in 1..Len(connections),
         connections[c].stage \in {"fetching", "reading"}, HandleStreamError,
         Goes(c, "over"), UNCHANGED <<lastEventId, torn>>
  PROVE  OneReader'
<1>1. torn = <<>> => timers = 0 /\ c = Len(connections)
  BY DEF OneReader
<1>2. timers' \in {timers, timers + 1}
  BY DEF HandleStreamError, stateVars
<1>3. /\ Len(connections') = Len(connections)
      /\ \A d \in 1..Len(connections) :
           connections'[d].stage = IF d = c THEN "over" ELSE connections[d].stage
  BY GoesFacts DEF Stages
<1>4. torn = <<>> => \A d \in 1..Len(connections) :
                       connections'[d].stage \notin {"fetching", "reading"}
  BY <1>1, <1>3 DEF OneReader
<1> QED BY <1>1, <1>2, <1>3, <1>4 DEF OneReader

\* A connection that goes over, or starts to read, changes nothing else.
LEMMA GoesStep ==
  ASSUME TypeOK, OneReader, NEW c \in 1..Len(connections),
         NEW stage \in {"reading", "over"}, Goes(c, stage),
         stage = "reading" => connections[c].stage = "fetching",
         UNCHANGED <<timers, lastEventId, torn>>
  PROVE  OneReader'
<1>1. /\ Len(connections') = Len(connections)
      /\ \A d \in 1..Len(connections) :
           /\ connections'[d].sent = connections[d].sent
           /\ connections'[d].stage = IF d = c THEN stage
                                               ELSE connections[d].stage
           /\ connections'[d].rest = IF d = c THEN {} ELSE connections[d].rest
  BY GoesFacts DEF Stages
<1> QED BY <1>1 DEF OneReader

\* Every step leaves at most one reader.
LEMMA OneReaderStep ==
  ASSUME ErrorsEnd, TypeOK, OneReader, [Next]_vars
  PROVE  OneReader'
<1>1. ASSUME NEW c \in 1..Len(connections), Responds(c) PROVE OneReader'
  BY <1>1, GoesStep DEF Responds, dataVars
<1>2. ASSUME NEW c \in 1..Len(connections), Fails(c) PROVE OneReader'
  BY <1>2, ErrorStep DEF Fails, dataVars
<1>3. ASSUME NEW c \in 1..Len(connections), Read(c) PROVE OneReader'
  <2>1. Len(connections') = Len(connections)
    <3>1. PICK m \in Coming(c) : \E left \in SUBSET LinesOf("data") :
            ReadsAs(c, m, left)
      BY <1>3, ReadFacts
    <3>2. PICK left \in SUBSET LinesOf("data") : ReadsAs(c, m, left)
      BY <3>1
    <3>3. m \in Connections
      BY <1>3, ComingFacts DEF Read
    <3>4. After(m, left) \in Connections
      BY <3>3, AfterFacts
    <3> QED BY <3>2, <3>4, ChangeFacts DEF ReadsAs
  <2>2. CASE torn' # <<>>
    BY <2>1, <2>2 DEF OneReader
  <2>3. CASE torn' = <<>>
    <3>1. torn = <<>>
      BY <1>3, <2>3, WholeFacts
    <3>2. PICK new : ReadsWhole(c, new)
      BY <1>3, <2>3, WholeFacts
    <3>3. \A d \in 1..Len(connections) :
            connections'[d] = IF d = c THEN new ELSE connections[d]
      BY <3>2, ChangeFacts DEF ReadsWhole
    <3>4. c = Len(connections) /\ timers = 0
      BY <1>3, <3>1 DEF OneReader, Read
    <3>5. \A d \in 1..Len(connections) :
            d # c => connections[d].stage \notin {"fetching", "reading"}
      BY <3>1, <3>4 DEF OneReader
    <3>6. /\ new.rest = {} /\ new.sent = lastEventId'
          /\ \/ timers' = 0
             \/ timers' \in 0..1 /\ new.stage \notin {"fetching", "reading"}
      BY <3>2, <3>4 DEF ReadsWhole, stateVars
    <3> QED BY <2>1, <3>3, <3>4, <3>5, <3>6 DEF OneReader
  <2> QED BY <2>2, <2>3
<1>4. ASSUME NEW c \in 1..Len(connections), Ends(c) PROVE OneReader'
  BY <1>4, GoesStep DEF Ends, HandleStreamEnd, dataVars
<1>5. CASE ReconnectTimer
  <2>1. timers \in Nat /\ timers' = timers - 1 /\ UNCHANGED <<lastEventId, torn>>
    BY <1>5 DEF ReconnectTimer, TypeOK, dataVars
  <2>2. torn = <<>> => /\ timers = 1 /\ timers' = 0
                       /\ \A c \in 1..Len(connections) :
                            connections[c].stage \notin {"fetching", "reading"}
    BY <1>5, <2>1 DEF OneReader, ReconnectTimer
  <2>3. CASE UNCHANGED connections
    BY <2>1, <2>2, <2>3 DEF OneReader
  <2>4. CASE connections' = Append(connections, Connection(lastEventId))
    <3>1. Connection(lastEventId) \in Connections
      BY DEF Connection, TypeOK, Stages, Connections
    <3>2. connections \in Seq(Connections)
      BY DEF TypeOK, Connections
    <3>3. /\ Len(connections) \in Nat /\ Len(connections') = Len(connections) + 1
          /\ \A d \in 1..Len(connections) : connections'[d] = connections[d]
          /\ connections'[Len(connections) + 1] = Connection(lastEventId)
      BY <2>4, <3>1, <3>2, AppendFacts
    <3>4. /\ connections'[Len(connections) + 1].sent = lastEventId
          /\ connections'[Len(connections) + 1].rest = {}
      BY <3>3 DEF Connection
    <3> QED BY <2>1, <2>2, <3>3, <3>4 DEF OneReader
  <2> QED BY <1>5, <2>3, <2>4 DEF ReconnectTimer
<1>6. CASE NextCall \/ Close \/ \E i \in 1..Len(waiting) : ChunkTimeout(i)
  BY <1>6 DEF NextCall, Close, ChunkTimeout, OneReader, stateVars, dataVars
<1>7. CASE UNCHANGED vars
  BY <1>7 DEF vars, OneReader, stateVars, dataVars
<1> QED BY <1>1, <1>2, <1>3, <1>4, <1>5, <1>6, <1>7 DEF Next

-----------------------------------------------------------------------------
(* Type correctness *)

\* handleStreamError() and handleStreamEnd() keep the types.
LEMMA EndType ==
  ASSUME TypeOK, HandleStreamError \/ HandleStreamEnd
  PROVE  /\ closed' \in {"no", "source", "consumer"}
         /\ error' \in {"no", "yes"}
         /\ attempts' \in 0..MaxReconnectAttempts
         /\ waiting' \in Seq({"live", "dead"})
<1>1. CASE HandleStreamError
  <2>1. CASE UNCHANGED <<stateVars, waiting>>
    BY <2>1 DEF stateVars, TypeOK
  <2>2. CASE /\ closed = "no" /\ CanReconnect /\ error' = "yes"
             /\ attempts' = attempts + 1 /\ UNCHANGED <<closed, waiting>>
    <3>1. attempts' \in 0..MaxReconnectAttempts
      BY <2>2, SseAssumption DEF CanReconnect, TypeOK
    <3> QED BY <2>2, <3>1 DEF TypeOK
  <2>3. CASE /\ error' = "yes" /\ closed' = "source" /\ waiting' = <<>>
             /\ UNCHANGED attempts
    BY <2>3 DEF TypeOK
  <2> QED BY <1>1, <2>1, <2>2, <2>3 DEF HandleStreamError
<1>2. CASE HandleStreamEnd
  <2>1. /\ \/ UNCHANGED <<closed, waiting>>
           \/ closed' = "source" /\ waiting' = <<>>
        /\ UNCHANGED <<error, attempts>>
    BY <1>2 DEF HandleStreamEnd
  <2>2. <<>> \in Seq({"live", "dead"})
    OBVIOUS
  <2> QED BY <2>1, <2>2 DEF TypeOK
<1> QED BY <1>1, <1>2

\* So does enqueueData(), whatever it is given.
LEMMA EnqueueType ==
  ASSUME TypeOK, NEW chunk \in 0..MaxData, EnqueueData(chunk)
  PROVE  /\ buffer' \in Seq(0..MaxData) /\ taken' \in Seq(0..MaxData)
         /\ waiting' \in Seq({"live", "dead"})
         /\ swallowed' \subseteq 0..MaxData
<1>1. /\ buffer \in Seq(0..MaxData) /\ taken \in Seq(0..MaxData)
      /\ waiting \in Seq({"live", "dead"})
  BY DEF TypeOK
<1>2. /\ Append(buffer, chunk) \in Seq(0..MaxData)
      /\ Append(taken, chunk) \in Seq(0..MaxData)
      /\ waiting # <<>> => Tail(waiting) \in Seq({"live", "dead"})
  BY <1>1, SeqType
<1> QED BY <1>1, <1>2 DEF EnqueueData, TypeOK

\* A timer that is armed or goes off leaves a number of them.
LEMMA TimersType ==
  ASSUME TypeOK, [Next]_vars
  PROVE  timers' \in Nat
<1>1. HandleStreamError \/ HandleStreamEnd => timers' \in {timers, timers + 1}
  BY DEF HandleStreamError, HandleStreamEnd, stateVars
<1>2. ASSUME NEW c \in 1..Len(connections), Responds(c) \/ Fails(c) \/ Ends(c)
      PROVE  timers' \in {timers, timers + 1}
  BY <1>1, <1>2 DEF Responds, Fails, Ends
<1>3. ASSUME NEW c \in 1..Len(connections), Read(c)
      PROVE  timers' \in {timers, timers + 1}
  <2>1. PICK m \in Coming(c) : \E left \in SUBSET LinesOf("data") :
          ReadsAs(c, m, left)
    BY <1>3, ReadFacts
  <2>2. Handles(Number(m))
    BY <2>1 DEF ReadsAs
  <2> QED BY <1>1, <2>2 DEF Handles, stateVars
<1>4. CASE ReconnectTimer
  <2>1. timers \in Nat
    BY DEF TypeOK
  <2> QED BY <1>4, <2>1 DEF ReconnectTimer
<1>5. CASE NextCall \/ Close \/ UNCHANGED vars
           \/ \E i \in 1..Len(waiting) : ChunkTimeout(i)
  <2>1. UNCHANGED timers
    BY <1>5 DEF NextCall, Close, ChunkTimeout, vars, stateVars
  <2> QED BY <2>1 DEF TypeOK
<1>6. ASSUME timers' \in {timers, timers + 1} PROVE timers' \in Nat
  BY <1>6 DEF TypeOK
<1> QED BY <1>2, <1>3, <1>4, <1>5, <1>6 DEF Next

\* What a read does about a message keeps the types.
LEMMA HandlesType ==
  ASSUME TypeOK, NEW n \in 0..MaxData, Handles(n)
  PROVE  /\ closed' \in {"no", "source", "consumer"}
         /\ error' \in {"no", "yes"}
         /\ attempts' \in 0..MaxReconnectAttempts
         /\ lastEventId' \in 0..MaxData
         /\ waiting' \in Seq({"live", "dead"})
         /\ buffer' \in Seq(0..MaxData) /\ taken' \in Seq(0..MaxData)
         /\ swallowed' \subseteq 0..MaxData
<1>1. lastEventId' \in 0..MaxData
  BY DEF Handles, TypeOK
<1>2. CASE (EnqueueData(n) \/ EnqueueData(Garbled)) /\ UNCHANGED stateVars
  <2>1. Garbled \in 0..MaxData
    BY SseAssumption DEF Garbled
  <2>2. /\ buffer' \in Seq(0..MaxData) /\ taken' \in Seq(0..MaxData)
        /\ waiting' \in Seq({"live", "dead"})
        /\ swallowed' \subseteq 0..MaxData
    BY <1>2, <2>1, EnqueueType
  <2> QED BY <1>1, <1>2, <2>2 DEF stateVars, TypeOK
<1>3. CASE UNCHANGED <<buffer, taken, swallowed, stateVars, waiting>>
  BY <1>1, <1>3 DEF stateVars, TypeOK
<1>4. CASE /\ UNCHANGED <<buffer, taken, swallowed>>
           /\ HandleStreamError \/ HandleStreamEnd
  BY <1>1, <1>4, EndType DEF TypeOK
<1> QED BY <1>2, <1>3, <1>4 DEF Handles

\* Every step of the stream and its consumer keeps the types.
LEMMA TypeStep ==
  ASSUME TypeOK, [Next]_vars
  PROVE  TypeOK'
<1>0. timers' \in Nat
  BY TimersType
<1>1. ASSUME NEW c \in 1..Len(connections), NEW stage \in Stages,
             Goes(c, stage), UNCHANGED <<dataVars, told>>,
             \/ HandleStreamError \/ HandleStreamEnd
             \/ UNCHANGED <<closed, error, waiting>> /\ attempts' = 0
      PROVE  TypeOK'
  <2>1. connections' \in Seq(Connections)
    BY <1>1, GoesFacts
  <2>2. /\ closed' \in {"no", "source", "consumer"}
        /\ error' \in {"no", "yes"}
        /\ attempts' \in 0..MaxReconnectAttempts
        /\ waiting' \in Seq({"live", "dead"})
    BY <1>1, EndType, SseAssumption DEF TypeOK
  <2> QED BY <1>0, <1>1, <2>1, <2>2 DEF TypeOK, dataVars, Connections
<1>2. ASSUME NEW c \in 1..Len(connections), Responds(c) PROVE TypeOK'
  BY <1>1, <1>2 DEF Responds, Stages
<1>3. ASSUME NEW c \in 1..Len(connections), Fails(c) PROVE TypeOK'
  BY <1>1, <1>3 DEF Fails, Stages
<1>4. ASSUME NEW c \in 1..Len(connections), Read(c) PROVE TypeOK'
  <2>1. PICK m \in Coming(c) : \E left \in SUBSET LinesOf("data") :
          ReadsAs(c, m, left)
    BY <1>4, ReadFacts
  <2>2. PICK left \in SUBSET LinesOf("data") : ReadsAs(c, m, left)
    BY <2>1
  <2>3. m \in Connections /\ Number(m) \in 0..MaxData
    BY <1>4, ComingFacts DEF Read
  <2>4. connections' \in Seq(Connections)
    BY <2>2, <2>3, AfterFacts, ChangeFacts DEF ReadsAs
  <2>5. torn' \in Seq(0..MaxData) /\ Len(torn') <= MaxTorn
    <3>1. torn \in Seq(0..MaxData) /\ Len(torn) <= MaxTorn
      BY DEF TypeOK
    <3>2. /\ Append(torn, Number(m)) \in Seq(0..MaxData)
          /\ Len(torn) \in Nat
          /\ Len(Append(torn, Number(m))) = Len(torn) + 1
      BY <2>3, <3>1, AppendFacts
    <3> QED BY <2>2, <3>1, <3>2, SseAssumption DEF ReadsAs
  <2>6. Handles(Number(m)) /\ UNCHANGED told
    BY <1>4, <2>2 DEF ReadsAs, Read
  <2> QED BY <1>0, <2>3, <2>4, <2>5, <2>6, HandlesType DEF TypeOK, Connections
<1>6. ASSUME NEW c \in 1..Len(connections), Ends(c) PROVE TypeOK'
  BY <1>1, <1>6 DEF Ends, Stages
<1>7. CASE ReconnectTimer
  <2>1. Connection(lastEventId) \in Connections
    BY DEF Connection, Connections, TypeOK, Stages
  <2>2. connections \in Seq(Connections)
    BY DEF TypeOK, Connections
  <2>3. Append(connections, Connection(lastEventId)) \in Seq(Connections)
    BY <2>1, <2>2, SeqType
  <2>4. connections' \in Seq(Connections)
    BY <1>7, <2>2, <2>3 DEF ReconnectTimer
  <2> QED BY <1>0, <1>7, <2>4 DEF ReconnectTimer, TypeOK, dataVars, Connections
<1>8. CASE NextCall
  <2>1. /\ buffer \in Seq(0..MaxData) /\ taken \in Seq(0..MaxData)
        /\ waiting \in Seq({"live", "dead"})
    BY DEF TypeOK
  <2>2. /\ buffer' \in Seq(0..MaxData) /\ taken' \in Seq(0..MaxData)
        /\ waiting' \in Seq({"live", "dead"})
    <3>1. CASE UNCHANGED <<buffer, taken, waiting>>
      BY <2>1, <3>1
    <3>2. CASE /\ buffer # <<>> /\ buffer' = Tail(buffer)
               /\ taken' = Append(taken, Head(buffer)) /\ UNCHANGED waiting
      <4>1. Head(buffer) \in 0..MaxData /\ Tail(buffer) \in Seq(0..MaxData)
        BY <2>1, <3>2, SeqType
      <4>2. Append(taken, Head(buffer)) \in Seq(0..MaxData)
        BY <2>1, <4>1, SeqType
      <4> QED BY <2>1, <3>2, <4>1, <4>2
    <3>3. CASE waiting' = Append(waiting, "live") /\ UNCHANGED <<buffer, taken>>
      <4>1. Append(waiting, "live") \in Seq({"live", "dead"})
        BY <2>1, SeqType
      <4> QED BY <2>1, <3>3, <4>1
    <3> QED BY <1>8, <3>1, <3>2, <3>3 DEF NextCall
  <2>3. told' \in {"no", "done", "failed"}
    BY <1>8 DEF NextCall, TypeOK
  <2> QED BY <1>0, <1>8, <2>2, <2>3 DEF NextCall, TypeOK, stateVars
<1>9. ASSUME NEW i \in 1..Len(waiting), ChunkTimeout(i) PROVE TypeOK'
  BY <1>0, <1>9 DEF ChunkTimeout, TypeOK, stateVars, dataVars
<1>10. CASE Close
  BY <1>0, <1>10 DEF Close, TypeOK, dataVars
<1>11. CASE UNCHANGED vars
  BY <1>11 DEF vars, TypeOK, stateVars, dataVars
<1> QED BY <1>2, <1>3, <1>4, <1>6, <1>7, <1>8, <1>9, <1>10, <1>11 DEF Next

\* Whatever the source, the network and the consumer do, every field of the
\* stream keeps its type, and the attempts their maximum.
THEOREM TypeCorrect == Spec => []TypeOK
<1>1. Init => TypeOK
  <2> SUFFICES ASSUME Init PROVE TypeOK
    OBVIOUS
  <2>1. Connection(0) \in Connections
    BY SseAssumption DEF Connection, Connections, Stages
  <2>2. connections \in Seq(Connections)
    <3>1. <<Connection(0)>> \in Seq(Connections)
      BY <2>1
    <3> QED BY <3>1 DEF Init
  <2> QED BY <2>2, SseAssumption DEF Init, TypeOK, Connections
<1>2. TypeOK /\ [Next]_vars => TypeOK'
  BY TypeStep
<1> QED BY <1>1, <1>2, PTL DEF Spec

\* There is one reader at the start, and so always.
LEMMA ReaderAlways ==
  ASSUME ErrorsEnd
  PROVE  Spec => []OneReader
<1>1. Init => OneReader
  BY SseAssumption DEF Init, OneReader, Connection
<1>2. TypeOK /\ OneReader /\ [Next]_vars => OneReader'
  BY OneReaderStep
<1> QED BY <1>1, <1>2, TypeCorrect, PTL DEF Spec

-----------------------------------------------------------------------------
(* The consumer and the connections *)

\* No next() waits on a stream that is over, nor for a chunk that is buffered:
\* every way in which the stream ends or brings a chunk serves it.
THEOREM NobodyForgotten == Spec => []NoForgottenNext
<1>1. Init => NoForgottenNext
  BY DEF Init, NoForgottenNext
<1>2. TypeOK /\ NoForgottenNext /\ [Next]_vars => NoForgottenNext'
  <2> SUFFICES ASSUME TypeOK, NoForgottenNext, [Next]_vars
               PROVE  NoForgottenNext'
    OBVIOUS
  <2> USE DEF NoForgottenNext
  <2>1. HandleStreamError \/ HandleStreamEnd =>
          waiting' = <<>> \/ UNCHANGED <<closed, waiting>>
    BY DEF HandleStreamError, HandleStreamEnd, stateVars
  <2>2. ASSUME NEW c \in 1..Len(connections),
               Responds(c) \/ Fails(c) \/ Ends(c)
        PROVE  NoForgottenNext'
    BY <2>1, <2>2 DEF Responds, Fails, Ends, dataVars
  <2>3. ASSUME NEW c \in 1..Len(connections), Read(c)
        PROVE  NoForgottenNext'
    <3>1. \E n : Handles(n)
      BY <2>3, ReadFacts DEF ReadsAs
    <3>2. CASE UNCHANGED stateVars /\ \E n : EnqueueData(n)
      BY <3>2 DEF EnqueueData, stateVars
    <3>3. CASE UNCHANGED buffer
      BY <2>1, <3>1, <3>3 DEF Handles, EnqueueData, stateVars
    <3> QED BY <3>1, <3>2, <3>3 DEF Handles
  <2>4. CASE ReconnectTimer \/ Close \/ UNCHANGED vars
    BY <2>4 DEF ReconnectTimer, Close, vars, stateVars, dataVars
  <2>5. CASE NextCall
    BY <2>5 DEF NextCall, stateVars
  <2>6. ASSUME NEW i \in 1..Len(waiting), ChunkTimeout(i) PROVE NoForgottenNext'
    <3>1. waiting # <<>>
      BY <2>6
    <3> QED BY <2>6, <3>1 DEF ChunkTimeout, stateVars, dataVars
  <2> QED BY <2>2, <2>3, <2>4, <2>5, <2>6 DEF Next
<1> QED BY <1>1, <1>2, TypeCorrect, PTL DEF Spec

\* An open stream has a connection that can still bring chunks or its end, or
\* a timer that makes a new one.
THEOREM AlwaysAlive == Spec => []OpenIsAlive
<1>1. Init => OpenIsAlive
  BY DEF Init, OpenIsAlive, Connection
<1>2. TypeOK /\ OpenIsAlive /\ [Next]_vars => OpenIsAlive'
  <2> SUFFICES ASSUME TypeOK, OpenIsAlive, [Next]_vars
               PROVE  OpenIsAlive'
    OBVIOUS
  <2> USE DEF OpenIsAlive
  <2>1. ASSUME NEW c \in 1..Len(connections), NEW stage \in Stages,
               Goes(c, stage), closed' = "no" => stage # "over" \/ timers' > 0
        PROVE  OpenIsAlive'
    BY <2>1, GoesFacts DEF Stages
  <2>2. HandleStreamError /\ closed = "no" /\ closed' = "no" => timers' > 0
    BY DEF HandleStreamError, TypeOK
  <2>3. ASSUME NEW c \in 1..Len(connections), Responds(c) PROVE OpenIsAlive'
    BY <2>1, <2>3 DEF Responds, Stages
  <2>4. ASSUME NEW c \in 1..Len(connections), Fails(c) PROVE OpenIsAlive'
    <3>1. closed' = "no" => closed = "no"
      BY <2>4 DEF Fails, HandleStreamError, stateVars
    <3> QED BY <2>1, <2>2, <2>4, <3>1 DEF Fails, Stages
  <2>5. ASSUME NEW c \in 1..Len(connections), Read(c) PROVE OpenIsAlive'
    <3>1. PICK m \in Coming(c) : \E left \in SUBSET LinesOf("data") :
            ReadsAs(c, m, left)
      BY <2>5, ReadFacts
    <3>2. PICK left \in SUBSET LinesOf("data") : ReadsAs(c, m, left)
      BY <3>1
    <3>3. m \in Connections
      BY <2>5, ComingFacts DEF Read
    <3>4. /\ After(m, left) \in Connections
          /\ closed' = "no" => After(m, left).stage # "over"
      BY <3>3, AfterFacts
    <3>5. Len(connections') = Len(connections) /\ connections'[c] = After(m, left)
      BY <3>2, <3>4, ChangeFacts DEF ReadsAs
    <3> QED BY <3>4, <3>5
  <2>7. ASSUME NEW c \in 1..Len(connections), Ends(c) PROVE OpenIsAlive'
    BY <2>1, <2>7 DEF Ends, HandleStreamEnd, Stages
  <2>8. CASE ReconnectTimer
    <3>1. CASE closed # "no"
      BY <2>8, <3>1 DEF ReconnectTimer
    <3>2. CASE connections' = Append(connections, Connection(lastEventId))
      <4>1. /\ Connection(lastEventId) \in Connections
            /\ connections \in Seq(Connections)
        BY DEF Connection, TypeOK, Stages, Connections
      <4>2. /\ Len(connections') = Len(connections) + 1
            /\ Len(connections) \in Nat
            /\ connections'[Len(connections) + 1] = Connection(lastEventId)
        BY <3>2, <4>1, AppendFacts
      <4>3. Len(connections) + 1 \in 1..Len(connections')
        BY <4>2
      <4> QED BY <4>2, <4>3 DEF Connection
    <3> QED BY <2>8, <3>1, <3>2 DEF ReconnectTimer
  <2>9. CASE NextCall \/ Close \/ \E i \in 1..Len(waiting) : ChunkTimeout(i)
    BY <2>9 DEF NextCall, Close, ChunkTimeout, stateVars
  <2>10. CASE UNCHANGED vars
    BY <2>10 DEF vars, stateVars
  <2> QED BY <2>3, <2>4, <2>5, <2>7, <2>8, <2>9, <2>10 DEF Next
<1> QED BY <1>1, <1>2, TypeCorrect, PTL DEF Spec

-----------------------------------------------------------------------------
(* The chunks *)

\* What was handed out, in order, with what is buffered; with what a next() that
\* had timed out was given; and with what was torn.
Seen == taken \o buffer
Given == Members(Seen) \cup swallowed
Held == Given \cup Members(torn)

\* The chunks in order, when the last one known is n and those in lost are not
\* among them.
Complete(q, lost, n) ==
  /\ \A i, j \in 1..Len(q) : i < j => q[i] < q[j]
  /\ Members(q) \cup lost = 1..n

\* What any connection has begun to send is held or was torn, noted or not.
Delivered ==
  \A c \in 1..Len(connections) : 1..connections[c].sent \subseteq Held

\* The next chunk goes to the end.
LEMMA CompleteAppend ==
  ASSUME NEW q \in Seq(0..MaxData), NEW lost, NEW n \in Nat,
         n + 1 \in 0..MaxData, Complete(q, lost, n)
  PROVE  Complete(Append(q, n + 1), lost, n + 1)
<1>1. \A i \in 1..Len(q) : q[i] \in 1..n
  BY DEF Complete, Members
<1>2. \A i, j \in 1..Len(Append(q, n + 1)) :
        i < j => Append(q, n + 1)[i] < Append(q, n + 1)[j]
  <2> DEFINE S == 0..MaxData
             r == Append(q, n + 1)
  <2>1. q \in Seq(S) /\ n + 1 \in S
    OBVIOUS
  <2> HIDE DEF S
  <2>2. /\ Len(q) \in Nat /\ Len(r) = Len(q) + 1 /\ r[Len(q) + 1] = n + 1
        /\ \A i \in 1..Len(q) : r[i] = q[i]
    BY <2>1, AppendFacts
  <2> HIDE DEF r
  <2>3. \A i, j \in 1..Len(q) : i < j => q[i] < q[j]
    BY DEF Complete
  <2>4. ASSUME NEW i \in 1..Len(r), NEW j \in 1..Len(r), i < j
        PROVE  r[i] < r[j]
    <3>1. i \in 1..Len(q) /\ r[i] = q[i] /\ r[i] \in 1..n
      <4>1. i \in 1..Len(q)
        BY <2>2, <2>4
      <4> QED BY <1>1, <2>2, <4>1
    <3>2. CASE j = Len(q) + 1
      BY <2>2, <3>1, <3>2
    <3>3. CASE j \in 1..Len(q)
      BY <2>2, <2>3, <2>4, <3>1, <3>3
    <3> QED BY <2>2, <3>2, <3>3
  <2> QED BY <2>4 DEF r
<1>3. Members(Append(q, n + 1)) = Members(q) \cup {n + 1}
  <2>1. \A x \in 0..MaxData : Members(Append(q, x)) = Members(q) \cup {x}
    BY MembersAppend
  <2> QED BY <2>1
<1>4. (1..n) \cup {n + 1} = 1..(n + 1)
  OBVIOUS
<1> QED BY <1>2, <1>3, <1>4 DEF Complete

\* Or it is lost.
LEMMA CompleteLost ==
  ASSUME NEW q, NEW lost, NEW n \in Nat, Complete(q, lost, n)
  PROVE  Complete(q, lost \cup {n + 1}, n + 1)
<1>1. (1..n) \cup {n + 1} = 1..(n + 1)
  OBVIOUS
<1> QED BY <1>1 DEF Complete

\* enqueueData() appends the chunk to what is seen, or a dead resolver has it.
LEMMA EnqueueFacts ==
  ASSUME TypeOK, NoForgottenNext, NEW chunk \in 0..MaxData, EnqueueData(chunk)
  PROVE  /\ Given' = Given \cup {chunk}
         /\ \/ Seen' = Append(Seen, chunk) /\ UNCHANGED swallowed
            \/ UNCHANGED Seen /\ swallowed' = swallowed \cup {chunk}
<1>1. /\ taken \in Seq(0..MaxData) /\ buffer \in Seq(0..MaxData)
      /\ Seen \in Seq(0..MaxData)
  BY ConcatFacts DEF TypeOK, Seen
<1> DEFINE q == Seen
<1>0. Members(Append(q, chunk)) = Members(q) \cup {chunk}
  <2> DEFINE S == 0..MaxData
  <2>1. q \in Seq(S) /\ chunk \in S
    BY <1>1
  <2> HIDE DEF q, S
  <2> QED BY <2>1, MembersAppend
<1>2. CASE /\ buffer' = Append(buffer, chunk)
           /\ UNCHANGED <<taken, swallowed>>
  <2>1. Seen' = Append(Seen, chunk)
    BY <1>1, <1>2, ConcatFacts DEF Seen
  <2>2. Members(Append(Seen, chunk)) = Members(Seen) \cup {chunk}
    BY <1>0
  <2> QED BY <1>2, <2>1, <2>2 DEF Given, Members
<1>3. CASE /\ waiting # <<>> /\ taken' = Append(taken, chunk)
           /\ UNCHANGED <<buffer, swallowed>>
  <2>1. buffer = <<>>
    BY <1>3 DEF NoForgottenNext
  <2>2. Seen = taken /\ Append(taken, chunk) \in Seq(0..MaxData)
    BY <1>1, <2>1, ConcatFacts, AppendFacts DEF Seen
  <2>3. Append(taken, chunk) \o <<>> = Append(taken, chunk)
    BY <2>2
  <2>4. Seen' = Append(Seen, chunk)
    BY <1>3, <2>1, <2>2, <2>3 DEF Seen
  <2>5. Members(Append(Seen, chunk)) = Members(Seen) \cup {chunk}
    BY <1>0
  <2> QED BY <1>3, <2>4, <2>5 DEF Given, Members
<1>4. CASE /\ swallowed' = swallowed \cup {chunk}
           /\ UNCHANGED <<buffer, taken>>
  BY <1>4 DEF Given, Seen, Members
<1> QED BY <1>2, <1>3, <1>4 DEF EnqueueData

\* next() hands out what it takes from the buffer.
LEMMA NextCallFacts ==
  ASSUME TypeOK, NextCall
  PROVE  UNCHANGED <<connections, lastEventId, torn, Seen, swallowed>>
<1>1. CASE UNCHANGED <<buffer, taken>>
  BY <1>1 DEF NextCall, Seen
<1>2. CASE /\ buffer # <<>> /\ buffer' = Tail(buffer)
           /\ taken' = Append(taken, Head(buffer))
  <2>1. taken \in Seq(0..MaxData) /\ buffer \in Seq(0..MaxData)
    BY DEF TypeOK
  <2>2. Head(buffer) \in 0..MaxData
    BY <1>2, <2>1, SeqType
  <2>3. Append(taken, Head(buffer)) \o Tail(buffer) = taken \o buffer
    BY <1>2, <2>1, <2>2, ConcatFacts
  <2> QED BY <1>2, <2>3 DEF NextCall, Seen
<1> QED BY <1>1, <1>2 DEF NextCall

\* A read takes nothing from what is held, and a chunk that it begins is part of it
\* then.
LEMMA ReadDelivers ==
  ASSUME TypeOK, NoForgottenNext, Delivered, NEW c \in 1..Len(connections), Read(c),
         NEW m \in Coming(c), NEW left, ReadsAs(c, m, left)
  PROVE  Held \subseteq Held' /\ 1..m.sent \subseteq Held'
<1>1. /\ m \in Connections /\ Number(m) \in 0..MaxData /\ Garbled \in 0..MaxData
      /\ torn \in Seq(0..MaxData)
  <2>1. m \in Connections /\ Number(m) \in 0..MaxData
    BY ComingFacts DEF Read
  <2>2. Garbled \in 0..MaxData
    BY SseAssumption DEF Garbled
  <2>3. torn \in Seq(0..MaxData)
    BY DEF TypeOK
  <2> QED BY <2>1, <2>2, <2>3
<1>2. Given \subseteq Given'
  <2>1. CASE UNCHANGED <<buffer, taken, swallowed>>
    BY <2>1 DEF Given, Seen, Members
  <2>2. ASSUME NEW chunk \in 0..MaxData, EnqueueData(chunk)
        PROVE  Given \subseteq Given'
    BY <2>2, EnqueueFacts
  <2> QED BY <1>1, <2>1, <2>2 DEF ReadsAs, Handles
<1>3. \/ UNCHANGED torn /\ ReadsEnd(m)
      \/ Members(torn') = Members(torn) \cup {Number(m)}
  <2>1. Members(Append(torn, Number(m))) = Members(torn) \cup {Number(m)}
    <3> DEFINE S == 0..MaxData
    <3>1. torn \in Seq(S) /\ Number(m) \in S
      BY <1>1
    <3> HIDE DEF S
    <3> QED BY <3>1, MembersAppend
  <2> QED BY <2>1 DEF ReadsAs
<1>4. Members(torn) \subseteq Members(torn')
  BY <1>3
<1>5. Held \subseteq Held'
  BY <1>2, <1>4 DEF Held
<1>6. 1..connections[c].sent \subseteq Held'
  BY <1>5 DEF Delivered
<1>7. CASE m.sent = connections[c].sent
  BY <1>5, <1>6, <1>7
<1>8. CASE m.sent # connections[c].sent
  <2>1. /\ m.kind = "data" /\ m.rest = LinesOf("data")
        /\ m.sent = connections[c].sent + 1
    BY <1>8, ComingFacts DEF Read
  <2>2. Number(m) = m.sent
    BY <2>1 DEF Number
  <2>3. ASSUME ReadsEnd(m) PROVE Number(m) \in Given'
    <3>1. HandleSSEMessage(m, LinesOf("data"))
      BY <2>1, <2>3 DEF ReadsEnd, LinesOf
    <3>2. EnqueueData(Number(m))
      BY <2>1, <3>1 DEF HandleSSEMessage, LinesOf
    <3> QED BY <1>1, <3>2, EnqueueFacts
  <2>4. m.sent \in Held'
    BY <1>3, <2>2, <2>3 DEF Held
  <2>5. connections[c].sent \in Nat
    <3>1. connections[c] \in Connections
      BY ConnectionType
    <3> QED BY <3>1 DEF Connections
  <2>6. 1..m.sent = (1..connections[c].sent) \cup {m.sent}
    BY <2>1, <2>5
  <2> QED BY <1>5, <1>6, <2>4, <2>6
<1> QED BY <1>7, <1>8

\* No step takes a chunk from what is held, a chunk that is sent becomes part of
\* it, and a new connection starts from what is.
LEMMA DeliveredStep ==
  ASSUME TypeOK, NoForgottenNext, NothingLost, Delivered, [Next]_vars
  PROVE  NothingLost' /\ Delivered'
<1>0. NothingLost <=> 1..lastEventId \subseteq Held
  BY DEF NothingLost, Held, Given, Seen, Members
<1>1. ASSUME 1..lastEventId' \subseteq Held' PROVE NothingLost'
  BY <1>1 DEF NothingLost, Held, Given, Seen, Members
<1>2. ASSUME Held \subseteq Held', UNCHANGED lastEventId PROVE NothingLost'
  BY <1>0, <1>1, <1>2
<1>3. ASSUME UNCHANGED dataVars PROVE UNCHANGED Held /\ UNCHANGED lastEventId
  BY <1>3 DEF dataVars, Held, Given, Seen, Members
<1>4. ASSUME NEW c \in 1..Len(connections), NEW stage \in Stages, Goes(c, stage),
             Held \subseteq Held'
      PROVE  Delivered'
  <2>1. /\ Len(connections') = Len(connections)
        /\ \A d \in 1..Len(connections) :
             connections'[d].sent = connections[d].sent
    BY <1>4, GoesFacts
  <2> QED BY <1>4, <2>1 DEF Delivered
<1>5. ASSUME NEW c \in 1..Len(connections), Read(c)
      PROVE  NothingLost' /\ Delivered'
  <2>1. PICK m \in Coming(c) : \E left \in SUBSET LinesOf("data") :
          ReadsAs(c, m, left)
    BY <1>5, ReadFacts
  <2>2. PICK left \in SUBSET LinesOf("data") : ReadsAs(c, m, left)
    BY <2>1
  <2>3. Held \subseteq Held' /\ 1..m.sent \subseteq Held'
    BY <1>5, <2>2, ReadDelivers
  <2>4. m \in Connections /\ Number(m) \in {0, m.sent}
    BY <1>5, ComingFacts DEF Read
  <2>5. 1..Number(m) \subseteq Held'
    BY <2>3, <2>4
  <2>6. lastEventId' \in {lastEventId, Number(m)}
    BY <2>2 DEF ReadsAs, Handles
  <2>7. 1..lastEventId' \subseteq Held'
    BY <1>0, <2>3, <2>5, <2>6
  <2>8. /\ Len(connections') = Len(connections)
        /\ \A d \in 1..Len(connections) :
             connections'[d].sent = IF d = c THEN m.sent ELSE connections[d].sent
    BY <2>2, <2>4, AfterFacts, ChangeFacts DEF ReadsAs
  <2>9. Delivered'
    BY <2>3, <2>8 DEF Delivered
  <2> QED BY <1>1, <2>7, <2>9
<1>7. ASSUME NEW c \in 1..Len(connections), Responds(c) \/ Fails(c) \/ Ends(c)
      PROVE  NothingLost' /\ Delivered'
  <2>1. UNCHANGED Held /\ UNCHANGED lastEventId
    BY <1>3, <1>7 DEF Responds, Fails, Ends
  <2>2. PICK stage \in Stages : Goes(c, stage)
    BY <1>7 DEF Responds, Fails, Ends, Stages
  <2> QED BY <1>2, <1>4, <2>1, <2>2
<1>8. CASE ReconnectTimer
  <2>1. UNCHANGED Held /\ UNCHANGED lastEventId
    BY <1>3, <1>8 DEF ReconnectTimer
  <2>2. CASE UNCHANGED connections
    BY <1>2, <2>1, <2>2 DEF Delivered
  <2>3. CASE connections' = Append(connections, Connection(lastEventId))
    <3>1. /\ Connection(lastEventId) \in Connections
          /\ connections \in Seq(Connections)
      BY DEF Connection, TypeOK, Stages, Connections
    <3>2. /\ Len(connections) \in Nat /\ Len(connections') = Len(connections) + 1
          /\ \A d \in 1..Len(connections) : connections'[d] = connections[d]
          /\ connections'[Len(connections) + 1].sent = lastEventId
      BY <2>3, <3>1, AppendFacts DEF Connection
    <3> QED BY <1>0, <1>2, <2>1, <3>2 DEF Delivered
  <2> QED BY <1>8, <2>2, <2>3 DEF ReconnectTimer
<1>9. CASE Close \/ UNCHANGED vars \/ \E i \in 1..Len(waiting) : ChunkTimeout(i)
  <2>1. UNCHANGED dataVars /\ UNCHANGED connections
    BY <1>9 DEF Close, vars, ChunkTimeout
  <2> QED BY <1>2, <1>3, <2>1 DEF Delivered
<1>10. CASE NextCall
  <2>1. UNCHANGED <<connections, lastEventId, torn, Seen, swallowed>>
    BY <1>10, NextCallFacts
  <2>2. UNCHANGED Held
    BY <2>1 DEF Held, Given, Members
  <2> QED BY <1>2, <2>1, <2>2 DEF Delivered
<1> QED BY <1>5, <1>7, <1>8, <1>9, <1>10 DEF Next

\* Over all connections a chunk up to the id from which the next one resumes is
\* missing only if it went to a next() which had timed out, or a read ended in its
\* own message: a reconnection loses no other, whatever the source does after an
\* error event, be it that an old response goes on beside a new one.
THEOREM OnlyTornIsLost == Spec => []NothingLost
<1>1. Init => NothingLost /\ Delivered
  BY DEF Init, NothingLost, Delivered, Connection
<1>2. TypeOK /\ NoForgottenNext /\ NothingLost /\ Delivered /\ [Next]_vars
        => NothingLost' /\ Delivered'
  BY DeliveredStep
<1> QED BY <1>1, <1>2, TypeCorrect, NobodyForgotten, PTL DEF Spec

\* The chunks are in order and complete as long as no message was torn.
InOrder == torn = <<>> => Complete(Seen, swallowed, lastEventId)

\* A chunk comes from the one reader, and is the next one as long as nothing was torn.
LEMMA InOrderStep ==
  ASSUME ErrorsEnd, TypeOK, OneReader, NoForgottenNext, InOrder, [Next]_vars
  PROVE  InOrder'
<1>1. Seen \in Seq(0..MaxData) /\ lastEventId \in Nat
  BY ConcatFacts, SseAssumption DEF TypeOK, Seen
<1>2. ASSUME UNCHANGED <<lastEventId, torn, Seen, swallowed>> PROVE InOrder'
  BY <1>2 DEF InOrder, Complete, Members
<1>3. ASSUME UNCHANGED dataVars PROVE InOrder'
  BY <1>2, <1>3 DEF dataVars, Seen
<1>4. ASSUME NEW c \in 1..Len(connections), Read(c), torn' = <<>>
      PROVE  Complete(Seen', swallowed', lastEventId')
  <2>1. torn = <<>> /\ Complete(Seen, swallowed, lastEventId)
    BY <1>4, WholeFacts DEF InOrder
  <2>2. PICK new : ReadsWhole(c, new)
    BY <1>4, WholeFacts
  <2>3. CASE UNCHANGED <<lastEventId, buffer, taken, swallowed>>
    BY <2>1, <2>3 DEF Seen
  <2>4. CASE /\ lastEventId' = lastEventId + 1 /\ lastEventId' \in 0..MaxData
             /\ EnqueueData(lastEventId')
    <3> DEFINE n == lastEventId
    <3>1. n \in Nat /\ n + 1 \in 0..MaxData /\ EnqueueData(n + 1)
      BY <1>1, <2>4
    <3>2. Complete(Seen, swallowed, n)
      BY <2>1
    <3>3. lastEventId' = n + 1
      BY <2>4
    <3> HIDE DEF n
    <3>4. \/ Seen' = Append(Seen, n + 1) /\ UNCHANGED swallowed
          \/ UNCHANGED Seen /\ swallowed' = swallowed \cup {n + 1}
      BY <3>1, EnqueueFacts
    <3>5. /\ Complete(Append(Seen, n + 1), swallowed, n + 1)
          /\ Complete(Seen, swallowed \cup {n + 1}, n + 1)
      BY <1>1, <3>1, <3>2, CompleteAppend, CompleteLost
    <3>6. CASE Seen' = Append(Seen, n + 1) /\ UNCHANGED swallowed
      BY <3>3, <3>5, <3>6
    <3>7. CASE UNCHANGED Seen /\ swallowed' = swallowed \cup {n + 1}
      BY <3>3, <3>5, <3>7
    <3> QED BY <3>4, <3>6, <3>7
  <2> QED BY <2>2, <2>3, <2>4 DEF ReadsWhole
<1>5. ASSUME NEW c \in 1..Len(connections), Read(c) PROVE InOrder'
  BY <1>4, <1>5 DEF InOrder, Complete, Members
<1>6. ASSUME NEW c \in 1..Len(connections), Responds(c) \/ Fails(c) \/ Ends(c)
      PROVE  InOrder'
  BY <1>3, <1>6 DEF Responds, Fails, Ends
<1>7. CASE ReconnectTimer \/ Close \/ UNCHANGED vars
           \/ \E i \in 1..Len(waiting) : ChunkTimeout(i)
  BY <1>3, <1>7 DEF ReconnectTimer, Close, vars, ChunkTimeout
<1>8. CASE NextCall
  BY <1>2, <1>8, NextCallFacts
<1> QED BY <1>5, <1>6, <1>7, <1>8 DEF Next

\* If a response ends after an error event, and as long as no read ended in a
\* message, what is handed out and buffered is every chunk up to that id but those
\* given to a next() that had timed out, in order and each once; afterwards only
\* chunks of torn messages are missing.
THEOREM NothingLostOrRepeated ==
  ASSUME ErrorsEnd
  PROVE  Spec => []ResumesExactly
<1>1. Init => InOrder
  BY DEF Init, InOrder, Complete, Seen, Members
<1>2. TypeOK /\ OneReader /\ NoForgottenNext /\ InOrder /\ [Next]_vars => InOrder'
  BY InOrderStep
<1>3. NothingLost /\ InOrder => ResumesExactly
  BY DEF ResumesExactly, InOrder, Complete, Seen
<1> QED BY <1>1, <1>2, <1>3, TypeCorrect, ReaderAlways, NobodyForgotten,
           OnlyTornIsLost, PTL DEF Spec

-----------------------------------------------------------------------------
(* The feed *)

\* The network these results are about: no read ends in a message.
NothingTorn == MaxTorn = 0

\* No more is seen than was noted, so that a buffer that is one longer than the
\* chunks of the source is never full.
Fits == Len(taken) + Len(buffer) <= lastEventId

\* A chunk is handed out, kept, or skipped by the consumer that had given up.
LEMMA ChunkIsFed ==
  ASSUME TypeOK, NoForgottenNext, Fits, NEW n \in 0..MaxData, n = lastEventId + 1,
         lastEventId' = n, EnqueueData(n)
  PROVE  TheFeed!Next /\ Fits'
<1>1. /\ taken \in Seq(0..MaxData) /\ buffer \in Seq(0..MaxData)
      /\ lastEventId \in Nat /\ Len(taken) \in Nat /\ Len(buffer) \in Nat
  BY SseAssumption DEF TypeOK
<1>2. /\ Len(Append(taken, n)) = Len(taken) + 1
      /\ Len(Append(buffer, n)) = Len(buffer) + 1
  BY <1>1
<1>3. CASE buffer' = Append(buffer, n) /\ UNCHANGED taken
  <2>1. Len(buffer) < MaxData + 1
    BY <1>1, SseAssumption DEF Fits
  <2>2. TheFeed!Keep
    BY <1>3, <2>1 DEF TheFeed!Keep
  <2> QED BY <1>1, <1>2, <1>3, <2>2 DEF TheFeed!Next, Fits
<1>4. CASE waiting # <<>> /\ taken' = Append(taken, n) /\ UNCHANGED buffer
  <2>1. TheFeed!Pass
    BY <1>4 DEF TheFeed!Pass, NoForgottenNext
  <2> QED BY <1>1, <1>2, <1>4, <2>1 DEF TheFeed!Next, Fits
<1>5. CASE UNCHANGED <<buffer, taken>>
  <2>1. TheFeed!Skip
    BY <1>5 DEF TheFeed!Skip
  <2> QED BY <1>1, <1>5, <2>1 DEF TheFeed!Next, Fits
<1> QED BY <1>3, <1>4, <1>5 DEF EnqueueData

\* Every step of the stream is a step of the feed, or none.
LEMMA FeedStep ==
  ASSUME ErrorsEnd, NothingTorn, TypeOK, OneReader, NoForgottenNext, Fits,
         [Next]_vars
  PROVE  [TheFeed!Next]_(TheFeed!vars) /\ Fits'
<1>1. ASSUME UNCHANGED dataVars
      PROVE  [TheFeed!Next]_(TheFeed!vars) /\ Fits'
  BY <1>1 DEF dataVars, TheFeed!vars, Fits
<1>2. ASSUME NEW c \in 1..Len(connections), Read(c)
      PROVE  [TheFeed!Next]_(TheFeed!vars) /\ Fits'
  <2>1. torn' = <<>>
    <3>1. Len(torn) \in Nat /\ MaxTorn = 0 /\ torn \in Seq(0..MaxData)
      BY DEF NothingTorn, TypeOK
    <3>2. torn = <<>>
      BY <3>1 DEF TypeOK
    <3>3. \E m, left : ReadsAs(c, m, left)
      BY <1>2, ReadFacts
    <3> QED BY <3>1, <3>2, <3>3 DEF ReadsAs
  <2>2. PICK new : ReadsWhole(c, new)
    BY <1>2, <2>1, WholeFacts
  <2>3. CASE UNCHANGED <<lastEventId, buffer, taken, swallowed>>
    BY <2>3 DEF TheFeed!vars, Fits
  <2>4. CASE /\ lastEventId' = lastEventId + 1 /\ lastEventId' \in 0..MaxData
             /\ EnqueueData(lastEventId')
    <3> DEFINE n == lastEventId + 1
    <3>1. n \in 0..MaxData /\ n = lastEventId + 1 /\ lastEventId' = n
          /\ EnqueueData(n)
      BY <2>4
    <3> HIDE DEF n
    <3> QED BY <3>1, ChunkIsFed
  <2> QED BY <2>2, <2>3, <2>4 DEF ReadsWhole
<1>4. ASSUME NEW c \in 1..Len(connections), Responds(c) \/ Fails(c) \/ Ends(c)
      PROVE  [TheFeed!Next]_(TheFeed!vars) /\ Fits'
  BY <1>1, <1>4 DEF Responds, Fails, Ends
<1>5. CASE ReconnectTimer \/ Close \/ UNCHANGED vars
           \/ \E i \in 1..Len(waiting) : ChunkTimeout(i)
  BY <1>1, <1>5 DEF ReconnectTimer, Close, vars, ChunkTimeout
<1>6. CASE NextCall
  <2>1. CASE UNCHANGED <<buffer, taken>>
    BY <1>6, <2>1 DEF NextCall, TheFeed!vars, Fits
  <2>2. CASE /\ buffer # <<>> /\ buffer' = Tail(buffer)
             /\ taken' = Append(taken, Head(buffer))
    <3>1. TheFeed!Take
      BY <1>6, <2>2 DEF NextCall, TheFeed!Take
    <3>2. taken \in Seq(0..MaxData) /\ buffer \in Seq(0..MaxData)
      BY DEF TypeOK
    <3>3. Head(buffer) \in 0..MaxData
      BY <2>2, <3>2, SeqType
    <3>4. Len(taken') = Len(taken) + 1 /\ Len(buffer') = Len(buffer) - 1
      BY <2>2, <3>2, <3>3
    <3>5. Len(taken) \in Nat /\ Len(buffer) \in Nat /\ UNCHANGED lastEventId
      BY <1>6, <3>2 DEF NextCall
    <3> QED BY <3>1, <3>4, <3>5 DEF TheFeed!Next, Fits
  <2> QED BY <1>6, <2>1, <2>2 DEF NextCall
<1> QED BY <1>2, <1>4, <1>5, <1>6 DEF Next

\* A stream that resumes over any number of connections is the feed that
\* wsSubscribe() is, with room for all the source has.
THEOREM StreamIsAFeed ==
  ASSUME ErrorsEnd, NothingTorn
  PROVE  Spec => ImplementsFeed
<1>1. Init => TheFeed!Init /\ Fits
  BY DEF Init, TheFeed!Init, Fits
<1>2. TypeOK /\ OneReader /\ NoForgottenNext /\ Fits /\ [Next]_vars
        => [TheFeed!Next]_(TheFeed!vars) /\ Fits'
  BY FeedStep
<1> QED BY <1>1, <1>2, TypeCorrect, ReaderAlways, NobodyForgotten, PTL
        DEF Spec, ImplementsFeed, TheFeed!Spec
=============================================================================
