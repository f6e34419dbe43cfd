------------------------------ MODULE SseStream ------------------------------
(****************************************************************************)
(* sseStream() (src/src/transports/streaming.ts): server-sent events read   *)
(* from the body of a response, which a new request replaces when it is     *)
(* lost, and handed to next().                                              *)
(*                                                                          *)
(* A connection is one execution of connect(). Its promise is awaited by    *)
(* sseStream() only for the first, so that the consumer gets the stream     *)
(* when the first connection is over: a later one has nobody waiting for it.*)
(* A chunk is its number, which is also its event id, and the server sends  *)
(* the chunks after the Last-Event-ID of the request; after the last line   *)
(* of an error event a response can only end in order, unless ErrorsGoOn.   *)
(*                                                                          *)
(* A message is a few lines in any order, and parseSSEBuffer() keeps none   *)
(* of one that the next read goes on with. A read that ends between two     *)
(* lines is taken for the end of the message: what came of it is handled at *)
(* once if it has an event or data line. A read that ends inside a line     *)
(* leaves that line to the next one, and those before it are forgotten.     *)
(*                                                                          *)
(* Left out are the length of the backoff, the text of the messages and     *)
(* callbacks that throw. Only chunks have ids.                              *)
(*                                                                          *)
(* A definition whose name has a suffix (HandleStreamEnd_Waiting) is a      *)
(* faulty variant of the one after it, which the properties are tested      *)
(* against.                                                                 *)
(****************************************************************************)
EXTENDS Integers, Sequences

CONSTANTS
  AutoReconnect,         \* options.autoReconnect
  MaxReconnectAttempts,  \* options.maxReconnectAttempts
  ErrorsGoOn,            \* a response may go on, or fail, after an error event
  MaxData,               \* bound: chunks the server has
  MaxConnections,        \* bound: requests made
  MaxTorn,               \* bound: reads that end in a message
  MaxWaiting             \* bound: length of state.waitingResolvers

ASSUME SseAssumption ==
  /\ AutoReconnect \in BOOLEAN
  /\ MaxReconnectAttempts \in Nat
  /\ ErrorsGoOn \in BOOLEAN
  /\ MaxData \in Nat
  /\ MaxConnections \in Nat \ {0}
  /\ MaxTorn \in Nat
  /\ MaxWaiting \in Nat

VARIABLES
  connections,  \* every connect(): where it stands, the last chunk that was
                \* begun, and the kind and rest of a message under way
  timers,       \* backoff timers pending
  closed,       \* state.closed, and on whose account (history)
  error,        \* state.error is set
  attempts,     \* state.reconnectAttempts
  lastEventId,  \* state.lastEventId, 0 for null
  torn,         \* the messages that were torn, once for each read that ended
                \* in them: a chunk's number, or 0 (history)
  buffer,       \* state.buffer
  waiting,      \* state.waitingResolvers: "live", or "dead" after a timeout
  taken,        \* the chunks next() returned (history)
  swallowed,    \* the chunks a dead resolver was given (history)
  told          \* what the last next() said of the end of the stream

stateVars == <<closed, error, attempts, timers>>
dataVars == <<lastEventId, torn, buffer, taken, swallowed>>
vars == <<connections, stateVars, waiting, dataVars, told>>

Stages == {"fetching", "reading", "ending", "over"}

Members(queue) == {queue[i] : i \in 1..Len(queue)}

\* The types of messages, and the lines of one. A message that has not all of them,
\* or has others, is torn like one that has them next to each other.
Kinds == {"data", "heartbeat", "error", "end"}
Texts == {"head", "tail"}
LinesOf(kind) == {"event"} \cup Texts \cup {line \in {"id"} : kind = "data"}

\* What a message that is not a chunk has for a number, and a chunk made of a part.
Garbled == 0

Connection(from) ==
  [stage |-> "fetching", sent |-> from, kind |-> "none", rest |-> {}]

\* Where a connection stands when it is done with what was coming.
Goes(c, stage) ==
  connections' = [connections EXCEPT ![c] =
                    [@ EXCEPT !.stage = stage, !.kind = "none", !.rest = {}]]

\* sseStream() up to the fetch of its first connect().
Init ==
  /\ connections = <<Connection(0)>>
  /\ timers = 0
  /\ closed = "no"
  /\ error = "no"
  /\ attempts = 0
  /\ lastEventId = 0
  /\ torn = <<>>
  /\ buffer = <<>>
  /\ waiting = <<>>
  /\ taken = <<>>
  /\ swallowed = {}
  /\ told = "no"

\* The condition under which handleStreamError() tries again.
CanReconnect == AutoReconnect /\ attempts < MaxReconnectAttempts

\* A retryable error is left to a new connection, another ends the stream.
HandleStreamError_NoTimer ==
  \/ closed # "no" /\ UNCHANGED <<stateVars, waiting>>
  \/ /\ closed = "no" /\ CanReconnect
     /\ error' = "yes"
     /\ attempts' = attempts + 1
     /\ UNCHANGED <<closed, timers, waiting>>
HandleStreamError ==
  \/ closed # "no" /\ UNCHANGED <<stateVars, waiting>>
  \/ /\ closed = "no" /\ CanReconnect
     /\ error' = "yes"
     /\ attempts' = attempts + 1
     /\ timers' = timers + 1
     /\ UNCHANGED <<closed, waiting>>
  \/ /\ closed = "no"
     /\ error' = "yes"
     /\ closed' = "source"
     /\ waiting' = <<>>
     /\ UNCHANGED <<attempts, timers>>

HandleStreamEnd_Waiting ==
  /\ closed' = IF closed = "no" THEN "source" ELSE closed
  /\ UNCHANGED <<error, attempts, timers, waiting>>
HandleStreamEnd ==
  /\ \/ closed # "no" /\ UNCHANGED <<closed, waiting>>
     \/ closed = "no" /\ closed' = "source" /\ waiting' = <<>>
  /\ UNCHANGED <<error, attempts, timers>>

\* The oldest resolver gets the chunk, though its next() may have timed out.
EnqueueData_Full(chunk) ==
  \/ /\ waiting = <<>>
     /\ buffer' = IF buffer = <<>> THEN <<chunk>> ELSE buffer
     /\ UNCHANGED <<waiting, taken, swallowed>>
  \/ /\ waiting # <<>> /\ waiting' = Tail(waiting)
     /\ \/ /\ Head(waiting) = "live"
           /\ taken' = Append(taken, chunk)
           /\ UNCHANGED swallowed
        \/ /\ Head(waiting) = "dead"
           /\ swallowed' = swallowed \cup {chunk}
           /\ UNCHANGED taken
     /\ UNCHANGED buffer
EnqueueData(chunk) ==
  \/ /\ waiting = <<>>
     /\ buffer' = Append(buffer, chunk)
     /\ UNCHANGED <<waiting, taken, swallowed>>
  \/ /\ waiting # <<>> /\ waiting' = Tail(waiting)
     /\ \/ /\ Head(waiting) = "live"
           /\ taken' = Append(taken, chunk)
           /\ UNCHANGED swallowed
        \/ /\ Head(waiting) = "dead"
           /\ swallowed' = swallowed \cup {chunk}
           /\ UNCHANGED taken
     /\ UNCHANGED buffer

-----------------------------------------------------------------------------
(* A connection *)

\* fetch() brings a good response; a stream that was closed in the meantime
\* does not read it.
Responds(c) ==
  /\ connections[c].stage = "fetching"
  /\ attempts' = 0
  /\ Goes(c, IF closed = "no" THEN "reading" ELSE "over")
  /\ UNCHANGED <<closed, error, timers, waiting, dataVars, told>>

\* fetch() or read() fails, or the response is a bad one.
Fails(c) ==
  /\ connections[c].stage \in {"fetching", "reading"}
  /\ HandleStreamError
  /\ Goes(c, "over")
  /\ UNCHANGED <<dataVars, told>>

\* The message a read goes on with: the one under way, or another one.
Coming(c) ==
  IF connections[c].rest # {} THEN {connections[c]}
  ELSE {[connections[c] EXCEPT !.kind = kind, !.rest = LinesOf(kind),
                               !.sent = IF kind = "data" THEN @ + 1 ELSE @] :
          kind \in {k \in Kinds : k = "data" => connections[c].sent < MaxData}}

Number(m) == IF m.kind = "data" THEN m.sent ELSE Garbled

\* handleSSEMessage() on a part of a message, which is a data message unless its
\* event line says otherwise. An error without a text is not worth a reconnection.
HandleSSEMessage_IdNotKept(m, part) ==
  LET type == IF "event" \in part THEN m.kind ELSE "data" IN
  /\ UNCHANGED lastEventId
  /\ \/ /\ type = "data"
        /\ EnqueueData(IF Texts \subseteq part THEN Number(m) ELSE Garbled)
        /\ UNCHANGED stateVars
     \/ /\ type = "heartbeat"
        /\ UNCHANGED <<stateVars, waiting, buffer, taken, swallowed>>
     \/ /\ type = "error" /\ HandleStreamError
        /\ part \cap Texts = {} => closed' # "no"
        /\ UNCHANGED <<buffer, taken, swallowed>>
     \/ /\ type = "end" /\ HandleStreamEnd
        /\ UNCHANGED <<buffer, taken, swallowed>>
HandleSSEMessage(m, part) ==
  LET type == IF "event" \in part THEN m.kind ELSE "data" IN
  /\ lastEventId' = IF "id" \in part THEN Number(m) ELSE lastEventId
  /\ \/ /\ type = "data"
        /\ EnqueueData(IF Texts \subseteq part THEN Number(m) ELSE Garbled)
        /\ UNCHANGED stateVars
     \/ /\ type = "heartbeat"
        /\ UNCHANGED <<stateVars, waiting, buffer, taken, swallowed>>
     \/ /\ type = "error" /\ HandleStreamError
        /\ part \cap Texts = {} => closed' # "no"
        /\ UNCHANGED <<buffer, taken, swallowed>>
     \/ /\ type = "end" /\ HandleStreamEnd
        /\ UNCHANGED <<buffer, taken, swallowed>>

\* The end of a message is read. An id alone is no message, and is noted only if
\* another message comes with the same read.
ReadsEnd(m) ==
  /\ \/ m.rest # {"id"} /\ HandleSSEMessage(m, m.rest)
     \/ /\ m.rest = {"id"}
        /\ lastEventId' \in {lastEventId, Number(m)}
        /\ UNCHANGED <<stateVars, buffer, waiting, taken, swallowed>>
  /\ UNCHANGED torn

\* A read ends in the message, after part of its lines: between two lines, or in a
\* line, which may be a comment after all that counts.
ReadsPart(m, part) ==
  /\ Len(torn) < MaxTorn /\ torn' = Append(torn, Number(m))
  /\ \/ part # m.rest /\ part # {"id"} /\ HandleSSEMessage(m, part)
     \/ UNCHANGED <<stateVars, lastEventId, buffer, waiting, taken, swallowed>>

\* A connection that has still to bring these lines of the message. It is left once
\* the stream is closed, and has no more than its end to bring after an error.
After(m, left) ==
  [m EXCEPT !.rest = left,
            !.kind = IF left = {} THEN "none" ELSE m.kind,
            !.stage = IF closed' # "no" THEN "over"
                      ELSE IF left = {} /\ m.kind = "end" THEN "ending"
                      ELSE IF left = {} /\ m.kind = "error" /\ ~ErrorsGoOn
                        THEN "ending" ELSE "reading"]

\* read() brings the end of a message, or a part of it with which it ends.
Read(c) ==
  /\ connections[c].stage = "reading" /\ closed = "no"
  /\ \E m \in Coming(c) :
       \/ /\ ReadsEnd(m)
          /\ connections' = [connections EXCEPT ![c] = After(m, {})]
       \/ \E part \in SUBSET m.rest \ {{}} :
            /\ ReadsPart(m, part)
            /\ connections' = [connections EXCEPT ![c] = After(m, m.rest \ part)]
  /\ UNCHANGED told

\* The response ends, or anything comes once the stream is closed: the loop is left.
Ends(c) ==
  /\ connections[c].stage \in {"reading", "ending"}
  /\ HandleStreamEnd
  /\ Goes(c, "over")
  /\ UNCHANGED <<dataVars, told>>

\* A backoff is over: connect().
ReconnectTimer ==
  /\ timers > 0
  /\ timers' = timers - 1
  /\ \/ closed # "no" /\ UNCHANGED connections
     \/ /\ closed = "no" /\ Len(connections) < MaxConnections
        /\ connections' = Append(connections, Connection(lastEventId))
  /\ UNCHANGED <<closed, error, attempts, waiting, dataVars, told>>

-----------------------------------------------------------------------------
(* The consumer, once it has the stream *)

Returned == connections[1].stage = "over"

\* next(): the end of the stream, a buffered chunk, or a wait.
NextCall ==
  /\ Returned
  /\ \/ /\ closed # "no"
        /\ told' = IF error = "yes" THEN "failed" ELSE "done"
        /\ UNCHANGED <<buffer, taken, waiting>>
     \/ /\ closed = "no" /\ buffer # <<>>
        /\ buffer' = Tail(buffer)
        /\ taken' = Append(taken, Head(buffer))
        /\ UNCHANGED <<waiting, told>>
     \/ /\ closed = "no" /\ buffer = <<>> /\ Len(waiting) < MaxWaiting
        /\ waiting' = Append(waiting, "live")
        /\ UNCHANGED <<buffer, taken, told>>
  /\ UNCHANGED <<connections, stateVars, lastEventId, torn, swallowed>>

\* chunkTimeout: next() is rejected; its resolver is not found and stays.
ChunkTimeout(i) ==
  /\ waiting[i] = "live"
  /\ waiting' = [waiting EXCEPT ![i] = "dead"]
  /\ UNCHANGED <<connections, stateVars, dataVars, told>>

\* close(), and the return() of an iterator.
Close ==
  /\ Returned /\ closed = "no"
  /\ closed' = "consumer"
  /\ waiting' = <<>>
  /\ UNCHANGED <<connections, error, attempts, timers, dataVars, told>>

-----------------------------------------------------------------------------
Next ==
  \/ \E c \in 1..Len(connections) :
       Responds(c) \/ Fails(c) \/ Read(c) \/ Ends(c)
  \/ ReconnectTimer
  \/ NextCall
  \/ \E i \in 1..Len(waiting) : ChunkTimeout(i)
  \/ Close

Spec == Init /\ [][Next]_vars

-----------------------------------------------------------------------------
(* Properties *)

\* Every variable holds a value the code can give it.
TypeOK ==
  /\ connections \in Seq([stage : Stages, sent : 0..MaxData,
                          kind : Kinds \cup {"none"},
                          rest : SUBSET LinesOf("data")])
  /\ timers \in Nat
  /\ closed \in {"no", "source", "consumer"}
  /\ error \in {"no", "yes"}
  /\ attempts \in 0..MaxReconnectAttempts
  /\ lastEventId \in 0..MaxData
  /\ torn \in Seq(0..MaxData) /\ Len(torn) <= MaxTorn
  /\ buffer \in Seq(0..MaxData)
  /\ waiting \in Seq({"live", "dead"})
  /\ taken \in Seq(0..MaxData)
  /\ swallowed \subseteq 0..MaxData
  /\ told \in {"no", "done", "failed"}

\* No next() waits on a stream that is over, and none while a chunk is
\* buffered: the ways in which a stream ends and enqueueData() agree.
NoForgottenNext ==
  waiting # <<>> => closed = "no" /\ buffer = <<>>

\* An open stream has a connection that can still bring chunks or the end, or
\* a timer that makes a new one: no failure leaves it without either.
OpenIsAlive ==
  closed = "no" =>
    \/ timers > 0
    \/ \E c \in 1..Len(connections) : connections[c].stage # "over"

\* Over all connections, a chunk up to the id the next one resumes from is missing
\* from what was handed out and what is buffered only if a next() that had timed
\* out was given it, or a read ended in the chunk's own message.
NothingLost ==
  1..lastEventId \subseteq Members(taken \o buffer) \cup swallowed \cup Members(torn)

\* And as long as no read ends in a message, there is nothing else, in order and
\* without repetition.
ResumesExactly ==
  LET seen == taken \o buffer IN
  /\ NothingLost
  /\ torn = <<>> =>
       /\ \A i, j \in 1..Len(seen) : i < j => seen[i] < seen[j]
       /\ Members(seen) \cup swallowed = 1..lastEventId

\* When the responses end after an error event and no read ends in a message, the
\* stream is a feed that never lacks room: a chunk is handed out or kept, in order,
\* and only one given to a next() that had timed out is skipped.
TheFeed == INSTANCE Feed WITH
  Capacity <- MaxData + 1,
  produced <- lastEventId,
  waiting <- buffer,
  consumed <- taken
ImplementsFeed == TheFeed!Spec

-----------------------------------------------------------------------------
(* What the comments say and the code does not do *)

\* "Return buffered data if available": next() says done of a stream the
\* source has ended only when there is no buffered chunk left.
DrainedBeforeEnd ==
  told = "done" /\ closed = "source" => buffer = <<>>
=============================================================================
