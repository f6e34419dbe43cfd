------------------------------- MODULE Batching -------------------------------
(***************************************************************************)
(* withBatching() and withDebouncedBatching()                              *)
(* (src/src/middleware/batching.ts): calls are collected for a time window, *)
(* or until there are maxBatchSize of them, and go out as one request whose *)
(* responses are matched to the calls by their id. The two functions       *)
(* differ in when the window ends, which is any time here.                 *)
(*                                                                         *)
(* A call is its id; its result is the id the server computed it for. The  *)
(* transport underneath and the server are external: they answer a batch   *)
(* late, in any order, incompletely, with errors, or fail it as a whole.   *)
(*                                                                         *)
(* A definition whose name has a suffix (ResponseFor_ByPosition) is a faulty    *)
(* variant of the one after it, which the properties are tested against.   *)
(***************************************************************************)
EXTENDS Integers, Sequences

CONSTANTS
  MaxBatchSize,   \* options.maxBatchSize
  OnBatchThrows,  \* options.onBatch may throw
  MaxId           \* bound: calls made

ASSUME BatchingAssumption ==
  /\ MaxBatchSize \in Nat
  /\ OnBatchThrows \in BOOLEAN
  /\ MaxId \in Nat

VARIABLES
  pendingRequests,   \* the ids of the calls collected for the next batch
  batchTimer,        \* "armed" or "none"
  requestIdCounter,
  inFlight,          \* the batches transport.call() has not settled yet
  outcome,           \* [Ids]: how the promise of each call is settled
  executed           \* the ids the server has executed (history)

batchVars == <<pendingRequests, batchTimer, requestIdCounter, inFlight,
               outcome, executed>>

Ids == 1..MaxId

\* The values of outcome besides an id, which is the result for that id.
Unsettled == 0
Failed == -1

Members(queue) == {queue[i] : i \in 1..Len(queue)}

BatchingInit ==
  /\ pendingRequests = <<>>
  /\ batchTimer = "none"
  /\ requestIdCounter = 0
  /\ inFlight = {}
  /\ outcome = [id \in Ids |-> Unsettled]
  /\ executed = {}

\* flushBatch() up to its await; a batch whose onBatch throws is gone.
FlushBatch(batch) ==
  /\ batchTimer' = "none"
  /\ pendingRequests' = <<>>
  /\ \/ inFlight' = inFlight \cup ({batch} \ {<<>>})
     \/ OnBatchThrows /\ UNCHANGED inFlight

\* call(), which gets the next id.
Call_FlushedFirst ==
  /\ requestIdCounter < MaxId
  /\ requestIdCounter' = requestIdCounter + 1
  /\ IF Len(pendingRequests) + 1 >= MaxBatchSize
     THEN FlushBatch(pendingRequests)
     ELSE /\ pendingRequests' = Append(pendingRequests, requestIdCounter')
          /\ batchTimer' = "armed"
          /\ UNCHANGED inFlight
  /\ UNCHANGED <<outcome, executed>>
Call ==
  /\ requestIdCounter < MaxId
  /\ requestIdCounter' = requestIdCounter + 1
  /\ LET queue == Append(pendingRequests, requestIdCounter') IN
     IF Len(queue) >= MaxBatchSize
     THEN FlushBatch(queue)
     ELSE /\ pendingRequests' = queue
          /\ batchTimer' = "armed"
          /\ UNCHANGED inFlight
  /\ UNCHANGED <<outcome, executed>>

\* The window is over.
BatchTimer ==
  /\ batchTimer = "armed"
  /\ FlushBatch(pendingRequests)
  /\ UNCHANGED <<requestIdCounter, outcome, executed>>

\* close(): what is collected goes out at once; later calls still may come.
CloseBatching ==
  /\ pendingRequests # <<>>
  /\ FlushBatch(pendingRequests)
  /\ UNCHANGED <<requestIdCounter, outcome, executed>>

\* The server executes a request that has left, be it that its call has given
\* up by now.
Execute(id) ==
  /\ id \notin executed
  /\ outcome[id] = Failed \/ \E batch \in inFlight : id \in Members(batch)
  /\ executed' = executed \cup {id}
  /\ UNCHANGED <<pendingRequests, batchTimer, requestIdCounter, inFlight,
                 outcome>>

\* The result for request id of a batch: that of the response with its id.
ResponseFor_ByPosition(batch, responses, id) ==
  LET k == CHOOSE i \in 1..Len(batch) : batch[i] = id
  IN IF k <= Len(responses) THEN responses[k] ELSE Failed
ResponseFor_MissingResolves(batch, responses, id) == id
ResponseFor(batch, responses, id) ==
  IF id \in Members(responses) THEN id ELSE Failed

\* The batch is answered: responses are the ids of those that carry a result,
\* in the order of the answer. A call without one fails, and so do all calls
\* when transport.call() rejects.
Answer(batch, responses) ==
  /\ batch \in inFlight
  /\ Members(responses) \subseteq Members(batch) \cap executed
  /\ inFlight' = inFlight \ {batch}
  /\ outcome' = [id \in Ids |->
       IF id \in Members(batch) THEN ResponseFor(batch, responses, id)
                                ELSE outcome[id]]
  /\ UNCHANGED <<pendingRequests, batchTimer, requestIdCounter, executed>>

-----------------------------------------------------------------------------
(* Properties *)

BatchingTypeOK ==
  /\ pendingRequests \in Seq(Ids)
  /\ batchTimer \in {"none", "armed"}
  /\ requestIdCounter \in 0..MaxId
  /\ inFlight \subseteq Seq(Ids)
  /\ outcome \in [Ids -> {Unsettled, Failed} \cup Ids]
  /\ executed \subseteq Ids

\* Every call that was made and is not settled is collected, or is in one
\* batch on its way: no flush drops or doubles a call.
NobodyForgotten ==
  \A id \in 1..requestIdCounter :
    IF outcome[id] = Unsettled /\ id \notin Members(pendingRequests)
    THEN \E batch \in inFlight : id \in Members(batch)
    ELSE \A batch \in inFlight : id \notin Members(batch)

\* A call gets its own result, however the server orders its responses and in
\* whatever order the batches are answered.
OwnResult ==
  \A id \in Ids : outcome[id] \notin {Unsettled, Failed} => outcome[id] = id
=============================================================================
