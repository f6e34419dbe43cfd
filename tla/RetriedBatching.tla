---------------------------- MODULE RetriedBatching ----------------------------
(***************************************************************************)
(* withRetry(withBatching(transport)): the retry loop of withRetry()       *)
(* (src/src/middleware/retry.ts) over the batches of Batching. Each attempt *)
(* of a call is a new call to the batching transport, with an id of its own. *)
(* The classification of an error by shouldRetry() is left open, and the   *)
(* backoff before an attempt takes any time.                               *)
(***************************************************************************)
EXTENDS Batching, FiniteSets

CONSTANTS
  Calls,       \* the calls of the application
  MaxAttempts  \* options.maxAttempts

NoCall == "none"

ASSUME RetryAssumption == MaxAttempts \in Nat /\ NoCall \notin Calls

VARIABLES
  phase,    \* [Calls]: where withRetry()'s call() stands
  attempt,  \* [Calls]: the variable attempt, how many have failed
  current,  \* [Calls]: the id of the attempt under way, or of the last one
  owner     \* [Ids]: the call an id belongs to (history)

retryVars == <<phase, attempt, current, owner>>
vars == <<batchVars, retryVars>>

Phases == {"idle", "calling", "sleeping", "resolved", "rejected"}

Init ==
  /\ BatchingInit
  /\ phase = [c \in Calls |-> "idle"]
  /\ attempt = [c \in Calls |-> 0]
  /\ current = [c \in Calls |-> 0]
  /\ owner = [id \in Ids |-> NoCall]

\* The loop's transport.call().
Attempt(c) ==
  /\ Call
  /\ phase' = [phase EXCEPT ![c] = "calling"]
  /\ current' = [current EXCEPT ![c] = requestIdCounter']
  /\ owner' = [owner EXCEPT ![requestIdCounter'] = c]
  /\ UNCHANGED attempt

\* call(): the loop is not entered at all when maxAttempts is 0.
Start(c) ==
  /\ phase[c] = "idle"
  /\ \/ MaxAttempts > 0 /\ Attempt(c)
     \/ /\ MaxAttempts = 0
        /\ phase' = [phase EXCEPT ![c] = "rejected"]
        /\ UNCHANGED <<attempt, current, owner, batchVars>>

\* canRetry, when shouldRetry() finds the error worth a retry.
CanRetry_OneMore(c) == attempt[c] <= MaxAttempts
CanRetry(c) == attempt[c] + 1 < MaxAttempts

\* The attempt's promise has settled: return, or the catch clause.
Settle(c) ==
  /\ phase[c] = "calling" /\ outcome[current[c]] # Unsettled
  /\ \/ /\ outcome[current[c]] # Failed
        /\ phase' = [phase EXCEPT ![c] = "resolved"]
        /\ UNCHANGED attempt
     \/ /\ outcome[current[c]] = Failed
        /\ attempt' = [attempt EXCEPT ![c] = @ + 1]
        /\ \/ CanRetry(c) /\ phase' = [phase EXCEPT ![c] = "sleeping"]
           \/ phase' = [phase EXCEPT ![c] = "rejected"]
  /\ UNCHANGED <<current, owner, batchVars>>

\* sleep() is over.
Wake_AndKeepSleeping(c) ==
  /\ phase[c] = "sleeping"
  /\ Call
  /\ current' = [current EXCEPT ![c] = requestIdCounter']
  /\ owner' = [owner EXCEPT ![requestIdCounter'] = c]
  /\ UNCHANGED <<phase, attempt>>
Wake(c) == phase[c] = "sleeping" /\ Attempt(c)

\* The answers a server can give to a batch: results for some of the requests
\* it has executed, in any order.
Answers(batch) ==
  {responses \in UNION {[1..n -> Members(batch)] : n \in 0..Len(batch)} :
     \A i, j \in DOMAIN responses : responses[i] = responses[j] => i = j}

Next ==
  \/ \E c \in Calls : Start(c) \/ Settle(c) \/ Wake(c)
  \/ /\ \/ BatchTimer
        \/ CloseBatching
        \/ \E batch \in inFlight :
             \E responses \in Answers(batch) : Answer(batch, responses)
        \/ \E id \in Ids : Execute(id)
     /\ UNCHANGED retryVars

Spec == Init /\ [][Next]_vars

\* The host runs its timers and microtasks; the transport settles every
\* request in the end, by a timeout of its own if need be.
FairSpec ==
  /\ Spec
  /\ WF_vars(BatchTimer /\ UNCHANGED retryVars)
  /\ WF_vars(/\ \E batch \in inFlight :
                  \E responses \in Answers(batch) : Answer(batch, responses)
             /\ UNCHANGED retryVars)
  /\ \A c \in Calls : WF_vars(Settle(c)) /\ WF_vars(Wake(c))

-----------------------------------------------------------------------------
(* Properties *)

\* Every variable holds a value the code can give it.
TypeOK ==
  /\ BatchingTypeOK
  /\ phase \in [Calls -> Phases]
  /\ attempt \in [Calls -> 0..MaxAttempts]
  /\ current \in [Calls -> 0..MaxId]
  /\ owner \in [Ids -> Calls \cup {NoCall}]

\* A call has at most one attempt under way, and none once it has settled or
\* while it waits: no server executes two attempts of a call at once that the
\* client still waits for, nor more than maxAttempts of them at all.
OneAttemptAtATime ==
  \A c \in Calls :
    LET attempts == {id \in Ids : owner[id] = c} IN
    /\ \A id \in attempts : outcome[id] = Unsettled =>
         id = current[c] /\ phase[c] = "calling"
    /\ Cardinality(attempts) <= MaxAttempts

\* What the application is promised: a call that resolves was executed, no call is
\* executed more often than it has attempts, late executions included, and a
\* verdict is final, whichever batches and retries a call went through.
Remote == INSTANCE RemoteCalls WITH
  MaxExecutions <- MaxAttempts,
  executions <- [c \in Calls |-> Cardinality({id \in executed : owner[id] = c})],
  verdict <- [c \in Calls |->
    IF phase[c] \in {"resolved", "rejected"} THEN phase[c] ELSE "open"]
ImplementsRemoteCalls == Remote!Spec

\* Every call settles, whatever batches its attempts travel in.
CallsSettle ==
  \A c \in Calls : phase[c] # "idle" ~> phase[c] \in {"resolved", "rejected"}
=============================================================================
