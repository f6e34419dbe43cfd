------------------------------ MODULE RemoteCalls ------------------------------
(***************************************************************************)
(* What a transport that retries promises about its calls, with no word    *)
(* about batches, ids, timers or attempts: the caller is told once what    *)
(* became of a call; that it succeeded only if the server has executed it; *)
(* and the server executes it at most MaxExecutions times, be it after the *)
(* caller was told that it failed.                                         *)
(***************************************************************************)
EXTENDS Integers

CONSTANTS Calls, MaxExecutions

VARIABLES
  executions,  \* [Calls]: how often the server has executed each
  verdict      \* [Calls]: what the caller was told, "open" for nothing yet

vars == <<executions, verdict>>

Init ==
  /\ executions = [c \in Calls |-> 0]
  /\ verdict = [c \in Calls |-> "open"]

Execute(c) ==
  /\ executions[c] < MaxExecutions
  /\ executions' = [executions EXCEPT ![c] = @ + 1]
  /\ UNCHANGED verdict

\* The result the caller gets is that of an execution.
Resolve(c) ==
  /\ verdict[c] = "open" /\ executions[c] > 0
  /\ verdict' = [verdict EXCEPT ![c] = "resolved"]
  /\ UNCHANGED executions

\* A failure says nothing of the server.
Reject(c) ==
  /\ verdict[c] = "open"
  /\ verdict' = [verdict EXCEPT ![c] = "rejected"]
  /\ UNCHANGED executions

Next == \E c \in Calls : Execute(c) \/ Resolve(c) \/ Reject(c)

Spec == Init /\ [][Next]_vars
=============================================================================
