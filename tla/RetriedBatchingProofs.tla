------------------------- MODULE RetriedBatchingProofs -------------------------
(***************************************************************************)
(* Theorems about RetriedBatching, for any calls, ids, batch size and       *)
(* number of attempts: type correctness, that a call gets its own result,   *)
(* that no flush drops or doubles a call as long as onBatch does not throw, *)
(* that the retry loop has at most one attempt under way, and that the      *)
(* whole implements RemoteCalls.                                           *)
(***************************************************************************)
EXTENDS RetriedBatching, FiniteSetTheorems, TLAPS

-----------------------------------------------------------------------------
(* Lemmas about sequences *)

\* A sequence within its type, one element longer.
LEMMA AppendType ==
  ASSUME NEW S, NEW q \in Seq(S), NEW x \in S
  PROVE  Append(q, x) \in Seq(S)
  OBVIOUS

\* The members of a sequence, and of one that is one element longer.
LEMMA MembersFacts ==
  ASSUME NEW S, NEW q \in Seq(S)
  PROVE  /\ Members(q) \subseteq S
         /\ \A x \in S : Members(Append(q, x)) = Members(q) \cup {x}
<1>1. Members(q) \subseteq S
  BY DEF Members
<1>2. ASSUME NEW x \in S PROVE Members(Append(q, x)) = Members(q) \cup {x}
  <2>1. /\ Len(q) \in Nat /\ Len(Append(q, x)) = Len(q) + 1
        /\ \A i \in 1..Len(q) : Append(q, x)[i] = q[i]
        /\ Append(q, x)[Len(q) + 1] = x
    OBVIOUS
  <2>2. \A y : y \in Members(Append(q, x)) => y \in Members(q) \cup {x}
    BY <2>1 DEF Members
  <2>3. \A y \in Members(q) : y \in Members(Append(q, x))
    BY <2>1 DEF Members
  <2>4. x \in Members(Append(q, x))
    BY <2>1 DEF Members
  <2> QED BY <2>2, <2>3, <2>4
<1> QED BY <1>1, <1>2

\* An empty batch has no member.
LEMMA MembersEmpty == Members(<<>>) = {}
  BY DEF Members

-----------------------------------------------------------------------------
(* Type correctness and the result of a call *)

\* call() takes the next id, and keeps the types of what it changes.
LEMMA CallType ==
  ASSUME BatchingTypeOK, Call
  PROVE  /\ requestIdCounter' = requestIdCounter + 1
         /\ requestIdCounter' \in Ids
         /\ UNCHANGED <<outcome, executed>>
         /\ BatchingTypeOK'
<1>1. /\ requestIdCounter' = requestIdCounter + 1
      /\ requestIdCounter' \in Ids /\ requestIdCounter' \in 0..MaxId
      /\ UNCHANGED <<outcome, executed>>
  BY BatchingAssumption DEF Call, BatchingTypeOK, Ids
<1>2. Append(pendingRequests, requestIdCounter') \in Seq(Ids)
  BY <1>1, AppendType DEF BatchingTypeOK
<1>3. /\ batchTimer' \in {"none", "armed"} /\ pendingRequests' \in Seq(Ids)
      /\ inFlight' \subseteq Seq(Ids)
  <2>1. CASE FlushBatch(Append(pendingRequests, requestIdCounter'))
    <3>1. /\ batchTimer' = "none" /\ pendingRequests' = <<>>
          /\ inFlight' \subseteq
               inFlight \cup {Append(pendingRequests, requestIdCounter')}
      BY <2>1 DEF FlushBatch
    <3> QED BY <1>2, <3>1 DEF BatchingTypeOK
  <2>2. CASE /\ pendingRequests' = Append(pendingRequests, requestIdCounter')
             /\ batchTimer' = "armed" /\ UNCHANGED inFlight
    BY <1>2, <2>2 DEF BatchingTypeOK
  <2> QED BY <2>1, <2>2 DEF Call
<1> QED BY <1>1, <1>3 DEF BatchingTypeOK

\* The steps of the batching transport and the server that settle nothing.
LEMMA QuietType ==
  ASSUME BatchingTypeOK,
         BatchTimer \/ CloseBatching \/ \E id \in Ids : Execute(id)
  PROVE  BatchingTypeOK'
<1>1. CASE BatchTimer \/ CloseBatching
  <2>1. /\ batchTimer' = "none" /\ pendingRequests' = <<>>
        /\ inFlight' \subseteq inFlight \cup {pendingRequests}
        /\ UNCHANGED <<requestIdCounter, outcome, executed>>
    BY <1>1 DEF BatchTimer, CloseBatching, FlushBatch
  <2> QED BY <2>1 DEF BatchingTypeOK
<1>2. ASSUME NEW id \in Ids, Execute(id) PROVE BatchingTypeOK'
  BY <1>2 DEF Execute, BatchingTypeOK
<1> QED BY <1>1, <1>2

\* An answer settles the calls of its batch, and only them, each with its own
\* id or with a failure.
LEMMA AnswerFacts ==
  ASSUME BatchingTypeOK, NEW batch, NEW responses, Answer(batch, responses)
  PROVE  /\ BatchingTypeOK'
         /\ \A id \in Ids :
              IF id \in Members(batch) THEN outcome'[id] \in {id, Failed}
                                       ELSE outcome'[id] = outcome[id]
<1>1. outcome' = [id \in Ids |->
        IF id \in Members(batch) THEN ResponseFor(batch, responses, id)
                                 ELSE outcome[id]]
  BY DEF Answer
<1>2. \A id \in Ids : ResponseFor(batch, responses, id) \in {id, Failed}
  BY DEF ResponseFor
<1>3. outcome \in [Ids -> {Unsettled, Failed} \cup Ids]
  BY DEF BatchingTypeOK
<1>4. outcome' \in [Ids -> {Unsettled, Failed} \cup Ids]
  BY <1>1, <1>2, <1>3
<1> QED BY <1>1, <1>2, <1>4 DEF Answer, BatchingTypeOK

\* A call that has an attempt under way or waits for the next one has not
\* used up its attempts.
AttemptLeft ==
  \A c \in Calls :
    phase[c] \in {"calling", "sleeping"} => attempt[c] < MaxAttempts

\* A call that was not made has used none.
Untouched == \A c \in Calls : phase[c] = "idle" => attempt[c] = 0

\* An attempt of a call keeps the types.
LEMMA AttemptType ==
  ASSUME TypeOK, AttemptLeft, NEW c \in Calls, Attempt(c),
         attempt[c] < MaxAttempts
  PROVE  TypeOK' /\ AttemptLeft'
<1>1. requestIdCounter' \in Ids /\ BatchingTypeOK'
  BY CallType DEF Attempt, TypeOK
<1>2. requestIdCounter' \in 0..MaxId
  BY <1>1 DEF BatchingTypeOK
<1> QED BY <1>1, <1>2 DEF Attempt, TypeOK, Phases, AttemptLeft

\* Every step of the calls, the batches and the server keeps the types.
LEMMA TypeStep ==
  ASSUME TypeOK, AttemptLeft, Untouched, [Next]_vars
  PROVE  TypeOK' /\ AttemptLeft'
<1>1. ASSUME NEW c \in Calls, Start(c) PROVE TypeOK' /\ AttemptLeft'
  <2>1. CASE UNCHANGED batchVars /\ phase' = [phase EXCEPT ![c] = "rejected"]
             /\ UNCHANGED <<attempt, current, owner>>
    BY <2>1 DEF TypeOK, BatchingTypeOK, batchVars, Phases, AttemptLeft
  <2>2. CASE MaxAttempts > 0 /\ Attempt(c)
    <3>1. attempt[c] = 0
      BY <1>1 DEF Start, Untouched
    <3> QED BY <2>2, <3>1, AttemptType
  <2> QED BY <1>1, <2>1, <2>2 DEF Start
<1>2. ASSUME NEW c \in Calls, Settle(c) PROVE TypeOK' /\ AttemptLeft'
  <2>1. UNCHANGED <<current, owner, batchVars>>
    BY <1>2 DEF Settle
  <2>2. CASE UNCHANGED attempt /\ phase' = [phase EXCEPT ![c] = "resolved"]
    BY <2>1, <2>2 DEF TypeOK, BatchingTypeOK, batchVars, Phases, AttemptLeft
  <2>3. CASE attempt' = [attempt EXCEPT ![c] = @ + 1]
    <3>1. \/ CanRetry(c) /\ phase' = [phase EXCEPT ![c] = "sleeping"]
          \/ phase' = [phase EXCEPT ![c] = "rejected"]
      BY <1>2, <2>3 DEF Settle, TypeOK
    <3>2. attempt[c] \in 0..MaxAttempts /\ attempt[c] < MaxAttempts
      BY <1>2 DEF TypeOK, AttemptLeft, Settle
    <3>3. attempt[c] + 1 \in 0..MaxAttempts
      BY <3>2, RetryAssumption
    <3>4. TypeOK'
      BY <2>1, <2>3, <3>1, <3>3 DEF TypeOK, BatchingTypeOK, batchVars, Phases
    <3> QED BY <2>3, <3>1, <3>2, <3>4 DEF AttemptLeft, CanRetry, TypeOK
  <2> QED BY <1>2, <2>2, <2>3 DEF Settle
<1>3. ASSUME NEW c \in Calls, Wake(c) PROVE TypeOK' /\ AttemptLeft'
  BY <1>3, AttemptType DEF Wake, AttemptLeft
<1>4. CASE /\ BatchTimer \/ CloseBatching \/ \E id \in Ids : Execute(id)
           /\ UNCHANGED retryVars
  BY <1>4, QuietType DEF TypeOK, retryVars, AttemptLeft
<1>5. ASSUME NEW batch, NEW responses, Answer(batch, responses),
             UNCHANGED retryVars
      PROVE  TypeOK' /\ AttemptLeft'
  BY <1>5, AnswerFacts DEF TypeOK, retryVars, AttemptLeft
<1>6. CASE UNCHANGED vars
  BY <1>6 DEF vars, TypeOK, BatchingTypeOK, batchVars, retryVars, AttemptLeft
<1> QED BY <1>1, <1>2, <1>3, <1>4, <1>5, <1>6 DEF Next

\* No step counts an attempt of a call that was not made.
LEMMA UntouchedStep == TypeOK /\ Untouched /\ [Next]_vars => Untouched'
  BY DEF TypeOK, Untouched, Next, Start, Settle, Wake, Attempt, vars, retryVars

\* All three hold at the start, and so always.
LEMMA TypeAlways == Spec => [](TypeOK /\ AttemptLeft /\ Untouched)
<1>1. Init => TypeOK /\ AttemptLeft /\ Untouched
  BY BatchingAssumption, RetryAssumption
  DEF Init, BatchingInit, TypeOK, BatchingTypeOK, Ids, Phases, AttemptLeft,
      Untouched
<1>2. TypeOK /\ AttemptLeft /\ Untouched /\ [Next]_vars
        => TypeOK' /\ AttemptLeft' /\ Untouched'
  BY TypeStep, UntouchedStep
<1> QED BY <1>1, <1>2, PTL DEF Spec

\* Whatever the server answers and when, every variable of the retry loops and
\* of the batching transport keeps its type; no loop exceeds maxAttempts.
THEOREM TypeCorrect == Spec => []TypeOK
  BY TypeAlways, PTL

\* A call is only ever settled with the result the server computed for its own
\* id, however the responses are ordered.
THEOREM ResultsAreOwn == Spec => []OwnResult
<1>1. Init => OwnResult
  BY DEF Init, BatchingInit, OwnResult
<1>2. TypeOK /\ OwnResult /\ [Next]_vars => OwnResult'
  <2> SUFFICES ASSUME TypeOK, OwnResult, [Next]_vars PROVE OwnResult'
    OBVIOUS
  <2>1. ASSUME UNCHANGED outcome PROVE OwnResult'
    BY <2>1 DEF OwnResult
  <2>2. ASSUME NEW c \in Calls, Start(c) \/ Settle(c) \/ Wake(c)
        PROVE  OwnResult'
    BY <2>1, <2>2 DEF Start, Settle, Wake, Attempt, Call, batchVars
  <2>3. CASE BatchTimer \/ CloseBatching \/ \E id \in Ids : Execute(id)
    BY <2>1, <2>3 DEF BatchTimer, CloseBatching, Execute
  <2>4. ASSUME NEW batch, NEW responses, Answer(batch, responses)
        PROVE  OwnResult'
    BY <2>4, AnswerFacts DEF OwnResult, TypeOK
  <2>5. CASE UNCHANGED vars
    BY <2>1, <2>5 DEF vars, batchVars
  <2> QED BY <2>2, <2>3, <2>4, <2>5 DEF Next
<1> QED BY <1>1, <1>2, TypeCorrect, PTL DEF Spec

-----------------------------------------------------------------------------
(* The batches *)

\* Where the ids are: none is used before its call, a collected call is not
\* settled, and no id travels in two batches.
IdsInv ==
  /\ \A id \in Ids : id > requestIdCounter =>
       /\ outcome[id] = Unsettled
       /\ id \notin Members(pendingRequests)
       /\ \A batch \in inFlight : id \notin Members(batch)
  /\ \A id \in Ids \cap Members(pendingRequests) :
       /\ outcome[id] = Unsettled
       /\ \A batch \in inFlight : id \notin Members(batch)
  /\ \A id \in Ids : \A b1, b2 \in inFlight :
       id \in Members(b1) /\ id \in Members(b2) => b1 = b2
  /\ NobodyForgotten

\* A flush of what is collected, possibly with a new call, moves it into a
\* batch of its own.
LEMMA FlushIds ==
  ASSUME BatchingTypeOK, IdsInv, NEW n \in 0..MaxId, NEW batch, NEW new,
         requestIdCounter' = n, n \in {requestIdCounter, requestIdCounter + 1},
         new = {id \in Ids : requestIdCounter < id /\ id <= n},
         Members(batch) = Members(pendingRequests) \cup new,
         pendingRequests' = <<>>, UNCHANGED outcome,
         inFlight' = inFlight \cup ({batch} \ {<<>>})
  PROVE  IdsInv'
<1>0. requestIdCounter \in Nat /\ n \in Nat /\ MaxId \in Nat
  BY BatchingAssumption DEF BatchingTypeOK
<1>1. Members(pendingRequests') = {}
  BY MembersEmpty
<1>2. \A id \in Ids : id \in Members(batch) =>
        /\ outcome[id] = Unsettled /\ id <= n
        /\ \A b \in inFlight : id \notin Members(b)
  BY <1>0 DEF IdsInv, Ids
<1>3. \A id \in Ids : id \in Members(batch) => batch \in inFlight'
  BY MembersEmpty
<1>4. \A id \in Ids : id > n => id > requestIdCounter
  BY <1>0 DEF Ids
<1>5. \A id \in Ids : id > n =>
        /\ outcome'[id] = Unsettled
        /\ id \notin Members(pendingRequests')
        /\ \A b \in inFlight' : id \notin Members(b)
  <2> SUFFICES ASSUME NEW id \in Ids, id > n
               PROVE  /\ outcome[id] = Unsettled
                      /\ \A b \in inFlight' : id \notin Members(b)
    BY <1>1
  <2>1. id \notin Members(batch)
    BY <1>0, <1>2 DEF Ids
  <2> QED BY <1>4, <2>1 DEF IdsInv
<1>6. \A id \in Ids : \A b1, b2 \in inFlight' :
        id \in Members(b1) /\ id \in Members(b2) => b1 = b2
  BY <1>2 DEF IdsInv
<1>7. NobodyForgotten'
  <2> SUFFICES ASSUME NEW id \in 1..n
               PROVE  IF outcome[id] = Unsettled
                      THEN \E b \in inFlight' : id \in Members(b)
                      ELSE \A b \in inFlight' : id \notin Members(b)
    BY <1>1 DEF NobodyForgotten
  <2>1. id \in Ids
    BY <1>0 DEF Ids
  <2>2. CASE id \in Members(batch)
    BY <1>2, <1>3, <2>1, <2>2
  <2>3. CASE id \notin Members(batch)
    <3>1. id \in 1..requestIdCounter /\ id \notin Members(pendingRequests)
      BY <1>0, <2>1, <2>3
    <3>2. IF outcome[id] = Unsettled
          THEN \E b \in inFlight : id \in Members(b)
          ELSE \A b \in inFlight : id \notin Members(b)
      BY <3>1 DEF IdsInv, NobodyForgotten
    <3> QED BY <2>3, <3>2
  <2> QED BY <2>2, <2>3
<1> QED BY <1>1, <1>5, <1>6, <1>7 DEF IdsInv

\* A new call is collected, or goes out in the batch that it completes.
LEMMA CallIds ==
  ASSUME ~OnBatchThrows, BatchingTypeOK, IdsInv, Call
  PROVE  IdsInv'
<1> DEFINE n == requestIdCounter + 1
           queue == Append(pendingRequests, n)
<1>0. requestIdCounter \in Nat /\ MaxId \in Nat
  BY BatchingAssumption DEF BatchingTypeOK
<1>1. /\ requestIdCounter' = n /\ n \in Ids /\ n \in 0..MaxId
      /\ UNCHANGED outcome
  BY <1>0 DEF Call, Ids
<1>2. Members(queue) = Members(pendingRequests) \cup {n}
  BY <1>1, MembersFacts DEF BatchingTypeOK
<1>3. CASE FlushBatch(queue)
  <2>1. {n} = {id \in Ids : requestIdCounter < id /\ id <= n}
    BY <1>0, <1>1 DEF Ids
  <2>2. /\ pendingRequests' = <<>>
        /\ inFlight' = inFlight \cup ({queue} \ {<<>>})
    BY <1>3 DEF FlushBatch
  <2> HIDE DEF queue
  <2>3. n \in {requestIdCounter, requestIdCounter + 1}
    OBVIOUS
  <2> QED BY <1>1, <1>2, <2>1, <2>2, <2>3, FlushIds
<1>4. CASE pendingRequests' = queue /\ UNCHANGED inFlight
  <2> HIDE DEF queue
  <2>1. Members(pendingRequests') = Members(pendingRequests) \cup {n}
    BY <1>2, <1>4
  <2>2. /\ outcome[n] = Unsettled
        /\ \A batch \in inFlight : n \notin Members(batch)
    BY <1>0, <1>1 DEF IdsInv, Ids
  <2>3. \A id \in Ids : id > n => id > requestIdCounter /\ id # n
    BY <1>0 DEF Ids
  <2>4. \A id \in 1..n : id = n \/ id \in 1..requestIdCounter
    BY <1>0
  <2>5. NobodyForgotten'
    BY <1>1, <1>4, <2>1, <2>2, <2>4 DEF IdsInv, NobodyForgotten
  <2> QED BY <1>1, <1>4, <2>1, <2>2, <2>3, <2>5 DEF IdsInv
<1> QED BY <1>1, <1>3, <1>4 DEF Call

\* Every step keeps the ids in their place, unless onBatch throws.
LEMMA IdsStep ==
  ASSUME ~OnBatchThrows, TypeOK, IdsInv, [Next]_vars
  PROVE  IdsInv'
<1>0. BatchingTypeOK
  BY DEF TypeOK
<1>1. ASSUME UNCHANGED <<pendingRequests, requestIdCounter, inFlight, outcome>>
      PROVE  IdsInv'
  BY <1>1 DEF IdsInv, NobodyForgotten
<1>2. ASSUME NEW c \in Calls, Start(c) \/ Settle(c) \/ Wake(c) PROVE IdsInv'
  BY <1>0, <1>1, <1>2, CallIds DEF Start, Settle, Wake, Attempt, batchVars
<1>3. CASE BatchTimer \/ CloseBatching
  <2>1. /\ pendingRequests' = <<>> /\ UNCHANGED <<requestIdCounter, outcome>>
        /\ inFlight' = inFlight \cup ({pendingRequests} \ {<<>>})
    BY <1>3 DEF BatchTimer, CloseBatching, FlushBatch
  <2>2. {} = {id \in Ids : requestIdCounter < id /\ id <= requestIdCounter}
    BY BatchingAssumption DEF BatchingTypeOK, TypeOK, Ids
  <2>3. requestIdCounter \in 0..MaxId
    BY DEF TypeOK, BatchingTypeOK
  <2> QED BY <1>0, <2>1, <2>2, <2>3, FlushIds
<1>4. ASSUME NEW id \in Ids, Execute(id) PROVE IdsInv'
  BY <1>1, <1>4 DEF Execute
<1>5. ASSUME NEW batch, NEW responses, Answer(batch, responses) PROVE IdsInv'
  <2>1. /\ batch \in inFlight /\ inFlight' = inFlight \ {batch}
        /\ UNCHANGED <<pendingRequests, requestIdCounter>>
    BY <1>5 DEF Answer
  <2>2. \A id \in Ids :
          IF id \in Members(batch) THEN outcome'[id] \in {id, Failed}
                                   ELSE outcome'[id] = outcome[id]
    BY <1>0, <1>5, AnswerFacts
  <2>3. \A id \in Ids : id # Unsettled /\ Failed # Unsettled
    BY DEF Ids, Unsettled, Failed
  <2>4. \A id \in Ids : id \in Members(batch) => outcome'[id] # Unsettled
    BY <2>2, <2>3
  <2>5. NobodyForgotten'
    <3> SUFFICES ASSUME NEW id \in 1..requestIdCounter
                 PROVE  IF outcome'[id] = Unsettled
                           /\ id \notin Members(pendingRequests)
                        THEN \E b \in inFlight' : id \in Members(b)
                        ELSE \A b \in inFlight' : id \notin Members(b)
      BY <2>1 DEF NobodyForgotten
    <3>1. id \in Ids
      BY <1>0, BatchingAssumption DEF BatchingTypeOK, Ids
    <3>2. CASE id \in Members(batch)
      BY <2>1, <2>4, <3>1, <3>2 DEF IdsInv
    <3>3. CASE id \notin Members(batch)
      BY <2>1, <2>2, <3>1, <3>3 DEF IdsInv, NobodyForgotten
    <3> QED BY <3>2, <3>3
  <2>6. \A id \in Ids : id \in Members(pendingRequests) => id \notin Members(batch)
    BY <2>1 DEF IdsInv
  <2>7. \A id \in Ids : id > requestIdCounter => id \notin Members(batch)
    BY <2>1 DEF IdsInv
  <2> QED BY <2>1, <2>2, <2>5, <2>6, <2>7 DEF IdsInv
<1>6. CASE UNCHANGED vars
  BY <1>1, <1>6 DEF vars, batchVars
<1> QED BY <1>2, <1>3, <1>4, <1>5, <1>6 DEF Next

\* As long as onBatch does not throw, every call that was made is collected,
\* travels in one batch, or is settled: no flush drops or doubles one.
THEOREM NobodyIsForgotten ==
  ASSUME ~OnBatchThrows
  PROVE  Spec => []NobodyForgotten
<1>1. Init => IdsInv
  BY MembersEmpty DEF Init, BatchingInit, IdsInv, NobodyForgotten
<1>2. TypeOK /\ IdsInv /\ [Next]_vars => IdsInv'
  BY IdsStep
<1>3. IdsInv => NobodyForgotten
  BY DEF IdsInv
<1> QED BY <1>1, <1>2, <1>3, TypeCorrect, PTL DEF Spec

-----------------------------------------------------------------------------
(* The attempts *)

\* The attempts of a call.
AttemptsOf(c) == {id \in Ids : owner[id] = c}

\* The retry loops' account: an id belongs to nobody before it is given out,
\* only the current attempt of a call that awaits it may be open, and the
\* loop's variable counts the attempts before that one.
LoopInv ==
  /\ \A id \in Ids : id > requestIdCounter => owner[id] = NoCall
  /\ \A id \in Ids : \A c \in Calls :
       owner[id] = c /\ outcome[id] = Unsettled =>
         id = current[c] /\ phase[c] = "calling"
  /\ \A c \in Calls :
       /\ phase[c] \in {"idle", "sleeping"} =>
            Cardinality(AttemptsOf(c)) <= attempt[c]
       /\ Cardinality(AttemptsOf(c)) <= attempt[c] + 1
       /\ Cardinality(AttemptsOf(c)) <= MaxAttempts

\* The attempts of a call are finitely many.
LEMMA AttemptsFinite ==
  ASSUME NEW c
  PROVE  IsFiniteSet(AttemptsOf(c)) /\ Cardinality(AttemptsOf(c)) \in Nat
<1>1. IsFiniteSet(Ids)
  BY FS_Interval, BatchingAssumption DEF Ids
<1>2. AttemptsOf(c) \in SUBSET Ids
  BY DEF AttemptsOf
<1>3. IsFiniteSet(AttemptsOf(c))
  BY <1>1, <1>2, FS_Subset
<1> QED BY <1>3, FS_CardinalityType

\* One more attempt below the limit is within the limit.
LEMMA OneMore ==
  ASSUME NEW S, IsFiniteSet(S), NEW x, NEW k \in Nat, NEW m \in Nat,
         Cardinality(S) <= k, k < m
  PROVE  Cardinality(S \cup {x}) <= k + 1 /\ Cardinality(S \cup {x}) <= m
<1>1. Cardinality(S) \in Nat
  BY FS_CardinalityType
<1>2. \/ Cardinality(S \cup {x}) = Cardinality(S)
      \/ Cardinality(S \cup {x}) = Cardinality(S) + 1
  BY FS_AddElement
<1> DEFINE a == Cardinality(S)
           b == Cardinality(S \cup {x})
<1>3. a \in Nat /\ a <= k /\ (b = a \/ b = a + 1)
  BY <1>1, <1>2
<1> HIDE DEF a, b
<1>4. b <= k + 1 /\ b <= m
  BY <1>3
<1> QED BY <1>4 DEF b

\* A new attempt of a call that has none open.
LEMMA AttemptLoop ==
  ASSUME TypeOK, TypeOK', LoopInv, NEW c \in Calls, Attempt(c),
         phase[c] \in {"idle", "sleeping"}, attempt[c] < MaxAttempts
  PROVE  LoopInv'
<1> DEFINE n == requestIdCounter + 1
<1>1. /\ requestIdCounter' = n /\ n \in Ids /\ UNCHANGED outcome
  BY CallType DEF Attempt, TypeOK
<1>2. /\ UNCHANGED attempt
      /\ \A d \in Calls : /\ phase'[d] = IF d = c THEN "calling" ELSE phase[d]
                          /\ current'[d] = IF d = c THEN n ELSE current[d]
      /\ \A id \in Ids : owner'[id] = IF id = n THEN c ELSE owner[id]
  BY <1>1 DEF Attempt, TypeOK
<1>3. owner[n] = NoCall
  BY <1>1 DEF LoopInv, TypeOK, BatchingTypeOK, Ids
<1>4. \A d \in Calls : AttemptsOf(d)' =
        IF d = c THEN AttemptsOf(d) \cup {n} ELSE AttemptsOf(d)
  <2>1. ASSUME NEW d \in Calls, d # c PROVE AttemptsOf(d)' = AttemptsOf(d)
    BY <1>1, <1>2, <1>3, <2>1, RetryAssumption DEF AttemptsOf
  <2>2. AttemptsOf(c)' = AttemptsOf(c) \cup {n}
    BY <1>1, <1>2 DEF AttemptsOf
  <2> QED BY <2>1, <2>2
<1>5. /\ Cardinality(AttemptsOf(c)) <= attempt[c]
      /\ attempt[c] \in Nat /\ MaxAttempts \in Nat
      /\ IsFiniteSet(AttemptsOf(c))
  BY AttemptsFinite, RetryAssumption DEF LoopInv, TypeOK
<1>6. /\ Cardinality(AttemptsOf(c) \cup {n}) <= attempt[c] + 1
      /\ Cardinality(AttemptsOf(c) \cup {n}) <= MaxAttempts
  BY <1>5, OneMore
<1>7. \A d \in Calls :
        /\ phase'[d] \in {"idle", "sleeping"} =>
             Cardinality(AttemptsOf(d)') <= attempt'[d]
        /\ Cardinality(AttemptsOf(d)') <= attempt'[d] + 1
        /\ Cardinality(AttemptsOf(d)') <= MaxAttempts
  BY <1>2, <1>4, <1>6 DEF LoopInv
<1>8. \A id \in Ids : id > n => owner'[id] = NoCall
  BY <1>1, <1>2 DEF LoopInv, TypeOK, BatchingTypeOK, Ids
<1>9. \A id \in Ids : \A d \in Calls :
         owner'[id] = d /\ outcome[id] = Unsettled =>
           id = current'[d] /\ phase'[d] = "calling"
  <2> SUFFICES ASSUME NEW id \in Ids, NEW d \in Calls, owner'[id] = d,
                      outcome[id] = Unsettled
               PROVE  id = current'[d] /\ phase'[d] = "calling"
    OBVIOUS
  <2>1. CASE id = n
    BY <1>2, <2>1
  <2>2. CASE id # n
    <3>1. owner[id] = d
      BY <1>2, <2>2
    <3>2. id = current[d] /\ phase[d] = "calling" /\ d # c
      BY <3>1 DEF LoopInv
    <3> QED BY <1>2, <3>2
  <2> QED BY <2>1, <2>2
<1> QED BY <1>1, <1>7, <1>8, <1>9 DEF LoopInv

\* Steps that only settle ids, or call nothing, keep the account.
LEMMA QuietLoop ==
  ASSUME LoopInv, UNCHANGED <<retryVars, requestIdCounter>>,
         \A id \in Ids : outcome'[id] = Unsettled => outcome[id] = Unsettled
  PROVE  LoopInv'
<1>1. \A c \in Calls : AttemptsOf(c)' = AttemptsOf(c)
  BY DEF retryVars, AttemptsOf
<1> QED BY <1>1 DEF LoopInv, retryVars

\* The loop takes note of how its attempt ended.
LEMMA SettleLoop ==
  ASSUME TypeOK, TypeOK', AttemptLeft, LoopInv, NEW c \in Calls, Settle(c)
  PROVE  LoopInv'
<1>1. /\ phase[c] = "calling" /\ outcome[current[c]] # Unsettled
      /\ UNCHANGED <<current, owner, requestIdCounter, outcome>>
  BY DEF Settle, batchVars
<1>2. \A d \in Calls : AttemptsOf(d)' = AttemptsOf(d)
  BY <1>1 DEF AttemptsOf
<1>3. \A d \in Calls : d # c => phase'[d] = phase[d] /\ attempt'[d] = attempt[d]
  BY DEF Settle, TypeOK
<1>4. \/ attempt'[c] = attempt[c] /\ phase'[c] = "resolved"
      \/ attempt'[c] = attempt[c] + 1 /\ phase'[c] \in {"sleeping", "rejected"}
  BY DEF Settle, TypeOK
<1>5. attempt[c] \in Nat /\ Cardinality(AttemptsOf(c)) \in Nat
  BY AttemptsFinite, RetryAssumption DEF TypeOK
<1>6. /\ phase'[c] \in {"idle", "sleeping"} =>
           Cardinality(AttemptsOf(c)) <= attempt'[c]
      /\ Cardinality(AttemptsOf(c)) <= attempt'[c] + 1
      /\ Cardinality(AttemptsOf(c)) <= MaxAttempts
  <2>1. /\ Cardinality(AttemptsOf(c)) <= attempt[c] + 1
        /\ Cardinality(AttemptsOf(c)) <= MaxAttempts
    BY DEF LoopInv
  <2> QED BY <1>4, <1>5, <2>1
<1>7. \A id \in Ids : \A d \in Calls :
        owner[id] = d /\ outcome[id] = Unsettled =>
          id = current[d] /\ phase'[d] = "calling"
  BY <1>1, <1>3 DEF LoopInv
<1>8. \A d \in Calls :
        /\ phase'[d] \in {"idle", "sleeping"} =>
             Cardinality(AttemptsOf(d)) <= attempt'[d]
        /\ Cardinality(AttemptsOf(d)) <= attempt'[d] + 1
        /\ Cardinality(AttemptsOf(d)) <= MaxAttempts
  BY <1>3, <1>6 DEF LoopInv
<1> QED BY <1>1, <1>2, <1>7, <1>8 DEF LoopInv

\* Every step keeps the account of the loops.
LEMMA LoopStep ==
  ASSUME TypeOK, AttemptLeft, Untouched, TypeOK', LoopInv, [Next]_vars
  PROVE  LoopInv'
<1>1. ASSUME NEW c \in Calls, Start(c) PROVE LoopInv'
  <2>1. CASE MaxAttempts > 0 /\ Attempt(c)
    <3>1. phase[c] = "idle" /\ attempt[c] < MaxAttempts
      BY <1>1, <2>1 DEF Start, Untouched
    <3> QED BY <2>1, <3>1, AttemptLoop
  <2>2. CASE /\ phase' = [phase EXCEPT ![c] = "rejected"]
             /\ UNCHANGED <<attempt, current, owner, batchVars>>
    <3>1. phase[c] = "idle"
      BY <1>1 DEF Start
    <3>2. \A d \in Calls : phase'[d] = IF d = c THEN "rejected" ELSE phase[d]
      BY <2>2 DEF TypeOK
    <3>3. \A d \in Calls : AttemptsOf(d)' = AttemptsOf(d)
      BY <2>2 DEF AttemptsOf
    <3> QED BY <2>2, <3>1, <3>2, <3>3 DEF LoopInv, batchVars
  <2> QED BY <1>1, <2>1, <2>2 DEF Start
<1>2. ASSUME NEW c \in Calls, Settle(c) PROVE LoopInv'
  BY <1>2, SettleLoop
<1>3. ASSUME NEW c \in Calls, Wake(c) PROVE LoopInv'
  BY <1>3, AttemptLoop DEF Wake, AttemptLeft
<1>4. CASE /\ BatchTimer \/ CloseBatching \/ \E id \in Ids : Execute(id)
           /\ UNCHANGED retryVars
  BY <1>4, QuietLoop DEF BatchTimer, CloseBatching, Execute
<1>5. ASSUME NEW batch, NEW responses, Answer(batch, responses),
             UNCHANGED retryVars
      PROVE  LoopInv'
  <2>1. \A id \in Ids :
          IF id \in Members(batch) THEN outcome'[id] \in {id, Failed}
                                   ELSE outcome'[id] = outcome[id]
    BY <1>5, AnswerFacts DEF TypeOK
  <2>2. \A id \in Ids : id # Unsettled /\ Failed # Unsettled
    BY DEF Ids, Unsettled, Failed
  <2> QED BY <1>5, <2>1, <2>2, QuietLoop DEF Answer
<1>6. CASE UNCHANGED vars
  BY <1>6, QuietLoop DEF vars, batchVars
<1> QED BY <1>1, <1>2, <1>3, <1>4, <1>5, <1>6 DEF Next

\* No attempt was made at the start.
LEMMA LoopInit == Init => LoopInv
<1> SUFFICES ASSUME Init PROVE LoopInv
  OBVIOUS
<1>1. \A id \in Ids : owner[id] = NoCall
  BY DEF Init
<1>2. \A c \in Calls : AttemptsOf(c) = {}
  BY <1>1, RetryAssumption DEF AttemptsOf
<1>3. Cardinality({}) = 0
  BY FS_EmptySet
<1> QED BY <1>1, <1>2, <1>3, RetryAssumption DEF Init, LoopInv

\* The account always holds.
LEMMA LoopAlways == Spec => [](TypeOK /\ LoopInv)
<1>1. /\ TypeOK /\ AttemptLeft /\ Untouched /\ TypeOK' /\ LoopInv
      /\ [Next]_vars
      => LoopInv'
  BY LoopStep
<1> QED BY <1>1, LoopInit, TypeAlways, PTL DEF Spec

\* A call has at most one attempt under way, none once it is settled or waits,
\* and never more than maxAttempts of them in all.
THEOREM OneAtATime == Spec => []OneAttemptAtATime
<1>1. LoopInv => OneAttemptAtATime
  BY DEF LoopInv, OneAttemptAtATime, AttemptsOf
<1> QED BY <1>1, LoopAlways, PTL

-----------------------------------------------------------------------------
(* The promise to the application *)

\* Nothing is done for an id before it is given out, a result was computed by the
\* server, and a call that waits does so for an attempt of its own.
ExecInv ==
  /\ \A id \in Ids : id > requestIdCounter =>
       /\ id \notin executed /\ outcome[id] = Unsettled
       /\ id \notin Members(pendingRequests)
       /\ \A batch \in inFlight : id \notin Members(batch)
  /\ \A id \in Ids : outcome[id] \notin {Unsettled, Failed} => id \in executed
  /\ \A c \in Calls :
       phase[c] = "calling" => current[c] \in Ids /\ owner[current[c]] = c

\* What of ExecInv is about the batches.
Unused(id) ==
  /\ id \notin executed /\ outcome[id] = Unsettled
  /\ id \notin Members(pendingRequests)
  /\ \A batch \in inFlight : id \notin Members(batch)

\* call() uses the id it takes and no later one.
LEMMA CallUses ==
  ASSUME BatchingTypeOK, Call, \A id \in Ids : id > requestIdCounter => Unused(id)
  PROVE  \A id \in Ids : id > requestIdCounter' => Unused(id)'
<1> DEFINE n == requestIdCounter + 1
           queue == Append(pendingRequests, n)
<1>1. /\ requestIdCounter' = n /\ n \in Ids /\ requestIdCounter \in Nat
      /\ UNCHANGED <<outcome, executed>>
  BY CallType DEF BatchingTypeOK
<1>2. Members(queue) = Members(pendingRequests) \cup {n}
  BY <1>1, MembersFacts DEF BatchingTypeOK
<1>3. \/ pendingRequests' = queue /\ UNCHANGED inFlight
      \/ pendingRequests' = <<>> /\ inFlight' \subseteq inFlight \cup {queue}
  BY <1>1 DEF Call, FlushBatch
<1> HIDE DEF queue
<1> SUFFICES ASSUME NEW id \in Ids, id > n PROVE Unused(id)'
  BY <1>1
<1>4. Unused(id) /\ id # n /\ id \notin Members(queue)
  <2>1. id > requestIdCounter /\ id # n
    BY <1>1 DEF Ids
  <2> QED BY <1>2, <2>1 DEF Unused
<1> QED BY <1>1, <1>3, <1>4, MembersEmpty DEF Unused

\* A new attempt of a call, which is then the one that it waits for.
LEMMA AttemptExec ==
  ASSUME TypeOK, LoopInv, ExecInv, NEW c \in Calls, Attempt(c)
  PROVE  /\ ExecInv'
         /\ \A d \in Calls :
              {id \in executed : owner[id] = d}' = {id \in executed : owner[id] = d}
<1> DEFINE n == requestIdCounter + 1
<1>1. /\ requestIdCounter' = n /\ n \in Ids /\ requestIdCounter \in Nat
      /\ UNCHANGED <<outcome, executed>> /\ BatchingTypeOK'
  BY CallType DEF Attempt, TypeOK, BatchingTypeOK
<1>2. /\ \A d \in Calls : /\ phase'[d] = IF d = c THEN "calling" ELSE phase[d]
                          /\ current'[d] = IF d = c THEN n ELSE current[d]
      /\ \A id \in Ids : owner'[id] = IF id = n THEN c ELSE owner[id]
  BY <1>1 DEF Attempt, TypeOK
<1>3. n \notin executed /\ executed \subseteq Ids /\ outcome[n] = Unsettled
  BY <1>1 DEF ExecInv, TypeOK, BatchingTypeOK
<1>4. \A id \in Ids : id > requestIdCounter' => Unused(id)'
  BY CallUses DEF ExecInv, Unused, Attempt, TypeOK
<1>5. ASSUME NEW d \in Calls, phase'[d] = "calling"
      PROVE  current'[d] \in Ids /\ owner'[current'[d]] = d
  <2>1. CASE d = c
    BY <1>1, <1>2, <2>1
  <2>2. CASE d # c
    <3>1. current[d] \in Ids /\ owner[current[d]] = d
      BY <1>2, <1>5, <2>2 DEF ExecInv
    <3>2. current[d] # n
      BY <1>1, <2>2, <3>1, RetryAssumption DEF LoopInv, TypeOK, BatchingTypeOK, Ids
    <3> QED BY <1>2, <2>2, <3>1, <3>2
  <2> QED BY <2>1, <2>2
<1>6. \A id \in Ids : outcome'[id] \notin {Unsettled, Failed} => id \in executed'
  BY <1>1 DEF ExecInv
<1>7. \A d \in Calls :
        {id \in executed : owner[id] = d}' = {id \in executed : owner[id] = d}
  BY <1>1, <1>2, <1>3
<1> QED BY <1>4, <1>5, <1>6, <1>7 DEF ExecInv, Unused

\* A flush moves ids, and the server executes one that has left.
LEMMA QuietExec ==
  ASSUME TypeOK, ExecInv, UNCHANGED retryVars,
         BatchTimer \/ CloseBatching \/ \E id \in Ids : Execute(id)
  PROVE  ExecInv'
<1>1. CASE BatchTimer \/ CloseBatching
  <2>1. /\ pendingRequests' = <<>>
        /\ inFlight' \subseteq inFlight \cup {pendingRequests}
        /\ UNCHANGED <<requestIdCounter, outcome, executed>>
    BY <1>1 DEF BatchTimer, CloseBatching, FlushBatch
  <2> QED BY <2>1, MembersEmpty DEF ExecInv, retryVars
<1>2. ASSUME NEW id \in Ids, Execute(id) PROVE ExecInv'
  <2>1. ~(id > requestIdCounter)
    BY <1>2 DEF ExecInv, Execute, Unsettled, Failed
  <2>2. /\ executed' = executed \cup {id}
        /\ UNCHANGED <<pendingRequests, requestIdCounter, inFlight, outcome>>
    BY <1>2 DEF Execute
  <2> QED BY <2>1, <2>2 DEF ExecInv, retryVars
<1> QED BY <1>1, <1>2

\* A result is one that the server has computed.
LEMMA AnswerExec ==
  ASSUME TypeOK, ExecInv, UNCHANGED retryVars,
         NEW batch, NEW responses, Answer(batch, responses)
  PROVE  ExecInv'
<1>1. /\ batch \in inFlight /\ inFlight' \subseteq inFlight
      /\ Members(responses) \subseteq executed
      /\ UNCHANGED <<pendingRequests, requestIdCounter, executed>>
  BY DEF Answer
<1>2. \A id \in Ids :
        outcome'[id] = IF id \in Members(batch)
                       THEN ResponseFor(batch, responses, id) ELSE outcome[id]
  BY DEF Answer
<1>3. ASSUME NEW id \in Ids, id > requestIdCounter
      PROVE  outcome'[id] = Unsettled
  BY <1>1, <1>2, <1>3 DEF ExecInv
<1>4. ASSUME NEW id \in Ids, outcome'[id] \notin {Unsettled, Failed}
      PROVE  id \in executed
  BY <1>1, <1>2, <1>4 DEF ExecInv, ResponseFor
<1> QED BY <1>1, <1>3, <1>4 DEF ExecInv, retryVars

\* Every step keeps it.
LEMMA ExecStep ==
  ASSUME TypeOK, LoopInv, ExecInv, [Next]_vars
  PROVE  ExecInv'
<1>1. ASSUME NEW c \in Calls, NEW p \in Phases \ {"calling"},
             phase' = [phase EXCEPT ![c] = p],
             UNCHANGED <<current, owner, batchVars>>
      PROVE  ExecInv'
  <2>1. \A d \in Calls : phase'[d] = "calling" => phase[d] = "calling"
    BY <1>1 DEF TypeOK
  <2> QED BY <1>1, <2>1 DEF ExecInv, batchVars
<1>2. ASSUME NEW c \in Calls, Start(c) PROVE ExecInv'
  BY <1>1, <1>2, AttemptExec DEF Start, Phases
<1>3. ASSUME NEW c \in Calls, Wake(c) PROVE ExecInv'
  BY <1>3, AttemptExec DEF Wake
<1>4. ASSUME NEW c \in Calls, Settle(c) PROVE ExecInv'
  BY <1>1, <1>4 DEF Settle, Phases
<1>5. CASE /\ BatchTimer \/ CloseBatching \/ \E id \in Ids : Execute(id)
           /\ UNCHANGED retryVars
  BY <1>5, QuietExec
<1>6. ASSUME NEW batch, NEW responses, Answer(batch, responses),
             UNCHANGED retryVars
      PROVE  ExecInv'
  BY <1>6, AnswerExec
<1>7. CASE UNCHANGED vars
  BY <1>7 DEF vars, batchVars, retryVars, ExecInv
<1> QED BY <1>2, <1>3, <1>4, <1>5, <1>6, <1>7 DEF Next

-----------------------------------------------------------------------------
(* The refinement *)

\* The executed attempts of a call, their number, and its verdict.
ExecutedOf(c) == {id \in executed : owner[id] = c}
Executions == [c \in Calls |-> Cardinality(ExecutedOf(c))]
Verdicts ==
  [c \in Calls |-> IF phase[c] \in {"resolved", "rejected"} THEN phase[c] ELSE "open"]

\* The actions of RemoteCalls in terms of these.
LEMMA RemoteActions ==
  /\ Remote!Init <=> /\ Executions = [c \in Calls |-> 0]
                     /\ Verdicts = [c \in Calls |-> "open"]
  /\ \A c \in Calls :
       /\ Remote!Execute(c) <=>
            /\ Executions[c] < MaxAttempts
            /\ Executions' = [Executions EXCEPT ![c] = @ + 1]
            /\ Verdicts' = Verdicts
       /\ Remote!Resolve(c) <=>
            /\ Verdicts[c] = "open" /\ Executions[c] > 0
            /\ Verdicts' = [Verdicts EXCEPT ![c] = "resolved"]
            /\ Executions' = Executions
       /\ Remote!Reject(c) <=>
            /\ Verdicts[c] = "open"
            /\ Verdicts' = [Verdicts EXCEPT ![c] = "rejected"]
            /\ Executions' = Executions
  /\ UNCHANGED Remote!vars <=> Executions' = Executions /\ Verdicts' = Verdicts
  BY DEF Remote!Init, Remote!Execute, Remote!Resolve, Remote!Reject, Remote!vars,
         Executions, ExecutedOf, Verdicts

\* The executed attempts are finitely many, and as few as the attempts.
LEMMA ExecutedFinite ==
  ASSUME TypeOK, LoopInv, NEW c \in Calls
  PROVE  /\ IsFiniteSet(ExecutedOf(c))
         /\ Cardinality(ExecutedOf(c)) \in Nat
         /\ Cardinality(ExecutedOf(c)) <= MaxAttempts
         /\ \A id \in AttemptsOf(c) \ ExecutedOf(c) :
              /\ Cardinality(ExecutedOf(c)) < MaxAttempts
              /\ Cardinality(ExecutedOf(c) \cup {id}) =
                   Cardinality(ExecutedOf(c)) + 1
<1>1. /\ IsFiniteSet(AttemptsOf(c)) /\ Cardinality(AttemptsOf(c)) \in Nat
      /\ Cardinality(AttemptsOf(c)) <= MaxAttempts
  BY AttemptsFinite DEF LoopInv
<1>2. ExecutedOf(c) \in SUBSET AttemptsOf(c)
  BY DEF ExecutedOf, AttemptsOf, TypeOK, BatchingTypeOK
<1>3. /\ IsFiniteSet(ExecutedOf(c)) /\ Cardinality(ExecutedOf(c)) \in Nat
      /\ Cardinality(ExecutedOf(c)) <= Cardinality(AttemptsOf(c))
  BY <1>1, <1>2, FS_Subset, FS_CardinalityType
<1>4. ASSUME NEW id \in AttemptsOf(c) \ ExecutedOf(c)
      PROVE  /\ Cardinality(ExecutedOf(c) \cup {id}) =
                  Cardinality(ExecutedOf(c)) + 1
             /\ Cardinality(ExecutedOf(c) \cup {id}) <= Cardinality(AttemptsOf(c))
  <2>1. Cardinality(ExecutedOf(c) \cup {id}) = Cardinality(ExecutedOf(c)) + 1
    BY <1>3, FS_AddElement
  <2>2. ExecutedOf(c) \cup {id} \in SUBSET AttemptsOf(c)
    BY <1>2
  <2> QED BY <1>1, <2>1, <2>2, FS_Subset
<1> DEFINE a == Cardinality(AttemptsOf(c))
           e == Cardinality(ExecutedOf(c))
<1>5. a \in Nat /\ e \in Nat /\ a <= MaxAttempts /\ e <= a /\ MaxAttempts \in Nat
  BY <1>1, <1>3, RetryAssumption
<1>6. e <= MaxAttempts
  <2> HIDE DEF a, e
  <2> QED BY <1>5
<1>7. ASSUME NEW id \in AttemptsOf(c) \ ExecutedOf(c) PROVE e < MaxAttempts
  <2>1. e + 1 <= a
    BY <1>4
  <2> HIDE DEF a, e
  <2> QED BY <1>5, <2>1
<1> QED BY <1>3, <1>4, <1>6, <1>7

\* What a change of one call's phase means for the application.
LEMMA VerdictFacts ==
  ASSUME TypeOK, NEW c \in Calls, NEW p \in Phases,
         phase' = [phase EXCEPT ![c] = p],
         phase[c] \notin {"resolved", "rejected"}
  PROVE  /\ Verdicts[c] = "open"
         /\ p \in {"resolved", "rejected"} =>
              Verdicts' = [Verdicts EXCEPT ![c] = p]
         /\ p \notin {"resolved", "rejected"} => Verdicts' = Verdicts
<1>1. \A d \in Calls : phase'[d] = IF d = c THEN p ELSE phase[d]
  BY DEF TypeOK
<1> QED BY <1>1 DEF Verdicts

\* Every step of the calls, the batches and the server is a step of the abstract
\* specification, or none.
LEMMA RemoteStep ==
  ASSUME TypeOK, LoopInv, ExecInv, [Next]_vars
  PROVE  [Remote!Next]_(Remote!vars)
<1> DEFINE Goal == [Remote!Next]_(Remote!vars)
<1>0. ASSUME Executions' = Executions, Verdicts' = Verdicts PROVE Goal
  BY <1>0, RemoteActions
<1>1. ASSUME UNCHANGED <<executed, owner>> PROVE Executions' = Executions
  BY <1>1 DEF Executions, ExecutedOf
<1>2. ASSUME UNCHANGED phase PROVE Verdicts' = Verdicts
  BY <1>2 DEF Verdicts
<1>3. ASSUME NEW c \in Calls, Attempt(c), phase[c] \in {"idle", "sleeping"}
      PROVE  Goal
  <2>1. Executions' = Executions
    BY <1>3, AttemptExec DEF Executions, ExecutedOf
  <2>2. Verdicts' = Verdicts
    BY <1>3, VerdictFacts DEF Attempt, Phases
  <2> QED BY <1>0, <2>1, <2>2
<1>4. ASSUME NEW c \in Calls, Start(c) PROVE Goal
  <2>1. CASE Attempt(c)
    BY <1>3, <1>4, <2>1 DEF Start
  <2>2. CASE /\ phase' = [phase EXCEPT ![c] = "rejected"]
             /\ UNCHANGED <<attempt, current, owner, batchVars>>
    <3>1. Verdicts[c] = "open" /\ Verdicts' = [Verdicts EXCEPT ![c] = "rejected"]
      BY <1>4, <2>2, VerdictFacts DEF Start, Phases
    <3>2. Executions' = Executions
      BY <1>1, <2>2 DEF batchVars
    <3>3. Remote!Reject(c)
      BY <3>1, <3>2, RemoteActions
    <3> QED BY <3>3 DEF Remote!Next
  <2> QED BY <1>4, <2>1, <2>2 DEF Start
<1>5. ASSUME NEW c \in Calls, Wake(c) PROVE Goal
  BY <1>3, <1>5 DEF Wake
<1>6. ASSUME NEW c \in Calls, Settle(c) PROVE Goal
  <2>1. /\ phase[c] = "calling" /\ Executions' = Executions
        /\ outcome[current[c]] # Unsettled
    BY <1>1, <1>6 DEF Settle, batchVars
  <2>2. CASE /\ outcome[current[c]] # Failed
             /\ phase' = [phase EXCEPT ![c] = "resolved"]
    <3>1. Verdicts[c] = "open" /\ Verdicts' = [Verdicts EXCEPT ![c] = "resolved"]
      BY <2>1, <2>2, VerdictFacts DEF Phases
    <3>2. current[c] \in ExecutedOf(c)
      BY <2>1, <2>2 DEF ExecInv, ExecutedOf
    <3>3. Cardinality(ExecutedOf(c)) # 0
      <4>1. IsFiniteSet(ExecutedOf(c))
        BY ExecutedFinite
      <4> QED BY <3>2, <4>1, FS_EmptySet
    <3>4. Executions[c] > 0
      BY <3>3, ExecutedFinite DEF Executions
    <3>5. Remote!Resolve(c)
      BY <2>1, <3>1, <3>4, RemoteActions
    <3> QED BY <3>5 DEF Remote!Next
  <2>3. CASE phase' = [phase EXCEPT ![c] = "sleeping"]
    BY <1>0, <2>1, <2>3, VerdictFacts DEF Phases
  <2>4. CASE phase' = [phase EXCEPT ![c] = "rejected"]
    <3>1. Verdicts[c] = "open" /\ Verdicts' = [Verdicts EXCEPT ![c] = "rejected"]
      BY <2>1, <2>4, VerdictFacts DEF Phases
    <3>2. Remote!Reject(c)
      BY <2>1, <3>1, RemoteActions
    <3> QED BY <3>2 DEF Remote!Next
  <2> QED BY <1>6, <2>2, <2>3, <2>4 DEF Settle
<1>7. ASSUME NEW id \in Ids, Execute(id), UNCHANGED retryVars PROVE Goal
  <2>1. Verdicts' = Verdicts
    BY <1>2, <1>7 DEF retryVars
  <2>2. id \notin executed /\ executed' = executed \cup {id} /\ UNCHANGED owner
    BY <1>7 DEF Execute, retryVars
  <2>3. CASE owner[id] \notin Calls
    <3>1. \A c \in Calls : ExecutedOf(c)' = ExecutedOf(c)
      BY <2>2, <2>3 DEF ExecutedOf
    <3>2. Executions' = Executions
      BY <3>1 DEF Executions
    <3> QED BY <1>0, <2>1, <3>2
  <2>4. ASSUME NEW c \in Calls, owner[id] = c PROVE Goal
    <3>1. /\ ExecutedOf(c)' = ExecutedOf(c) \cup {id}
          /\ id \in AttemptsOf(c) \ ExecutedOf(c)
          /\ \A d \in Calls : d # c => ExecutedOf(d)' = ExecutedOf(d)
      BY <2>2, <2>4 DEF ExecutedOf, AttemptsOf
    <3>2. /\ Cardinality(ExecutedOf(c)) < MaxAttempts
          /\ Cardinality(ExecutedOf(c)') = Cardinality(ExecutedOf(c)) + 1
      BY <3>1, ExecutedFinite
    <3>3. /\ Executions[c] < MaxAttempts
          /\ Executions' = [Executions EXCEPT ![c] = @ + 1]
      <4>1. \A d \in Calls :
              /\ Executions[d] = Cardinality(ExecutedOf(d))
              /\ Executions'[d] = IF d = c THEN Executions[d] + 1 ELSE Executions[d]
        BY <3>1, <3>2 DEF Executions
      <4>2. /\ Executions = [d \in Calls |-> Executions[d]]
            /\ Executions' = [d \in Calls |-> Executions'[d]]
        BY DEF Executions
      <4>3. Executions' = [Executions EXCEPT ![c] = @ + 1]
        BY <4>1, <4>2
      <4> QED BY <3>2, <4>1, <4>3
    <3>4. Remote!Execute(c)
      BY <2>1, <3>3, RemoteActions
    <3> QED BY <3>4 DEF Remote!Next
  <2> QED BY <2>3, <2>4
<1>8. CASE /\ BatchTimer \/ CloseBatching
           /\ UNCHANGED retryVars
  BY <1>0, <1>1, <1>2, <1>8 DEF BatchTimer, CloseBatching, retryVars
<1>9. ASSUME NEW batch, NEW responses, Answer(batch, responses),
             UNCHANGED retryVars
      PROVE  Goal
  BY <1>0, <1>1, <1>2, <1>9 DEF Answer, retryVars
<1>10. CASE UNCHANGED vars
  BY <1>0, <1>1, <1>2, <1>10 DEF vars, batchVars, retryVars
<1> QED BY <1>4, <1>5, <1>6, <1>7, <1>8, <1>9, <1>10 DEF Next

\* Whatever batches and retries they travel in, calls that resolve were executed,
\* none is executed more than maxAttempts times, and each has one verdict.
THEOREM CallsAreRemoteCalls == Spec => ImplementsRemoteCalls
<1>1. Init => LoopInv /\ ExecInv /\ Remote!Init
  <2> SUFFICES ASSUME Init PROVE LoopInv /\ ExecInv /\ Remote!Init
    OBVIOUS
  <2>1. LoopInv
    BY LoopInit
  <2>2. ExecInv
    BY MembersEmpty DEF Init, BatchingInit, ExecInv
  <2>3. \A c \in Calls : Cardinality(ExecutedOf(c)) = 0
    <3>1. \A c \in Calls : ExecutedOf(c) = {}
      BY DEF Init, BatchingInit, ExecutedOf
    <3> QED BY <3>1, FS_EmptySet
  <2>4. /\ Executions = [c \in Calls |-> 0]
        /\ Verdicts = [c \in Calls |-> "open"]
    BY <2>3 DEF Executions, Verdicts, Init
  <2> QED BY <2>1, <2>2, <2>4, RemoteActions
<1>2. TypeOK /\ LoopInv /\ ExecInv /\ [Next]_vars
        => ExecInv' /\ [Remote!Next]_(Remote!vars)
  BY ExecStep, RemoteStep
<1> QED BY <1>1, <1>2, LoopAlways, PTL
        DEF Spec, ImplementsRemoteCalls, Remote!Spec
=============================================================================
