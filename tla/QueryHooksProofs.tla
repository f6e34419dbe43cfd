---------------------------- MODULE QueryHooksProofs ----------------------------
(***************************************************************************)
(* Theorems about QueryHooks, for any components, keys and numbers of      *)
(* requests, writes and fetches: type correctness, that no component is    *)
(* left loading, that no entry of the cache outlives its request, that the *)
(* components on one key share its request, and that none goes back to     *)
(* older data. The last two rest on the inductive invariant OneAtATime.    *)
(***************************************************************************)
EXTENDS QueryHooks, TLAPS

Answered(r) == requests[r].stage = "answered"
Failed(r) == requests[r].stage = "failed"

RequestRecords == [key : Keys, stage : {"inFlight", "answered", "failed"}, seen : 0..MaxWrites]
FetchRecords(n) == [by : Components, request : 1..n, made : BOOLEAN]

-----------------------------------------------------------------------------
(* Lemmas about sequences *)

\* What one element more, at the end, changes.
LEMMA AppendFacts ==
  ASSUME NEW S, NEW q \in Seq(S), NEW x \in S
  PROVE  /\ Append(q, x) \in Seq(S)
         /\ Len(q) \in Nat
         /\ Len(Append(q, x)) = Len(q) + 1
         /\ DOMAIN q = 1..Len(q) /\ DOMAIN Append(q, x) = 1..(Len(q) + 1)
         /\ \A i \in 1..Len(q) : Append(q, x)[i] = q[i]
         /\ Append(q, x)[Len(q) + 1] = x
  OBVIOUS

\* An element of a sequence.
LEMMA ElementType ==
  ASSUME NEW S, NEW q \in Seq(S)
  PROVE  /\ Len(q) \in Nat /\ DOMAIN q = 1..Len(q)
         /\ \A i \in 1..Len(q) : q[i] \in S
  OBVIOUS

\* A sequence of a smaller type.
LEMMA SeqGrows ==
  ASSUME NEW S, NEW T, S \subseteq T, NEW q \in Seq(S)
  PROVE  q \in Seq(T)
  OBVIOUS

\* What a new value of one element changes.
LEMMA ExceptFacts ==
  ASSUME NEW S, NEW q \in Seq(S), NEW c \in 1..Len(q), NEW x \in S
  PROVE  /\ [q EXCEPT ![c] = x] \in Seq(S)
         /\ Len([q EXCEPT ![c] = x]) = Len(q)
         /\ \A d \in 1..Len(q) :
              [q EXCEPT ![c] = x][d] = IF d = c THEN x ELSE q[d]
  OBVIOUS

\* The place that an element had before the element at i was removed.
Before(i, j) == IF j < i THEN j ELSE j + 1

\* What is left, in the same order, when the element at i is removed.
LEMMA RemoveFacts ==
  ASSUME NEW S, NEW q \in Seq(S), NEW i \in 1..Len(q),
         NEW p \in [1..(Len(q) - 1) -> S],
         \A j \in 1..(Len(q) - 1) : p[j] = q[Before(i, j)]
  PROVE  /\ p \in Seq(S) /\ DOMAIN p = 1..(Len(q) - 1)
         /\ \A j \in DOMAIN p : /\ Before(i, j) \in (DOMAIN q) \ {i}
                                /\ p[j] = q[Before(i, j)]
         /\ \A a \in (DOMAIN q) \ {i} : \E j \in DOMAIN p : Before(i, j) = a
         /\ \A j, k \in DOMAIN p : Before(i, j) <= Before(i, k) => j <= k
<1>1. Len(q) \in Nat /\ DOMAIN q = 1..Len(q)
  BY ElementType
<1>2. DOMAIN p = 1..(Len(q) - 1)
  OBVIOUS
<1>3. \A j \in DOMAIN p : Before(i, j) \in (DOMAIN q) \ {i}
  BY <1>1, <1>2 DEF Before
<1>4. p \in Seq(S)
  <2> DEFINE n == Len(q) - 1
  <2>1. n \in Nat /\ p \in [1..n -> S]
    BY <1>1
  <2> QED BY <2>1
<1>5. ASSUME NEW a \in (DOMAIN q) \ {i} PROVE \E j \in DOMAIN p : Before(i, j) = a
  <2>1. CASE a < i
    BY <1>1, <1>2, <2>1 DEF Before
  <2>2. CASE a > i
    <3>1. a - 1 \in DOMAIN p /\ Before(i, a - 1) = a
      BY <1>1, <1>2, <2>2 DEF Before
    <3> QED BY <3>1
  <2> QED BY <1>1, <2>1, <2>2
<1>6. \A j, k \in DOMAIN p : Before(i, j) <= Before(i, k) => j <= k
  BY <1>1, <1>2 DEF Before
<1> QED BY <1>2, <1>3, <1>4, <1>5, <1>6

-----------------------------------------------------------------------------
(* Types *)

\* The elements of the two sequences.
LEMMA Elements ==
  ASSUME TypeOK
  PROVE  /\ requests \in Seq(RequestRecords) /\ fetching \in Seq(FetchRecords(Len(requests)))
         /\ Len(requests) \in Nat /\ Ids = 1..Len(requests)
         /\ \A r \in Ids : /\ requests[r].key \in Keys /\ requests[r].seen \in Nat
                           /\ requests[r] \in RequestRecords
         /\ Len(fetching) \in Nat /\ DOMAIN fetching = 1..Len(fetching)
         /\ \A i \in DOMAIN fetching :
              /\ fetching[i].by \in Components /\ fetching[i].request \in Ids
              /\ fetching[i].made \in BOOLEAN
         /\ writes \in Nat /\ writes \in 0..MaxWrites
         /\ \A k \in Keys : queryCache[k] \in Nat
<1>1. requests \in Seq(RequestRecords) /\ fetching \in Seq(FetchRecords(Len(requests)))
  BY DEF TypeOK, RequestRecords, FetchRecords, Ids
<1>2. /\ Len(requests) \in Nat
      /\ \A r \in 1..Len(requests) : requests[r] \in RequestRecords
  BY <1>1, ElementType
<1>3. /\ Len(fetching) \in Nat /\ DOMAIN fetching = 1..Len(fetching)
      /\ \A i \in 1..Len(fetching) : fetching[i] \in FetchRecords(Len(requests))
  BY <1>1, ElementType
<1>4. \A r \in Ids : /\ requests[r].key \in Keys /\ requests[r].seen \in Nat
                     /\ requests[r] \in RequestRecords
  BY <1>2, QueryHooksAssumption DEF Ids, RequestRecords
<1>5. \A i \in DOMAIN fetching :
        /\ fetching[i].by \in Components /\ fetching[i].request \in Ids
        /\ fetching[i].made \in BOOLEAN
  BY <1>3 DEF FetchRecords, Ids
<1>6. writes \in Nat /\ writes \in 0..MaxWrites /\ \A k \in Keys : queryCache[k] \in Nat
  BY <1>2, QueryHooksAssumption DEF TypeOK
<1> QED BY <1>1, <1>2, <1>3, <1>4, <1>5, <1>6 DEF Ids

\* What fetchData() does: it joins the request of the cache or makes one.
LEMMA Fetched ==
  ASSUME TypeOK, NEW c \in Components, NEW k \in Keys, FetchData(c, k)
  PROVE  /\ DOMAIN fetching' = DOMAIN fetching \cup {Len(fetching) + 1}
         /\ \A i \in DOMAIN fetching : fetching'[i] = fetching[i] /\ i < Len(fetching) + 1
         /\ fetching'[Len(fetching) + 1].by = c
         /\ \A r \in Ids : requests'[r] = requests[r]
         /\ \/ /\ queryCache[k] # 0 /\ queryCache[k] \in Ids
               /\ fetching'[Len(fetching) + 1].request = queryCache[k]
               /\ fetching'[Len(fetching) + 1].made = FALSE
               /\ fetching' \in Seq(FetchRecords(Len(requests)))
               /\ UNCHANGED <<requests, queryCache>>
            \/ /\ queryCache[k] = 0
               /\ Len(requests') = Len(requests) + 1
               /\ Ids' = Ids \cup {Len(requests')}
               /\ Len(requests') \notin Ids /\ Len(requests') # 0
               /\ requests'[Len(requests')] =
                    [key |-> k, stage |-> "inFlight", seen |-> writes]
               /\ requests' \in Seq(RequestRecords)
               /\ fetching'[Len(fetching) + 1].request = Len(requests')
               /\ fetching'[Len(fetching) + 1].made = TRUE
               /\ fetching' \in Seq(FetchRecords(Len(requests')))
               /\ queryCache'[k] = Len(requests')
               /\ \A l \in Keys : l # k => queryCache'[l] = queryCache[l]
               /\ queryCache' \in [Keys -> 0..Len(requests')]
<1>1. CASE queryCache[k] # 0
  <2> DEFINE f == [by |-> c, request |-> queryCache[k], made |-> FALSE]
  <2>1. queryCache[k] \in Ids
    BY <1>1, Elements DEF TypeOK
  <2>2. f \in FetchRecords(Len(requests)) /\ f.request = queryCache[k] /\ f.made = FALSE /\ f.by = c
    BY <2>1 DEF FetchRecords, Ids
  <2>3. fetching' = Append(fetching, f) /\ UNCHANGED <<requests, queryCache>>
    BY <1>1 DEF FetchData, Request
  <2> HIDE DEF f
  <2>4. /\ fetching' \in Seq(FetchRecords(Len(requests)))
        /\ DOMAIN fetching' = 1..(Len(fetching) + 1)
        /\ \A i \in 1..Len(fetching) : fetching'[i] = fetching[i]
        /\ fetching'[Len(fetching) + 1] = f
    BY <2>2, <2>3, Elements, AppendFacts
  <2> QED BY <1>1, <2>1, <2>2, <2>3, <2>4, Elements
<1>2. CASE queryCache[k] = 0
  <2> DEFINE n == Len(requests) + 1
             q == [key |-> k, stage |-> "inFlight", seen |-> writes]
             f == [by |-> c, request |-> n, made |-> TRUE]
  <2>1. q \in RequestRecords /\ f \in FetchRecords(n)
    BY Elements DEF RequestRecords, FetchRecords
  <2>2. f.request = n /\ f.made = TRUE /\ f.by = c
    OBVIOUS
  <2>3. requests' = Append(requests, q)
    BY <1>2 DEF FetchData, Request
  <2> HIDE DEF q
  <2>4. /\ requests' \in Seq(RequestRecords) /\ Len(requests') = n
        /\ \A r \in 1..Len(requests) : requests'[r] = requests[r]
        /\ requests'[n] = q
    BY <2>1, <2>3, Elements, AppendFacts
  <2>5. fetching' = Append(fetching, f) /\ queryCache' = [queryCache EXCEPT ![k] = n]
    BY <1>2, <2>4 DEF FetchData, Request
  <2>6. fetching \in Seq(FetchRecords(n))
    <3>1. FetchRecords(Len(requests)) \subseteq FetchRecords(n)
      BY Elements DEF FetchRecords
    <3> QED BY <3>1, Elements, SeqGrows
  <2> HIDE DEF f
  <2>7. /\ fetching' \in Seq(FetchRecords(n))
        /\ DOMAIN fetching' = 1..(Len(fetching) + 1)
        /\ \A i \in 1..Len(fetching) : fetching'[i] = fetching[i]
        /\ fetching'[Len(fetching) + 1] = f
    BY <2>1, <2>5, <2>6, Elements, AppendFacts
  <2>8. /\ queryCache'[k] = n
        /\ \A l \in Keys : l # k => queryCache'[l] = queryCache[l]
        /\ queryCache' \in [Keys -> 0..n]
    BY <2>5, Elements DEF TypeOK
  <2>9. Ids' = Ids \cup {n} /\ n \notin Ids /\ n # 0
    BY <2>4, Elements DEF Ids
  <2> QED BY <1>2, <2>1, <2>2, <2>4, <2>7, <2>8, <2>9, Elements DEF q
<1> QED BY <1>1, <1>2

\* The fetch that goes on is the first of those that are due, and only it goes.
LEMMA WentOn ==
  ASSUME TypeOK, GoesOn
  PROVE  \E i \in Due :
           /\ i \in DOMAIN fetching /\ \A j \in Due : i <= j
           /\ fetching' \in Seq(FetchRecords(Len(requests)))
           /\ \A j \in DOMAIN fetching' :
                /\ Before(i, j) \in (DOMAIN fetching) \ {i}
                /\ fetching'[j] = fetching[Before(i, j)]
           /\ \A a \in (DOMAIN fetching) \ {i} : \E j \in DOMAIN fetching' : Before(i, j) = a
           /\ \A j, k \in DOMAIN fetching' : Before(i, j) <= Before(i, k) => j <= k
           /\ queryCache' = CacheAfter(fetching[i])
           /\ shown' = IF life[fetching[i].by] = "mounted" /\ Answered(fetching[i].request)
                THEN [shown EXCEPT ![fetching[i].by][KeyOf(fetching[i])] =
                        requests[fetching[i].request].seen] ELSE shown
           /\ IF life[fetching[i].by] = "mounted"
              THEN /\ loading' = [loading EXCEPT ![fetching[i].by] = FALSE]
                   /\ isRefetching' = [isRefetching EXCEPT ![fetching[i].by] = FALSE]
              ELSE UNCHANGED <<loading, isRefetching>>
           /\ UNCHANGED <<requests, life, key, writes, disturbed>>
<1>1. PICK i \in Due :
        /\ \A j \in Due : i <= j
        /\ fetching' = [j \in 1..(Len(fetching) - 1) |-> fetching[IF j < i THEN j ELSE j + 1]]
        /\ queryCache' = CacheAfter(fetching[i])
        /\ shown' = IF life[fetching[i].by] = "mounted" /\ Answered(fetching[i].request)
                THEN [shown EXCEPT ![fetching[i].by][KeyOf(fetching[i])] =
                        requests[fetching[i].request].seen] ELSE shown
        /\ IF life[fetching[i].by] = "mounted"
           THEN /\ loading' = [loading EXCEPT ![fetching[i].by] = FALSE]
                /\ isRefetching' = [isRefetching EXCEPT ![fetching[i].by] = FALSE]
           ELSE UNCHANGED <<loading, isRefetching>>
        /\ UNCHANGED <<requests, life, key, writes, disturbed>>
  BY DEF GoesOn, Finally, Answered
<1>2. i \in DOMAIN fetching /\ i \in 1..Len(fetching)
  BY Elements DEF Due
<1>3. /\ fetching' \in Seq(FetchRecords(Len(requests)))
      /\ \A j \in DOMAIN fetching' :
           /\ Before(i, j) \in (DOMAIN fetching) \ {i}
           /\ fetching'[j] = fetching[Before(i, j)]
      /\ \A a \in (DOMAIN fetching) \ {i} : \E j \in DOMAIN fetching' : Before(i, j) = a
      /\ \A j, k \in DOMAIN fetching' : Before(i, j) <= Before(i, k) => j <= k
  <2> DEFINE S == FetchRecords(Len(requests))
  <2>1. fetching \in Seq(S)
    BY Elements
  <2> HIDE DEF S
  <2>2. \A j \in 1..(Len(fetching) - 1) : fetching'[j] = fetching[Before(i, j)]
    BY <1>1 DEF Before
  <2>3. fetching' \in [1..(Len(fetching) - 1) -> S]
    <3>1. \A j \in 1..(Len(fetching) - 1) : fetching[Before(i, j)] \in S
      BY <1>2, <2>1, ElementType DEF Before
    <3> QED BY <1>1, <3>1 DEF Before
  <2>4. PICK p \in [1..(Len(fetching) - 1) -> S] : p = fetching'
    BY <2>3
  <2>5. PICK q \in Seq(S) : q = fetching
    BY <2>1
  <2>6. /\ q \in Seq(S) /\ i \in 1..Len(q) /\ p \in [1..(Len(q) - 1) -> S]
        /\ \A j \in 1..(Len(q) - 1) : p[j] = q[Before(i, j)]
    BY <1>2, <2>2, <2>4, <2>5
  <2>7. /\ p \in Seq(S) /\ DOMAIN p = 1..(Len(q) - 1)
        /\ \A j \in DOMAIN p : /\ Before(i, j) \in (DOMAIN q) \ {i}
                               /\ p[j] = q[Before(i, j)]
        /\ \A a \in (DOMAIN q) \ {i} : \E j \in DOMAIN p : Before(i, j) = a
        /\ \A j, k \in DOMAIN p : Before(i, j) <= Before(i, k) => j <= k
    BY <2>6, RemoveFacts
  <2> QED BY <2>4, <2>5, <2>7 DEF S
<1> QED BY <1>1, <1>2, <1>3

\* What the settling of a request changes: this request, to what is newer than it
\* was and no newer than the server.
LEMMA SettledFacts ==
  ASSUME TypeOK, NEW r \in Ids, Settles(r)
  PROVE  /\ requests' \in Seq(RequestRecords) /\ Len(requests') = Len(requests) /\ Ids' = Ids
         /\ \A q \in Ids : q # r => requests'[q] = requests[q]
         /\ requests'[r].key = requests[r].key
         /\ requests'[r].stage \in {"answered", "failed"}
         /\ requests[r].seen <= requests'[r].seen
         /\ requests[r].seen <= writes => requests'[r].seen <= writes
<1>1. PICK x \in RequestRecords :
        /\ requests' = [requests EXCEPT ![r] = x]
        /\ x.key = requests[r].key /\ x.stage \in {"answered", "failed"}
        /\ requests[r].seen <= x.seen /\ (requests[r].seen <= writes => x.seen <= writes)
  <2>1. CASE requests' = [requests EXCEPT ![r].stage = "failed"]
    <3> DEFINE x == [requests[r] EXCEPT !.stage = "failed"]
    <3>1. /\ x \in RequestRecords /\ x.key = requests[r].key /\ x.stage = "failed"
          /\ x.seen = requests[r].seen
      BY Elements DEF RequestRecords
    <3>2. requests' = [requests EXCEPT ![r] = x]
      BY <2>1
    <3>3. requests[r].seen <= x.seen /\ (requests[r].seen <= writes => x.seen <= writes)
      BY <3>1, Elements
    <3> QED BY <3>1, <3>2, <3>3
  <2>2. ASSUME NEW w \in requests[r].seen..writes,
               requests' = [requests EXCEPT ![r].stage = "answered", ![r].seen = w]
        PROVE  \E x \in RequestRecords :
                 /\ requests' = [requests EXCEPT ![r] = x]
                 /\ x.key = requests[r].key /\ x.stage \in {"answered", "failed"}
                 /\ requests[r].seen <= x.seen /\ (requests[r].seen <= writes => x.seen <= writes)
    <3> DEFINE x == [requests[r] EXCEPT !.stage = "answered", !.seen = w]
    <3>1. w \in 0..MaxWrites /\ requests[r].seen <= w /\ w <= writes
      BY Elements, QueryHooksAssumption
    <3>2. /\ x \in RequestRecords /\ x.key = requests[r].key /\ x.stage = "answered"
          /\ x.seen = w
      BY <3>1, Elements DEF RequestRecords
    <3>3. requests' = [requests EXCEPT ![r] = x]
      BY <2>2, Elements DEF Ids
    <3> QED BY <3>1, <3>2, <3>3
  <2> QED BY <2>1, <2>2 DEF Settles
<1>2. r \in 1..Len(requests)
  BY DEF Ids
<1>3. /\ requests' \in Seq(RequestRecords) /\ Len(requests') = Len(requests)
      /\ \A q \in 1..Len(requests) : requests'[q] = IF q = r THEN x ELSE requests[q]
  BY <1>1, <1>2, Elements, ExceptFacts
<1> QED BY <1>1, <1>2, <1>3 DEF Ids

\* Type correctness of an effect or a refetch.
LEMMA FetchType ==
  ASSUME TypeOK, NEW c \in Components, NEW k \in Keys, FetchData(c, k),
         life' \in [Components -> {"none", "mounted", "gone"}],
         key' \in [Components -> Keys], loading' \in [Components -> BOOLEAN],
         isRefetching' \in [Components -> BOOLEAN]
  PROVE  TypeOK'
<1>1. /\ shown' \in [Components -> [Keys -> 0..MaxWrites]]
      /\ writes' \in 0..MaxWrites /\ disturbed' \subseteq Keys
  BY DEF FetchData, TypeOK
<1>2. /\ requests' \in Seq(RequestRecords) /\ fetching' \in Seq(FetchRecords(Len(requests')))
      /\ queryCache' \in [Keys -> 0..Len(requests')]
  BY Fetched, Elements DEF TypeOK
<1> QED BY <1>1, <1>2 DEF TypeOK, RequestRecords, FetchRecords, Ids

\* Every step keeps the types.
LEMMA TypeStep ==
  ASSUME TypeOK, [Next]_vars
  PROVE  TypeOK'
<1>1. ASSUME NEW c \in Components, Effect(c) PROVE TypeOK'
  <2>1. PICK k \in Keys : key' = [key EXCEPT ![c] = k]
    BY <1>1 DEF Effect, TypeOK
  <2>2. FetchData(c, k)
    BY <1>1, <2>1 DEF Effect, FetchData, Request, Disturbs, TypeOK
  <2>3. /\ life' \in [Components -> {"none", "mounted", "gone"}]
        /\ key' \in [Components -> Keys] /\ loading' \in [Components -> BOOLEAN]
        /\ isRefetching' \in [Components -> BOOLEAN]
    BY <1>1, <2>1 DEF Effect, TypeOK
  <2> QED BY <2>2, <2>3, FetchType
<1>2. ASSUME NEW c \in Components, Refetch(c) PROVE TypeOK'
  <2>1. /\ life' \in [Components -> {"none", "mounted", "gone"}]
        /\ key' \in [Components -> Keys] /\ loading' \in [Components -> BOOLEAN]
        /\ isRefetching' \in [Components -> BOOLEAN]
    BY <1>2 DEF Refetch, TypeOK
  <2>2. PICK k \in Keys : k = key[c]
    BY DEF TypeOK
  <2>3. FetchData(c, k)
    BY <1>2, <2>2 DEF Refetch, FetchData, Request, Disturbs
  <2> QED BY <2>1, <2>3, FetchType
<1>3. CASE GoesOn
  <2>1. PICK i \in DOMAIN fetching :
          /\ fetching' \in Seq(FetchRecords(Len(requests)))
          /\ queryCache' = CacheAfter(fetching[i])
          /\ shown' = IF life[fetching[i].by] = "mounted" /\ Answered(fetching[i].request)
                THEN [shown EXCEPT ![fetching[i].by][KeyOf(fetching[i])] =
                        requests[fetching[i].request].seen] ELSE shown
          /\ IF life[fetching[i].by] = "mounted"
             THEN /\ loading' = [loading EXCEPT ![fetching[i].by] = FALSE]
                  /\ isRefetching' = [isRefetching EXCEPT ![fetching[i].by] = FALSE]
             ELSE UNCHANGED <<loading, isRefetching>>
          /\ UNCHANGED <<requests, life, key, writes, disturbed>>
    BY <1>3, WentOn
  <2>2. /\ loading' \in [Components -> BOOLEAN] /\ isRefetching' \in [Components -> BOOLEAN]
    BY <2>1 DEF TypeOK
  <2>3. queryCache' \in [Keys -> 0..Len(requests)]
    <3>1. queryCache \in [Keys -> 0..Len(requests)] /\ Len(requests) \in Nat
      BY DEF TypeOK
    <3>2. 0 \in 0..Len(requests)
      BY <3>1
    <3> QED BY <2>1, <3>1, <3>2 DEF CacheAfter
  <2>4. shown' \in [Components -> [Keys -> 0..MaxWrites]]
    <3>1. requests[fetching[i].request].seen \in 0..MaxWrites
      BY Elements DEF RequestRecords
    <3>2. KeyOf(fetching[i]) \in Keys
      BY Elements DEF KeyOf
    <3> QED BY <2>1, <3>1, <3>2 DEF TypeOK
  <2> QED BY <2>1, <2>2, <2>3, <2>4 DEF TypeOK, FetchRecords, Ids
<1>4. ASSUME NEW c \in Components, Unmount(c) PROVE TypeOK'
  BY <1>4 DEF Unmount, TypeOK, Ids
<1>5. ASSUME NEW k \in Keys, Clear(k) PROVE TypeOK'
  BY <1>5, Elements DEF Clear, TypeOK, hookVars, Ids
<1>6. CASE Write
  BY <1>6, QueryHooksAssumption DEF Write, TypeOK, hookVars, Ids
<1>7. ASSUME NEW r \in Ids, Settles(r) PROVE TypeOK'
  <2>1. requests' \in Seq(RequestRecords) /\ Len(requests') = Len(requests)
    BY <1>7, SettledFacts
  <2> QED BY <1>7, <2>1 DEF Settles, TypeOK, hookVars, RequestRecords, Ids
<1>8. CASE UNCHANGED vars
  BY <1>8 DEF vars, hookVars, TypeOK, Ids
<1> QED BY <1>1, <1>2, <1>3, <1>4, <1>5, <1>6, <1>7, <1>8 DEF Next

\* The first state is typed.
LEMMA TypeInit == Init => TypeOK
  BY QueryHooksAssumption DEF Init, TypeOK, Ids

\* Every reachable state is typed, for any components, keys and bounds.
THEOREM TypeCorrect == Spec => []TypeOK
<1>1. TypeOK /\ [Next]_vars => TypeOK'
  BY TypeStep
<1> QED BY <1>1, TypeInit, PTL DEF Spec

-----------------------------------------------------------------------------
(* No component is left loading *)

\* A fetch of the component itself is added by the steps that say it is loading,
\* and the step that takes one away says that it is not.
LEMMA LoadingStep ==
  ASSUME TypeOK, LoadingAccounted, [Next]_vars
  PROVE  LoadingAccounted'
<1>1. ASSUME NEW c \in Components, NEW k \in Keys, FetchData(c, k),
             \A d \in Components : d # c =>
               UNCHANGED <<life[d], loading[d], isRefetching[d]>>
      PROVE  LoadingAccounted'
  <2>1. /\ \A i \in DOMAIN fetching : i \in DOMAIN fetching' /\ fetching'[i] = fetching[i]
        /\ \E i \in DOMAIN fetching' : fetching'[i].by = c
    BY <1>1, Fetched
  <2> QED BY <1>1, <2>1 DEF LoadingAccounted
<1>2. ASSUME NEW c \in Components, Effect(c) PROVE LoadingAccounted'
  <2>1. PICK k \in Keys : key' = [key EXCEPT ![c] = k]
    BY <1>2 DEF Effect, TypeOK
  <2>2. FetchData(c, k)
    BY <1>2, <2>1 DEF Effect, FetchData, Request, Disturbs, TypeOK
  <2>3. \A d \in Components : d # c => UNCHANGED <<life[d], loading[d], isRefetching[d]>>
    BY <1>2 DEF Effect, TypeOK
  <2> QED BY <1>1, <2>2, <2>3
<1>3. ASSUME NEW c \in Components, Refetch(c) PROVE LoadingAccounted'
  <2>1. PICK k \in Keys : k = key[c]
    BY DEF TypeOK
  <2>2. FetchData(c, k)
    BY <1>3, <2>1 DEF Refetch, FetchData, Request, Disturbs
  <2>3. \A d \in Components : d # c => UNCHANGED <<life[d], loading[d], isRefetching[d]>>
    BY <1>3 DEF Refetch, TypeOK
  <2> QED BY <1>1, <2>2, <2>3
<1>4. CASE GoesOn
  <2>1. PICK i \in DOMAIN fetching :
          /\ \A j \in DOMAIN fetching' : fetching'[j] = fetching[Before(i, j)]
          /\ \A a \in (DOMAIN fetching) \ {i} : \E j \in DOMAIN fetching' : Before(i, j) = a
          /\ IF life[fetching[i].by] = "mounted"
             THEN /\ loading' = [loading EXCEPT ![fetching[i].by] = FALSE]
                  /\ isRefetching' = [isRefetching EXCEPT ![fetching[i].by] = FALSE]
             ELSE UNCHANGED <<loading, isRefetching>>
          /\ UNCHANGED life
    BY <1>4, WentOn
  <2> SUFFICES ASSUME NEW c \in Components, life'[c] = "mounted",
                      loading'[c] \/ isRefetching'[c]
               PROVE  \E j \in DOMAIN fetching' : fetching'[j].by = c
    BY DEF LoadingAccounted
  <2>2. fetching[i].by # c /\ (loading[c] \/ isRefetching[c]) /\ life[c] = "mounted"
    BY <2>1 DEF TypeOK
  <2>3. PICK a \in DOMAIN fetching : fetching[a].by = c
    BY <2>2 DEF LoadingAccounted
  <2> QED BY <2>1, <2>2, <2>3
<1>5. ASSUME NEW c \in Components, Unmount(c) PROVE LoadingAccounted'
  BY <1>5 DEF Unmount, TypeOK, LoadingAccounted
<1>6. ASSUME UNCHANGED <<fetching, hookVars>> PROVE LoadingAccounted'
  BY <1>6 DEF hookVars, LoadingAccounted
<1>7. ASSUME NEW k \in Keys, Clear(k) PROVE LoadingAccounted'
  BY <1>6, <1>7 DEF Clear
<1>8. CASE Write
  BY <1>6, <1>8 DEF Write
<1>9. ASSUME NEW r \in Ids, Settles(r) PROVE LoadingAccounted'
  BY <1>6, <1>9 DEF Settles
<1>10. CASE UNCHANGED vars
  BY <1>6, <1>10 DEF vars
<1> QED BY <1>2, <1>3, <1>4, <1>5, <1>7, <1>8, <1>9, <1>10 DEF Next

\* A mounted component that says it is loading or refetching has a fetch under way
\* that will end this, with any number of components, keys and overlapping fetches.
THEOREM NobodyLeftLoading == Spec => []LoadingAccounted
<1>1. Init => LoadingAccounted
  BY DEF Init, LoadingAccounted
<1>2. TypeOK /\ LoadingAccounted /\ [Next]_vars => LoadingAccounted'
  BY LoadingStep
<1> QED BY <1>1, <1>2, TypeCorrect, PTL DEF Spec

-----------------------------------------------------------------------------
(* One request of a key at a time *)

\* The maker's fetch comes before those that joined its request.
MakerFirst ==
  \A i, j \in DOMAIN fetching :
    fetching[j].made /\ fetching[i].request = fetching[j].request => j <= i

\* The fetches that are due are due by one request.
OneDue == \A i, j \in Due : fetching[i].request = fetching[j].request

\* No data is newer than the server.
SeenBounded ==
  /\ \A r \in Ids : requests[r].seen <= writes
  /\ \A c \in Components, k \in Keys : shown[c][k] <= writes

\* What is in flight or has its maker under way is in the cache, and a request
\* that has failed is alone.
OneRequest(k) ==
  /\ \A r \in Ids : requests[r].key = k /\ InFlight(r) => queryCache[k] = r
  /\ \A i \in DOMAIN fetching :
       KeyOf(fetching[i]) = k /\ fetching[i].made => queryCache[k] = fetching[i].request
  /\ \A i \in Due, r \in Ids :
       KeyOf(fetching[i]) = k /\ Failed(fetching[i].request) /\ requests[r].key = k
         => ~InFlight(r)

\* What is to be shown next is not older than what is shown, nor is what is in
\* flight older than either.
NewerThanShown(k) ==
  /\ \A c \in Components, r \in Ids :
       requests[r].key = k /\ InFlight(r) => shown[c][k] <= requests[r].seen
  /\ \A c \in Components, i \in Due :
       KeyOf(fetching[i]) = k /\ Answered(fetching[i].request)
         => shown[c][k] <= requests[fetching[i].request].seen
  /\ \A i \in Due, r \in Ids :
       (KeyOf(fetching[i]) = k /\ Answered(fetching[i].request)
        /\ requests[r].key = k /\ InFlight(r))
         => requests[fetching[i].request].seen <= requests[r].seen

OneAtATime ==
  /\ EntryIsLive /\ MakerFirst /\ OneDue /\ SeenBounded
  /\ \A k \in Keys \ disturbed : OneRequest(k) /\ NewerThanShown(k)

\* A fetch that joins a request is accounted for like its maker's.
LEMMA JoinStep ==
  ASSUME TypeOK, OneAtATime, NEW c \in Components, NEW k \in Keys, FetchData(c, k),
         queryCache[k] # 0
  PROVE  OneAtATime'
<1> DEFINE n == Len(fetching) + 1
<1>1. /\ DOMAIN fetching' = DOMAIN fetching \cup {n}
      /\ \A i \in DOMAIN fetching : fetching'[i] = fetching[i] /\ i < n
      /\ fetching'[n].request = queryCache[k] /\ fetching'[n].made = FALSE
      /\ UNCHANGED <<requests, queryCache, shown, writes>> /\ disturbed \subseteq disturbed'
  BY Fetched DEF FetchData
<1>2. PICK m \in DOMAIN fetching : fetching[m].made /\ fetching[m].request = queryCache[k]
  BY DEF OneAtATime, EntryIsLive
<1> DEFINE Old(i) == IF i = n THEN m ELSE i
<1>3. /\ n \notin DOMAIN fetching /\ n \in Nat
      /\ \A i \in DOMAIN fetching : i \in Nat
  BY Elements
<1> HIDE DEF n
<1>4. \A i \in DOMAIN fetching' :
        /\ Old(i) \in DOMAIN fetching
        /\ fetching'[i].request = fetching[Old(i)].request
        /\ fetching'[i].made => i # n /\ fetching'[i] = fetching[i] /\ i \in DOMAIN fetching
        /\ i \in Due' => Old(i) \in Due
  BY <1>1, <1>2 DEF Due, InFlight
<1>5. EntryIsLive'
  BY <1>1 DEF OneAtATime, EntryIsLive
<1>6. MakerFirst'
  <2> SUFFICES ASSUME NEW i \in DOMAIN fetching', NEW j \in DOMAIN fetching',
                      fetching'[j].made, fetching'[i].request = fetching'[j].request
               PROVE  j <= i
    BY DEF MakerFirst
  <2>1. j \in DOMAIN fetching /\ fetching'[j] = fetching[j]
    BY <1>4
  <2>2. CASE i = n
    BY <1>1, <1>3, <2>1, <2>2
  <2>3. CASE i # n
    BY <1>1, <2>1, <2>3 DEF OneAtATime, MakerFirst
  <2> QED BY <2>2, <2>3
<1>7. OneDue'
  <2> SUFFICES ASSUME NEW i \in Due', NEW j \in Due'
               PROVE  fetching'[i].request = fetching'[j].request
    BY DEF OneDue
  <2>1. i \in DOMAIN fetching' /\ j \in DOMAIN fetching'
    BY DEF Due
  <2>2. fetching[Old(i)].request = fetching[Old(j)].request
    BY <1>4, <2>1 DEF OneAtATime, OneDue
  <2> QED BY <1>4, <2>1, <2>2
<1>8. SeenBounded'
  BY <1>1 DEF OneAtATime, SeenBounded, Ids
<1>9. ASSUME NEW l \in Keys \ disturbed' PROVE OneRequest(l)' /\ NewerThanShown(l)'
  <2>1. OneRequest(l) /\ NewerThanShown(l)
    BY <1>1 DEF OneAtATime
  <2>2. \A i \in DOMAIN fetching' : KeyOf(fetching[Old(i)]) = KeyOf(fetching[i])'
    BY <1>1, <1>4 DEF KeyOf
  <2>3. Ids' = Ids /\ \A r \in Ids : InFlight(r)' = InFlight(r)
                                    /\ Failed(r)' = Failed(r) /\ Answered(r)' = Answered(r)
    BY <1>1 DEF Ids, InFlight, Failed, Answered
  <2>4. \A i \in Due' : /\ i \in DOMAIN fetching' /\ Old(i) \in Due
                        /\ KeyOf(fetching[Old(i)]) = KeyOf(fetching[i])'
                        /\ fetching'[i].request = fetching[Old(i)].request
    BY <1>4, <2>2 DEF Due
  <2>5. OneRequest(l)'
    <3>1. \A r \in Ids' : requests'[r].key = l /\ InFlight(r)' => queryCache'[l] = r
      BY <1>1, <2>1, <2>3 DEF OneRequest
    <3>2. \A i \in DOMAIN fetching' :
            KeyOf(fetching[i])' = l /\ fetching'[i].made => queryCache'[l] = fetching'[i].request
      BY <1>1, <1>4, <2>1 DEF OneRequest, KeyOf
    <3>3. \A i \in Due', r \in Ids' :
            KeyOf(fetching[i])' = l /\ Failed(fetching[i].request)' /\ requests'[r].key = l
              => ~InFlight(r)'
      BY <1>1, <2>1, <2>3, <2>4 DEF OneRequest, Failed
    <3> QED BY <3>1, <3>2, <3>3 DEF OneRequest
  <2>6. NewerThanShown(l)'
    <3>1. \A d \in Components, r \in Ids' :
            requests'[r].key = l /\ InFlight(r)' => shown'[d][l] <= requests'[r].seen
      BY <1>1, <2>1, <2>3 DEF NewerThanShown
    <3>2. \A d \in Components, i \in Due' :
            KeyOf(fetching[i])' = l /\ Answered(fetching[i].request)'
              => shown'[d][l] <= requests'[fetching'[i].request].seen
      BY <1>1, <2>1, <2>4 DEF NewerThanShown, Answered
    <3>3. \A i \in Due', r \in Ids' :
             (KeyOf(fetching[i])' = l /\ Answered(fetching[i].request)'
              /\ requests'[r].key = l /\ InFlight(r)')
               => requests'[fetching'[i].request].seen <= requests'[r].seen
      BY <1>1, <2>1, <2>3, <2>4 DEF NewerThanShown, Answered
    <3> QED BY <3>1, <3>2, <3>3 DEF NewerThanShown
  <2> QED BY <2>5, <2>6
<1> QED BY <1>5, <1>6, <1>7, <1>8, <1>9 DEF OneAtATime

\* A request is made only when none of its key is in flight, and sees at least
\* what anybody has seen.
LEMMA MakeStep ==
  ASSUME TypeOK, OneAtATime, NEW c \in Components, NEW k \in Keys, FetchData(c, k),
         queryCache[k] = 0
  PROVE  OneAtATime'
<1>0. PICK n, q : n = Len(fetching) + 1 /\ q = Len(requests')
  OBVIOUS
<1>1. /\ DOMAIN fetching' = DOMAIN fetching \cup {n}
      /\ \A i \in DOMAIN fetching : fetching'[i] = fetching[i] /\ i < n
      /\ \A r \in Ids : requests'[r] = requests[r]
      /\ Ids' = Ids \cup {q} /\ q \notin Ids /\ q # 0
      /\ requests'[q] = [key |-> k, stage |-> "inFlight", seen |-> writes]
      /\ fetching'[n].request = q /\ fetching'[n].made = TRUE
      /\ queryCache'[k] = q
      /\ \A l \in Keys : l # k => queryCache'[l] = queryCache[l]
  BY <1>0, Fetched
<1>2. UNCHANGED <<shown, writes>> /\ disturbed \subseteq disturbed'
      /\ (Disturbs(k) => k \in disturbed')
  BY DEF FetchData
<1>3. /\ n \notin DOMAIN fetching /\ n \in Nat
      /\ \A i \in DOMAIN fetching : i \in Nat /\ fetching[i].request \in Ids
      /\ \A l \in Keys : queryCache[l] # 0 => queryCache[l] \in Ids
      /\ 0 \notin Ids /\ writes \in Nat
  <2>1. \A l \in Keys : queryCache[l] # 0 => queryCache[l] \in Ids
    <3>1. queryCache \in [Keys -> 0..Len(requests)]
      BY DEF TypeOK
    <3> QED BY <3>1, Elements
  <2> QED BY <1>0, <2>1, Elements
<1>4. /\ requests'[q].key = k /\ requests'[q].stage = "inFlight" /\ requests'[q].seen = writes
      /\ \A r \in Ids : InFlight(r)' = InFlight(r)
  BY <1>1 DEF InFlight
<1>5. Due' = Due
  BY <1>1, <1>3, <1>4 DEF Due, InFlight
<1>6. \A i \in Due : i \in DOMAIN fetching /\ fetching'[i] = fetching[i] /\ fetching[i].request \in Ids
  BY <1>1, <1>3 DEF Due
<1>7. EntryIsLive'
  <2> SUFFICES ASSUME NEW l \in Keys, queryCache'[l] # 0
               PROVE  /\ requests'[queryCache'[l]].key = l
                      /\ \E i \in DOMAIN fetching' : fetching'[i].made
                                                    /\ fetching'[i].request = queryCache'[l]
    BY DEF EntryIsLive
  <2>1. CASE l = k
    BY <1>1, <1>4, <2>1
  <2>2. CASE l # k
    BY <1>1, <1>3, <2>2 DEF OneAtATime, EntryIsLive
  <2> QED BY <2>1, <2>2
<1>8. MakerFirst'
  <2> SUFFICES ASSUME NEW i \in DOMAIN fetching', NEW j \in DOMAIN fetching',
                      fetching'[j].made, fetching'[i].request = fetching'[j].request
               PROVE  j <= i
    BY DEF MakerFirst
  <2>1. CASE j = n
    BY <1>1, <1>3, <2>1
  <2>2. CASE j # n
    <3>1. j \in DOMAIN fetching /\ fetching'[j] = fetching[j] /\ i # n /\ i \in DOMAIN fetching
      BY <1>1, <1>3, <2>2
    <3> QED BY <1>1, <3>1 DEF OneAtATime, MakerFirst
  <2> QED BY <2>1, <2>2
<1>9. OneDue'
  BY <1>5, <1>6 DEF OneAtATime, OneDue
<1>10. SeenBounded'
  BY <1>1, <1>2, <1>3, <1>4 DEF OneAtATime, SeenBounded
<1>11. ASSUME NEW l \in Keys \ disturbed' PROVE OneRequest(l)' /\ NewerThanShown(l)'
  <2>1. OneRequest(l) /\ NewerThanShown(l)
    BY <1>2 DEF OneAtATime
  <2>2. l = k => \A i \in Due : ~(KeyOf(fetching[i]) = k /\ Failed(fetching[i].request))
    BY <1>2 DEF Disturbs, Failed
  <2>3. \A i \in Due : /\ KeyOf(fetching[i])' = KeyOf(fetching[i])
                       /\ Failed(fetching[i].request)' = Failed(fetching[i].request)
                       /\ Answered(fetching[i].request)' = Answered(fetching[i].request)
                       /\ requests'[fetching'[i].request] = requests[fetching[i].request]
    BY <1>1, <1>6 DEF KeyOf, Failed, Answered
  <2>4. OneRequest(l)'
    <3>1. ASSUME NEW r \in Ids', requests'[r].key = l, InFlight(r)' PROVE queryCache'[l] = r
      <4>1. CASE r = q
        BY <1>1, <1>4, <3>1, <4>1
      <4>2. CASE r # q
        <5>1. r \in Ids /\ queryCache[l] = r
          BY <1>1, <1>4, <2>1, <3>1, <4>2 DEF OneRequest
        <5> QED BY <1>1, <1>3, <5>1
      <4> QED BY <4>1, <4>2
    <3>2. ASSUME NEW i \in DOMAIN fetching', KeyOf(fetching[i])' = l, fetching'[i].made
          PROVE  queryCache'[l] = fetching'[i].request
      <4>1. CASE i = n
        BY <1>1, <1>4, <3>2, <4>1 DEF KeyOf
      <4>2. CASE i # n
        <5>1. /\ i \in DOMAIN fetching /\ fetching'[i] = fetching[i] /\ KeyOf(fetching[i]) = l
              /\ fetching[i].request \in Ids
          BY <1>1, <1>3, <3>2, <4>2 DEF KeyOf
        <5>2. queryCache[l] = fetching[i].request
          BY <2>1, <3>2, <5>1 DEF OneRequest
        <5> QED BY <1>1, <1>3, <5>1, <5>2
      <4> QED BY <4>1, <4>2
    <3>3. ASSUME NEW i \in Due', NEW r \in Ids', KeyOf(fetching[i])' = l,
                 Failed(fetching[i].request)', requests'[r].key = l
          PROVE  ~InFlight(r)'
      <4>1. i \in Due /\ KeyOf(fetching[i]) = l /\ Failed(fetching[i].request)
        BY <1>5, <2>3, <3>3
      <4>2. r # q
        BY <1>4, <2>2, <3>3, <4>1
      <4> QED BY <1>1, <1>4, <2>1, <3>3, <4>1, <4>2 DEF OneRequest
    <3> QED BY <3>1, <3>2, <3>3 DEF OneRequest
  <2>5. NewerThanShown(l)'
    <3>1. ASSUME NEW d \in Components, NEW r \in Ids', requests'[r].key = l, InFlight(r)'
          PROVE  shown'[d][l] <= requests'[r].seen
      <4>1. CASE r = q
        BY <1>2, <1>4, <4>1 DEF OneAtATime, SeenBounded
      <4>2. CASE r # q
        BY <1>1, <1>2, <1>4, <2>1, <3>1, <4>2 DEF NewerThanShown
      <4> QED BY <4>1, <4>2
    <3>2. \A d \in Components, i \in Due' :
            KeyOf(fetching[i])' = l /\ Answered(fetching[i].request)'
              => shown'[d][l] <= requests'[fetching'[i].request].seen
      BY <1>2, <1>5, <2>1, <2>3 DEF NewerThanShown
    <3>3. ASSUME NEW i \in Due', NEW r \in Ids', KeyOf(fetching[i])' = l,
                 Answered(fetching[i].request)', requests'[r].key = l, InFlight(r)'
          PROVE  requests'[fetching'[i].request].seen <= requests'[r].seen
      <4>1. i \in Due /\ KeyOf(fetching[i]) = l /\ Answered(fetching[i].request)
            /\ requests'[fetching'[i].request] = requests[fetching[i].request]
            /\ fetching[i].request \in Ids
        BY <1>5, <1>6, <2>3, <3>3
      <4>2. CASE r = q
        BY <1>4, <4>1, <4>2 DEF OneAtATime, SeenBounded
      <4>3. CASE r # q
        BY <1>1, <1>4, <2>1, <3>3, <4>1, <4>3 DEF NewerThanShown
      <4> QED BY <4>2, <4>3
    <3>4. \A d \in Components, r \in Ids' :
            requests'[r].key = l /\ InFlight(r)' => shown'[d][l] <= requests'[r].seen
      BY <3>1
    <3>5. \A i \in Due', r \in Ids' :
             (KeyOf(fetching[i])' = l /\ Answered(fetching[i].request)'
              /\ requests'[r].key = l /\ InFlight(r)')
               => requests'[fetching'[i].request].seen <= requests'[r].seen
      BY <3>3
    <3> QED BY <3>2, <3>4, <3>5 DEF NewerThanShown
  <2> QED BY <2>4, <2>5
<1> QED BY <1>7, <1>8, <1>9, <1>10, <1>11 DEF OneAtATime

\* The fetch that goes on takes the request out of the cache only when nobody
\* else's is there, and shows data that nothing to come is older than.
LEMMA GoesOnStep ==
  ASSUME TypeOK, OneAtATime, GoesOn
  PROVE  OneAtATime'
<1>1. PICK i \in Due :
        /\ i \in DOMAIN fetching /\ \A j \in Due : i <= j
        /\ \A j \in DOMAIN fetching' :
             /\ Before(i, j) \in (DOMAIN fetching) \ {i}
             /\ fetching'[j] = fetching[Before(i, j)]
        /\ \A a \in (DOMAIN fetching) \ {i} : \E j \in DOMAIN fetching' : Before(i, j) = a
        /\ \A j, k \in DOMAIN fetching' : Before(i, j) <= Before(i, k) => j <= k
        /\ queryCache' = CacheAfter(fetching[i])
        /\ shown' = IF life[fetching[i].by] = "mounted" /\ Answered(fetching[i].request)
                THEN [shown EXCEPT ![fetching[i].by][KeyOf(fetching[i])] =
                        requests[fetching[i].request].seen] ELSE shown
        /\ UNCHANGED <<requests, writes, disturbed>>
  BY WentOn
<1>2. PICK f, s : f = fetching[i] /\ s = requests[f.request].seen
  OBVIOUS
<1>3. /\ f.by \in Components /\ f.request \in Ids /\ KeyOf(f) \in Keys
      /\ ~InFlight(f.request) /\ s \in Nat
  BY <1>1, <1>2, Elements DEF KeyOf, Due
<1>4. /\ Ids' = Ids
      /\ \A r \in Ids : /\ InFlight(r)' = InFlight(r) /\ Failed(r)' = Failed(r)
                        /\ Answered(r)' = Answered(r) /\ requests'[r] = requests[r]
  BY <1>1 DEF Ids, InFlight, Failed, Answered
<1>5. \A j \in DOMAIN fetching' :
        /\ Before(i, j) \in DOMAIN fetching /\ Before(i, j) # i
        /\ fetching'[j] = fetching[Before(i, j)]
        /\ KeyOf(fetching[j])' = KeyOf(fetching[Before(i, j)])
        /\ fetching'[j].request \in Ids
  BY <1>1, Elements DEF KeyOf
<1>6. \A j \in Due' : /\ j \in DOMAIN fetching' /\ Before(i, j) \in Due
                      /\ fetching'[j].request = f.request
                      /\ KeyOf(fetching[j])' = KeyOf(f)
  <2> SUFFICES ASSUME NEW j \in Due'
               PROVE  /\ j \in DOMAIN fetching' /\ Before(i, j) \in Due
                      /\ fetching'[j].request = f.request
                      /\ KeyOf(fetching[j])' = KeyOf(f)
    OBVIOUS
  <2>1. j \in DOMAIN fetching' /\ Before(i, j) \in Due
    BY <1>1, <1>4, <1>5 DEF Due, InFlight
  <2>2. fetching[Before(i, j)].request = f.request
    BY <1>1, <1>2, <2>1 DEF OneAtATime, OneDue
  <2> QED BY <1>5, <2>1, <2>2 DEF KeyOf
<1>7. \A l \in Keys : \/ queryCache'[l] = queryCache[l]
                      \/ l = KeyOf(f) /\ queryCache'[l] = 0 /\ (f.made \/ Failed(f.request))
  BY <1>1, <1>2, <1>3 DEF CacheAfter, TypeOK, Failed
<1>8. f.made => queryCache'[KeyOf(f)] = 0
  BY <1>1, <1>2, <1>3 DEF CacheAfter, TypeOK
<1>9. \A d \in Components, l \in Keys :
        \/ shown'[d][l] = shown[d][l]
        \/ l = KeyOf(f) /\ Answered(f.request) /\ shown'[d][l] = s
  BY <1>1, <1>2, <1>3 DEF TypeOK
<1>10. EntryIsLive'
  <2> SUFFICES ASSUME NEW l \in Keys, queryCache'[l] # 0
               PROVE  /\ requests'[queryCache'[l]].key = l
                      /\ \E j \in DOMAIN fetching' : fetching'[j].made
                                                    /\ fetching'[j].request = queryCache'[l]
    BY DEF EntryIsLive
  <2>1. queryCache'[l] = queryCache[l] /\ requests[queryCache[l]].key = l
    BY <1>7 DEF OneAtATime, EntryIsLive
  <2>2. PICK a \in DOMAIN fetching : fetching[a].made /\ fetching[a].request = queryCache[l]
    BY <2>1 DEF OneAtATime, EntryIsLive
  <2>3. a # i
    BY <1>2, <1>8, <2>1, <2>2 DEF KeyOf
  <2>4. PICK j \in DOMAIN fetching' : Before(i, j) = a
    BY <1>1, <2>3
  <2> QED BY <1>1, <1>5, <2>1, <2>2, <2>4
<1>11. MakerFirst'
  BY <1>1, <1>5 DEF OneAtATime, MakerFirst
<1>12. OneDue'
  BY <1>6 DEF OneDue
<1>13. SeenBounded'
  <2>1. s <= writes
    BY <1>2, <1>3 DEF OneAtATime, SeenBounded
  <2> QED BY <1>1, <1>4, <1>9, <2>1 DEF OneAtATime, SeenBounded
<1>14. ASSUME NEW l \in Keys \ disturbed' PROVE OneRequest(l)'
  <2>1. OneRequest(l) /\ l \in Keys
    BY <1>1, <1>14 DEF OneAtATime
  <2>2. ASSUME NEW r \in Ids', requests'[r].key = l, InFlight(r)' PROVE queryCache'[l] = r
    <3>1. r \in Ids /\ requests[r].key = l /\ InFlight(r) /\ queryCache[l] = r
      BY <1>1, <1>4, <2>1, <2>2 DEF OneRequest
    <3>2. ~(l = KeyOf(f) /\ f.made)
      BY <1>1, <1>2, <1>3, <2>1, <3>1 DEF OneRequest
    <3>3. ~(l = KeyOf(f) /\ Failed(f.request))
      BY <1>1, <1>2, <1>3, <2>1, <3>1 DEF OneRequest
    <3> QED BY <1>7, <2>1, <3>1, <3>2, <3>3
  <2>3. ASSUME NEW j \in DOMAIN fetching', KeyOf(fetching[j])' = l, fetching'[j].made
        PROVE  queryCache'[l] = fetching'[j].request
    <3>1. PICK a \in DOMAIN fetching : a = Before(i, j) /\ a # i
                                       /\ fetching'[j] = fetching[a] /\ KeyOf(fetching[a]) = l
      BY <1>5, <2>3
    <3>2. queryCache[l] = fetching[a].request
      BY <2>1, <2>3, <3>1 DEF OneRequest
    <3>3. ~(fetching[a].request = f.request)
      <4> SUFFICES ASSUME fetching[a].request = f.request PROVE FALSE
        OBVIOUS
      <4>1. a \in Due
        BY <1>3 DEF Due
      <4>2. i <= a /\ a <= i
        BY <1>1, <1>2, <2>3, <3>1, <4>1 DEF OneAtATime, MakerFirst
      <4>3. a \in Nat /\ i \in Nat
        BY <1>1, Elements
      <4> QED BY <3>1, <4>2, <4>3
    <3>4. ~(l = KeyOf(f) /\ f.made)
      BY <1>1, <1>2, <2>1, <3>2, <3>3 DEF OneRequest
    <3>5. ~(l = KeyOf(f) /\ Failed(f.request))
      <4> SUFFICES ASSUME l = KeyOf(f), Failed(f.request) PROVE FALSE
        OBVIOUS
      <4>1. fetching[a].request \in Ids /\ requests[fetching[a].request].key = l
        BY <3>1, Elements DEF KeyOf
      <4>2. ~InFlight(fetching[a].request)
        BY <1>1, <1>2, <2>1, <4>1 DEF OneRequest
      <4>3. a \in Due
        BY <4>2 DEF Due
      <4> QED BY <1>1, <1>2, <3>3, <4>3 DEF OneAtATime, OneDue
    <3> QED BY <1>7, <2>1, <3>1, <3>2, <3>4, <3>5
  <2>4. ASSUME NEW j \in Due', NEW r \in Ids', KeyOf(fetching[j])' = l,
               Failed(fetching[j].request)', requests'[r].key = l
        PROVE  ~InFlight(r)'
    <3>1. KeyOf(f) = l /\ Failed(f.request)
      BY <1>3, <1>4, <1>6, <2>4 DEF Failed
    <3> QED BY <1>1, <1>2, <1>4, <2>1, <2>4, <3>1 DEF OneRequest
  <2> QED BY <2>2, <2>3, <2>4 DEF OneRequest
<1>15. ASSUME NEW l \in Keys \ disturbed' PROVE NewerThanShown(l)'
  <2>1. NewerThanShown(l) /\ l \in Keys
    BY <1>1, <1>15 DEF OneAtATime
  <2>2. \A d \in Components, r \in Ids' :
          requests'[r].key = l /\ InFlight(r)' => shown'[d][l] <= requests'[r].seen
    <3> SUFFICES ASSUME NEW d \in Components, NEW r \in Ids', requests'[r].key = l, InFlight(r)'
                 PROVE  shown'[d][l] <= requests'[r].seen
      OBVIOUS
    <3>1. r \in Ids /\ requests[r].key = l /\ InFlight(r) /\ requests'[r] = requests[r]
      BY <1>4
    <3>2. CASE shown'[d][l] = shown[d][l]
      BY <2>1, <3>1, <3>2 DEF NewerThanShown
    <3>3. CASE l = KeyOf(f) /\ Answered(f.request) /\ shown'[d][l] = s
      BY <1>1, <1>2, <2>1, <3>1, <3>3 DEF NewerThanShown
    <3> QED BY <1>9, <2>1, <3>2, <3>3
  <2>3. \A d \in Components, j \in Due' :
          KeyOf(fetching[j])' = l /\ Answered(fetching[j].request)'
            => shown'[d][l] <= requests'[fetching'[j].request].seen
    <3> SUFFICES ASSUME NEW d \in Components, NEW j \in Due',
                        KeyOf(fetching[j])' = l, Answered(fetching[j].request)'
                 PROVE  shown'[d][l] <= requests'[fetching'[j].request].seen
      OBVIOUS
    <3>1. KeyOf(f) = l /\ Answered(f.request) /\ requests'[fetching'[j].request].seen = s
      BY <1>2, <1>3, <1>4, <1>6 DEF Answered
    <3>2. shown[d][l] <= s
      BY <1>1, <1>2, <2>1, <3>1 DEF NewerThanShown
    <3> QED BY <1>3, <1>9, <2>1, <3>1, <3>2
  <2>4. \A j \in Due', r \in Ids' :
           (KeyOf(fetching[j])' = l /\ Answered(fetching[j].request)'
            /\ requests'[r].key = l /\ InFlight(r)')
             => requests'[fetching'[j].request].seen <= requests'[r].seen
    <3> SUFFICES ASSUME NEW j \in Due', NEW r \in Ids', KeyOf(fetching[j])' = l,
                        Answered(fetching[j].request)', requests'[r].key = l, InFlight(r)'
                 PROVE  requests'[fetching'[j].request].seen <= requests'[r].seen
      OBVIOUS
    <3>1. KeyOf(f) = l /\ Answered(f.request) /\ requests'[fetching'[j].request].seen = s
      BY <1>2, <1>3, <1>4, <1>6 DEF Answered
    <3> QED BY <1>1, <1>2, <1>4, <2>1, <3>1 DEF NewerThanShown
  <2> QED BY <2>2, <2>3, <2>4 DEF NewerThanShown
<1> QED BY <1>10, <1>11, <1>12, <1>13, <1>14, <1>15 DEF OneAtATime

\* A request settles when no fetch is due, and makes those of its own due.
LEMMA SettlesStep ==
  ASSUME TypeOK, OneAtATime, NEW r \in Ids, Settles(r)
  PROVE  OneAtATime'
<1>1. /\ Due = {} /\ InFlight(r)
      /\ UNCHANGED <<queryCache, fetching, shown, writes, disturbed>>
  BY DEF Settles, Quiet, hookVars
<1>2. /\ Ids' = Ids /\ \A q \in Ids : q # r => requests'[q] = requests[q]
      /\ requests'[r].key = requests[r].key /\ ~InFlight(r)'
      /\ requests[r].seen <= requests'[r].seen
      /\ requests[r].seen <= writes => requests'[r].seen <= writes
      /\ requests'[r].seen \in Nat
  <2>1. requests' \in Seq(RequestRecords) /\ Len(requests') = Len(requests)
    BY SettledFacts
  <2>2. requests'[r].seen \in Nat
    <3>1. requests'[r] \in RequestRecords
      <4>1. r \in 1..Len(requests')
        BY <2>1 DEF Ids
      <4> QED BY <2>1, <4>1, ElementType
    <3> QED BY <3>1, QueryHooksAssumption DEF RequestRecords
  <2> QED BY <2>2, SettledFacts DEF InFlight
<1>3. /\ \A q \in Ids : requests'[q].key = requests[q].key
      /\ \A q \in Ids : InFlight(q)' => q # r /\ InFlight(q) /\ requests'[q] = requests[q]
  BY <1>2 DEF InFlight
<1>4. \A i \in DOMAIN fetching : /\ fetching[i].request \in Ids
                                 /\ KeyOf(fetching[i])' = KeyOf(fetching[i])
  BY <1>1, <1>3, Elements DEF KeyOf
<1>5. \A i \in Due' : i \in DOMAIN fetching /\ fetching[i].request = r
                      /\ fetching'[i].request = r /\ KeyOf(fetching[i])' = requests[r].key
  BY <1>1, <1>2, <1>4 DEF Due, InFlight, KeyOf
<1>6. EntryIsLive'
  <2>1. \A l \in Keys : queryCache[l] # 0 => queryCache[l] \in Ids
    BY <1>4 DEF OneAtATime, EntryIsLive
  <2> QED BY <1>1, <1>3, <2>1 DEF OneAtATime, EntryIsLive
<1>7. MakerFirst'
  BY <1>1 DEF OneAtATime, MakerFirst
<1>8. OneDue'
  BY <1>5 DEF OneDue
<1>9. SeenBounded'
  BY <1>1, <1>2 DEF OneAtATime, SeenBounded
<1>10. ASSUME NEW l \in Keys \ disturbed' PROVE OneRequest(l)' /\ NewerThanShown(l)'
  <2>1. OneRequest(l) /\ NewerThanShown(l)
    BY <1>1 DEF OneAtATime
  <2>2. requests[r].key = l => \A q \in Ids : requests[q].key = l => ~InFlight(q)'
    BY <1>1, <1>3, <2>1 DEF OneRequest
  <2>3. OneRequest(l)'
    <3>1. \A q \in Ids' : requests'[q].key = l /\ InFlight(q)' => queryCache'[l] = q
      BY <1>1, <1>2, <1>3, <2>1 DEF OneRequest
    <3>2. \A i \in DOMAIN fetching' :
            KeyOf(fetching[i])' = l /\ fetching'[i].made => queryCache'[l] = fetching'[i].request
      BY <1>1, <1>4, <2>1 DEF OneRequest
    <3>3. \A i \in Due', q \in Ids' :
            KeyOf(fetching[i])' = l /\ Failed(fetching[i].request)' /\ requests'[q].key = l
              => ~InFlight(q)'
      BY <1>2, <1>3, <1>5, <2>2
    <3> QED BY <3>1, <3>2, <3>3 DEF OneRequest
  <2>4. NewerThanShown(l)'
    <3>1. \A d \in Components, q \in Ids' :
            requests'[q].key = l /\ InFlight(q)' => shown'[d][l] <= requests'[q].seen
      BY <1>1, <1>2, <1>3, <2>1 DEF NewerThanShown
    <3>2. ASSUME NEW d \in Components, NEW i \in Due', KeyOf(fetching[i])' = l
          PROVE  shown'[d][l] <= requests'[fetching'[i].request].seen
      <4>1. fetching'[i].request = r /\ requests[r].key = l
        BY <1>5, <3>2
      <4>2. shown[d][l] <= requests[r].seen
        BY <1>1, <2>1, <4>1 DEF NewerThanShown
      <4>3. shown[d][l] \in Nat /\ requests[r].seen \in Nat
        BY Elements, QueryHooksAssumption DEF TypeOK
      <4> QED BY <1>1, <1>2, <4>1, <4>2, <4>3
    <3>3. \A i \in Due', q \in Ids' :
            KeyOf(fetching[i])' = l /\ requests'[q].key = l => ~InFlight(q)'
      BY <1>2, <1>3, <1>5, <2>2
    <3> QED BY <3>1, <3>2, <3>3 DEF NewerThanShown
  <2> QED BY <2>3, <2>4
<1> QED BY <1>6, <1>7, <1>8, <1>9, <1>10 DEF OneAtATime

\* Steps that leave requests and fetches alone, and the cache of the keys that
\* the application has not cleared.
LEMMA QuietStep ==
  ASSUME TypeOK, OneAtATime, UNCHANGED <<requests, fetching, shown>>,
         writes <= writes', writes' \in Nat, disturbed \subseteq disturbed',
         \A l \in Keys : queryCache'[l] = queryCache[l]
                         \/ (l \in disturbed' /\ queryCache'[l] = 0)
  PROVE  OneAtATime'
<1>1. Ids' = Ids /\ Due' = Due /\ \A i : KeyOf(fetching[i])' = KeyOf(fetching[i])
  BY DEF Ids, Due, InFlight, KeyOf
<1>2. EntryIsLive' /\ MakerFirst' /\ OneDue'
  BY <1>1 DEF OneAtATime, EntryIsLive, MakerFirst, OneDue
<1>3. SeenBounded'
  <2>1. /\ \A r \in Ids : requests[r].seen \in Nat
        /\ \A c \in Components, k \in Keys : shown[c][k] \in Nat
        /\ writes \in Nat
    BY Elements, QueryHooksAssumption DEF TypeOK
  <2> QED BY <1>1, <2>1 DEF OneAtATime, SeenBounded
<1>4. ASSUME NEW l \in Keys \ disturbed' PROVE OneRequest(l)' /\ NewerThanShown(l)'
  <2>1. OneRequest(l) /\ NewerThanShown(l) /\ queryCache'[l] = queryCache[l]
    BY DEF OneAtATime
  <2>2. OneRequest(l)'
    BY <1>1, <2>1 DEF OneRequest, InFlight, Failed, KeyOf
  <2>3. NewerThanShown(l)'
    BY <1>1, <2>1 DEF NewerThanShown, InFlight, Answered, KeyOf
  <2> QED BY <2>2, <2>3
<1> QED BY <1>2, <1>3, <1>4 DEF OneAtATime

\* OneAtATime is inductive on typed states.
LEMMA OneAtATimeStep ==
  ASSUME TypeOK, OneAtATime, [Next]_vars
  PROVE  OneAtATime'
<1>1. ASSUME NEW c \in Components, NEW k \in Keys, FetchData(c, k) PROVE OneAtATime'
  BY <1>1, JoinStep, MakeStep
<1>2. ASSUME NEW c \in Components, Effect(c) PROVE OneAtATime'
  <2>1. PICK k \in Keys : key' = [key EXCEPT ![c] = k]
    BY <1>2 DEF Effect, TypeOK
  <2>2. FetchData(c, k)
    BY <1>2, <2>1 DEF Effect, FetchData, Request, Disturbs, TypeOK
  <2> QED BY <1>1, <2>2
<1>3. ASSUME NEW c \in Components, Refetch(c) PROVE OneAtATime'
  <2>1. PICK k \in Keys : k = key[c]
    BY DEF TypeOK
  <2>2. FetchData(c, k)
    BY <1>3, <2>1 DEF Refetch, FetchData, Request, Disturbs
  <2> QED BY <1>1, <2>2
<1>4. writes \in Nat
  BY Elements
<1>5. ASSUME NEW c \in Components, Unmount(c) PROVE OneAtATime'
  <2>1. /\ UNCHANGED <<requests, fetching, shown>>
        /\ writes <= writes' /\ writes' \in Nat /\ disturbed \subseteq disturbed'
        /\ \A l \in Keys : queryCache'[l] = queryCache[l]
                           \/ (l \in disturbed' /\ queryCache'[l] = 0)
    BY <1>4, <1>5 DEF Unmount
  <2> QED BY <2>1, QuietStep
<1>6. ASSUME NEW k \in Keys, Clear(k) PROVE OneAtATime'
  <2>1. /\ UNCHANGED <<requests, fetching, shown>>
        /\ writes <= writes' /\ writes' \in Nat /\ disturbed \subseteq disturbed'
        /\ \A l \in Keys : queryCache'[l] = queryCache[l]
                           \/ (l \in disturbed' /\ queryCache'[l] = 0)
    BY <1>4, <1>6 DEF Clear, hookVars, TypeOK
  <2> QED BY <2>1, QuietStep
<1>7. CASE Write
  <2>1. /\ UNCHANGED <<requests, fetching, shown>>
        /\ writes <= writes' /\ writes' \in Nat /\ disturbed \subseteq disturbed'
        /\ \A l \in Keys : queryCache'[l] = queryCache[l]
                           \/ (l \in disturbed' /\ queryCache'[l] = 0)
    BY <1>4, <1>7 DEF Write, hookVars
  <2> QED BY <2>1, QuietStep
<1>8. CASE UNCHANGED vars
  <2>1. /\ UNCHANGED <<requests, fetching, shown>>
        /\ writes <= writes' /\ writes' \in Nat /\ disturbed \subseteq disturbed'
        /\ \A l \in Keys : queryCache'[l] = queryCache[l]
                           \/ (l \in disturbed' /\ queryCache'[l] = 0)
    BY <1>4, <1>8 DEF vars, hookVars
  <2> QED BY <2>1, QuietStep
<1> QED BY <1>2, <1>3, <1>5, <1>6, <1>7, <1>8, GoesOnStep, SettlesStep DEF Next

\* The sharing starts with empty caches, and every step keeps it.
LEMMA AlwaysOneAtATime == Spec => []OneAtATime
<1>1. Init => OneAtATime
  <2> SUFFICES ASSUME Init PROVE OneAtATime
    OBVIOUS
  <2>1. Ids = {} /\ DOMAIN fetching = {} /\ Due = {}
    BY DEF Init, Ids, Due
  <2>2. /\ writes = 0 /\ \A k \in Keys : queryCache[k] = 0
        /\ \A c \in Components, k \in Keys : shown[c][k] = 0
    BY DEF Init
  <2>3. EntryIsLive /\ MakerFirst /\ OneDue
    BY <2>1, <2>2 DEF EntryIsLive, MakerFirst, OneDue
  <2>4. SeenBounded
    BY <2>1, <2>2 DEF SeenBounded
  <2>5. \A k \in Keys : OneRequest(k) /\ NewerThanShown(k)
    BY <2>1 DEF OneRequest, NewerThanShown
  <2> QED BY <2>3, <2>4, <2>5 DEF OneAtATime
<1>2. TypeOK /\ OneAtATime /\ [Next]_vars => OneAtATime'
  BY OneAtATimeStep
<1> QED BY <1>1, <1>2, TypeCorrect, PTL DEF Spec

\* The cache holds no request of which the maker's fetch is over, for any number of
\* components, keys and requests, and whatever the application clears.
THEOREM EntriesAreLive == Spec => []EntryIsLive
<1>1. OneAtATime => EntryIsLive
  BY DEF OneAtATime
<1> QED BY <1>1, AlwaysOneAtATime, PTL

\* At most one request of a key is in flight, as long as the application does not
\* undo the sharing.
THEOREM FlightsAreSingle == Spec => []SingleFlight
<1>1. TypeOK /\ OneAtATime => SingleFlight
  <2> SUFFICES ASSUME TypeOK, OneAtATime, NEW r \in Ids, NEW q \in Ids,
                      requests[r].key = requests[q].key, InFlight(r), InFlight(q),
                      requests[r].key \notin disturbed
               PROVE  r = q
    BY DEF SingleFlight
  <2>1. requests[r].key \in Keys
    BY Elements
  <2>2. OneRequest(requests[r].key)
    BY <2>1 DEF OneAtATime
  <2> QED BY <2>2 DEF OneRequest
<1> QED BY <1>1, AlwaysOneAtATime, TypeCorrect, PTL

\* A component never goes back to older data of a key, for any number of
\* components, keys, requests and writes, unless the application clears the key
\* during a request or fetches it from the callback of one that failed.
THEOREM NewerOnly == Spec => NeverGoesBack
<1>1. TypeOK /\ OneAtATime /\ [Next]_vars =>
        [\A c \in Components, k \in Keys : shown'[c][k] >= shown[c][k] \/ k \in disturbed']_vars
  <2> SUFFICES ASSUME TypeOK, OneAtATime, [Next]_vars, NEW c \in Components, NEW k \in Keys,
                      k \notin disturbed'
               PROVE  shown'[c][k] >= shown[c][k]
    OBVIOUS
  <2>1. shown[c][k] \in Nat
    BY QueryHooksAssumption DEF TypeOK
  <2>2. CASE GoesOn
    <3>1. PICK i \in Due :
            /\ i \in DOMAIN fetching
            /\ shown' = IF life[fetching[i].by] = "mounted" /\ Answered(fetching[i].request)
                THEN [shown EXCEPT ![fetching[i].by][KeyOf(fetching[i])] =
                        requests[fetching[i].request].seen] ELSE shown
            /\ UNCHANGED disturbed
      BY <2>2, WentOn
    <3>2. NewerThanShown(k)
      BY <3>1 DEF OneAtATime
    <3>3. /\ fetching[i].by \in Components /\ KeyOf(fetching[i]) \in Keys
          /\ requests[fetching[i].request].seen \in Nat
      BY <3>1, Elements DEF KeyOf
    <3>4. \/ shown'[c][k] = shown[c][k]
          \/ /\ k = KeyOf(fetching[i]) /\ Answered(fetching[i].request)
             /\ shown'[c][k] = requests[fetching[i].request].seen
      BY <3>1, <3>3 DEF TypeOK
    <3> QED BY <2>1, <3>2, <3>3, <3>4 DEF NewerThanShown
  <2>3. CASE ~GoesOn
    <3>1. UNCHANGED shown
      BY <2>3 DEF Next, vars, hookVars, Effect, Refetch, FetchData, Unmount, Clear, Write, Settles
    <3> QED BY <2>1, <3>1
  <2> QED BY <2>2, <2>3
<1> QED BY <1>1, AlwaysOneAtATime, TypeCorrect, PTL DEF Spec, NeverGoesBack
=============================================================================
