------------------------------- MODULE QueryHooks -------------------------------
(***************************************************************************)
(* useRPC() of src/src/adapters/nextjs.ts: components that fetch and       *)
(* refetch, and queryCache, through which those on one key share the       *)
(* promise of a request. What the cache keeps of a request that is over is *)
(* read by nothing, so that an entry without a promise is as good as none. *)
(*                                                                         *)
(* The server (external) counts writes; a request returns how many it has  *)
(* seen. A request settles in a task of its own, in which the fetches that *)
(* wait for it go on one after the other, each with its callback.          *)
(***************************************************************************)
EXTENDS Naturals, Sequences, FiniteSets

CONSTANTS
  Components,   \* uses of the hook
  Keys,         \* cache keys, each with its arguments
  MaxRequests,  \* bound on the requests
  MaxWrites,    \* bound on the writes of the server
  MaxFetches    \* bound on the calls of fetchData() under way

ASSUME QueryHooksAssumption ==
  MaxRequests \in Nat /\ MaxWrites \in Nat /\ MaxFetches \in Nat

VARIABLES
  queryCache,    \* [Keys]: the request whose promise the entry holds, 0 for none
  requests,      \* the requests made: key, stage, and the writes seen at least
  fetching,      \* fetchData() calls that await a request, oldest first
  life,          \* [Components]: isMountedRef, "none" before and "gone" after the effect
  key,           \* [Components]: cacheKey of the last render
  loading,       \* [Components]
  isRefetching,  \* [Components]
  shown,         \* [Components]: what setData() was last called with, by key (history)
  writes,        \* writes of the server
  disturbed      \* keys on which the application has undone the sharing (history)

hookVars == <<life, key, loading, isRefetching, shown>>
vars == <<queryCache, requests, fetching, hookVars, writes, disturbed>>

Ids == 1..Len(requests)
InFlight(r) == requests[r].stage = "inFlight"
KeyOf(f) == requests[f.request].key

Init ==
  /\ queryCache = [k \in Keys |-> 0]
  /\ requests = <<>>
  /\ fetching = <<>>
  /\ life = [c \in Components |-> "none"]
  /\ key \in [Components -> Keys]
  /\ loading = [c \in Components |-> TRUE]
  /\ isRefetching = [c \in Components |-> FALSE]
  /\ shown = [c \in Components |-> [k \in Keys |-> 0]]
  /\ writes = 0
  /\ disturbed = {}

\* The fetches whose request has settled; the first of them is the next to go on.
Due == {i \in DOMAIN fetching : ~InFlight(fetching[i].request)}
Quiet == Due = {}

-----------------------------------------------------------------------------
(* fetchData() *)

\* The promise of the cache is shared, or a request is made and put there.
Request_Always(c, k) ==
  /\ Len(requests) < MaxRequests
  /\ requests' = Append(requests, [key |-> k, stage |-> "inFlight", seen |-> writes])
  /\ queryCache' = [queryCache EXCEPT ![k] = Len(requests')]
  /\ fetching' = Append(fetching, [by |-> c, request |-> Len(requests'), made |-> TRUE])

Request(c, k) ==
  IF queryCache[k] # 0
  THEN /\ fetching' = Append(fetching, [by |-> c, request |-> queryCache[k], made |-> FALSE])
       /\ UNCHANGED <<queryCache, requests>>
  ELSE /\ Len(requests) < MaxRequests
       /\ requests' = Append(requests, [key |-> k, stage |-> "inFlight", seen |-> writes])
       /\ queryCache' = [queryCache EXCEPT ![k] = Len(requests')]
       /\ fetching' = Append(fetching, [by |-> c, request |-> Len(requests'), made |-> TRUE])

\* A callback of a fetch that failed comes before the other fetches of that request
\* have run their catch clause, which deletes what it finds in the cache.
Disturbs(k) == \E i \in Due : KeyOf(fetching[i]) = k /\ requests[fetching[i].request].stage = "failed"

FetchData(c, k) ==
  /\ Len(fetching) < MaxFetches
  /\ Request(c, k)
  /\ disturbed' = IF Disturbs(k) THEN disturbed \cup {k} ELSE disturbed
  /\ UNCHANGED <<shown, writes>>

\* The effect of the first render, and of one that has changed the key or a callback.
Effect(c) ==
  /\ Quiet /\ life[c] # "gone"
  /\ life' = [life EXCEPT ![c] = "mounted"]
  /\ key' \in {[key EXCEPT ![c] = k] : k \in IF life[c] = "none" THEN {key[c]} ELSE Keys}
  /\ loading' = [loading EXCEPT ![c] = TRUE]
  /\ FetchData(c, key'[c])
  /\ UNCHANGED isRefetching

\* refetch(), polling, focus and reconnection, also from the callback of a fetch.
Refetch(c) ==
  /\ life[c] = "mounted"
  /\ isRefetching' = [isRefetching EXCEPT ![c] = TRUE]
  /\ FetchData(c, key[c])
  /\ UNCHANGED <<life, key, loading>>

\* The next fetch goes on: the try block with its result or the catch clause, and
\* the finally clause. After unmounting only the cache is touched.
CacheAfter_IfMounted(f) ==
  IF life[f.by] = "mounted" /\ (f.made \/ requests[f.request].stage = "failed")
  THEN [queryCache EXCEPT ![KeyOf(f)] = 0] ELSE queryCache

CacheAfter(f) ==
  IF f.made \/ requests[f.request].stage = "failed"
  THEN [queryCache EXCEPT ![KeyOf(f)] = 0] ELSE queryCache

Finally_OnlyIfMade(f) ==
  IF life[f.by] = "mounted" /\ f.made
  THEN /\ loading' = [loading EXCEPT ![f.by] = FALSE]
       /\ isRefetching' = [isRefetching EXCEPT ![f.by] = FALSE]
  ELSE UNCHANGED <<loading, isRefetching>>

Finally(f) ==
  IF life[f.by] = "mounted"
  THEN /\ loading' = [loading EXCEPT ![f.by] = FALSE]
       /\ isRefetching' = [isRefetching EXCEPT ![f.by] = FALSE]
  ELSE UNCHANGED <<loading, isRefetching>>

GoesOn ==
  \E i \in Due :
    LET f == fetching[i] IN
    /\ \A j \in Due : i <= j
    /\ fetching' = [j \in 1..(Len(fetching) - 1) |-> fetching[IF j < i THEN j ELSE j + 1]]
    /\ queryCache' = CacheAfter(f)
    /\ shown' = IF life[f.by] = "mounted" /\ requests[f.request].stage = "answered"
                THEN [shown EXCEPT ![f.by][KeyOf(f)] = requests[f.request].seen] ELSE shown
    /\ Finally(f)
    /\ UNCHANGED <<requests, life, key, writes, disturbed>>

\* The cleanup of the effect when the component goes.
Unmount(c) ==
  /\ Quiet /\ life[c] = "mounted"
  /\ life' = [life EXCEPT ![c] = "gone"]
  /\ UNCHANGED <<queryCache, requests, fetching, key, loading, isRefetching, shown, writes, disturbed>>

\* clearRPCCache() and invalidateRPCQueries(), anywhere in the application.
Clear(k) ==
  /\ queryCache[k] # 0
  /\ queryCache' = [queryCache EXCEPT ![k] = 0]
  /\ disturbed' = disturbed \cup {k}
  /\ UNCHANGED <<requests, fetching, hookVars, writes>>

-----------------------------------------------------------------------------
(* The server and the network (external). *)

Write ==
  /\ Quiet /\ writes < MaxWrites /\ writes' = writes + 1
  /\ UNCHANGED <<queryCache, requests, fetching, hookVars, disturbed>>

Settles(r) ==
  /\ Quiet /\ InFlight(r)
  /\ \/ requests' = [requests EXCEPT ![r].stage = "failed"]
     \/ \E w \in requests[r].seen..writes :
          requests' = [requests EXCEPT ![r].stage = "answered", ![r].seen = w]
  /\ UNCHANGED <<queryCache, fetching, hookVars, writes, disturbed>>

Next ==
  \/ \E c \in Components : Effect(c) \/ Refetch(c) \/ Unmount(c)
  \/ GoesOn
  \/ \E k \in Keys : Clear(k)
  \/ Write
  \/ \E r \in Ids : Settles(r)

Spec == Init /\ [][Next]_vars

-----------------------------------------------------------------------------
(* Properties *)

\* Every variable holds a value the code can give it.
TypeOK ==
  /\ requests \in Seq([key : Keys, stage : {"inFlight", "answered", "failed"}, seen : 0..MaxWrites])
  /\ queryCache \in [Keys -> 0..Len(requests)]
  /\ fetching \in Seq([by : Components, request : Ids, made : BOOLEAN])
  /\ life \in [Components -> {"none", "mounted", "gone"}]
  /\ key \in [Components -> Keys]
  /\ loading \in [Components -> BOOLEAN]
  /\ isRefetching \in [Components -> BOOLEAN]
  /\ shown \in [Components -> [Keys -> 0..MaxWrites]]
  /\ writes \in 0..MaxWrites
  /\ disturbed \subseteq Keys

\* A mounted component that says it is loading or refetching has a fetchData() under
\* way that will end this, whichever of its overlapping fetches made the request,
\* joined it, failed or was for an earlier key.
LoadingAccounted ==
  \A c \in Components : life[c] = "mounted" /\ (loading[c] \/ isRefetching[c]) =>
    \E i \in DOMAIN fetching : fetching[i].by = c

\* What the cache holds a fetch may still join: the fetch that made the request is
\* under way and will take it out, also when the key was cleared, the request has
\* failed or the component that made it has gone.
EntryIsLive ==
  \A k \in Keys : queryCache[k] # 0 =>
    /\ requests[queryCache[k]].key = k
    /\ \E i \in DOMAIN fetching : fetching[i].made /\ fetching[i].request = queryCache[k]

\* Components on one key share its request: there are never two in flight, under the
\* conditions of NeverGoesBack.
SingleFlight ==
  \A r, q \in Ids :
    requests[r].key = requests[q].key /\ InFlight(r) /\ InFlight(q) =>
      r = q \/ requests[r].key \in disturbed

\* A component never goes back to older data of a key, although the server and the
\* network answer requests in any order, because the cache keeps it to one request
\* at a time; unless the application clears the key during a request, or fetches
\* from the callback of one that failed.
NeverGoesBack ==
  [][\A c \in Components, k \in Keys : shown'[c][k] >= shown[c][k] \/ k \in disturbed']_vars
=============================================================================
