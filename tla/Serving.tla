------------------------------- MODULE Serving -------------------------------
(***************************************************************************)
(* The processes that serve the API, as deployment/k8s runs them: how a    *)
(* request gets its stores from the providers of api/dependencies.py, and  *)
(* what the readiness probe has to do with it.                             *)
(*                                                                         *)
(* A provider is cached by functools.lru_cache, which holds no lock while  *)
(* it calls the provider: callers that come before the first has returned  *)
(* construct an object each, the first to return is cached, the others     *)
(* keep their own.  The service routes requests to a pod from its first    *)
(* answered probe on.  Stores live in their process, as the ConfigMap      *)
(* chooses FAISS; what they hold is the set of the writes they were given. *)
(***************************************************************************)
EXTENDS Integers, Sequences, FiniteSets

CONSTANTS
    Pods,
    Slots,        \* threads of a pod that serve at the same time
    MaxRequests,  \* bound: probes, writes and searches in a behaviour
    MaxRestarts   \* bound: restarts of a container

ASSUME ServingAssumption ==
    MaxRequests \in Nat /\ MaxRestarts \in Nat /\ IsFiniteSet(Slots)

Threads == Pods \X Slots
Pod(t) == t[1]
Providers == {"vector", "embedding", "keyword"}
Stores == {"vector", "keyword"}
Objects == 1..Cardinality(Slots)  \* of one provider in one process; 0 is none

VARIABLES
    ready,   \* per pod: it gets requests from the service
    cache,   \* per pod and provider: what lru_cache holds
    made,    \* per pod and provider: objects that provider has returned
    holds,   \* per pod, store and object: the writes it was given
    requests, restarts,     \* so far
    pc, kind, req,          \* per thread: next step, kind and number of the request
    todo, got,              \* per thread: providers to call; what they returned
    acked,   \* history: <<pod, write>> of the writes answered
    floor    \* history: acked, when the thread's request came

process == <<ready, cache, made, holds>>
local == <<pc, kind, req, todo, got>>
vars == <<process, requests, restarts, local, acked, floor>>

Nothing == [p \in Providers |-> 0]
Empty == [p \in Stores |-> [o \in Objects |-> {}]]

Init ==
    /\ ready = [d \in Pods |-> FALSE]
    /\ cache = [d \in Pods |-> Nothing] /\ made = [d \in Pods |-> Nothing]
    /\ holds = [d \in Pods |-> Empty]
    /\ requests = 0 /\ restarts = 0
    /\ pc = [t \in Threads |-> "idle"] /\ kind = [t \in Threads |-> "none"]
    /\ req = [t \in Threads |-> 0] /\ todo = [t \in Threads |-> <<>>]
    /\ got = [t \in Threads |-> Nothing]
    /\ acked = {} /\ floor = [t \in Threads |-> {}]

-----------------------------------------------------------------------------
\* Mutant: the readiness route asks for the vector store alone.
NeedsLess(what) ==
    CASE what = "probe" -> <<"vector">>
      [] what = "write" -> <<"vector", "embedding", "keyword">>
      [] what = "search" -> <<"vector", "keyword", "embedding">>

\* The parameters of the route function and of the service it depends on.
Needs(what) ==
    CASE what = "probe" -> <<"vector", "keyword">>
      [] what = "write" -> <<"vector", "embedding", "keyword">>
      [] what = "search" -> <<"vector", "keyword", "embedding">>

Receive(t, what) ==
    /\ pc[t] = "idle" /\ requests < MaxRequests
    /\ what = "probe" \/ ready[Pod(t)]
    /\ requests' = requests + 1
    /\ kind' = [kind EXCEPT ![t] = what]
    /\ req' = [req EXCEPT ![t] = requests']
    /\ todo' = [todo EXCEPT ![t] = Needs(what)]
    /\ pc' = [pc EXCEPT ![t] = "resolve"]
    /\ floor' = [floor EXCEPT ![t] = acked]
    /\ UNCHANGED <<process, restarts, got, acked>>

Take(t, object) ==
    /\ got' = [got EXCEPT ![t][Head(todo[t])] = object]
    /\ todo' = [todo EXCEPT ![t] = Tail(@)]
    /\ pc' = [pc EXCEPT ![t] = IF Tail(todo[t]) = <<>> THEN "serve" ELSE "resolve"]

\* lru_cache: a hit, or the provider is called.
Resolve(t) ==
    /\ pc[t] = "resolve"
    /\ LET cached == cache[Pod(t)][Head(todo[t])] IN
          IF cached # 0
          THEN Take(t, cached)
          ELSE pc' = [pc EXCEPT ![t] = "construct"] /\ UNCHANGED <<todo, got>>
    /\ UNCHANGED <<process, requests, restarts, kind, req, acked, floor>>

\* Mutant: what the provider returned is not cached.
ConstructUncached(t) ==
    /\ pc[t] = "construct"
    /\ LET d == Pod(t)
           p == Head(todo[t])
           object == made[d][p] + 1
       IN /\ made' = [made EXCEPT ![d][p] = object]
          /\ Take(t, object)
    /\ UNCHANGED <<ready, cache, holds, requests, restarts, kind, req, acked, floor>>

\* Mutant: the last to return is cached.
ConstructLast(t) ==
    /\ pc[t] = "construct"
    /\ LET d == Pod(t)
           p == Head(todo[t])
           object == made[d][p] + 1
       IN /\ made' = [made EXCEPT ![d][p] = object]
          /\ cache' = [cache EXCEPT ![d][p] = object]
          /\ Take(t, object)
    /\ UNCHANGED <<ready, holds, requests, restarts, kind, req, acked, floor>>

\* The provider has returned: its object is cached unless another came first, and
\* is this caller's in any case.
Construct(t) ==
    /\ pc[t] = "construct"
    /\ LET d == Pod(t)
           p == Head(todo[t])
           object == made[d][p] + 1
       IN /\ made' = [made EXCEPT ![d][p] = object]
          /\ cache' = [cache EXCEPT ![d][p] = IF @ = 0 THEN object ELSE @]
          /\ Take(t, object)
    /\ UNCHANGED <<ready, holds, requests, restarts, kind, req, acked, floor>>

Answered(t) ==
    /\ pc' = [pc EXCEPT ![t] = "idle"]
    /\ kind' = [kind EXCEPT ![t] = "none"]
    /\ req' = [req EXCEPT ![t] = 0]
    /\ todo' = [todo EXCEPT ![t] = <<>>]
    /\ got' = [got EXCEPT ![t] = Nothing]
    /\ floor' = [floor EXCEPT ![t] = {}]
    /\ UNCHANGED <<requests, restarts>>

\* load_model raises: nothing is cached, the request fails.
LoadFails(t) ==
    /\ pc[t] = "construct" /\ Head(todo[t]) = "embedding"
    /\ Answered(t)
    /\ UNCHANGED <<process, acked>>

\* The readiness route answers 200 whether or not the store could be counted.
AnswerProbe(t) ==
    /\ pc[t] = "serve" /\ kind[t] = "probe"
    /\ ready' = [ready EXCEPT ![Pod(t)] = TRUE]
    /\ Answered(t)
    /\ UNCHANGED <<cache, made, holds, acked>>

AnswerWrite(t) ==
    /\ pc[t] = "serve" /\ kind[t] = "write"
    /\ holds' = [holds EXCEPT ![Pod(t)] = [p \in Stores |-> [o \in Objects |->
          @[p][o] \cup IF o = got[t][p] THEN {req[t]} ELSE {}]]]
    /\ acked' = acked \cup {<<Pod(t), req[t]>>}
    /\ Answered(t)
    /\ UNCHANGED <<ready, cache, made>>

AnswerSearch(t) ==
    /\ pc[t] = "serve" /\ kind[t] = "search"
    /\ Answered(t)
    /\ UNCHANGED <<process, acked>>

\* The container is restarted; what its stores held is lost with it.
Restart(d) ==
    /\ restarts < MaxRestarts
    /\ restarts' = restarts + 1
    /\ ready' = [ready EXCEPT ![d] = FALSE]
    /\ cache' = [cache EXCEPT ![d] = Nothing] /\ made' = [made EXCEPT ![d] = Nothing]
    /\ holds' = [holds EXCEPT ![d] = Empty]
    /\ LET reset(f, value) == [t \in Threads |-> IF Pod(t) = d THEN value ELSE f[t]] IN
          /\ pc' = reset(pc, "idle") /\ kind' = reset(kind, "none") /\ req' = reset(req, 0)
          /\ todo' = reset(todo, <<>>) /\ got' = reset(got, Nothing)
          /\ floor' = [t \in Threads |->
                IF Pod(t) = d THEN {} ELSE {w \in floor[t] : w[1] # d}]
    /\ acked' = {w \in acked : w[1] # d}
    /\ UNCHANGED requests

Next ==
    \/ \E t \in Threads :
          \/ \E what \in {"probe", "write", "search"} : Receive(t, what)
          \/ Resolve(t) \/ Construct(t) \/ LoadFails(t)
          \/ AnswerProbe(t) \/ AnswerWrite(t) \/ AnswerSearch(t)
    \/ \E d \in Pods : Restart(d)

Spec == Init /\ [][Next]_vars

-----------------------------------------------------------------------------
\* Every variable has its type; no provider returns more objects in a process than
\* there are threads.
TypeOK ==
    /\ ready \in [Pods -> BOOLEAN]
    /\ cache \in [Pods -> [Providers -> Objects \cup {0}]]
    /\ made \in [Pods -> [Providers -> 0..Cardinality(Slots)]]
    /\ holds \in [Pods -> [Stores -> [Objects -> SUBSET (1..MaxRequests)]]]
    /\ requests \in 0..MaxRequests /\ restarts \in 0..MaxRestarts
    /\ pc \in [Threads -> {"idle", "resolve", "construct", "serve"}]
    /\ kind \in [Threads -> {"none", "probe", "write", "search"}]
    /\ req \in [Threads -> 0..MaxRequests]
    /\ \A t \in Threads : \A i \in DOMAIN todo[t] : todo[t][i] \in Providers
    /\ got \in [Threads -> [Providers -> Objects \cup {0}]]
    /\ acked \subseteq Pods \X (1..MaxRequests)

\* Although first callers may construct a store each, the writes and searches of a
\* pod all work on the one object that is cached, and those at work on it at the same
\* time share it: the object another caller made is only ever in a probe's hands.
SharedStores ==
    \A t \in Threads : pc[t] = "serve" /\ kind[t] # "probe" =>
        \A p \in Stores : got[t][p] = cache[Pod(t)][p]

Finds(t, write) == \A p \in Stores : write \in holds[Pod(t)][p][got[t][p]]

\* The probe is what makes the providers safe: a search finds every write that was
\* answered, by the same pod, before it came.
FindsOwn ==
    \A t \in Threads : pc[t] = "serve" /\ kind[t] = "search" =>
        \A w \in floor[t] : w[1] = Pod(t) => Finds(t, w[2])

\* "The API tier is stateless with respect to vector search infrastructure ... so
\* it scales horizontally": a search finds every write answered before it came,
\* whichever pod answered.
FindsAll ==
    \A t \in Threads : pc[t] = "serve" /\ kind[t] = "search" =>
        \A w \in floor[t] : Finds(t, w[2])
=============================================================================
