----------------------------- MODULE RemoteStore -----------------------------
(***************************************************************************)
(* QdrantVectorStore and PgVectorStore (services/vectorstore/): an object  *)
(* that the threads of the process share, in front of a server that        *)
(* outlives the process.  The client connects at first use, and looks for  *)
(* its collection (Qdrant) or table (pgvector) at first use; both are      *)
(* remembered in attributes no lock protects.  A request to the server is  *)
(* atomic there; it may be refused, and its answer may be lost after it    *)
(* was served.                                                             *)
(*                                                                         *)
(* A vector is the number of the call that stored it, 0 is none.  Reads    *)
(* (search, count) matter here for what they connect and create.           *)
(***************************************************************************)
EXTENDS Integers, Sequences, FiniteSets

CONSTANTS
    Threads, ProductIds,
    Backends,     \* subset of {"qdrant", "pgvector"}
    Lists,        \* product lists a caller may pass to upsert
    MaxCalls,     \* bound: calls in a behaviour
    MaxRestarts   \* bound: restarts of the process

ASSUME RemoteAssumption ==
    /\ Backends \subseteq {"qdrant", "pgvector"}
    /\ Lists \subseteq Seq(ProductIds) \ {<<>>}
    /\ MaxCalls \in Nat /\ MaxRestarts \in Nat /\ IsFiniteSet(Threads)

VARIABLES
    backend,   \* Settings.vector_backend
    exists,    \* the server has the collection or table
    contents,  \* its row or point of every product
    client,    \* _client or _conn: a number, 0 is None
    ensured,   \* _ensured
    opened,    \* connections opened by this process
    calls,     \* calls started so far
    restarts,
    pc, op, list, call,  \* per thread: next step, and the call it makes
    at,        \* per thread: rows of the list sent so far
    mixed      \* history: a clear met another call, in this process

server  == <<backend, exists, contents>>
process == <<client, ensured, opened>>
request == <<op, list, call, calls>>
vars == <<server, process, request, restarts, pc, at, mixed>>

Idling == [t \in Threads |-> "idle"]

Init ==
    /\ backend \in Backends
    /\ exists \in BOOLEAN
    /\ contents = [p \in ProductIds |-> 0]
    /\ client = 0 /\ ensured = FALSE /\ opened = 0
    /\ calls = 0 /\ restarts = 0 /\ mixed = FALSE
    /\ pc = Idling
    /\ op = [t \in Threads |-> "none"]
    /\ list = [t \in Threads |-> <<>>]
    /\ call = [t \in Threads |-> 0]
    /\ at = [t \in Threads |-> 0]

-----------------------------------------------------------------------------
Goto(t, step) == pc' = [pc EXCEPT ![t] = step]
Named(products) == {products[i] : i \in DOMAIN products}
Put(products, vector) ==
    contents' = [p \in ProductIds |-> IF p \in products THEN vector ELSE contents[p]]

\* QdrantVectorStore.clear drops the collection before it looks for one.
Dropping(t) == op[t] = "clear" /\ backend = "qdrant"

Start(t, kind, products) ==
    /\ pc[t] = "idle" /\ calls < MaxCalls
    /\ calls' = calls + 1
    /\ op' = [op EXCEPT ![t] = kind]
    /\ list' = [list EXCEPT ![t] = products]
    /\ call' = [call EXCEPT ![t] = calls']
    /\ mixed' = (mixed \/ \E u \in Threads : pc[u] # "idle" /\ "clear" \in {kind, op[u]})
    /\ Goto(t, IF kind = "clear" /\ backend = "qdrant" THEN "client" ELSE "ensure")
    /\ UNCHANGED <<server, process, restarts, at>>

\* Where a call goes on once the collection is known to be there.
Ready(t) == IF Dropping(t) THEN "end" ELSE "call"

\* _ensure_collection, _ensure_table: nothing to do the second time.
Ensure(t) ==
    /\ pc[t] = "ensure"
    /\ Goto(t, IF ensured THEN Ready(t) ELSE IF Dropping(t) THEN "look" ELSE "client")
    /\ UNCHANGED <<server, process, request, restarts, at, mixed>>

\* _get_client, _get_connection.
GetClient(t) ==
    /\ pc[t] = "client"
    /\ Goto(t, IF client = 0 THEN "connect" ELSE IF Dropping(t) THEN "drop" ELSE "look")
    /\ UNCHANGED <<server, process, request, restarts, at, mixed>>

\* Mutant: the new connection is returned and not kept.
ConnectUnkept(t) ==
    /\ pc[t] = "connect"
    /\ opened' = opened + 1
    /\ Goto(t, IF Dropping(t) THEN "drop" ELSE "look")
    /\ UNCHANGED <<server, client, ensured, request, restarts, at, mixed>>

\* The later of two first users puts its connection over the other one.
Connect(t) ==
    /\ pc[t] = "connect"
    /\ opened' = opened + 1
    /\ client' = opened'
    /\ Goto(t, IF Dropping(t) THEN "drop" ELSE "look")
    /\ UNCHANGED <<server, ensured, request, restarts, at, mixed>>

\* Mutant: the collection is remembered before it has been created.
LookMarks(t) ==
    /\ pc[t] = "look"
    /\ ensured' = TRUE
    /\ IF backend = "qdrant"
       THEN Goto(t, IF exists THEN "mark" ELSE "create") /\ UNCHANGED exists
       ELSE \E next \in {"mark", "raise"} : Goto(t, next) /\ exists' = TRUE
    /\ UNCHANGED <<backend, contents, client, opened, request, restarts, at, mixed>>

\* Qdrant: is the collection there?  pgvector: IF NOT EXISTS, in the server.
Look(t) ==
    /\ pc[t] = "look"
    /\ IF backend = "qdrant"
       THEN Goto(t, IF exists THEN "mark" ELSE "create") /\ UNCHANGED exists
       ELSE \E next \in {"mark", "raise"} : Goto(t, next) /\ exists' = TRUE
    /\ UNCHANGED <<backend, contents, process, request, restarts, at, mixed>>

\* create_collection is refused when another user created it since Look.
Create(t) ==
    /\ pc[t] = "create" /\ ~exists
    /\ exists' = TRUE
    /\ \E next \in {"mark", "raise"} : Goto(t, next)
    /\ UNCHANGED <<backend, contents, process, request, restarts, at, mixed>>

Mark(t) ==
    /\ pc[t] = "mark"
    /\ ensured' = TRUE
    /\ Goto(t, Ready(t))
    /\ UNCHANGED <<server, client, opened, request, restarts, at, mixed>>

\* delete_collection, and "_ensured = False" whether or not it worked: its errors
\* are dropped.
Drop(t) ==
    /\ pc[t] = "drop"
    /\ \/ exists' = FALSE /\ Put(ProductIds, 0) /\ at' = [at EXCEPT ![t] = 1]
       \/ UNCHANGED <<exists, contents, at>>
    /\ Goto(t, "unmark")
    /\ UNCHANGED <<backend, process, request, restarts, mixed>>

Unmark(t) ==
    /\ pc[t] = "unmark"
    /\ ensured' = FALSE
    /\ Goto(t, "ensure")
    /\ UNCHANGED <<server, client, opened, request, restarts, at, mixed>>

\* Mutant: pgvector stops at the last row instead of after it.
RowSentEarly(t) ==
    /\ at[t] < Len(list[t])
    /\ Put({list[t][at[t] + 1]}, call[t])
    /\ at' = [at EXCEPT ![t] = @ + 1]
    /\ \E next \in {IF at'[t] + 1 >= Len(list[t]) THEN "end" ELSE "call", "raise"} : Goto(t, next)

\* pgvector commits row by row.
RowSent(t) ==
    /\ at[t] < Len(list[t])
    /\ Put({list[t][at[t] + 1]}, call[t])
    /\ at' = [at EXCEPT ![t] = @ + 1]
    /\ \E next \in {IF at'[t] = Len(list[t]) THEN "end" ELSE "call", "raise"} : Goto(t, next)

\* A Qdrant batch, a DELETE and a TRUNCATE are done at once.
Done(t, products, vector) ==
    /\ Put(products, vector)
    /\ at' = [at EXCEPT ![t] = IF op[t] = "clear" THEN 1 ELSE Len(list[t])]
    /\ \E next \in {"end", "raise"} : Goto(t, next)

\* The request the call is for, served; its answer may not come back.
Serve(t) ==
    /\ pc[t] = "call" /\ exists
    /\ \/ op[t] = "upsert" /\ backend = "pgvector" /\ RowSent(t)
       \/ op[t] = "upsert" /\ backend = "qdrant" /\ Done(t, Named(list[t]), call[t])
       \/ op[t] = "delete" /\ Done(t, Named(list[t]), 0)
       \/ op[t] = "clear" /\ Done(t, ProductIds, 0)
       \/ op[t] = "read" /\ Goto(t, "end") /\ UNCHANGED <<contents, at>>
    /\ UNCHANGED <<backend, exists, process, request, restarts, mixed>>

Finish(t) ==
    /\ Goto(t, "idle")
    /\ op' = [op EXCEPT ![t] = "none"]
    /\ list' = [list EXCEPT ![t] = <<>>]
    /\ call' = [call EXCEPT ![t] = 0]
    /\ at' = [at EXCEPT ![t] = 0]
    /\ UNCHANGED <<server, process, calls, restarts, mixed>>

Return(t) == pc[t] = "end" /\ Finish(t)

\* No connection, a request that is refused (by Create too late, on a collection
\* that is gone), or no answer.
Raise(t) == pc[t] \in {"connect", "look", "create", "call", "raise"} /\ Finish(t)

Restart ==
    /\ restarts < MaxRestarts
    /\ restarts' = restarts + 1
    /\ client' = 0 /\ ensured' = FALSE /\ opened' = 0
    /\ pc' = Idling
    /\ op' = [t \in Threads |-> "none"]
    /\ list' = [t \in Threads |-> <<>>]
    /\ call' = [t \in Threads |-> 0]
    /\ at' = [t \in Threads |-> 0]
    /\ mixed' = FALSE
    /\ UNCHANGED <<server, calls>>

Next ==
    \/ \E t \in Threads :
          \/ \E products \in Lists : Start(t, "upsert", products)
          \/ \E p \in ProductIds : Start(t, "delete", <<p>>)
          \/ \E kind \in {"clear", "read"} : Start(t, kind, <<>>)
          \/ Ensure(t) \/ GetClient(t) \/ Connect(t) \/ Look(t) \/ Create(t) \/ Mark(t)
          \/ Drop(t) \/ Unmark(t) \/ Serve(t) \/ Return(t) \/ Raise(t)
    \/ Restart

Spec == Init /\ [][Next]_vars

-----------------------------------------------------------------------------
Steps == {"idle", "ensure", "client", "connect", "look", "create", "mark", "drop",
          "unmark", "call", "end", "raise"}

\* Every variable has its type; rows are in a collection that is there, and what
\* ensures it keeps its connection.
TypeOK ==
    /\ backend \in Backends /\ exists \in BOOLEAN /\ ensured \in BOOLEAN
    /\ contents \in [ProductIds -> 0..MaxCalls]
    /\ client \in Nat /\ opened \in Nat /\ mixed \in BOOLEAN
    /\ calls \in 0..MaxCalls /\ restarts \in 0..MaxRestarts
    /\ pc \in [Threads -> Steps]
    /\ op \in [Threads -> {"none", "upsert", "delete", "clear", "read"}]
    /\ call \in [Threads -> 0..calls]
    /\ at \in [Threads -> Nat]
    /\ \A p \in ProductIds : contents[p] # 0 => exists
    /\ ensured => client # 0

\* The store does not believe in a collection that is not there: with no clear
\* having met another call, what _ensured says is true, so that a call fails only
\* when the server does.
Usable ==
    ensured /\ ~mixed /\ (\A t \in Threads : ~Dropping(t)) => exists

\* However many threads come first, a process opens no more than a connection for
\* each: one is kept, and nobody opens another after that.
ConnectionsBounded == opened <= Cardinality(Threads)

\* What a call still has to do, by the products.
Left(t) ==
    IF op[t] = "clear" THEN IF at[t] = 0 THEN ProductIds ELSE {}
    ELSE {list[t][i] : i \in at[t] + 1..Len(list[t])}

Doing(t) ==
    IF op[t] \in {"upsert", "delete", "clear"}
    THEN [op |-> op[t], wants |-> IF op[t] = "upsert" THEN call[t] ELSE 0,
          left |-> Left(t), ok |-> pc[t] = "end"]
    ELSE [op |-> "none", wants |-> 0, left |-> {}, ok |-> FALSE]

\* It is a VectorStore, for any number of callers, through lost answers, races of
\* first users and restarts, except that a clear may succeed and leave products:
\* Qdrant's does when delete_collection fails.
Store == INSTANCE VectorStore WITH
    Callers <- Threads, Versions <- 1..MaxCalls, None <- 0, LossyClear <- TRUE, Durable <- TRUE,
    doing <- [t \in Threads |-> Doing(t)]
Implements == Store!Spec
=============================================================================
