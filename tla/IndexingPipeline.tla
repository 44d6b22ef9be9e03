-------------------------- MODULE IndexingPipeline --------------------------
(***************************************************************************)
(* The write path of RankIQ: the three mutating routes of                  *)
(* src/api/routes/catalog.py, IndexingPipeline (services/indexing), the    *)
(* SQLite tables it saves to, and the two search indexes it keeps in step. *)
(*                                                                         *)
(* FastAPI runs the routes, which are plain functions, on a pool of        *)
(* threads; every request gets a pipeline object of its own over shared    *)
(* singletons without locks.  A worker is one thread of that pool.  A step *)
(* ends where another thread can observe or disturb the shared state: one  *)
(* SQLite transaction, one call on the vector store, one read or one       *)
(* assignment of BM25KeywordIndex._products_by_id.                         *)
(*                                                                         *)
(* The text of a product is abstracted to the number of the request that   *)
(* supplied it: 0 is "absent".                                             *)
(***************************************************************************)
EXTENDS Integers, Sequences, FiniteSets

CONSTANTS
    Workers,          \* threads that serve mutating requests
    ProductIds,       \* product_id values
    Catalogs,         \* product lists POST /catalog/index may carry
    BatchSize,        \* INDEXING_BATCH_SIZE
    ListLimit,        \* default limit of list_all_products
    MaxRequests,      \* bound: requests received in a behaviour
    MaxCrashes,       \* bound: restarts of the process in a behaviour
    Faults,           \* the kinds of failure the environment may cause
    VolatileVectors   \* TRUE: FAISS, in the process; FALSE: Qdrant, pgvector

\* "storage": a save wrapped as StorageError;  "vector": embedding or store
\* error;  "keyword": BM25Okapi refuses the corpus (KeywordIndexError);
\* "raw": an exception nothing wraps, which is no RankIQError.
FaultKinds == {"storage", "vector", "keyword", "raw"}

ASSUME ConstantsAssumption ==
    /\ BatchSize \in Nat \ {0}
    /\ ListLimit \in Nat
    /\ MaxRequests \in Nat
    /\ MaxCrashes \in Nat
    /\ IsFiniteSet(ProductIds)
    /\ Catalogs \subseteq Seq(ProductIds)
    /\ Faults \subseteq FaultKinds
    /\ VolatileVectors \in BOOLEAN

Requests == 1..MaxRequests
Versions == 0..MaxRequests
Contents == [ProductIds -> Versions]
Nothing == [p \in ProductIds |-> 0]

\* Mutant: upsert_product indexes the product before it saves it.
FirstStepIndexesFirst == [index |-> "create", upsert |-> "vector", delete |-> "deleteRow"]

\* Where the thread starts on each operation.
FirstStep == [index |-> "create", upsert |-> "persist", delete |-> "deleteRow"]
Operations == DOMAIN FirstStep
Steps == {"idle", "create", "start", "persist", "vector", "progress", "list",
          "merge", "rebuild", "complete", "count", "gauge", "fail",
          "deleteRow", "deleteVector"}
Statuses == {"none", "pending", "running", "completed", "failed"}

VARIABLES
    catalog,      \* table products: the version of every row
    jobs,         \* table indexing_jobs, by the request that created the row
    vectors,      \* the version each stored vector was computed from
    keyword,      \* BM25KeywordIndex._products_by_id
    gauge,        \* CATALOG_SIZE
    issued,       \* requests received so far
    request,      \* what each request asked for
    outcome,      \* what its caller was told
    pc, cur,      \* per worker: next step, and the request it serves
    saved, done,  \* products persisted, and job.products_indexed
    snap,         \* the product map a worker is about to build BM25 from
    counted,      \* the row count a worker is about to publish
    crashes, bootedAt,     \* restarts so far; requests issued before the last
    met,          \* history: the requests under way when each one came
    stored, vectorised     \* history: versions SQLite / the store ever accepted

tables  == <<catalog, jobs>>
client  == <<issued, request, outcome>>
locals  == <<cur, saved, done, snap, counted>>
history == <<stored, vectorised>>
timing  == <<crashes, bootedAt, met>>
vars == <<tables, vectors, keyword, gauge, client, pc, locals, timing, history>>

-----------------------------------------------------------------------------
NoRequest == [op |-> "none", list |-> <<>>]
NoRow     == [status |-> "none", total |-> 0, indexed |-> 0]

Init ==
    /\ catalog = Nothing /\ vectors = Nothing /\ keyword = Nothing
    /\ jobs = [r \in Requests |-> NoRow]
    /\ gauge = 0
    /\ issued = 0
    /\ request = [r \in Requests |-> NoRequest]
    /\ outcome = [r \in Requests |-> "none"]
    /\ pc = [w \in Workers |-> "idle"]
    /\ cur = [w \in Workers |-> 0]
    /\ saved = [w \in Workers |-> 0]
    /\ done = [w \in Workers |-> 0]
    /\ snap = [w \in Workers |-> Nothing]
    /\ counted = [w \in Workers |-> 0]
    /\ crashes = 0 /\ bootedAt = 0
    /\ met = [r \in Requests |-> {}]
    /\ stored = [p \in ProductIds |-> {}]
    /\ vectorised = [p \in ProductIds |-> {}]

-----------------------------------------------------------------------------
Op(w)    == request[cur[w]].op
Items(w) == request[cur[w]].list
Total(w) == Len(Items(w))
Rows     == {p \in ProductIds : catalog[p] # 0}

\* products[batch_start : batch_start + INDEXING_BATCH_SIZE] ends here.
BatchEnd(w) ==
    IF done[w] + BatchSize < Total(w) THEN done[w] + BatchSize ELSE Total(w)

\* The product ids at positions first..last of the list worker w processes.
Slice(w, first, last) == {Items(w)[i] : i \in first..last}
Batch(w) == Slice(w, done[w] + 1, BatchEnd(w))

\* f with the products of ps set to version v.
Put(f, ps, v) == [p \in ProductIds |-> IF p \in ps THEN v ELSE f[p]]

\* History h with version v added for the products of ps.
Note(h, ps, v) == [p \in ProductIds |-> IF p \in ps THEN h[p] \cup {v} ELSE h[p]]

Goto(w, step) == pc' = [pc EXCEPT ![w] = step]

\* The request is answered and the thread returns to the pool.
Reply(w, result) ==
    /\ Goto(w, "idle")
    /\ outcome' = [outcome EXCEPT ![cur[w]] = result]
    /\ cur' = [cur EXCEPT ![w] = 0]
    /\ saved' = [saved EXCEPT ![w] = 0]
    /\ done' = [done EXCEPT ![w] = 0]
    /\ snap' = [snap EXCEPT ![w] = Nothing]
    /\ counted' = [counted EXCEPT ![w] = 0]
    /\ UNCHANGED <<issued, request>>

\* Mutant: the single-product routes swallow the error.
RaiseSwallowed(w) ==
    IF Op(w) = "index"
    THEN Goto(w, "fail") /\ UNCHANGED <<client, locals>>
    ELSE Reply(w, "ok")

\* Mutant: a failing batch is tried again without limit.
RaiseRetries(w) ==
    CASE Op(w) = "index" /\ done[w] < Total(w) ->
            /\ Goto(w, "persist")
            /\ saved' = [saved EXCEPT ![w] = done[w]]
            /\ UNCHANGED <<client, cur, done, snap, counted>>
      [] Op(w) = "index" /\ done[w] = Total(w) ->
            Goto(w, "fail") /\ UNCHANGED <<client, locals>>
      [] OTHER -> Reply(w, "error")

\* A RankIQError inside index_catalog's try block reaches its handler; on the
\* other two paths it leaves the route.
Raise(w) ==
    IF Op(w) = "index"
    THEN Goto(w, "fail") /\ UNCHANGED <<client, locals>>
    ELSE Reply(w, "error")

\* Mutant: the handler catches every exception.
AbortCaught(w) == Raise(w)

\* An exception outside that try block, or one that is no RankIQError: the job
\* row, if there is one, stays as it was last saved.
Abort(w) == Reply(w, "error")

\* Mutant: the row counts the products saved, not those embedded.
SaveJobPersisted(w, status) ==
    jobs' = [jobs EXCEPT ![cur[w]] =
        [status |-> status, total |-> Total(w), indexed |-> saved[w]]]

\* save_indexing_job with the job object as worker w holds it.
SaveJob(w, status) ==
    jobs' = [jobs EXCEPT ![cur[w]] =
        [status |-> status, total |-> Total(w), indexed |-> done[w]]]

-----------------------------------------------------------------------------
\* The lists a request may carry: the product routes name one product.
Lists(op) == IF op = "index" THEN Catalogs ELSE {<<p>> : p \in ProductIds}

\* A mutating request reaches an idle thread of the pool.
Receive(w, op, list) ==
    /\ pc[w] = "idle" /\ issued < MaxRequests
    /\ issued' = issued + 1
    /\ request' = [request EXCEPT ![issued'] = [op |-> op, list |-> list]]
    /\ outcome' = [outcome EXCEPT ![issued'] = "open"]
    /\ cur' = [cur EXCEPT ![w] = issued']
    /\ Goto(w, FirstStep[op])
    /\ met' = [met EXCEPT ![issued'] = {r \in Requests : outcome[r] = "open"}]
    /\ UNCHANGED <<tables, vectors, keyword, gauge, saved, done, snap, counted, crashes,
                   bootedAt, history>>

\* Mutant: the batches are embedded without being saved.
NextBatchUnsaved(w, n) == IF n < Total(w) THEN "vector" ELSE "list"

\* Mutant: a last batch that is not full is dropped.
NextBatchDropsTail(w, n) == IF n + BatchSize <= Total(w) THEN "persist" ELSE "list"

\* Where the batch loop goes with n products indexed.
NextBatch(w, n) == IF n < Total(w) THEN "persist" ELSE "list"

CreateJob(w) ==
    /\ pc[w] = "create"
    /\ SaveJob(w, "pending")
    /\ Goto(w, "start")
    /\ UNCHANGED <<catalog, vectors, keyword, gauge, client, locals, timing, history>>

StartJob(w) ==
    /\ pc[w] = "start"
    /\ SaveJob(w, "running")
    /\ Goto(w, NextBatch(w, 0))
    /\ UNCHANGED <<catalog, vectors, keyword, gauge, client, locals, timing, history>>

\* save_product: one row, one transaction.
Persist(w) ==
    /\ pc[w] = "persist"
    /\ LET product == {Items(w)[saved[w] + 1]} IN
          /\ catalog' = Put(catalog, product, cur[w])
          /\ stored' = Note(stored, product, cur[w])
    /\ saved' = [saved EXCEPT ![w] = @ + 1]
    /\ Goto(w, IF saved[w] + 1 < BatchEnd(w) THEN "persist" ELSE "vector")
    /\ UNCHANGED <<jobs, vectors, keyword, gauge, client, cur, done, snap, counted,
                   timing, vectorised>>

\* Mutant: every batch of a catalog is embedded into an empty collection.
UpsertVectorsAnew(w) ==
    /\ pc[w] = "vector"
    /\ vectors' = Put(IF Op(w) = "index" THEN Nothing ELSE vectors, Batch(w), cur[w])
    /\ vectorised' = Note(vectorised, Batch(w), cur[w])
    /\ done' = [done EXCEPT ![w] = BatchEnd(w)]
    /\ Goto(w, IF Op(w) = "index" THEN "progress" ELSE "merge")
    /\ UNCHANGED <<tables, keyword, gauge, client, cur, saved, snap, counted, timing,
                   stored>>

\* Embed the batch and upsert its vectors; products_indexed moves on, in
\* memory, with the call's return.
UpsertVectors(w) ==
    /\ pc[w] = "vector"
    /\ vectors' = Put(vectors, Batch(w), cur[w])
    /\ vectorised' = Note(vectorised, Batch(w), cur[w])
    /\ done' = [done EXCEPT ![w] = BatchEnd(w)]
    /\ Goto(w, IF Op(w) = "index" THEN "progress" ELSE "merge")
    /\ UNCHANGED <<tables, keyword, gauge, client, cur, saved, snap, counted, timing,
                   stored>>

SaveProgress(w) ==
    /\ pc[w] = "progress"
    /\ SaveJob(w, "running")
    /\ Goto(w, NextBatch(w, done[w]))
    /\ UNCHANGED <<catalog, vectors, keyword, gauge, client, locals, timing, history>>

\* Mutant: index_catalog builds BM25 over the posted products alone.
ListPosted(w) ==
    /\ pc[w] = "list"
    /\ snap' = [snap EXCEPT ![w] = Put(Nothing, Slice(w, 1, Total(w)), cur[w])]
    /\ Goto(w, "rebuild")
    /\ UNCHANGED <<tables, vectors, keyword, gauge, client, cur, saved, done, counted,
                   timing, history>>

\* list_all_products: no ORDER BY, so any ListLimit of the rows.
ListProducts(w) ==
    /\ pc[w] = "list"
    /\ \E listed \in SUBSET Rows :
          /\ \/ listed = Rows /\ Cardinality(Rows) <= ListLimit
             \/ Cardinality(listed) = ListLimit
          /\ snap' = [snap EXCEPT ![w] = Put(catalog, ProductIds \ listed, 0)]
    /\ Goto(w, "rebuild")
    /\ UNCHANGED <<tables, vectors, keyword, gauge, client, cur, saved, done, counted,
                   timing, history>>

\* BM25KeywordIndex.upsert and delete copy the served map and change the copy.
MergeKeyword(w) ==
    /\ pc[w] = "merge"
    /\ snap' = [snap EXCEPT ![w] =
          Put(keyword, Slice(w, 1, Total(w)), IF Op(w) = "upsert" THEN cur[w] ELSE 0)]
    /\ Goto(w, "rebuild")
    /\ UNCHANGED <<tables, vectors, keyword, gauge, client, cur, saved, done, counted,
                   timing, history>>

\* BM25KeywordIndex.build serves the map it was given.
Rebuild(w) ==
    /\ pc[w] = "rebuild"
    /\ keyword' = snap[w]
    /\ snap' = [snap EXCEPT ![w] = Nothing]
    /\ Goto(w, IF Op(w) = "index" THEN "complete" ELSE "count")
    /\ UNCHANGED <<tables, vectors, gauge, client, cur, saved, done, counted, timing,
                   history>>

CompleteJob(w) ==
    /\ pc[w] = "complete"
    /\ SaveJob(w, "completed")
    /\ Goto(w, "count")
    /\ UNCHANGED <<catalog, vectors, keyword, gauge, client, locals, timing, history>>

CountProducts(w) ==
    /\ pc[w] = "count"
    /\ counted' = [counted EXCEPT ![w] = Cardinality(Rows)]
    /\ Goto(w, "gauge")
    /\ UNCHANGED <<tables, vectors, keyword, gauge, client, cur, saved, done, snap,
                   timing, history>>

\* Mutant: the gauge is moved by one instead of being set to the count.
SetGaugeByDelta(w) ==
    /\ pc[w] = "gauge"
    /\ gauge' = IF Op(w) = "delete" THEN gauge - 1 ELSE gauge + 1
    /\ Reply(w, "ok")
    /\ UNCHANGED <<tables, vectors, keyword, timing, history>>

\* CATALOG_SIZE takes the count this thread read, which may be old by now.
SetGauge(w) ==
    /\ pc[w] = "gauge"
    /\ gauge' = counted[w]
    /\ Reply(w, "ok")
    /\ UNCHANGED <<tables, vectors, keyword, timing, history>>

\* The handler of RankIQError in index_catalog; the route answers 422.
FailJob(w) ==
    /\ pc[w] = "fail"
    /\ SaveJob(w, "failed")
    /\ Reply(w, "error")
    /\ UNCHANGED <<catalog, vectors, keyword, gauge, timing, history>>

DeleteRow(w) ==
    /\ pc[w] = "deleteRow"
    /\ catalog' = Put(catalog, Slice(w, 1, Total(w)), 0)
    /\ Goto(w, "deleteVector")
    /\ UNCHANGED <<jobs, vectors, keyword, gauge, client, locals, timing, history>>

DeleteVector(w) ==
    /\ pc[w] = "deleteVector"
    /\ vectors' = Put(vectors, Slice(w, 1, Total(w)), 0)
    /\ Goto(w, "merge")
    /\ UNCHANGED <<tables, keyword, gauge, client, locals, timing, history>>

-----------------------------------------------------------------------------
\* save_product and save_indexing_job raise StorageError.  The first two job
\* saves precede the try block and the last is in its handler.
SaveFails(w) ==
    /\ "storage" \in Faults
    /\ \/ pc[w] \in {"persist", "progress", "complete"} /\ Raise(w)
       \/ pc[w] \in {"create", "start", "fail"} /\ Abort(w)
    /\ UNCHANGED <<tables, vectors, keyword, gauge, timing, history>>

\* Embedding or the store's upsert raises.  pgvector commits row by row, so a
\* prefix of the batch may be in, and the whole of it when only the answer of a
\* remote store was lost; FAISS removes the old vectors before it adds.
VectorFails(w) ==
    /\ "vector" \in Faults /\ pc[w] = "vector"
    /\ \/ /\ VolatileVectors
          /\ vectors' = Put(vectors, Batch(w), 0)
          /\ UNCHANGED vectorised
       \/ \E n \in done[w]..BatchEnd(w) :
            LET written == Slice(w, done[w] + 1, n) IN
            /\ VolatileVectors => n = done[w]
            /\ vectors' = Put(vectors, written, cur[w])
            /\ vectorised' = Note(vectorised, written, cur[w])
    /\ Raise(w)
    /\ UNCHANGED <<tables, keyword, gauge, timing, stored>>

\* The store's delete raises; a remote store may have served it all the same.
DeleteVectorFails(w) ==
    /\ "vector" \in Faults /\ pc[w] = "deleteVector"
    /\ \/ UNCHANGED vectors
       \/ ~VolatileVectors /\ vectors' = Put(vectors, Slice(w, 1, Total(w)), 0)
    /\ Raise(w)
    /\ UNCHANGED <<tables, keyword, gauge, timing, history>>

\* BM25Okapi refuses the corpus (no token in it): build has already assigned
\* the map when it raises KeywordIndexError.
RebuildFails(w) ==
    /\ "keyword" \in Faults /\ pc[w] = "rebuild"
    /\ keyword' = snap[w]
    /\ Raise(w)
    /\ UNCHANGED <<tables, vectors, gauge, timing, history>>

\* sqlite3.Error out of list_all_products, count_products or delete_product, and
\* what a store raises outside its own try blocks (Qdrant's _ensure_collection,
\* a failing import of faiss).
RawFails(w) ==
    /\ "raw" \in Faults
    /\ pc[w] \in {"vector", "list", "count", "deleteRow", "deleteVector"}
    /\ Abort(w)
    /\ UNCHANGED <<tables, vectors, keyword, gauge, timing, history>>

\* The process dies and starts again: no start-up code rebuilds an index.
Restart ==
    /\ crashes < MaxCrashes
    /\ crashes' = crashes + 1
    /\ bootedAt' = issued
    /\ keyword' = Nothing
    /\ vectors' = IF VolatileVectors THEN Nothing ELSE vectors
    /\ gauge' = 0
    /\ outcome' = [r \in Requests |-> IF outcome[r] = "open" THEN "lost" ELSE outcome[r]]
    /\ pc' = [w \in Workers |-> "idle"]
    /\ cur' = [w \in Workers |-> 0]
    /\ saved' = [w \in Workers |-> 0]
    /\ done' = [w \in Workers |-> 0]
    /\ snap' = [w \in Workers |-> Nothing]
    /\ counted' = [w \in Workers |-> 0]
    /\ UNCHANGED <<tables, issued, request, met, history>>

\* Every request of the bound has been served; nothing else may stop the system.
Quiet ==
    /\ issued = MaxRequests /\ \A w \in Workers : pc[w] = "idle"
    /\ UNCHANGED vars

Works(w) ==
    \/ CreateJob(w) \/ StartJob(w) \/ Persist(w) \/ UpsertVectors(w)
    \/ SaveProgress(w) \/ ListProducts(w) \/ MergeKeyword(w) \/ Rebuild(w)
    \/ CompleteJob(w) \/ CountProducts(w) \/ SetGauge(w) \/ FailJob(w)
    \/ DeleteRow(w) \/ DeleteVector(w)

Fails(w) ==
    \/ SaveFails(w) \/ VectorFails(w) \/ DeleteVectorFails(w)
    \/ RebuildFails(w) \/ RawFails(w)

Next ==
    \/ \E w \in Workers, op \in Operations : \E list \in Lists(op) : Receive(w, op, list)
    \/ \E w \in Workers : Works(w) \/ Fails(w)
    \/ Restart
    \/ Quiet

Spec == Init /\ [][Next]_vars

\* The operating system schedules every thread of the pool, and each call a
\* thread makes returns or raises.
FairSpec == Spec /\ \A w \in Workers : WF_vars(Works(w) \/ Fails(w))

-----------------------------------------------------------------------------
Rests == \A w \in Workers : pc[w] = "idle"
Within(f, h) == \A p \in ProductIds : f[p] # 0 => f[p] \in h[p]
Touches(r, p) == \E i \in DOMAIN request[r].list : request[r].list[i] = p

\* Every variable has its type: no worker is at a step that is none, no row
\* counts more products than a list can have.
TypeOK ==
    /\ catalog \in Contents /\ vectors \in Contents /\ keyword \in Contents
    /\ jobs \in [Requests -> [status : Statuses, total : Nat, indexed : Nat]]
    /\ gauge \in Nat
    /\ issued \in Versions
    /\ request \in [Requests -> [op : Operations \cup {"none"}, list : Seq(ProductIds)]]
    /\ outcome \in [Requests -> {"none", "open", "ok", "error", "lost"}]
    /\ pc \in [Workers -> Steps]
    /\ cur \in [Workers -> Versions]
    /\ saved \in [Workers -> Nat] /\ done \in [Workers -> Nat]
    /\ snap \in [Workers -> Contents]
    /\ counted \in [Workers -> Nat]
    /\ crashes \in 0..MaxCrashes /\ bootedAt \in Versions
    /\ met \in [Requests -> SUBSET Requests]
    /\ stored \in [ProductIds -> SUBSET Requests]
    /\ vectorised \in [ProductIds -> SUBSET Requests]

\* Storage is written first: whatever text a search index serves, or a worker
\* is about to build one from, was committed to SQLite before, whichever
\* threads raced, calls failed or restarts happened in between.
StorageFirst ==
    /\ Within(catalog, stored) /\ Within(vectors, stored) /\ Within(keyword, stored)
    /\ \A w \in Workers : Within(snap[w], stored)

\* A job row never claims more than was done: the first products_indexed
\* products of the posted list have had their vectors stored by that very job,
\* and a COMPLETED row counts them all.
ProgressBacked ==
    \A r \in Requests :
        /\ jobs[r].indexed <= Len(request[r].list)
        /\ \A i \in 1..jobs[r].indexed : r \in vectorised[request[r].list[i]]
        /\ jobs[r].status = "completed" =>
              jobs[r].indexed = jobs[r].total /\ jobs[r].total = Len(request[r].list)

\* A caller is told a catalog or a product was indexed only when every product
\* of the request went into SQLite and the vector store, and the job it can
\* poll says so.
OkMeansIndexed ==
    \A r \in Requests :
        outcome[r] = "ok" /\ request[r].op # "delete" =>
            /\ \A p \in ProductIds :
                  Touches(r, p) => r \in stored[p] \cap vectorised[p]
            /\ request[r].op = "index" => jobs[r].status = "completed"

\* The state machine of docs/diagrams/architecture.md: a row is created
\* PENDING, only becomes RUNNING from there, and COMPLETED and FAILED are final,
\* whatever fails after the row was saved.
JobLifecycle ==
    [][\A r \in Requests :
          LET moves == <<jobs[r].status, jobs'[r].status>> IN
          jobs'[r] # jobs[r] => moves \in {<<"none", "pending">>, <<"pending", "running">>,
              <<"running", "running">>, <<"running", "completed">>, <<"running", "failed">>}]_vars

\* Requests served one at a time leave the stores in agreement: once the last
\* request since the process started that names a product was answered with
\* success, SQLite, the vectors and the keyword index all hold that request's
\* text of it (nothing, for a delete), whatever other requests failed.  The gauge
\* counts the rows as long as the last request was such a one.
SerialAgreement ==
    /\ \A r \in bootedAt + 1..MaxRequests, p \in ProductIds :
          /\ outcome[r] = "ok" /\ Touches(r, p)
          /\ \A later \in r + 1..MaxRequests : ~Touches(later, p)
          => LET version == IF request[r].op = "delete" THEN 0 ELSE r IN
             catalog[p] = version /\ vectors[p] = version /\ keyword[p] = version
    /\ issued > bootedAt /\ outcome[issued] = "ok" => gauge = Cardinality(Rows)

\* Requests that interleave freely, but not over one product: when a request was
\* answered with success and no request that names product p was under way when it
\* came or came later, SQLite has that request's text of p, and so has the vector
\* store unless the process that held its vectors is gone.
ApartAgreement ==
    \A r \in Requests, p \in ProductIds :
        /\ outcome[r] = "ok" /\ Touches(r, p)
        /\ \A other \in met[r] \cup (r + 1..MaxRequests) : ~Touches(other, p)
        => LET version == IF request[r].op = "delete" THEN 0 ELSE r IN
           /\ catalog[p] = version
           /\ ~VolatileVectors \/ r > bootedAt => vectors[p] = version

\* Every request a thread took is answered (the batch loop ends).
RequestsAnswered ==
    \A r \in Requests : outcome[r] = "open" ~> outcome[r] # "open"

\* A job that was created does not stay PENDING or RUNNING.
JobsTerminate ==
    \A r \in Requests :
        jobs[r].status \in {"pending", "running"} ~> jobs[r].status \in {"completed", "failed"}

-----------------------------------------------------------------------------
(* What the repository's documents say and the code does not keep.         *)

AllOk == Rests /\ \A r \in 1..issued : outcome[r] = "ok"

\* ADR-005, of upsert_product and delete_product: "add/update/remove one
\* product, index reflects it".
IndexReflectsCatalog == AllOk => keyword = catalog
=============================================================================
