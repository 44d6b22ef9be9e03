# RankIQ: TLA+ models, checks and proofs

RankIQ is a product search service: SQLite holds the catalog, a vector store
(FAISS, Qdrant or pgvector) and a BM25 index serve it, and a search fuses the
answers of both. FastAPI runs the route functions, which are plain functions, on
a pool of threads; the stores are process-wide singletons without a lock. The
models here are about what follows from that: three stores that are written one
after the other, by several threads at once, by calls that fail, in a process
that restarts.

`PROJECT.json` maps every definition to the lines it models (paths there start
at `src/`, the root of the repository), lists the runs, the mutants that show
each property can fail, the hazards and the theorems.

## Inventory

| Component | State | Operations | What makes it hard |
|---|---|---|---|
| Catalog routes, `IndexingPipeline` | none of its own; a job object per request | `index_catalog`, `upsert_product`, `delete_product` | every operation is a series of calls on three stores; each may raise, two requests interleave, the process dies in between |
| SQLite storage | tables `products`, `indexing_jobs` | save, read, batched read, list, delete, count, job save | one transaction per call and none across calls; a default limit on the listing |
| BM25 index | `_bm25`, `_product_ids`, `_products_by_id` | `build`, `upsert`, `delete`, `clear`, `search` | three attributes replaced one by one, read one by one, no lock; a corpus without tokens makes the library raise |
| FAISS store | index, two dictionaries, two files | `upsert`, `search`, `delete`, `clear`, `count`, `save`, `load` | lazy creation, remove before add, dictionaries written after the index, files written one after the other |
| Qdrant, pgvector stores | `_client`/`_conn`, `_ensured`; an external collection or table | the same interface | the server survives a restart and what the process remembers of it does not; lazy connections; pgvector commits row by row, Qdrant's `clear` drops the collection first |
| Embedding service, reranker | a loaded model | embed, rerank | may fail |
| Retrieval service, search route | none | `search` | reads three stores at three moments |
| Fusion | none | RRF, weighted sum | ranks, ties, zero spans |
| Rate limiter | a deque per client | `dispatch` | the edge of the window, the last request of the limit |
| Providers (`dependencies.py`) | `lru_cache` | construct the singletons | concurrent first callers; `lru_cache` holds no lock while it calls |
| Health | none | liveness, readiness | the readiness answer is what lets traffic in |
| Audit, authentication, settings, schemas, logging, UI | none that is shared | | |
| Deployment | two replicas, each with its stores | probes, restarts | indexes and limits per process |

Interactions: a route calls the pipeline; the pipeline calls storage, embedding,
vector store and BM25, in that order, and the gauge at the end. A search calls
the vector store and BM25, then reads the rows of the fused ids from SQLite. The
rate limiter stands in front of all routes on the event loop. Every request gets
its stores from the cached providers, and none comes before the readiness probe
of its pod has been answered.

What makes the parts correct:

* Write path: storage is ahead of the indexes; a job row and an answer claim no
  more than was done; a job ends; after a success the stores agree.
* Vector stores: a product's vector changes only by a call that names it, to
  what that call wants, and a call that returns has settled all its products,
  whatever the backend.
* FAISS: after a call a product has the vectors of that call and no other, one
  for each time the list names it; no stale or deleted hit; the dictionaries agree.
* Qdrant, pgvector: what the process remembers of the server is true; a bounded
  number of connections.
* BM25: the three attributes describe one corpus; a hit matches.
* Search: an answer is a view of one moment and hides nothing without a reason;
  fusion respects what both retrievers say; reranking stays within its head.
* Rate limiter: exactly the sliding window that its queue abbreviates.
* Providers and pods: all work on one store of each kind; a search finds what its
  pod has answered for.

## Modules

| Module | What it models | Run by |
|---|---|---|
| `IndexingPipeline` | routes, pipeline, both tables, the vectors and the served keyword map, the gauge; threads, faults, restarts | `MCIndexingPipeline` |
| `IndexingPipelineProofs` | seven theorems about it | |
| `SlidingWindow` | what the rate limiter promises, over the complete record of what passed | |
| `RateLimit` | `dispatch`; implements `SlidingWindow` | itself |
| `RateLimitProofs` | the bound and the refinement | |
| `VectorStore` | what the interface promises those who write, whatever the backend | |
| `FaissStore` | `FAISSVectorStore`, statement by statement, its files and the readiness gate; implements `VectorStore` | `MCFaissStore` |
| `FaissStoreProofs` | the refinement and four invariants | |
| `RemoteStore` | `QdrantVectorStore` and `PgVectorStore` in front of their server; implements `VectorStore` | `MCRemoteStore` |
| `RemoteStoreProofs` | the refinement and three invariants | |
| `Bm25Index` | `BM25KeywordIndex`, attribute by attribute | `MCBm25Index` |
| `Bm25IndexProofs` | three invariants | |
| `Fusion`, `FusionProofs` | both fusion strategies as operators on candidate lists; three theorems about any lists | |
| `HybridSearch` | `RetrievalService.search` over a changing catalog; EXTENDS `Fusion` | `MCHybridSearch` |
| `HybridSearchProofs` | six invariants; EXTENDS `FusionProofs` | |
| `Serving` | pods, probes, providers behind `lru_cache`, what requests are given | `MCServing` |
| `ServingProofs` | three invariants | |

The pipeline sees its two indexes as maps that one call changes. `FaissStore`,
`RemoteStore` and `Bm25Index` open those calls up. `VectorStore` is the common
view of the first two: both refine it, so what the pipeline assumes of a vector
store does not depend on the configured one. `Bm25Index!Aligned` does the same
for BM25 calls that no other one disturbs. `Serving` says who meets which store
object at all, and that the lazy first calls which `FaissStore` and the providers
do not protect are over when requests come: the readiness route is the gate in
both modules (`Gated` there, `ready` here). `HybridSearch` in turn lets the
indexes answer anything that is a list of distinct products by descending score
(`Answers`). Qdrant, pgvector and BM25 answer such lists, as each keeps a product
under one key; FAISS does unless a batch has named a product twice (see below).

### Write path: `IndexingPipeline`

A worker is one thread of the pool; `pc[w]` is the next call it makes.

| Action | Code |
|---|---|
| `Receive` | a request reaches the route; the route names one product, or a list |
| `CreateJob`, `StartJob`, `SaveProgress`, `CompleteJob`, `FailJob` | the `save_indexing_job` calls of `index_catalog` |
| `Persist` | one `save_product`: one row, one transaction |
| `UpsertVectors` | embedding the batch, upserting it, and `products_indexed` |
| `ListProducts`, `Rebuild` | `list_all_products`, then `bm25.build` |
| `MergeKeyword`, `Rebuild` | `bm25.upsert` or `delete`: the served map is copied, changed, and built from |
| `CountProducts`, `SetGauge` | `CATALOG_SIZE.set(count_products())`, and the answer |
| `DeleteRow`, `DeleteVector` | the first two calls of `delete_product` |
| `SaveFails`, `VectorFails`, `DeleteVectorFails`, `RebuildFails` | the `RankIQError`s of those calls, with what they leave behind |
| `RawFails` | errors nothing wraps: `sqlite3` errors of reads and deletes, Qdrant's `_ensure_collection` |
| `Restart` | the process state is gone; only SQLite and, unless it is FAISS, the vectors stay |

A product's text is the number of the request that supplied it. `stored` and
`vectorised` are history: what SQLite and the store ever accepted. `met` is history
too: the requests under way when each one came.

* `StorageFirst`: no index serves a text SQLite did not commit before.
* `ProgressBacked`: `products_indexed` counts products whose vectors that job
  stored; COMPLETED counts them all. An upsert or a delete on Qdrant or pgvector
  may raise having done all it was asked, as the server's answer was lost.
* `OkMeansIndexed`: success is answered only for what was saved and embedded.
* `JobLifecycle`: the state diagram of `docs/diagrams/architecture.md`.
* `ApartAgreement`: threads interleave, but no other request over a product was
  under way when this one came, or came later: after its success SQLite has its
  text of the product, and so have the vectors until a restart takes them. The keyword index is left out on purpose: it is rebuilt whole by
  every request, so a request over another product can drop the entry, which
  `lost_update` shows.
* `SerialAgreement`: one request at a time, the stores and the gauge agree after
  a success, whatever failed before.
* `RequestsAnswered`, `JobsTerminate`: liveness.

### The interface: `VectorStore`

A product has a vector, known by the call that stored it, or none. `Begin` opens
a call with the products it names and what it wants for them; `Settle` gives some
of them just that; `Vacate` lets an upsert take old vectors out before the new
ones are in, which FAISS does; `Leave` ends the call. Only the step that settles
the last product may succeed, so a call that returned has done all it promised,
and one that raised may have done any part. `LossyClear` and `Durable` are the
two points in which backends differ: Qdrant's `clear` may succeed and leave
points, and what FAISS holds is gone with the process.

### FAISS: `FaissStore`

A step is a FAISS call or one access to a dictionary. `latest` and `floor` record
which calls had returned before a search began. A list may name a product twice,
as nothing before `upsert` removes repetitions: `add_with_ids` then stores two
vectors under one id, both of which the dictionaries name. `CallContract` counts
them, `FreshHits` says that what a search returns of a product is of one call, and
the next upsert or delete of the product removes both. `save` writes two files one
after the other, either of which a crash or an error may leave in part; `load`
takes what it finds; `sound` says that the files last loaded agreed (`Agree`:
vectors of one call for each product of the dictionary and no other), and the properties are
about stores that were loaded from such a pair or never loaded. That the files
name the same products is not enough: a store loaded from files that disagree
may take a second vector for a product its dictionary does not know and save
both, and the next process then loads a pair that names the same products and
has vectors of two calls for one. `Gated` puts the readiness probe in front: requests
wait for the first `count` that a thread of `Probers` answers. A count that
returned has created the index; one that raised is answered with 200 as well
(`health.py:34-45`), and requests may then come to a process without an index,
where `sound` is false. The properties hold behind the gate; without it two first
calls may create an index each and lose one. They
are about one writer: two writers of one product undo each other (see below).

`Interface == INSTANCE VectorStore WITH ...` maps a product to its vector if a
search can find and name it. What a call has left is read off its step: all of
its products until the vectors are added, then those that have no name yet.

### Qdrant, pgvector: `RemoteStore`

A step is one access to `_client`, `_conn` or `_ensured`, or one request to the
server, which serves it or not and whose answer may be lost after it was served.
`Ensure`, `GetClient`, `Connect`, `Look`, `Create` and `Mark` are the lazy part of
every call; `Serve` is the request itself, a row at a time for pgvector; `Drop` and
`Unmark` are the first half of Qdrant's `clear`. `Restart` loses the attributes
and keeps the server. `mixed` records that a `clear` met another call: then a
remembered collection may be gone, and the next call fails (`Usable` is about
the other histories, `Implements` about all).

### BM25: `Bm25Index`

One query is considered, and a text matches it, does not, or has no token.
`Positive` states which positions `BM25Okapi` gives a positive score: a word of
fewer than half the documents is positive, one of half is zero, one of more has
the sign of a mean. `calm` and `sound` say that a call met no build but its own,
and that the last build to end was such a one and succeeded. `clear` is a build
in this sense: it takes the attributes away in the order that lets a search stop
early.

### Providers and pods: `Serving`

A request calls the providers in the order FastAPI resolves its parameters
(`Needs`). A provider that is cached answers at once (`Resolve`); if not, it is
called, and the first to return is kept while the others go on with their own
object (`Construct`). A pod gets requests from its first answered probe
(`AnswerProbe`) until it restarts. `acked` and `floor` record which writes had
been answered when a request came.

* `SharedStores`: the writes and searches of a pod all work on the store that is
  cached, so that the threads of a process share one of each kind, as the other
  modules have it. Only a probe can have another first caller's object in hand.
* `FindsOwn`: a search is given stores that hold every write its pod had
  answered. It fails if the probe asks for less than both stores, which is its
  mutant.
* `FindsAll`: the same for writes any pod had answered. It is false.

### Search: `HybridSearch`, `Fusion`

`Ask`, `SearchVectors`, `SearchKeywords`, `Fuse`, `Hydrate` and `Rank` are the
calls of `search` in their order, `Fail` is its `except`, and `Write` changes the
catalog at any time between. Fused scores are exact fractions. Equal RRF scores
keep the order of the dictionary (the sort is stable), equal weighted sums come
in any order (the code iterates over a set of strings). `VectorCandidates` and
`KeywordCandidates` are the limits the two indexes are asked with.

### Rate limiter: `RateLimit`, `SlidingWindow`

`dispatch` has no `await` before it decides, so it is one action. The abstract
module decides on the complete record of what passed; `Promise == INSTANCE
SlidingWindow` maps its variables by name.

## Runs

| Run | Bounds | Shows |
|---|---|---|
| `pipeline_concurrent` | 2 threads, 2 requests, 2 products, batch 2, listing cut at 1, 1 restart, all faults, durable vectors | `TypeOK`, `StorageFirst`, `ProgressBacked`, `OkMeansIndexed`, `ApartAgreement`, `JobLifecycle` |
| `pipeline_serial` | 1 thread, 3 requests, 2 products, batch 1, 1 restart, all faults, FAISS | `SerialAgreement` |
| `pipeline_live` | 2 threads, 2 requests, embedding, store and BM25 errors | `RequestsAnswered`, `JobsTerminate` |
| `rate_limit` | 2 clients, limit 2, window 2, 7 ticks | `TypeOK`, `WithinLimit`, `Implements` |
| `faiss_concurrent` | 1 writer, 1 thread that searches and saves, 1 that counts, 5 calls (3 in a process that is not `sound`), 2 products, a list that repeats one, FAISS may raise, 1 crash, gated | `TypeOK`, `CallContract`, `FreshHits`, `MapsAgree`, `Implements` |
| `remote_store` | 2 threads, 3 calls, 2 products, both backends, 1 restart | `TypeOK`, `Usable`, `ConnectionsBounded`, `Implements` |
| `bm25_concurrent` | 2 builders, 1 searcher, 4 calls, 3 products | `TypeOK`, `Aligned`, `CalmSearch` |
| `search` | 3 products, 3 levels of score, all pairs of answers, all strategies, 2 changes of the catalog, faults, reranking, filters | `TypeOK`, `ConsensusFirst`, `ParetoOrder`, `OneMoment`, `NoPromotion`, `NothingHidden` |
| `serving` | 2 pods of 2 threads, 5 requests or probes, 1 restart | `TypeOK`, `SharedStores`, `FindsOwn` |
| `lost_update`, `job_stuck`, `replica_split` | 2 to 4 requests | a counterexample each, see below |

Why the bounds are enough to be worth something. Two threads and two requests
give every pair of operations in every interleaving; what a third would add is
covered by the theorems, which hold for any number of threads, requests and
products. A batch of two with lists of no, one, two and three entries has the
empty list, the short batch, the full one and the short last one, and a product
named twice across batches. One restart hits every step. Three serial requests
give a failed request between a success and another one. Two catalog changes
are the least with which a mixed answer exists. Four BM25 calls give two builds
that overlap, a third that repairs what they left, and a search of the result;
five FAISS calls give a probe, an upsert, a save, a crash inside it, another
probe after a load, and a search beside an upsert. Three remote calls of two
threads give two first users at once, a `clear` among other calls, and a call
after either; a list that names a product twice is among the lists. Five
requests to two pods give each its probes, and a write and a search beside a
second probe. The limiter's seven ticks are three windows, so an entry can leave
the deque, be replaced, and leave again.

Deadlock is checked in all pipeline runs (`Quiet` is the only way to stop: all
requests of the bound are served) and in `rate_limit`. The other modules stop
when the calls of their bound are used up, and their cfgs say so.

Symmetry, in safety runs only: the threads of the pool and of a remote store, the
pods and their threads, the products of a search. Two runs have a constraint:
`Bound` in `faiss_concurrent` follows a process that is not `sound` for three calls
only, since no property speaks of it; in `search`,
`Changes`: queries that fuse are asked of catalogs that do not change meanwhile
(any catalog may be the initial one), queries of one index of catalogs that do.

### Fairness

`FairSpec` asks for weak fairness of each thread's next step, done or failed:
the operating system schedules every pool thread, and a call returns or raises.
The second half is an assumption about SQLite and FAISS, which run in the
process, and about the clients of Qdrant and pgvector, which the code calls
without a timeout of its own: a server that never answers is outside it. No
fairness is assumed of requests arriving, of particular outcomes, or of
restarts; the liveness runs have no restart, since after one the request is lost
and a job row stays as it was. `pipeline_live` leaves out raw and storage errors
because `JobsTerminate` is false with them: that is `job_stuck`.

### Where the code departs from its documents

* `lost_update`. ADR-005 gives `upsert` and `delete` the contract "index reflects
  it". Two concurrent calls copy the same dictionary, and the last to build drops
  the other's change; both requests were answered with success.
* `job_stuck`. The architecture diagram lets RUNNING end in COMPLETED or FAILED.
  The handler catches `RankIQError` only; a `sqlite3` error of the listing leaves
  the row RUNNING for ever.
* `replica_split`. The deployment file says the API tier is stateless "with
  respect to vector search infrastructure" and therefore runs two replicas; it
  configures FAISS, and the BM25 index is in the process in any case. A write
  answered by one replica is not found through the other.

Other departures are in the hazard list, with a property of what holds around
them or the reason why there is none: an upsert after a restart rebuilds BM25
from an empty dictionary, not "from the current full corpus" (ADR-005), until a
full indexing comes; a rebuild between `get_scores` and the naming of positions
gives a product the score of another (`CalmSearch` is about searches that meet no
build); two writers of one product on FAISS may leave a vector no dictionary
names; a batch that names a product twice leaves two vectors of it in FAISS, both
of which searches return and RRF counts; a probe whose count raised lets requests
in; scores of zero in small catalogs;
filters that apply after the candidates are cut; the reranker that
`get_retrieval_service` does not pass on; Qdrant's `clear`, which takes any error
for a missing collection; a pgvector connection that died and is kept.

## Proofs

Every safety property a passing run checks, and every refinement, is also a
theorem. All theorems hold for every value of the constants that satisfies the
modules' named assumptions (`ConstantsAssumption`, `LimitAssumption`,
`StoreAssumption`, `RemoteAssumption`, `IndexAssumption`, `FusionAssumption`,
`SearchAssumption`, `ServingAssumption`): numbers are naturals, batches are not
empty, products, and the threads of a process, are finitely many, the lists a
module is given are lists of products. Some theorems assume more, because
without it they are false, and name it in their statement:

| Theorems | Assume | In the code |
|---|---|---|
| `FaissStoreProofs` but for `TypeCorrect` | `Served`: the readiness gate, one thread that writes, one that probes | the probe of the deployment; one writer is a restriction, see the departures above |
| `SerialStoresAgree` | one thread; no more products than `list_all_products` lists | a restriction, which is the subject of the property; 100000 |
| `ConsensusIsFirst` | the indexes are asked for at most `RrfK + 1` candidates | 50 and 60 |
| `BetterIsFirst` | both weights positive | 0.6 and 0.4 by default |

`IndexingPipelineProofs`. `StorageFirst` and its companions are not inductive: they
do not know what a busy thread has already done. The invariant `Inv` adds

* the request a busy thread serves exists, is open, and no other thread serves it;
* what each step implies (the stages): at `vector` the batch is saved, at
  `progress` its vectors are stored up to `done`, from `list` on `done` is the
  whole list, at `merge` of an upsert the product is saved and embedded, at
  `gauge` of an index request the job row is completed;
* that requests not yet issued have touched nothing.

The argument: own steps establish the next stage (`OwnWorks`, `OwnFails`); steps
of others keep it, because the histories only grow and a job row belongs to one
request (`OthersStage`); a restart makes every stage trivial. From `Inv` follow

* `TypeCorrect`: `Spec => []TypeOK`
* `StorageIsFirst`: `Spec => []StorageFirst`
* `ProgressIsBacked`: `Spec => []ProgressBacked`
* `OkIsBacked`: `Spec => []OkMeansIndexed`
* `JobsFollowLifecycle`: `Spec => JobLifecycle`

The two properties that say when the stores agree rest on a common part: a step
disturbs only products its request names (`ApartWorks`, `ApartFails`), and each
step of a request adds to what SQLite and the vectors hold of those (`HasSaved`,
`HasVector`; `OwnProgress`, `OwnEnd`). Each has an invariant of its own on top of
`Inv`.

* `ApartStoresAgree`: `Spec => []ApartAgreement`, for any number of threads. `Apart`
  says that a request in hand was met by every later one (`MeetsLater`), so that
  whoever takes a step is either the request itself or one that does not name the
  product (`NobodyElse`), and what the stores hold of such a product so far.
* `SerialStoresAgree`: `Spec => []SerialAgreement`. `Serial` says that the request
  in hand is the last one received, what the keyword index holds too at each step
  (`InHand`), and that what earlier requests settled still stands, also in the map
  that is about to be served (`SettledAgree`).

`FaissStoreProofs`. `Types` follows which call is at which step with what in hand,
for any threads. Once requests are routed to the process nobody replaces the
index but a `clear`, so a writer has the current one (`Gate`); each of its steps
leaves a known difference between the index and the two dictionaries (`Paired`,
`Reach`, `Done`); what a search has in hand, be it the current index or one a
`clear` has replaced, holds no vector older than the calls that had returned when
it began (`Order`, `Seen`).

* `TypeCorrect`: `Spec => []TypeOK`
* `CallsKeepContract`: `Spec => []CallContract`
* `SearchesFresh`: `Spec => []FreshHits`
* `DictionariesAgree`: `Spec => []MapsAgree`
* `ImplementsInterface`: `Spec => Implements`. Starting a write is `Begin`, the removal
  of old vectors is `Vacate`, adding them to mapped products and each mapping of
  a new one is `Settle`, and so are a removal and the end of a `clear`; returning and
  raising are `Leave`; a crash is `Restart`; all else are stutters.

`Bm25IndexProofs`. Overlapping builds may leave anything; the invariant follows
those that meet no other. Such a build is alone (`Exclusive`), what it has
assigned is still there (`Progress`), so at its end the attributes agree
(`Aligned`); nobody builds while an undisturbed search looks (`Undisturbed`), so
what it holds is of the index as it is (`Found`). `Merge` and `Without` keep lists of
different products.

* `TypeCorrect`: `Spec => []TypeOK`
* `AttributesAligned`: `Spec => []Aligned`
* `CalmSearchesMatch`: `Spec => []CalmSearch`

`RateLimitProofs`. `Mirrors` says the deque is the end of the record and everything
before it has expired; `Ordered` that times do not fall; `Spread` is the bound
itself. Then what the loop leaves in the deque is exactly the set of recent
requests (`Live`, `Decided`), so both sides decide alike.

* `NeverAboveLimit`: `Spec => []WithinLimit`
* `ImplementsPromise`: `Spec => Implements`
* `TypeCorrect`: `Spec => []TypeOK`

`RemoteStoreProofs`. Between two steps of a call nobody can see from `contents`
alone how much of it is done, so the invariant `Inv` adds where a call may stand
with part of its work done (`Staged`: a `clear` of Qdrant after the drop, an
upsert of pgvector between two rows, and no other), who has a client at which
step (`Connected`), that threads still connecting and connections already open
are together no more than the threads (`Bounded`), and that, until a `clear` has
met another call, who drops is alone and a collection that is remembered, or
about to be, is there (`Remembered`).

* `ImplementsInterface`: `Spec => Implements`. Starting a write is `Begin`; a row,
  a batch, a `DELETE`, a `TRUNCATE` and the drop are `Settle`; the end of Qdrant's
  `clear`, which comes while the collection is being ensured, is the `Settle` that
  `LossyClear` allows; returning and raising are `Leave`; a restart is `Restart` with
  the contents kept; reads, connecting and ensuring are stutters.
* `StaysUsable`: `Spec => []Usable`
* `FewConnections`: `Spec => []ConnectionsBounded`
* `TypeCorrect`: `Spec => []TypeOK`

`ServingProofs`. An answered probe was given a vector store and a keyword index,
so a pod that gets requests has both cached (`GateHolds`), and nothing leaves the
cache before a restart. A request of such a pod therefore has the cached stores
(`Supplied`), which are those the answered writes went to (`Kept`). `Bounded` counts
the threads that are inside a provider as `RemoteStoreProofs` counts those that
connect.

* `OwnWritesFound`: `Spec => []FindsOwn`
* `StoresAreShared`: `Spec => []SharedStores`
* `TypeCorrect`: `Spec => []TypeOK`

`FusionProofs`, about two candidate lists of any length. `RrfConsensus`: with at most
`k + 1` candidates in each a product of both lists scores above every product of
one. `RrfPareto`: one that stands before another, or without it, in both lists
scores above it, for any `k`. `WeightedPareto`: so does one that both lists score
higher in the weighted sum, with positive weights. The last is where the zero
of a missing product and the span of zero (all scores equal) matter.

`HybridSearchProofs`. The invariant says how what the search holds was made:
from answers of the indexes the strategy asks (`Sources`), by fusion
(`FromFusion`), from the rows of one moment that has been since the search began
(`Looked`), cut or reranked (`Ordered`). The lemmas are about operators on lists
without repetition: a prefix, a filtered list and a list with its head reordered
put two products in an order the list before had, and hold products it held.

* `TypeCorrect`: `Spec => []TypeOK`
* `AnswersOfOneMoment`: `Spec => []OneMoment`
* `RerankPromotesNone`: `Spec => []NoPromotion`
* `NothingIsHidden`: `Spec => []NothingHidden`
* `ConsensusIsFirst`: `Spec => []ConsensusFirst`
* `BetterIsFirst`: `Spec => []ParetoOrder`

Only model-checked: the liveness properties `RequestsAnswered` and `JobsTerminate`
(fairness and ENABLED are outside the prover's reach), and the counterexamples of
the three runs that end in one.

## Abstractions and what is left out

* Texts, vectors and scores are tags; two texts are equal or not. Embedding a
  product is deterministic in its text.
* A FAISS call is atomic, and the 60-bit ids of two products differ. A second
  probe that overlaps the first may create another index while both still find
  none; behind the gate the run and the proofs have one thread that counts.
* The remote server serves a request atomically, refuses any, and loses any
  answer. That a dead pgvector connection is refused ever after is included in
  that, and no property says otherwise; psycopg serialises the calls that share
  a connection. `LossyClear` is granted to both remote backends.
* `Serving` has stores that know which writes they were given; how a write and a
  search work on a store is the matter of the other modules. The SQLite volume
  is not composed with the replicas.
* Floats are fractions; rounding is left out, ties are not.
* `HybridSearch` does not tie the indexes' answers to the catalog: an answer may
  be stale, empty or wrong. What holds of a search holds for every index whose
  answers name a product once, in descending order: Qdrant, pgvector, BM25, and
  FAISS while no batch has named a product twice.
* The reranker returns its candidates in any order.
* An SQLite method is one transaction; nothing is lost that it committed.
* In the pipeline, the attributes of the BM25 index other than the served map
  are left to `Bm25Index`.

### Not modelled

* The GET routes: each reads one table and changes nothing.
* Authentication (a comparison of tokens), the audit middleware and logging
  (records after the fact), metrics other than `CATALOG_SIZE`.
* Settings and schemas: constants and validation of fields; where a limit matters
  it is a constant of a module.
* The user interface: callbacks that post once and render the answer. Its
  time limit of 120 seconds makes users post a job again; what the API makes of a
  request that comes twice is in `IndexingPipeline`, with ids given by the caller.
* The values of embeddings and of the cross-encoder, and how models load, except
  that loading may raise.
* Compose file, images, secrets, volumes, resource limits.

## Plan

Done: `IndexingPipeline` and its proofs first, as everything else serves it; the
rate limiter with its refinement; the two indexes; fusion and search; then the
interface `VectorStore` with both of its implementations, files and crashes of
FAISS, overlapping builds and `clear` of BM25, the remote stores with their
refinement proved, the providers and pods with theirs, and last the proofs for
FAISS, BM25, search and the agreement of the stores.

What is left:

1. `CatalogSpec`: an abstract catalog in which a request takes effect at once;
   `IndexingPipeline` with one worker and no fault shown to implement it, on the
   invariant `Serial`.
2. What a search may assume of an index as one statement (`Answers`), with
   `Bm25Index`, and `FaissStore` for lists without repetitions, shown to keep to it.
