------------------------------ MODULE FaissStore ------------------------------
(***************************************************************************)
(* FAISSVectorStore (services/vectorstore/faiss_store.py), at the level    *)
(* where the threads that share it interleave: one FAISS call, or one read *)
(* or write of its two dictionaries, is a step.  A FAISS call is taken to  *)
(* be atomic.  The FAISS id of a product is a 60-bit hash of product_id;   *)
(* collisions are left out, so ids are product ids and each dictionary is  *)
(* the set of its keys.                                                    *)
(*                                                                         *)
(* A vector is <<product, call, position>>: the call that stored it stands *)
(* for its content, the position in the call's list tells two vectors of   *)
(* one call apart.  Neither the catalog route nor the pipeline takes a     *)
(* repeated product out of a batch, so a list may name one twice.          *)
(*                                                                         *)
(* Writers of the same store overwrite each other's changes when they meet *)
(* on a product; the properties are about one writer at a time, searches   *)
(* going on beside it.                                                     *)
(***************************************************************************)
EXTENDS Integers, Sequences, FiniteSets

CONSTANTS
    Writers, Readers,  \* threads in upsert, delete, clear; in search, save
    Probers,           \* threads that answer the readiness probe, in count
    ProductIds,
    Lists,             \* product lists the pipeline may pass to upsert
    TopK,              \* hits a search asks for
    Gated,             \* TRUE: traffic waits for the readiness probe, which counts
    Faults,            \* TRUE: a FAISS call may raise
    MaxCalls,          \* bound: calls in a behaviour
    MaxCrashes         \* bound: restarts of the process

Threads == Writers \cup Readers \cup Probers
Calls == 1..MaxCalls
Handles == 1..Cardinality(Threads) + 1  \* index objects; 0 is None

ASSUME StoreAssumption ==
    /\ IsFiniteSet(Threads) /\ Threads # {}
    /\ Lists \subseteq Seq(ProductIds) \ {<<>>}
    /\ TopK \in Nat /\ MaxCalls \in Nat /\ MaxCrashes \in Nat
    /\ Gated \in BOOLEAN /\ Faults \in BOOLEAN

VARIABLES
    ready,       \* requests are routed to the process: the probe was answered
    index,       \* the vectors of every index object in use
    current,     \* _index
    idToProduct, \* keys of _id_to_product
    productToId, \* keys of _product_to_id
    image, imageWhole,  \* index.faiss: its vectors; FALSE: none, or part of one
    savedIds, mapFile,  \* id_map.json: its keys; "none", "part" or "whole"
    calls, crashes,     \* so far
    pc, op, list, call,  \* per thread: next step, and the call it makes
    handle,      \* per thread: the local "index"
    existing,    \* per thread: existing_ids / ids_to_remove
    at,          \* per thread: position of the loop over the list
    hits,        \* per thread: what FAISS found, then what search returns
    sound,       \* history: the files last loaded agreed (Agree), and when requests
                 \* began to come there was an index
    latest,      \* history: per product, the last call that ended without error
    floor        \* history: latest, as it was when the thread's search started

store   == <<ready, index, current>>
maps    == <<idToProduct, productToId>>
files   == <<image, imageWhole, savedIds, mapFile>>
request == <<op, list, call, calls, crashes>>
local   == <<handle, existing, at, hits>>
history == <<sound, latest, floor>>
vars == <<store, maps, files, pc, request, local, history>>

\* The state of a thread between calls.
Rest(value) == [t \in Threads |-> value]
NoIndex == [h \in Handles |-> {}]
NoCalls == [p \in ProductIds |-> 0]

Init ==
    /\ ready = ~Gated
    /\ index = NoIndex /\ current = 0 /\ idToProduct = {} /\ productToId = {}
    /\ image = {} /\ imageWhole = FALSE /\ savedIds = {} /\ mapFile = "none"
    /\ calls = 0 /\ crashes = 0
    /\ pc = Rest("idle") /\ op = Rest("none") /\ list = Rest(<<>>) /\ call = Rest(0)
    /\ handle = Rest(0) /\ existing = Rest({}) /\ at = Rest(1) /\ hits = Rest({})
    /\ sound = TRUE /\ latest = NoCalls /\ floor = Rest(NoCalls)

-----------------------------------------------------------------------------
Named(products) == {products[i] : i \in DOMAIN products}
Subject(kind, products) == IF kind = "clear" THEN ProductIds ELSE Named(products)
Vectors(p) == IF current = 0 THEN {} ELSE {v \in index[current] : v[1] = p}
Goto(t, step) == pc' = [pc EXCEPT ![t] = step]

\* An index object nobody has in hand.
Unused == CHOOSE h \in Handles : h # current /\ \A t \in Threads : handle[t] # h

Start(t, kind, products) ==
    /\ pc[t] = "idle" /\ calls < MaxCalls
    /\ ready \/ kind = "count"
    /\ calls' = calls + 1
    /\ op' = [op EXCEPT ![t] = kind]
    /\ list' = [list EXCEPT ![t] = products]
    /\ call' = [call EXCEPT ![t] = calls']
    /\ floor' = [floor EXCEPT ![t] = latest]
    /\ Goto(t, IF kind = "clear" THEN "replace" ELSE "getIndex")
    /\ UNCHANGED <<store, maps, files, local, crashes, sound, latest>>

\* _get_index returns the index there is; the first check may find none.
GetIndex(t) ==
    /\ pc[t] = "getIndex"
    /\ IF current = 0
       THEN Goto(t, "create") /\ UNCHANGED handle
       ELSE /\ handle' = [handle EXCEPT ![t] = current]
            /\ Goto(t, CASE op[t] = "search" -> "search"
                         [] op[t] = "count" -> "end"
                         [] op[t] = "save" -> "saveIndex"
                         [] OTHER -> "existing")
    /\ UNCHANGED <<store, maps, files, request, existing, at, hits, history>>

Replace ==
    /\ current' = Unused
    /\ index' = [index EXCEPT ![current'] = {}]

\* It creates one, assigns it and reads the attribute again to return it.  Two
\* first calls may both come here: the later assignment wins, and what the other
\* index holds is lost.
CreateIndex(t) ==
    /\ pc[t] = "create"
    /\ Replace
    /\ Goto(t, "getIndex")
    /\ UNCHANGED <<ready, maps, files, request, local, history>>

\* Mutant: upsert does not look for vectors of an earlier call.
FindNone(t) ==
    /\ pc[t] = "existing"
    /\ existing' = [existing EXCEPT ![t] =
          IF op[t] = "upsert" THEN {} ELSE Named(list[t]) \cap productToId]
    /\ Goto(t, IF existing'[t] # {} THEN "remove"
               ELSE IF op[t] = "upsert" THEN "add" ELSE "end")
    /\ UNCHANGED <<store, maps, files, request, handle, at, hits, history>>

\* The ids to take out first: none, and a delete returns at once.
Find(t) ==
    /\ pc[t] = "existing"
    /\ existing' = [existing EXCEPT ![t] = Named(list[t]) \cap productToId]
    /\ Goto(t, IF existing'[t] # {} THEN "remove"
               ELSE IF op[t] = "upsert" THEN "add" ELSE "end")
    /\ UNCHANGED <<store, maps, files, request, handle, at, hits, history>>

\* remove_ids: every vector under one of the ids.
Remove(t) ==
    /\ pc[t] = "remove"
    /\ index' = [index EXCEPT ![handle[t]] = {v \in @ : v[1] \notin existing[t]}]
    /\ Goto(t, IF op[t] = "upsert" THEN "add" ELSE "popProduct")
    /\ UNCHANGED <<ready, current, maps, files, request, local, history>>

\* One vector for each entry of the list.
Added(t) == {<<list[t][i], call[t], i>> : i \in DOMAIN list[t]}

\* add_with_ids adds them whatever is there under their ids: a product the list
\* names twice has two.
Add(t) ==
    /\ pc[t] = "add"
    /\ index' = [index EXCEPT ![handle[t]] = @ \cup Added(t)]
    /\ Goto(t, "mapId")
    /\ UNCHANGED <<ready, current, maps, files, request, local, history>>

MapId(t) ==
    /\ pc[t] = "mapId"
    /\ idToProduct' = idToProduct \cup {list[t][at[t]]}
    /\ Goto(t, "mapProduct")
    /\ UNCHANGED <<store, productToId, files, request, local, history>>

\* Mutant: the loop runs one past the end.
AdvancePast(t, step) ==
    IF at[t] <= Len(list[t])
    THEN at' = [at EXCEPT ![t] = @ + 1] /\ Goto(t, step)
    ELSE UNCHANGED at /\ Goto(t, "end")

\* The loops over the list end with its last product.
Advance(t, step) ==
    IF at[t] < Len(list[t])
    THEN at' = [at EXCEPT ![t] = @ + 1] /\ Goto(t, step)
    ELSE UNCHANGED at /\ Goto(t, "end")

MapProduct(t) ==
    /\ pc[t] = "mapProduct"
    /\ productToId' = productToId \cup {list[t][at[t]]}
    /\ Advance(t, "mapId")
    /\ UNCHANGED <<store, idToProduct, files, request, handle, existing, hits, history>>

\* pop(pid, None): with nothing to pop the id map is left alone.
PopProduct(t) ==
    /\ pc[t] = "popProduct"
    /\ productToId' = productToId \ {list[t][at[t]]}
    /\ IF list[t][at[t]] \in productToId
       THEN UNCHANGED at /\ Goto(t, "popId")
       ELSE Advance(t, "popProduct")
    /\ UNCHANGED <<store, idToProduct, files, request, handle, existing, hits, history>>

PopId(t) ==
    /\ pc[t] = "popId"
    /\ idToProduct' = idToProduct \ {list[t][at[t]]}
    /\ Advance(t, "popProduct")
    /\ UNCHANGED <<store, productToId, files, request, handle, existing, hits, history>>

\* clear: a new index, then both dictionaries.
ClearIndex(t) ==
    /\ pc[t] = "replace" /\ Replace
    /\ Goto(t, "clearIds")
    /\ UNCHANGED <<ready, maps, files, request, local, history>>

ClearMaps(t) ==
    /\ \/ pc[t] = "clearIds" /\ Goto(t, "clearProducts")
          /\ idToProduct' = {} /\ UNCHANGED productToId
       \/ pc[t] = "clearProducts" /\ Goto(t, "end")
          /\ productToId' = {} /\ UNCHANGED idToProduct
    /\ UNCHANGED <<store, files, request, local, history>>

\* min(top_k, ntotal) vectors, the nearest ones.
SearchIndex(t) ==
    /\ pc[t] = "search"
    /\ LET vectors == index[handle[t]] IN
       \E nearest \in SUBSET vectors :
          /\ nearest = vectors \/ Cardinality(nearest) = TopK
          /\ Cardinality(nearest) <= TopK
          /\ hits' = [hits EXCEPT ![t] = nearest]
    /\ Goto(t, "lookup")
    /\ UNCHANGED <<store, maps, files, request, handle, existing, at, history>>

\* Hits whose id has no product are dropped.
Lookup(t) ==
    /\ pc[t] = "lookup"
    /\ hits' = [hits EXCEPT ![t] = {v \in @ : v[1] \in idToProduct}]
    /\ Goto(t, "end")
    /\ UNCHANGED <<store, maps, files, request, handle, existing, at, history>>

\* save: write_index, then the dictionary of ids.
SaveIndex(t) ==
    /\ pc[t] = "saveIndex"
    /\ image' = index[handle[t]] /\ imageWhole' = TRUE
    /\ Goto(t, "saveMap")
    /\ UNCHANGED <<store, maps, savedIds, mapFile, request, local, history>>

SaveMap(t) ==
    /\ pc[t] = "saveMap"
    /\ savedIds' = idToProduct /\ mapFile' = "whole"
    /\ Goto(t, "end")
    /\ UNCHANGED <<store, maps, image, imageWhole, request, local, history>>

Finish(t) ==
    /\ Goto(t, "idle")
    /\ op' = [op EXCEPT ![t] = "none"]
    /\ list' = [list EXCEPT ![t] = <<>>]
    /\ call' = [call EXCEPT ![t] = 0]
    /\ handle' = [handle EXCEPT ![t] = 0]
    /\ existing' = [existing EXCEPT ![t] = {}]
    /\ at' = [at EXCEPT ![t] = 1]
    /\ hits' = [hits EXCEPT ![t] = {}]
    /\ floor' = [floor EXCEPT ![t] = NoCalls]
    /\ UNCHANGED <<index, current, maps, calls, crashes>>

\* The readiness route answers once count has returned.
Return(t) ==
    /\ pc[t] = "end"
    /\ UNCHANGED <<files, sound>>
    /\ ready' = (ready \/ op[t] = "count")
    /\ latest' = [p \in ProductIds |->
          IF p \in Subject(op[t], list[t]) THEN call[t] ELSE latest[p]]
    /\ Finish(t)

\* An import or a constructor of faiss raises, a directory cannot be made, or a call
\* ends in VectorStoreError; the dimensions of the vectors are checked before the
\* first FAISS call, and what earlier calls changed stays changed.  A save may stop
\* with part of a file written.  The readiness route catches what count raises and
\* answers 200 as well: requests may then come to a process without an index.
Fail(t) ==
    /\ Faults
    /\ \/ pc[t] \in {"create", "replace", "remove", "add", "search"} /\ UNCHANGED files
       \/ pc[t] = "getIndex" /\ op[t] # "count" /\ UNCHANGED files
       \/ pc[t] = "existing" /\ op[t] = "upsert" /\ UNCHANGED files
       \/ pc[t] = "saveIndex" /\ imageWhole' = FALSE /\ UNCHANGED <<image, savedIds, mapFile>>
       \/ pc[t] = "saveMap" /\ mapFile' = "part" /\ UNCHANGED <<image, imageWhole, savedIds>>
    /\ ready' = (ready \/ op[t] = "count")
    /\ sound' = (sound /\ (ready' => ready \/ current # 0))
    /\ UNCHANGED latest
    /\ Finish(t)

Saving(step) == \E t \in Threads : pc[t] = step

\* The process ends, and starts again with nothing but the files, one of which may
\* have been half written.
Crash ==
    /\ crashes < MaxCrashes
    /\ crashes' = crashes + 1
    /\ ready' = ~Gated
    /\ index' = NoIndex /\ current' = 0 /\ idToProduct' = {} /\ productToId' = {}
    /\ pc' = Rest("idle") /\ op' = Rest("none") /\ list' = Rest(<<>>) /\ call' = Rest(0)
    /\ handle' = Rest(0) /\ existing' = Rest({}) /\ at' = Rest(1) /\ hits' = Rest({})
    /\ sound' = TRUE /\ latest' = NoCalls /\ floor' = Rest(NoCalls)
    /\ imageWhole' \in {imageWhole} \cup (IF Saving("saveIndex") THEN {FALSE} ELSE {})
    /\ mapFile' \in {mapFile} \cup (IF Saving("saveMap") THEN {"part"} ELSE {})
    /\ UNCHANGED <<image, savedIds, calls>>

\* The saved index has vectors of every product of the dictionary, each product's
\* of one call, and no other.
Agree(ids) ==
    /\ {v[1] : v \in image} = ids
    /\ \A v, other \in image : v[1] = other[1] => v[2] = other[2]

\* Mutant: _product_to_id is not rebuilt.
LoadOneMap ==
    /\ ~ready /\ pc = Rest("idle")
    /\ mapFile # "none" /\ imageWhole
    /\ current' = Unused
    /\ index' = [index EXCEPT ![current'] = image]
    /\ idToProduct' = IF mapFile = "whole" THEN savedIds ELSE idToProduct
    /\ sound' = Agree(idToProduct')
    /\ latest' = NoCalls
    /\ UNCHANGED <<ready, productToId, files, pc, request, local, floor>>

\* load, before requests are routed to the process.  It raises without id_map.json
\* or with part of an index; with part of a map it raises having taken the index.
Load ==
    /\ ~ready /\ pc = Rest("idle")
    /\ mapFile # "none" /\ imageWhole
    /\ current' = Unused
    /\ index' = [index EXCEPT ![current'] = image]
    /\ idToProduct' = IF mapFile = "whole" THEN savedIds ELSE idToProduct
    /\ productToId' = IF mapFile = "whole" THEN savedIds ELSE productToId
    /\ sound' = Agree(idToProduct')
    /\ latest' = NoCalls
    /\ UNCHANGED <<ready, files, pc, request, local, floor>>

Next ==
    \/ \E t \in Writers : \E products \in Lists : Start(t, "upsert", products)
    \/ \E t \in Writers, p \in ProductIds : Start(t, "delete", <<p>>)
    \/ \E t \in Writers : Start(t, "clear", <<>>)
    \/ \E t \in Readers, kind \in {"search", "save"} : Start(t, kind, <<>>)
    \/ \E t \in Probers : Start(t, "count", <<>>)
    \/ \E t \in Threads :
          \/ GetIndex(t) \/ CreateIndex(t) \/ Find(t) \/ Remove(t) \/ Add(t)
          \/ MapId(t) \/ MapProduct(t) \/ PopProduct(t) \/ PopId(t)
          \/ ClearIndex(t) \/ ClearMaps(t)
          \/ SearchIndex(t) \/ Lookup(t) \/ SaveIndex(t) \/ SaveMap(t)
          \/ Return(t) \/ Fail(t)
    \/ Crash \/ Load

Spec == Init /\ [][Next]_vars

-----------------------------------------------------------------------------
\* Every variable has its type; there is an index once requests are routed here,
\* unless it was a count that raised which let them in.
TypeOK ==
    /\ ready \in BOOLEAN
    /\ \A h \in Handles : index[h] \subseteq ProductIds \X Calls \X Nat
    /\ current \in Handles \cup {0}
    /\ Gated /\ ready /\ sound => current # 0
    /\ idToProduct \subseteq ProductIds /\ productToId \subseteq ProductIds
    /\ calls \in 0..MaxCalls /\ crashes \in 0..MaxCrashes
    /\ image \subseteq ProductIds \X Calls \X Nat /\ imageWhole \in BOOLEAN
    /\ savedIds \subseteq ProductIds /\ mapFile \in {"none", "part", "whole"}
    /\ \A t \in Threads :
          /\ op[t] \in {"none", "upsert", "delete", "clear", "search", "count", "save"}
          /\ call[t] \in 0..MaxCalls /\ handle[t] \in Handles \cup {0}
          /\ at[t] \in 1..Len(list[t]) \cup {1}
          /\ hits[t] \subseteq ProductIds \X Calls \X Nat
    /\ \A p \in ProductIds : latest[p] \in 0..MaxCalls

\* VectorStore.upsert "inserts or updates", delete "removes", clear "removes all":
\* when an upsert returns, each of its products has the vectors of this very call,
\* one for each time the list names it (two under one id when a batch repeats it),
\* none of an earlier call, and searches can name it; after the others it has none.
CallContract ==
    \A t \in Writers : sound /\ pc[t] = "end" =>
        \A p \in Subject(op[t], list[t]) :
            IF op[t] = "upsert"
            THEN /\ Vectors(p) = {v \in Added(t) : v[1] = p}
                 /\ p \in idToProduct \cap productToId
            ELSE Vectors(p) = {}

\* A search returns no vector older than the last upsert, delete or clear of its
\* product that had returned before the search started (no stale vector, no deleted
\* product), and never two calls' vectors of a product: what it returns twice, one
\* batch named twice.
FreshHits ==
    \A t \in Readers : sound /\ pc[t] = "end" =>
        \A v \in hits[t] :
            /\ v[2] >= floor[t][v[1]]
            /\ \A other \in hits[t] : other[1] = v[1] => other[2] = v[2]

\* Between calls on a product its two dictionary entries come and go together,
\* and no vector is out of their reach.
MapsAgree ==
    \A p \in ProductIds :
        sound /\ (\A t \in Writers : pc[t] = "idle" \/ p \notin Subject(op[t], list[t])) =>
            /\ p \in idToProduct <=> p \in productToId
            /\ p \notin productToId => Vectors(p) = {}

\* A product has a vector when a search can find and name one.
Content(p) ==
    IF p \in idToProduct /\ Vectors(p) # {} THEN (CHOOSE v \in Vectors(p) : TRUE)[2] ELSE 0

Left(t) ==
    CASE pc[t] \in {"getIndex", "create", "existing", "remove", "add"} -> Named(list[t])
      [] pc[t] = "replace" -> ProductIds
      [] pc[t] \in {"mapId", "mapProduct"} -> Named(list[t]) \ idToProduct
      [] OTHER -> {}

Doing(t) ==
    IF sound /\ op[t] \in {"upsert", "delete", "clear"}
    THEN [op |-> op[t], wants |-> IF op[t] = "upsert" THEN call[t] ELSE 0,
          left |-> Left(t), ok |-> pc[t] = "end"]
    ELSE [op |-> "none", wants |-> 0, left |-> {}, ok |-> FALSE]

\* Behind the readiness gate, to a single caller, FAISS is a VectorStore: no
\* statement of upsert, delete or clear shows searches a state the interface does
\* not allow, and none of their errors leaves one.
Interface == INSTANCE VectorStore WITH
    Callers <- Writers, Versions <- Calls, None <- 0, LossyClear <- FALSE,
    Durable <- FALSE,
    contents <- [p \in ProductIds |-> IF sound THEN Content(p) ELSE 0],
    doing <- [t \in Writers |-> Doing(t)]
Implements == Interface!Spec
=============================================================================
