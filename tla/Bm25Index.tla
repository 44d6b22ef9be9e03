------------------------------ MODULE Bm25Index ------------------------------
(***************************************************************************)
(* BM25KeywordIndex (services/retrieval/bm25_index.py) shared by threads   *)
(* that rebuild it and threads that search it.  Each assignment or read of *)
(* an attribute is a step: the index has three of them and no lock.        *)
(*                                                                         *)
(* One query is considered.  A text matches it, does not, or is blank: it  *)
(* has no token at all.  A document is a pair <<product, text>>.           *)
(***************************************************************************)
EXTENDS Integers, SequencesExt

CONSTANTS
    Builders, Searchers,   \* threads; one may be both
    ProductIds,
    Texts,                 \* subset of {"match", "other", "blank"}
    Catalogs,              \* lists a full indexing may pass to build
    TopK,                  \* hits a search asks for
    MaxCalls               \* bound: builds and searches in a behaviour

Threads == Builders \cup Searchers
Documents == ProductIds \X Texts

\* Lists of documents of different products, as storage and dictionaries give.
Corpora ==
    {docs \in UNION {[1..n -> Documents] : n \in 0..Cardinality(ProductIds)} :
        \A i, j \in DOMAIN docs : docs[i][1] = docs[j][1] => i = j}

ASSUME IndexAssumption ==
    /\ Texts \subseteq {"match", "other", "blank"}
    /\ TopK \in Nat /\ MaxCalls \in Nat
    /\ IsFiniteSet(ProductIds)
    /\ Catalogs \subseteq Corpora

VARIABLES
    bm25,       \* _bm25: the documents its statistics are over; <<>> is None
    ids,        \* _product_ids
    byId,       \* _products_by_id, in insertion order
    calls,      \* calls started so far
    pc,         \* per thread: next step
    products,   \* per builder: the argument of build
    positions,  \* per searcher: positions with a positive score, to be named
    hits,       \* per searcher: products named so far
    calm,       \* history: the call met no build but its own
    sound       \* history: the last build to end was calm and raised no error

shared  == <<bm25, ids, byId>>
local   == <<products, positions, hits>>
history == <<calm, sound>>
vars == <<shared, calls, pc, local, history>>

ElementsOf(docs) == {docs[i] : i \in DOMAIN docs}
Keys(docs) == [i \in DOMAIN docs |-> docs[i][1]]
BuildSteps == {"assign", "order", "score", "clear", "clearIds", "clearProducts"}
SearchSteps == {"check", "rank", "name", "found", "failed"}
Building == {t \in Builders : pc[t] \in BuildSteps}
Searching == {t \in Searchers : pc[t] \in SearchSteps}
Goto(t, step) == pc' = [pc EXCEPT ![t] = step]

Init ==
    /\ bm25 = <<>> /\ ids = <<>> /\ byId = <<>>
    /\ calls = 0
    /\ pc = [t \in Threads |-> "idle"]
    /\ products = [t \in Threads |-> <<>>]
    /\ positions = [t \in Threads |-> {}]
    /\ hits = [t \in Threads |-> {}]
    /\ calm = [t \in Threads |-> TRUE]
    /\ sound = TRUE

-----------------------------------------------------------------------------
\* Mutant: a product that is there already is put at the end as well.
MergeAppends(docs, p, text) == Append(docs, <<p, text>>)

\* The documents with that of product p replaced in place, or put at the end.
Merge(docs, p, text) ==
    IF \E i \in DOMAIN docs : docs[i][1] = p
    THEN [i \in DOMAIN docs |-> IF docs[i][1] = p THEN <<p, text>> ELSE docs[i]]
    ELSE Append(docs, <<p, text>>)

\* The documents but that of product p, if there is one.
Without(docs, p) ==
    IF \E i \in DOMAIN docs : docs[i][1] = p
    THEN RemoveAt(docs, CHOOSE i \in DOMAIN docs : docs[i][1] = p)
    ELSE docs

\* build(argument) or clear() is entered.
Enter(t, argument, step) ==
    /\ pc[t] = "idle" /\ calls < MaxCalls
    /\ calls' = calls + 1
    /\ products' = [products EXCEPT ![t] = argument]
    /\ calm' = [u \in Threads |->
          IF u = t THEN Building = {} ELSE calm[u] /\ u \notin Building \cup Searching]
    /\ Goto(t, step)
    /\ UNCHANGED <<shared, positions, hits, sound>>

Build(t) == \E docs \in Catalogs : Enter(t, docs, "assign")
Upsert(t) == \E p \in ProductIds, text \in Texts : Enter(t, Merge(byId, p, text), "assign")
Delete(t) == \E p \in ProductIds : Enter(t, Without(byId, p), "assign")
Clear(t) == Enter(t, <<>>, "clear")

AssignProducts(t) ==
    /\ pc[t] = "assign"
    /\ byId' = products[t]
    /\ Goto(t, "order")
    /\ UNCHANGED <<bm25, ids, calls, local, history>>

\* The keys of the attribute as it is now, not of the argument.
AssignIds(t) ==
    /\ pc[t] = "order"
    /\ ids' = Keys(byId)
    /\ Goto(t, "score")
    /\ UNCHANGED <<bm25, byId, calls, local, history>>

\* build returns or raises.
Leave(t) ==
    /\ products' = [products EXCEPT ![t] = <<>>]
    /\ calm' = [calm EXCEPT ![t] = TRUE]
    /\ Goto(t, "idle")
    /\ UNCHANGED <<calls, positions, hits>>

Tokenless(docs) == docs # <<>> /\ \A i \in DOMAIN docs : docs[i][2] = "blank"

\* Mutant: an empty corpus leaves the statistics of the last one.
AssignStatisticsKeeps(t) ==
    /\ pc[t] = "score" /\ ~Tokenless(products[t])
    /\ bm25' = IF products[t] = <<>> THEN bm25 ELSE products[t]
    /\ sound' = calm[t]
    /\ Leave(t)
    /\ UNCHANGED <<ids, byId>>

\* BM25Okapi over the argument, or None when it is empty.
AssignStatistics(t) ==
    /\ pc[t] = "score" /\ ~Tokenless(products[t])
    /\ bm25' = products[t]
    /\ sound' = calm[t]
    /\ Leave(t)
    /\ UNCHANGED <<ids, byId>>

\* BM25Okapi divides by its number of terms: KeywordIndexError, with the other
\* two attributes replaced already.
BuildFails(t) ==
    /\ pc[t] = "score" /\ Tokenless(products[t])
    /\ sound' = FALSE
    /\ Leave(t)
    /\ UNCHANGED shared

\* clear takes the statistics away first, so that searches stop before the ids go.
ClearStatistics(t) ==
    /\ pc[t] = "clear"
    /\ bm25' = <<>>
    /\ Goto(t, "clearIds")
    /\ UNCHANGED <<ids, byId, calls, local, history>>

ClearIds(t) ==
    /\ pc[t] = "clearIds"
    /\ ids' = <<>>
    /\ Goto(t, "clearProducts")
    /\ UNCHANGED <<bm25, byId, calls, local, history>>

ClearProducts(t) ==
    /\ pc[t] = "clearProducts"
    /\ byId' = <<>>
    /\ sound' = calm[t]
    /\ Leave(t)
    /\ UNCHANGED <<bm25, ids>>

-----------------------------------------------------------------------------
Search(t) ==
    /\ pc[t] = "idle" /\ calls < MaxCalls
    /\ calls' = calls + 1
    /\ calm' = [calm EXCEPT ![t] = Building = {}]
    /\ Goto(t, "check")
    /\ UNCHANGED <<shared, local, sound>>

\* An index that was never built, or is empty, answers with no hits.
CheckBuilt(t) ==
    /\ pc[t] = "check"
    /\ Goto(t, IF bm25 = <<>> THEN "found" ELSE "rank")
    /\ UNCHANGED <<shared, calls, local, history>>

\* rank_bm25, one query term held by n of N documents: its weight is positive
\* when 2n < N, zero when 2n = N; above, it is a share of the mean weight of all
\* terms of the corpus, of either sign.
Matching(docs) == {i \in DOMAIN docs : docs[i][2] = "match"}
Positive(docs) ==
    LET n == 2 * Cardinality(Matching(docs)) IN
    IF n < Len(docs) THEN {Matching(docs)}
    ELSE IF n = Len(docs) THEN {{}}
    ELSE {Matching(docs), {}}

\* The TopK best positions; the attribute is read again, and None has no
\* get_scores.
Rank(t) ==
    /\ pc[t] = "rank"
    /\ IF bm25 = <<>>
       THEN Goto(t, "failed") /\ UNCHANGED positions
       ELSE /\ \E positive \in Positive(bm25) : \E best \in SUBSET positive :
                  /\ best = positive \/ Cardinality(best) = TopK
                  /\ Cardinality(best) <= TopK
                  /\ positions' = [positions EXCEPT ![t] = best]
            /\ Goto(t, "name")
    /\ UNCHANGED <<shared, calls, products, hits, history>>

\* Mutant: positions are counted from one.
NameShifted(t) ==
    /\ pc[t] = "name"
    /\ IF positions[t] = {}
       THEN Goto(t, "found") /\ UNCHANGED <<positions, hits>>
       ELSE \E i \in positions[t] :
            IF i + 1 \in DOMAIN ids
            THEN /\ hits' = [hits EXCEPT ![t] = @ \cup {ids[i + 1]}]
                 /\ positions' = [positions EXCEPT ![t] = @ \ {i}]
                 /\ UNCHANGED pc
            ELSE Goto(t, "failed") /\ UNCHANGED <<positions, hits>>
    /\ UNCHANGED <<shared, calls, products, history>>

\* self._product_ids[i], read anew for every hit.
Name(t) ==
    /\ pc[t] = "name"
    /\ IF positions[t] = {}
       THEN Goto(t, "found") /\ UNCHANGED <<positions, hits>>
       ELSE \E i \in positions[t] :
            IF i \in DOMAIN ids
            THEN /\ hits' = [hits EXCEPT ![t] = @ \cup {ids[i]}]
                 /\ positions' = [positions EXCEPT ![t] = @ \ {i}]
                 /\ UNCHANGED pc
            ELSE Goto(t, "failed") /\ UNCHANGED <<positions, hits>>
    /\ UNCHANGED <<shared, calls, products, history>>

\* The hits are returned, or KeywordIndexError leaves search.
Answer(t) ==
    /\ pc[t] \in {"found", "failed"}
    /\ Goto(t, "idle")
    /\ positions' = [positions EXCEPT ![t] = {}]
    /\ hits' = [hits EXCEPT ![t] = {}]
    /\ calm' = [calm EXCEPT ![t] = TRUE]
    /\ UNCHANGED <<shared, calls, products, sound>>

Next ==
    \/ \E t \in Builders :
          \/ Build(t) \/ Upsert(t) \/ Delete(t) \/ AssignProducts(t)
          \/ AssignIds(t) \/ AssignStatistics(t) \/ BuildFails(t)
          \/ Clear(t) \/ ClearStatistics(t) \/ ClearIds(t) \/ ClearProducts(t)
    \/ \E t \in Searchers :
          Search(t) \/ CheckBuilt(t) \/ Rank(t) \/ Name(t) \/ Answer(t)

Spec == Init /\ [][Next]_vars

-----------------------------------------------------------------------------
Orders == {Keys(docs) : docs \in Corpora}

\* Every variable has its type, and no list names a product twice.
TypeOK ==
    /\ bm25 \in Corpora /\ byId \in Corpora
    /\ ids \in Orders
    /\ calls \in 0..MaxCalls
    /\ pc \in [Threads -> {"idle"} \cup BuildSteps \cup SearchSteps]
    /\ products \in [Threads -> Corpora]
    /\ positions \in [Threads -> SUBSET (1..Cardinality(ProductIds))]
    /\ hits \in [Threads -> SUBSET ProductIds]
    /\ calm \in [Threads -> BOOLEAN] /\ sound \in BOOLEAN

\* One undisturbed and successful build repairs whatever builds that overlapped or
\* failed had left: the three attributes describe the same documents in the same
\* order until the next build comes.
Aligned == Building = {} /\ sound => bm25 = byId /\ ids = Keys(bm25)

\* A search that met no build and found a sound index does not fail and names
\* only products whose text matches.
CalmSearch ==
    \A t \in Searchers :
        calm[t] /\ sound =>
           /\ pc[t] # "failed"
           /\ hits[t] \subseteq {doc[1] : doc \in {d \in ElementsOf(byId) : d[2] = "match"}}
=============================================================================
