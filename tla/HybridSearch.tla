----------------------------- MODULE HybridSearch -----------------------------
(***************************************************************************)
(* One search of RetrievalService (services/retrieval/retrieval_service.py)*)
(* while the catalog changes under it.  The two indexes may answer with    *)
(* any list that names a product once, at whatever time they are asked:    *)
(* their contents are the subject of FaissStore, Bm25Index and             *)
(* IndexingPipeline.  What the search makes of the answers is modelled in  *)
(* full.                                                                   *)
(*                                                                         *)
(* A row of the catalog is its brand, which stands for the fields filters  *)
(* look at; "gone" is a product without a row.                             *)
(***************************************************************************)
EXTENDS Fusion, SequencesExt

CONSTANTS
    ProductIds, Brands,
    Queries,           \* SearchQuery objects: [strategy, brand, topK, rerank]
    MaxScore,          \* bound: scores are 1..MaxScore
    VectorCandidates,  \* DEFAULT_VECTOR_CANDIDATES
    KeywordCandidates, \* DEFAULT_KEYWORD_CANDIDATES
    RerankCandidates,  \* DEFAULT_RERANK_CANDIDATES
    RerankerWired,     \* FALSE: as get_retrieval_service builds the service
    Faults,            \* TRUE: a call of the service may raise
    MaxWrites          \* bound: changes of the catalog in a behaviour

Strategies == {"rrf", "weighted_sum", "vector_only", "keyword_only"}
Rows == Brands \cup {"gone"}

ASSUME SearchAssumption ==
    /\ Queries \subseteq [strategy : Strategies, brand : Brands \cup {"any"},
                          topK : Nat \ {0}, rerank : BOOLEAN]
    /\ "gone" \notin Brands /\ "any" \notin Brands
    /\ VectorCandidates \in Nat /\ KeywordCandidates \in Nat
    /\ MaxScore \in Nat /\ RerankCandidates \in Nat \ {0} /\ MaxWrites \in Nat

\* What an index may answer when asked for limit products: at most as many,
\* once each, by descending score.  (FAISS answers a product twice after a batch
\* that named it twice; such answers are left out.)
Answers(limit) ==
    {list \in UNION {[1..n -> ProductIds \X (1..MaxScore)] : n \in 0..limit} :
        \A i, j \in DOMAIN list :
            i < j => list[i][1] # list[j][1] /\ list[i][2] >= list[j][2]}
VectorAnswers == Answers(VectorCandidates)
KeywordAnswers == Answers(KeywordCandidates)

VARIABLES
    catalog,   \* table products
    writes,    \* changes of it so far
    pc,        \* next step of the search
    query,
    vectorHits, keywordHits,
    hydrated,  \* products_by_id
    todo,      \* candidate_ids not looked up yet
    scored,    \* list of ScoredProduct, by product
    results,   \* what the caller gets
    past       \* history: the states of the table since the search started

vars == <<catalog, writes, pc, query, vectorHits, keywordHits, hydrated, todo,
          scored, results, past>>

NoQuery == [strategy |-> "rrf", brand |-> "any", topK |-> 1, rerank |-> FALSE]
NoRows == [p \in ProductIds |-> "gone"]

Init ==
    /\ catalog \in [ProductIds -> Rows] /\ writes = 0
    /\ pc = "idle" /\ query = NoQuery
    /\ vectorHits = <<>> /\ keywordHits = <<>>
    /\ hydrated = NoRows /\ todo = <<>> /\ scored = <<>> /\ results = <<>>
    /\ past = {}

-----------------------------------------------------------------------------
Larger(a, b) == IF a > b THEN a ELSE b
Prefix(list, n) == SubSeq(list, 1, IF n < Len(list) THEN n ELSE Len(list))
Ids(list) == [i \in DOMAIN list |-> list[i][1]]

\* A list of products, each in it once, puts p before q.
Precedes(list, p, q) == \E i, j \in DOMAIN list : i < j /\ list[i] = p /\ list[j] = q

\* [p for p in list if p in kept]: the one order of what is left that is list's.
Filtered(list, kept) ==
    {order \in SetToSeqs(ToSet(list) \cap kept) :
        \A p, q \in kept : Precedes(order, p, q) => Precedes(list, p, q)}

\* The dictionary of fuse_rrf meets p before q: it holds the vector store's ids
\* first, then those that only the keyword index found.
MetBefore(vector, keyword, p, q) ==
    LET first == IF {p, q} \cap Products(vector) # {} THEN vector ELSE keyword
    IN p \in Products(first) /\ (q \in Products(first) => RankOf(first, p) < RankOf(first, q))

\* The orders of the products of two lists by descending fused score.
ByScore(vector, keyword, score) ==
    {order \in SetToSeqs(Products(vector) \cup Products(keyword)) :
        \A i, j \in DOMAIN order : i < j => ~Greater(score[order[j]], score[order[i]])}

\* sorted(..., reverse=True) is stable: equal scores keep the dictionary's order.
FuseRrf(vector, keyword) ==
    LET score == [p \in Products(vector) \cup Products(keyword) |-> Rrf(vector, keyword, p)] IN
    {order \in ByScore(vector, keyword, score) :
        \A i, j \in DOMAIN order :
            i < j => \/ Greater(score[order[i]], score[order[j]])
                     \/ MetBefore(vector, keyword, order[i], order[j])}

\* The weighted sum iterates over a set of strings: ties come in any order.
FuseWeightedSum(vector, keyword) ==
    ByScore(vector, keyword,
        [p \in Products(vector) \cup Products(keyword) |-> WeightedSum(vector, keyword, p)])

\* _fuse: the lists of product ids it may return.
Fused ==
    CASE query.strategy = "rrf" -> FuseRrf(vectorHits, keywordHits)
      [] query.strategy = "weighted_sum" -> FuseWeightedSum(vectorHits, keywordHits)
      [] query.strategy = "vector_only" -> {Ids(vectorHits)}
      [] query.strategy = "keyword_only" -> {Ids(keywordHits)}

\* Mutant: as many are looked up as are reranked, whatever the caller asked for.
CutFixed == RerankCandidates

\* The number of fused products that are hydrated, and at most scored.
Cut == Larger(query.topK, RerankCandidates)

Matches(row) == query.brand = "any" \/ row = query.brand
Shown(row) == row # "gone" /\ Matches(row)

-----------------------------------------------------------------------------
Ask(q) ==
    /\ pc = "idle"
    /\ query' = q
    /\ past' = {catalog}
    /\ pc' = IF q.strategy = "keyword_only" THEN "keyword" ELSE "vector"
    /\ UNCHANGED <<catalog, writes, vectorHits, keywordHits, hydrated, todo, scored, results>>

SearchVectors ==
    /\ pc = "vector"
    /\ vectorHits' \in VectorAnswers
    /\ pc' = IF query.strategy = "vector_only" THEN "fuse" ELSE "keyword"
    /\ UNCHANGED <<catalog, writes, query, keywordHits, hydrated, todo, scored, results, past>>

SearchKeywords ==
    /\ pc = "keyword"
    /\ keywordHits' \in KeywordAnswers
    /\ pc' = "fuse"
    /\ UNCHANGED <<catalog, writes, query, vectorHits, hydrated, todo, scored, results, past>>

\* Fusion is local to the thread; scored holds the fused ids until hydration.
Fuse ==
    /\ pc = "fuse"
    /\ scored' \in Fused
    /\ todo' = Prefix(scored', Cut)
    /\ pc' = "hydrate"
    /\ UNCHANGED <<catalog, writes, query, vectorHits, keywordHits, hydrated, results, past>>

\* Mutant: the candidates are fetched one query at a time.
HydrateOneByOne ==
    /\ pc = "hydrate"
    /\ IF todo = <<>>
       THEN /\ scored' \in Filtered(scored, {p \in ProductIds : Shown(hydrated[p])})
            /\ pc' = "rank"
            /\ UNCHANGED <<todo, hydrated>>
       ELSE /\ hydrated' = [hydrated EXCEPT ![Head(todo)] = catalog[Head(todo)]]
            /\ todo' = Tail(todo)
            /\ UNCHANGED <<scored, pc>>
    /\ UNCHANGED <<catalog, writes, query, vectorHits, keywordHits, results, past>>

\* One SELECT for the candidates; then, in fused order, what has a row among
\* them and passes the filters.
Hydrate ==
    /\ pc = "hydrate"
    /\ hydrated' = [p \in ProductIds |-> IF p \in ToSet(todo) THEN catalog[p] ELSE "gone"]
    /\ scored' \in Filtered(scored, {p \in ProductIds : Shown(hydrated'[p])})
    /\ todo' = <<>>
    /\ pc' = "rank"
    /\ UNCHANGED <<catalog, writes, query, vectorHits, keywordHits, results, past>>

\* Mutant: every fused product is reranked.
RerankAll(list) == SetToSeqs(ToSet(list))

\* Mutant: the slice behind the candidates starts one too early.
RerankOverlaps(list) ==
    {order \o SubSeq(list, RerankCandidates, Len(list)) :
        order \in SetToSeqs(ToSet(Prefix(list, RerankCandidates)))}

\* _apply_rerank: the first candidates in any order the model gives them.
Rerank(list) ==
    {order \o SubSeq(list, RerankCandidates + 1, Len(list)) :
        order \in SetToSeqs(ToSet(Prefix(list, RerankCandidates)))}

Reranks == query.rerank /\ RerankerWired

Rank ==
    /\ pc = "rank"
    /\ \E order \in IF Reranks /\ scored # <<>> THEN Rerank(scored) ELSE {scored} :
          results' = Prefix(order, query.topK)
    /\ pc' = "answered"
    /\ UNCHANGED <<catalog, writes, query, vectorHits, keywordHits, hydrated, todo, scored, past>>

\* Whatever any of the calls raises leaves search as RetrievalError.
Fail ==
    /\ Faults /\ pc \in {"vector", "keyword", "hydrate", "rank"}
    /\ pc' = "failed"
    /\ UNCHANGED <<catalog, writes, query, vectorHits, keywordHits, hydrated, todo, scored,
                   results, past>>

\* The pipeline saves or deletes a row.
Write(p, row) ==
    /\ writes < MaxWrites /\ catalog[p] # row
    /\ writes' = writes + 1
    /\ catalog' = [catalog EXCEPT ![p] = row]
    /\ past' = IF pc = "idle" THEN past ELSE past \cup {catalog'}
    /\ UNCHANGED <<pc, query, vectorHits, keywordHits, hydrated, todo, scored, results>>

Next ==
    \/ \E q \in Queries : Ask(q)
    \/ SearchVectors \/ SearchKeywords \/ Fuse \/ Hydrate \/ Rank \/ Fail
    \/ \E p \in ProductIds, row \in Rows : Write(p, row)

Spec == Init /\ [][Next]_vars

-----------------------------------------------------------------------------
Answered == pc = "answered"
Hits == Products(vectorHits) \cup Products(keywordHits)
Both == Products(vectorHits) \cap Products(keywordHits)

\* Every variable has its type.
TypeOK ==
    /\ catalog \in [ProductIds -> Rows] /\ hydrated \in [ProductIds -> Rows]
    /\ writes \in 0..MaxWrites
    /\ pc \in {"idle", "vector", "keyword", "fuse", "hydrate", "rank", "answered", "failed"}
    /\ vectorHits \in VectorAnswers /\ keywordHits \in KeywordAnswers
    /\ \A list \in {todo, scored, results} : list \in Seq(ProductIds) /\ IsInjective(list)

\* An answer is a view of one moment: at some time during the search all its
\* products were in the catalog as returned, and passed the filters.
OneMoment ==
    Answered => \E moment \in past : \A i \in DOMAIN results :
        hydrated[results[i]] = moment[results[i]] /\ Shown(moment[results[i]])

\* Reranking orders the products fusion selected for it and promotes none from
\* behind them (ADR-004), whether or not the caller asked for more.
NoPromotion ==
    Answered => ToSet(Prefix(results, RerankCandidates))
                  \subseteq ToSet(Prefix(scored, RerankCandidates))

\* A product is left out for a reason: when no more were found than the caller
\* has room for, every one that is not in the answer had, at some time during the
\* search, no row or one that does not pass the filters.
NothingHidden ==
    Answered /\ Cardinality(Hits) <= query.topK =>
        \A p \in Hits \ ToSet(results) :
            \E moment \in past : ~Shown(moment[p])

\* Reciprocal rank fusion: a product found by both retrievers comes before all
\* found by one, wherever they stood in their lists.
ConsensusFirst ==
    Answered /\ query.strategy = "rrf" /\ ~Reranks =>
        \A p \in Both, q \in Hits \ Both : ~Precedes(results, q, p)

\* No fused answer puts a product before one that both retrievers score higher.
Better(list, p, q) ==
    /\ p \in Products(list)
    /\ q \in Products(list) => ScoreOf(list, p) > ScoreOf(list, q)
ParetoOrder ==
    Answered /\ query.strategy \in {"rrf", "weighted_sum"} /\ ~Reranks =>
        \A p, q \in Hits :
            Better(vectorHits, p, q) /\ Better(keywordHits, p, q) => ~Precedes(results, q, p)

=============================================================================
