---------------------------- MODULE MCHybridSearch ----------------------------
(* Queries of every strategy, with and without a filter.                   *)
EXTENDS HybridSearch, TLC

Query(strategy, brand, topK, rerank) ==
    [strategy |-> strategy, brand |-> brand, topK |-> topK, rerank |-> rerank]

FusedQueries ==
    {Query("rrf", "any", 3, FALSE), Query("weighted_sum", "any", 3, FALSE),
     Query("rrf", "acme", 1, TRUE)}
RerankedQueries ==
    {Query("vector_only", "acme", 3, TRUE), Query("vector_only", "any", 1, TRUE),
     Query("keyword_only", "bolt", 2, FALSE)}
SomeQueries == FusedQueries \cup RerankedQueries

\* Bound: fused queries are asked of catalogs that do not change meanwhile (of all
\* of them: any catalog may be the initial one).
Changes == query \in FusedQueries => writes = 0

ProductSymmetry == Permutations(ProductIds)
=============================================================================
