------------------------- MODULE MCIndexingPipeline -------------------------
(***************************************************************************)
(* Small instances of IndexingPipeline for TLC.                            *)
(***************************************************************************)
EXTENDS IndexingPipeline, TLC

CONSTANTS p1, p2

\* A list of two batches (with BatchSize 1), and a list that leaves out a
\* product another request may own.
SomeCatalogs == {<<p1, p2>>, <<p2>>}

\* Lists of no, half a, one, and one and a half batches (with BatchSize 2); the
\* last names a product twice.
PairCatalogs == {<<>>, <<p1>>, <<p1, p2>>, <<p2, p1, p2>>}

\* Threads of the pool are interchangeable.
WorkerSymmetry == Permutations(Workers)
=============================================================================
