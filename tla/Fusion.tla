-------------------------------- MODULE Fusion --------------------------------
(***************************************************************************)
(* The two fusion strategies of services/retrieval/fusion.py.  A candidate *)
(* list is a sequence of <<product, score>>, best first, each product once *)
(* (FaissStore shows when its store keeps to that).  Fused scores are      *)
(* exact fractions <<numerator, denominator>> where the code has floats.   *)
(***************************************************************************)
EXTENDS Integers, Sequences

CONSTANTS
    RrfK,                        \* RRF_K
    VectorWeight, KeywordWeight  \* weights of the sum, in one common unit

ASSUME FusionAssumption == RrfK \in Nat /\ VectorWeight \in Nat /\ KeywordWeight \in Nat

Products(list) == {list[i][1] : i \in DOMAIN list}

\* enumerate(..., start=1): the place of product p in a list that holds it.
RankOf(list, p) == CHOOSE i \in DOMAIN list : list[i][1] = p
ScoreOf(list, p) == list[RankOf(list, p)][2]

Zero == <<0, 1>>
Plus(a, b) == <<a[1] * b[2] + b[1] * a[2], a[2] * b[2]>>
Times(n, a) == <<n * a[1], a[2]>>
Greater(a, b) == a[1] * b[2] > b[1] * a[2]

\* 1 / (k + rank), nothing for a list without the product.
Reciprocal(list, p) ==
    IF p \in Products(list) THEN <<1, RrfK + RankOf(list, p)>> ELSE Zero

\* Mutant: only the better of the two ranks counts.
RrfBest(vector, keyword, p) ==
    IF Greater(Reciprocal(vector, p), Reciprocal(keyword, p))
    THEN Reciprocal(vector, p) ELSE Reciprocal(keyword, p)

Rrf(vector, keyword, p) == Plus(Reciprocal(vector, p), Reciprocal(keyword, p))

\* Mutant: the worst candidate is normalised to one.
MinMaxReversed(list, p) ==
    LET scores == {list[i][2] : i \in DOMAIN list}
        lo == CHOOSE s \in scores : \A other \in scores : s <= other
        hi == CHOOSE s \in scores : \A other \in scores : s >= other
    IN IF p \notin Products(list) THEN Zero
       ELSE IF hi = lo THEN <<1, 1>> ELSE <<hi - ScoreOf(list, p), hi - lo>>

\* _min_max_normalize, with 0 for a list without the product.
MinMax(list, p) ==
    LET scores == {list[i][2] : i \in DOMAIN list}
        lo == CHOOSE s \in scores : \A other \in scores : s <= other
        hi == CHOOSE s \in scores : \A other \in scores : s >= other
    IN IF p \notin Products(list) THEN Zero
       ELSE IF hi = lo THEN <<1, 1>> ELSE <<ScoreOf(list, p) - lo, hi - lo>>

WeightedSum(vector, keyword, p) ==
    Plus(Times(VectorWeight, MinMax(vector, p)), Times(KeywordWeight, MinMax(keyword, p)))
=============================================================================
