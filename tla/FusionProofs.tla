----------------------------- MODULE FusionProofs -----------------------------
(***************************************************************************)
(* What reciprocal rank fusion and the weighted sum guarantee of the order *)
(* of an answer, for candidate lists of any content and any products.      *)
(***************************************************************************)
EXTENDS Fusion, TLAPS

\* A candidate list: pairs with each product at one position only.
IsCandidateList(list) ==
    /\ DOMAIN list = 1..Len(list) /\ Len(list) \in Nat
    /\ \A i, j \in DOMAIN list : list[i][1] = list[j][1] => i = j

\* A product of a list has a rank within it.
LEMMA RankInList ==
    ASSUME NEW list, IsCandidateList(list), NEW p \in Products(list)
    PROVE  /\ RankOf(list, p) \in 1..Len(list)
           /\ list[RankOf(list, p)][1] = p
<1>1. \E i \in DOMAIN list : list[i][1] = p
  BY DEF Products
<1>2. RankOf(list, p) \in DOMAIN list /\ list[RankOf(list, p)][1] = p
  BY <1>1 DEF RankOf
<1> QED BY <1>2 DEF IsCandidateList

\* Two reciprocals of numbers below 2z add up to more than 1/z, and so to more
\* than the reciprocal of any w >= z.
LEMMA Reciprocals ==
    ASSUME NEW x \in Nat \ {0}, NEW y \in Nat \ {0}, NEW z \in Nat \ {0}, NEW w \in Nat \ {0},
           x < 2 * z, y < 2 * z, z <= w
    PROVE  (x + y) * w > x * y
<1>1. x * y < x * (2 * z)
  OBVIOUS
<1>2. y * x < y * (2 * z)
  OBVIOUS
<1>3. 2 * (x * y) < 2 * (x * z + y * z)
  BY <1>1, <1>2
<1>4. x * y < (x + y) * z
  BY <1>3
<1>5. (x + y) * z <= (x + y) * w
  OBVIOUS
<1> QED BY <1>4, <1>5

\* fuse_rrf: a product found by both retrievers scores above every product that
\* one of them found, wherever the two stand in their lists, as long as the
\* lists are no longer than k + 1 (50 candidates, k = 60).
THEOREM RrfConsensus ==
    ASSUME NEW vector, NEW keyword,
           IsCandidateList(vector), IsCandidateList(keyword),
           Len(vector) <= RrfK + 1, Len(keyword) <= RrfK + 1,
           NEW p \in Products(vector) \cap Products(keyword),
           NEW q \in Products(vector) \cup Products(keyword),
           q \notin Products(vector) \cap Products(keyword)
    PROVE  Greater(Rrf(vector, keyword, p), Rrf(vector, keyword, q))
<1> DEFINE a == RankOf(vector, p)
           b == RankOf(keyword, p)
           x == RrfK + a
           y == RrfK + b
<1>1. RrfK \in Nat /\ Len(vector) \in Nat /\ Len(keyword) \in Nat
  BY FusionAssumption DEF FusionAssumption, IsCandidateList
<1>2. a \in 1..Len(vector) /\ b \in 1..Len(keyword)
  BY RankInList
<1>3. /\ x \in Nat \ {0} /\ y \in Nat \ {0} /\ RrfK + 1 \in Nat \ {0}
      /\ x < 2 * (RrfK + 1) /\ y < 2 * (RrfK + 1)
  BY <1>1, <1>2
<1>4. Rrf(vector, keyword, p) = <<1 * y + 1 * x, x * y>>
  BY DEF Rrf, Reciprocal, Plus
<1>5. PICK w \in Nat \ {0} :
        RrfK + 1 <= w /\ (Rrf(vector, keyword, q) = <<1 * 1 + 0 * w, w * 1>>
                          \/ Rrf(vector, keyword, q) = <<0 * w + 1 * 1, 1 * w>>)
  <2>1. CASE q \in Products(vector) /\ q \notin Products(keyword)
    <3> DEFINE w == RrfK + RankOf(vector, q)
    <3>1. RankOf(vector, q) \in 1..Len(vector)
      BY <2>1, RankInList
    <3>2. w \in Nat \ {0} /\ RrfK + 1 <= w
      BY <1>1, <3>1
    <3>3. Rrf(vector, keyword, q) = <<1 * 1 + 0 * w, w * 1>>
      BY <2>1 DEF Rrf, Reciprocal, Plus, Zero
    <3> QED BY <3>2, <3>3
  <2>2. CASE q \in Products(keyword) /\ q \notin Products(vector)
    <3> DEFINE w == RrfK + RankOf(keyword, q)
    <3>1. RankOf(keyword, q) \in 1..Len(keyword)
      BY <2>2, RankInList
    <3>2. w \in Nat \ {0} /\ RrfK + 1 <= w
      BY <1>1, <3>1
    <3>3. Rrf(vector, keyword, q) = <<0 * w + 1 * 1, 1 * w>>
      BY <2>2 DEF Rrf, Reciprocal, Plus, Zero
    <3> QED BY <3>2, <3>3
  <2> QED BY <2>1, <2>2
<1> HIDE DEF x, y
<1>6. Rrf(vector, keyword, p) = <<x + y, x * y>>
  BY <1>3, <1>4
<1>7. Rrf(vector, keyword, q) = <<1, w>>
  BY <1>5
<1>8. (x + y) * w > x * y
  BY <1>3, <1>5, Reciprocals
<1>9. 1 * (x * y) = x * y
  BY <1>3
<1> QED BY <1>6, <1>7, <1>8, <1>9 DEF Greater
-----------------------------------------------------------------------------
\* The fused scores of the model: fractions that are not negative.
Fractions == Nat \X (Nat \ {0})

\* A candidate list with scores, best first.
IsScoredList(list) ==
    /\ IsCandidateList(list)
    /\ \A i \in DOMAIN list : list[i][2] \in Nat
    /\ \A i, j \in DOMAIN list : i < j => list[i][2] >= list[j][2]

\* A sum grows when one part grows and the other does not shrink.
LEMMA PlusMonotone ==
    ASSUME NEW a \in Fractions, NEW b \in Fractions, NEW c \in Fractions, NEW d \in Fractions,
           Greater(a, c), ~Greater(d, b)
    PROVE  /\ Greater(Plus(a, b), Plus(c, d))
           /\ Greater(Plus(b, a), Plus(d, c))
<1> DEFINE a1 == a[1]  a2 == a[2]  b1 == b[1]  b2 == b[2]
           c1 == c[1]  c2 == c[2]  d1 == d[1]  d2 == d[2]
<1>1. /\ a1 \in Nat /\ b1 \in Nat /\ c1 \in Nat /\ d1 \in Nat
      /\ a2 \in Nat \ {0} /\ b2 \in Nat \ {0} /\ c2 \in Nat \ {0} /\ d2 \in Nat \ {0}
  BY DEF Fractions
<1>2. a1 * c2 > c1 * a2 /\ ~(d1 * b2 > b1 * d2)
  BY DEF Greater
<1>3. /\ Plus(a, b) = <<a1 * b2 + b1 * a2, a2 * b2>> /\ Plus(c, d) = <<c1 * d2 + d1 * c2, c2 * d2>>
      /\ Plus(b, a) = <<b1 * a2 + a1 * b2, b2 * a2>> /\ Plus(d, c) = <<d1 * c2 + c1 * d2, d2 * c2>>
  BY DEF Plus
<1> HIDE DEF a1, a2, b1, b2, c1, c2, d1, d2
<1>4. (a1 * c2) * (b2 * d2) > (c1 * a2) * (b2 * d2)
  <2> DEFINE x == a1 * c2  y == c1 * a2  z == b2 * d2
  <2>1. x \in Nat /\ y \in Nat /\ z \in Nat /\ z > 0
    BY <1>1
  <2>2. x > y
    BY <1>2
  <2> HIDE DEF x, y, z
  <2>3. x * z > y * z
    BY <2>1, <2>2
  <2> QED BY <2>3 DEF x, y, z
<1>5. (b1 * d2) * (a2 * c2) >= (d1 * b2) * (a2 * c2)
  <2> DEFINE x == b1 * d2  y == d1 * b2  z == a2 * c2
  <2>1. x \in Nat /\ y \in Nat /\ z \in Nat
    BY <1>1
  <2>2. x >= y
    BY <1>1, <1>2
  <2> HIDE DEF x, y, z
  <2>3. x * z >= y * z
    BY <2>1, <2>2
  <2> QED BY <2>3 DEF x, y, z
<1>6. (a1 * b2 + b1 * a2) * (c2 * d2) > (c1 * d2 + d1 * c2) * (a2 * b2)
  BY <1>1, <1>4, <1>5
<1>7. (b1 * a2 + a1 * b2) * (d2 * c2) > (d1 * c2 + c1 * d2) * (b2 * a2)
  BY <1>1, <1>4, <1>5
<1> QED BY <1>3, <1>6, <1>7 DEF Greater

\* Sums of fractions are fractions, and so are multiples.
LEMMA FractionsClosed ==
    ASSUME NEW a \in Fractions, NEW b \in Fractions, NEW n \in Nat
    PROVE  /\ Plus(a, b) \in Fractions /\ Times(n, a) \in Fractions
           /\ Zero \in Fractions /\ ~Greater(Zero, a)
<1> DEFINE a1 == a[1]  a2 == a[2]  b1 == b[1]  b2 == b[2]
<1>1. a1 \in Nat /\ b1 \in Nat /\ a2 \in Nat \ {0} /\ b2 \in Nat \ {0}
  BY DEF Fractions
<1>2. Plus(a, b) = <<a1 * b2 + b1 * a2, a2 * b2>> /\ Times(n, a) = <<n * a1, a2>>
  BY DEF Plus, Times
<1> HIDE DEF a1, a2, b1, b2
<1>3. a1 * b2 + b1 * a2 \in Nat /\ a2 * b2 \in Nat /\ a2 * b2 # 0 /\ n * a1 \in Nat
  <2>1. a2 * b2 > 0
    BY <1>1
  <2> QED BY <1>1, <2>1
<1>4. Plus(a, b) \in Fractions /\ Times(n, a) \in Fractions
  BY <1>1, <1>2, <1>3 DEF Fractions
<1>5. Zero \in Fractions /\ ~Greater(Zero, a)
  BY <1>1 DEF Fractions, Zero, Greater, a1, a2
<1> QED BY <1>4, <1>5

\* Multiples keep the order, strictly when they are not multiples of nothing.
LEMMA TimesMonotone ==
    ASSUME NEW a \in Fractions, NEW c \in Fractions, NEW n \in Nat
    PROVE  /\ ~Greater(c, a) => ~Greater(Times(n, c), Times(n, a))
           /\ n > 0 /\ Greater(a, c) => Greater(Times(n, a), Times(n, c))
<1> DEFINE a1 == a[1]  a2 == a[2]  c1 == c[1]  c2 == c[2]
<1>1. a1 \in Nat /\ c1 \in Nat /\ a2 \in Nat /\ c2 \in Nat
  BY DEF Fractions
<1>2. Times(n, a) = <<n * a1, a2>> /\ Times(n, c) = <<n * c1, c2>>
  BY DEF Times
<1> HIDE DEF a1, a2, c1, c2
<1>3. (n * a1) * c2 = n * (a1 * c2) /\ (n * c1) * a2 = n * (c1 * a2)
  BY <1>1
<1> DEFINE x == a1 * c2  y == c1 * a2
<1>4. x \in Nat /\ y \in Nat
  BY <1>1
<1>5. /\ (Greater(a, c) <=> x > y) /\ (Greater(c, a) <=> y > x)
      /\ (Greater(Times(n, a), Times(n, c)) <=> n * x > n * y)
      /\ (Greater(Times(n, c), Times(n, a)) <=> n * y > n * x)
  BY <1>2, <1>3 DEF Greater, a1, a2, c1, c2
<1> HIDE DEF x, y
<1>6. ~(y > x) => ~(n * y > n * x)
  BY <1>4
<1>7. n > 0 /\ x > y => n * x > n * y
  BY <1>4
<1> QED BY <1>5, <1>6, <1>7

\* In a scored list the better product stands first.
LEMMA BetterIsBefore ==
    ASSUME NEW list, IsScoredList(list), NEW p \in Products(list), NEW q \in Products(list),
           ScoreOf(list, p) > ScoreOf(list, q)
    PROVE  RankOf(list, p) < RankOf(list, q)
<1>1. RankOf(list, p) \in 1..Len(list) /\ RankOf(list, q) \in 1..Len(list) /\ Len(list) \in Nat
  BY RankInList DEF IsScoredList, IsCandidateList
<1>2. DOMAIN list = 1..Len(list)
  BY DEF IsScoredList, IsCandidateList
<1>3. ScoreOf(list, p) \in Nat /\ ScoreOf(list, q) \in Nat
  BY <1>1, <1>2 DEF ScoreOf, IsScoredList
<1>4. CASE RankOf(list, q) < RankOf(list, p)
  <2>1. ScoreOf(list, q) >= ScoreOf(list, p)
    BY <1>1, <1>2, <1>4 DEF ScoreOf, IsScoredList
  <2> QED BY <1>3, <2>1
<1>5. CASE RankOf(list, q) = RankOf(list, p)
  <2>1. ScoreOf(list, q) = ScoreOf(list, p)
    BY <1>5 DEF ScoreOf
  <2> QED BY <1>3, <2>1
<1> QED BY <1>1, <1>4, <1>5

\* What a list adds under RRF to the score of one that stands before another, or
\* in a list without the other, is more.
LEMMA ReciprocalOrder ==
    ASSUME NEW list, IsCandidateList(list), NEW p \in Products(list), NEW q,
           q \in Products(list) => RankOf(list, p) < RankOf(list, q)
    PROVE  /\ Reciprocal(list, p) \in Fractions /\ Reciprocal(list, q) \in Fractions
           /\ Greater(Reciprocal(list, p), Reciprocal(list, q))
<1>1. RrfK \in Nat /\ Len(list) \in Nat
  BY FusionAssumption DEF FusionAssumption, IsCandidateList
<1>2. RankOf(list, p) \in 1..Len(list)
  BY RankInList
<1>3. Reciprocal(list, p) = <<1, RrfK + RankOf(list, p)>>
  BY DEF Reciprocal
<1>4. CASE q \in Products(list)
  <2>1. RankOf(list, q) \in 1..Len(list)
    BY <1>4, RankInList
  <2>2. Reciprocal(list, q) = <<1, RrfK + RankOf(list, q)>>
    BY <1>4 DEF Reciprocal
  <2> QED BY <1>1, <1>2, <1>3, <1>4, <2>1, <2>2 DEF Fractions, Greater
<1>5. CASE q \notin Products(list)
  <2>1. Reciprocal(list, q) = <<0, 1>>
    BY <1>5 DEF Reciprocal, Zero
  <2> QED BY <1>1, <1>2, <1>3, <2>1 DEF Fractions, Greater
<1> QED BY <1>4, <1>5

\* _min_max_normalize of a list keeps the order of its products' scores, and puts
\* no product of the list below one that is not in it.
LEMMA MinMaxOrder ==
    ASSUME NEW list, IsScoredList(list), NEW p \in Products(list), NEW q,
           q \in Products(list) => ScoreOf(list, p) > ScoreOf(list, q)
    PROVE  /\ MinMax(list, p) \in Fractions /\ MinMax(list, q) \in Fractions
           /\ ~Greater(MinMax(list, q), MinMax(list, p))
           /\ q \in Products(list) => Greater(MinMax(list, p), MinMax(list, q))
<1> DEFINE scores == {list[i][2] : i \in DOMAIN list}
           lo == CHOOSE s \in scores : \A other \in scores : s <= other
           hi == CHOOSE s \in scores : \A other \in scores : s >= other
<1>1. Len(list) \in Nat /\ DOMAIN list = 1..Len(list) /\ RankOf(list, p) \in 1..Len(list)
  BY RankInList DEF IsScoredList, IsCandidateList
<1>2. scores \subseteq Nat
  BY DEF IsScoredList
<1>3. lo \in scores /\ \A other \in scores : lo <= other
  <2>1. list[Len(list)][2] \in scores
    BY <1>1
  <2>2. \A i \in DOMAIN list : list[Len(list)][2] <= list[i][2]
    BY <1>1 DEF IsScoredList
  <2>3. \A other \in scores : list[Len(list)][2] <= other
    BY <2>2
  <2> HIDE DEF scores
  <2> QED BY <2>1, <2>3
<1>4. hi \in scores /\ \A other \in scores : hi >= other
  <2>1. list[1][2] \in scores
    BY <1>1
  <2>2. \A i \in DOMAIN list : list[1][2] >= list[i][2]
    BY <1>1 DEF IsScoredList
  <2>3. \A other \in scores : list[1][2] >= other
    BY <2>2
  <2> HIDE DEF scores
  <2> QED BY <2>1, <2>3
<1>5. ScoreOf(list, p) \in scores
  BY <1>1 DEF ScoreOf
<1>6. MinMax(list, p) = IF hi = lo THEN <<1, 1>> ELSE <<ScoreOf(list, p) - lo, hi - lo>>
  BY DEF MinMax
<1>7. ScoreOf(list, p) \in Nat /\ lo \in Nat /\ hi \in Nat
      /\ lo <= ScoreOf(list, p) /\ ScoreOf(list, p) <= hi
  BY <1>2, <1>3, <1>4, <1>5
<1>8. CASE q \in Products(list)
  <2>1. ScoreOf(list, q) \in scores
    <3>1. RankOf(list, q) \in 1..Len(list)
      BY <1>8, RankInList DEF IsScoredList
    <3> QED BY <1>1, <3>1 DEF ScoreOf
  <2>2. MinMax(list, q) = IF hi = lo THEN <<1, 1>> ELSE <<ScoreOf(list, q) - lo, hi - lo>>
    BY <1>8 DEF MinMax
  <2>3. ScoreOf(list, q) \in Nat /\ lo <= ScoreOf(list, q) /\ ScoreOf(list, q) < ScoreOf(list, p)
    BY <1>2, <1>3, <1>7, <1>8, <2>1
  <2> DEFINE s == ScoreOf(list, p) - lo  r == ScoreOf(list, q) - lo  d == hi - lo
  <2> HIDE DEF lo, hi
  <2>4. s \in Nat /\ r \in Nat /\ d \in Nat \ {0} /\ s > r
    BY <1>7, <2>3
  <2>5. MinMax(list, p) = <<s, d>> /\ MinMax(list, q) = <<r, d>>
    BY <1>6, <1>7, <2>2, <2>3
  <2> HIDE DEF s, r, d
  <2>6. s * d > r * d
    BY <2>4
  <2> QED BY <2>4, <2>5, <2>6 DEF Fractions, Greater
<1>9. CASE q \notin Products(list)
  <2>1. MinMax(list, q) = <<0, 1>>
    BY <1>9 DEF MinMax, Zero
  <2> HIDE DEF lo, hi
  <2>2. MinMax(list, p) \in Fractions
    BY <1>6, <1>7 DEF Fractions
  <2> QED BY <1>9, <2>1, <2>2 DEF Fractions, Greater
<1> QED BY <1>8, <1>9

\* A product that a list does not hold takes nothing from it.
LEMMA MinMaxOutside ==
    ASSUME NEW list, NEW q, q \notin Products(list)
    PROVE  MinMax(list, q) = Zero
BY DEF MinMax

\* RRF keeps what both lists agree on: a product that both retrievers found, each
\* at a better rank than another or without the other, scores above it, whatever
\* k and however long the lists.
THEOREM RrfPareto ==
    ASSUME NEW vector, NEW keyword,
           IsCandidateList(vector), IsCandidateList(keyword),
           NEW p \in Products(vector) \cap Products(keyword), NEW q,
           q \in Products(vector) => RankOf(vector, p) < RankOf(vector, q),
           q \in Products(keyword) => RankOf(keyword, p) < RankOf(keyword, q)
    PROVE  Greater(Rrf(vector, keyword, p), Rrf(vector, keyword, q))
<1> DEFINE a == Reciprocal(vector, p)  b == Reciprocal(keyword, p)
           c == Reciprocal(vector, q)  d == Reciprocal(keyword, q)
<1>1. a \in Fractions /\ c \in Fractions /\ Greater(a, c)
  BY ReciprocalOrder
<1>2. b \in Fractions /\ d \in Fractions /\ Greater(b, d)
  BY ReciprocalOrder
<1>3. Rrf(vector, keyword, p) = Plus(a, b) /\ Rrf(vector, keyword, q) = Plus(c, d)
  BY DEF Rrf
<1> HIDE DEF a, b, c, d
<1>4. ~Greater(d, b)
  BY <1>2 DEF Fractions, Greater
<1>5. Greater(Plus(a, b), Plus(c, d))
  BY <1>1, <1>2, <1>4, PlusMonotone
<1> QED BY <1>3, <1>5

\* So does the weighted sum, when both retrievers have a weight: a product that
\* both found, each with a better score than another or without the other, comes
\* out above it, for all scores the lists may hold.
THEOREM WeightedPareto ==
    ASSUME VectorWeight > 0, KeywordWeight > 0,
           NEW vector, NEW keyword, IsScoredList(vector), IsScoredList(keyword),
           NEW p \in Products(vector) \cap Products(keyword),
           NEW q \in Products(vector) \cup Products(keyword),
           q \in Products(vector) => ScoreOf(vector, p) > ScoreOf(vector, q),
           q \in Products(keyword) => ScoreOf(keyword, p) > ScoreOf(keyword, q)
    PROVE  Greater(WeightedSum(vector, keyword, p), WeightedSum(vector, keyword, q))
<1> DEFINE a == MinMax(vector, p)  b == MinMax(keyword, p)
           c == MinMax(vector, q)  d == MinMax(keyword, q)
<1>1. /\ a \in Fractions /\ c \in Fractions /\ ~Greater(c, a)
      /\ q \in Products(vector) => Greater(a, c)
  BY MinMaxOrder
<1>2. /\ b \in Fractions /\ d \in Fractions /\ ~Greater(d, b)
      /\ q \in Products(keyword) => Greater(b, d)
  BY MinMaxOrder
<1>3. /\ WeightedSum(vector, keyword, p) = Plus(Times(VectorWeight, a), Times(KeywordWeight, b))
      /\ WeightedSum(vector, keyword, q) = Plus(Times(VectorWeight, c), Times(KeywordWeight, d))
  BY DEF WeightedSum
<1>4. VectorWeight \in Nat /\ KeywordWeight \in Nat
  BY FusionAssumption DEF FusionAssumption
<1> HIDE DEF a, b, c, d
<1>5. /\ Times(VectorWeight, a) \in Fractions /\ Times(VectorWeight, c) \in Fractions
      /\ Times(KeywordWeight, b) \in Fractions /\ Times(KeywordWeight, d) \in Fractions
  BY <1>1, <1>2, <1>4, FractionsClosed
<1>6. /\ ~Greater(Times(VectorWeight, c), Times(VectorWeight, a))
      /\ ~Greater(Times(KeywordWeight, d), Times(KeywordWeight, b))
  BY <1>1, <1>2, <1>4, TimesMonotone
<1>7. CASE q \in Products(vector)
  <2>1. Greater(Times(VectorWeight, a), Times(VectorWeight, c))
    BY <1>1, <1>4, <1>7, TimesMonotone
  <2> QED BY <1>3, <1>5, <1>6, <2>1, PlusMonotone
<1>8. CASE q \in Products(keyword)
  <2>1. Greater(Times(KeywordWeight, b), Times(KeywordWeight, d))
    BY <1>2, <1>4, <1>8, TimesMonotone
  <2> QED BY <1>3, <1>5, <1>6, <2>1, PlusMonotone
<1> QED BY <1>7, <1>8
===============================================================================
