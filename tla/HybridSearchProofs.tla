-------------------------- MODULE HybridSearchProofs --------------------------
(***************************************************************************)
(* What a search keeps to, for any number of products, any queries, any    *)
(* answers of the indexes, any changes of the catalog meanwhile and any    *)
(* limits: its variables have their types, an answer is a view of one      *)
(* moment of the catalog, reranking promotes nothing, a product is left    *)
(* out for a reason, and the order is the one the two retrievers agree on. *)
(*                                                                         *)
(* The argument is one invariant, Inv, that says at every step how what    *)
(* the search holds was made from the answers and from one state of the    *)
(* table (FromFusion, Looked and Ordered below); the properties follow from *)
(* it by what the operators of the search do to a list of products.        *)
(***************************************************************************)
EXTENDS HybridSearch, FusionProofs, FiniteSetTheorems, FunctionTheorems, SequenceTheorems

\* A list of products, each in it once.
IsList(list) == list \in Seq(ProductIds) /\ IsInjective(list)

-----------------------------------------------------------------------------
(* The operators on lists.                                                 *)

\* A list has its length as its number of products.
LEMMA ListSize ==
    ASSUME NEW list, IsList(list)
    PROVE  /\ Len(list) \in Nat /\ DOMAIN list = 1..Len(list)
           /\ \A i \in 1..Len(list) : list[i] \in ProductIds
           /\ \A i, j \in 1..Len(list) : list[i] = list[j] => i = j
           /\ ToSet(list) \subseteq ProductIds
           /\ IsFiniteSet(ToSet(list)) /\ Cardinality(ToSet(list)) = Len(list)
<1>1. /\ Len(list) \in Nat /\ DOMAIN list = 1..Len(list)
      /\ list \in [1..Len(list) -> ProductIds]
  BY LenProperties DEF IsList
<1>2. \A i \in 1..Len(list) : list[i] \in ProductIds
  BY <1>1
<1>3. \A i, j \in 1..Len(list) : list[i] = list[j] => i = j
  BY <1>1 DEF IsList, IsInjective
<1>4. ToSet(list) = {list[i] : i \in 1..Len(list)}
  BY <1>1 DEF ToSet
<1>5. list \in [1..Len(list) -> ToSet(list)]
  BY <1>1, <1>4
<1>6. list \in Surjection(1..Len(list), ToSet(list))
  BY <1>4, <1>5 DEF Surjection
<1>7. list \in Injection(1..Len(list), ToSet(list))
  <2>1. \A a, b \in 1..Len(list) : list[a] = list[b] => a = b
    BY <1>3
  <2> QED BY <1>5, <2>1, Fun_IsInj
<1>8. IsFiniteSet(1..Len(list)) /\ Cardinality(1..Len(list)) = Len(list)
  <2>1. 1 \in Int /\ Len(list) \in Int
    BY <1>1
  <2>2. /\ IsFiniteSet(1..Len(list))
        /\ Cardinality(1..Len(list)) = IF 1 > Len(list) THEN 0 ELSE Len(list) - 1 + 1
    BY <2>1, FS_Interval
  <2> QED BY <1>1, <2>2
<1>9. IsFiniteSet(ToSet(list)) /\ Cardinality(ToSet(list)) = Cardinality(1..Len(list))
  BY <1>6, <1>7, <1>8, FS_Surjection
<1>10. ToSet(list) \subseteq ProductIds
  BY <1>2, <1>4
<1> QED BY <1>1, <1>2, <1>3, <1>8, <1>9, <1>10

\* A sequence of products that repeats none is a list.
LEMMA ListIntro ==
    ASSUME NEW n \in Nat, NEW list \in [1..n -> ProductIds],
           \A i, j \in 1..n : list[i] = list[j] => i = j
    PROVE  IsList(list) /\ Len(list) = n
<1>1. list \in Seq(ProductIds)
  BY SeqDef
<1>2. Len(list) = n /\ DOMAIN list = 1..n
  BY <1>1, LenProperties
<1> QED BY <1>1, <1>2 DEF IsList, IsInjective

\* SetToSeqs(S) holds the lists of exactly the products of S.
LEMMA Enumerations ==
    ASSUME NEW S \in SUBSET ProductIds, IsFiniteSet(S), NEW order \in SetToSeqs(S)
    PROVE  IsList(order) /\ ToSet(order) = S /\ Len(order) = Cardinality(S)
<1> DEFINE n == Cardinality(S)
<1>1. n \in Nat
  BY FS_CardinalityType
<1>2. order \in [1..n -> S] /\ \A i, j \in 1..n : i # j => order[i] # order[j]
  BY DEF SetToSeqs
<1> HIDE DEF n
<1>3. order \in [1..n -> ProductIds] /\ \A i, j \in 1..n : order[i] = order[j] => i = j
  BY <1>2
<1>4. IsList(order) /\ Len(order) = n
  BY <1>1, <1>3, ListIntro
<1>5. order \in Injection(1..n, S)
  <2>1. \A a, b \in 1..n : order[a] = order[b] => a = b
    BY <1>2
  <2> QED BY <1>2, <2>1, Fun_IsInj
<1>6. Cardinality(1..n) = n
  <2>1. 1 \in Int /\ n \in Int
    BY <1>1
  <2>2. Cardinality(1..n) = IF 1 > n THEN 0 ELSE n - 1 + 1
    BY <2>1, FS_Interval
  <2> QED BY <1>1, <2>2
<1>7. order \in Surjection(1..n, S)
  <2>1. Cardinality(1..n) = Cardinality(S)
    BY <1>6 DEF n
  <2> QED BY <1>5, <2>1, FS_Injection
<1>8. DOMAIN order = 1..n /\ \A p \in S : \E i \in 1..n : order[i] = p
  BY <1>2, <1>7 DEF Surjection
<1>9. ToSet(order) = S
  BY <1>2, <1>8 DEF ToSet
<1> QED BY <1>4, <1>9 DEF n

\* The first n of a list.
LEMMA PrefixFacts ==
    ASSUME NEW list, IsList(list), NEW n \in Nat
    PROVE  /\ IsList(Prefix(list, n))
           /\ Len(Prefix(list, n)) = IF n < Len(list) THEN n ELSE Len(list)
           /\ \A i \in 1..Len(Prefix(list, n)) : Prefix(list, n)[i] = list[i]
           /\ ToSet(Prefix(list, n)) \subseteq ToSet(list)
           /\ Len(list) <= n => Prefix(list, n) = list
<1> DEFINE m == IF n < Len(list) THEN n ELSE Len(list)
<1>1. /\ Len(list) \in Nat /\ DOMAIN list = 1..Len(list)
      /\ \A i \in 1..Len(list) : list[i] \in ProductIds
      /\ \A i, j \in 1..Len(list) : list[i] = list[j] => i = j
  BY ListSize
<1>2. m \in Nat /\ m <= Len(list)
  BY <1>1
<1>3. Prefix(list, n) = SubSeq(list, 1, m)
  BY DEF Prefix
<1> HIDE DEF m
<1>4. /\ SubSeq(list, 1, m) \in Seq(ProductIds)
      /\ Len(SubSeq(list, 1, m)) = m
      /\ \A i \in 1..m : SubSeq(list, 1, m)[i] = list[i]
  <2>1. 1 \in Int /\ m \in Int /\ \A i \in 1..m : list[i] \in ProductIds
    BY <1>1, <1>2
  <2>2. /\ SubSeq(list, 1, m) \in Seq(ProductIds)
        /\ Len(SubSeq(list, 1, m)) = IF 1 <= m THEN m - 1 + 1 ELSE 0
        /\ \A i \in 1..(m - 1 + 1) : SubSeq(list, 1, m)[i] = list[1 + i - 1]
    BY <2>1, SubSeqProperties
  <2>3. m - 1 + 1 = m /\ \A i \in 1..m : 1 + i - 1 = i
    BY <1>2
  <2> QED BY <1>2, <2>2, <2>3
<1>5. DOMAIN SubSeq(list, 1, m) = 1..m
  BY <1>4, LenProperties
<1>6. IsInjective(SubSeq(list, 1, m))
  BY <1>1, <1>2, <1>4, <1>5 DEF IsInjective
<1>7. ToSet(SubSeq(list, 1, m)) \subseteq ToSet(list)
  BY <1>1, <1>2, <1>4, <1>5 DEF ToSet
<1>8. Len(list) <= n => SubSeq(list, 1, m) = list
  <2>1. SUFFICES ASSUME Len(list) <= n PROVE SubSeq(list, 1, m) = list
    OBVIOUS
  <2>2. Len(list) \in Nat /\ ~(n < Len(list))
    BY <1>1, <2>1
  <2>3. m = Len(list)
    BY <2>2 DEF m
  <2> QED BY <2>3, SubSeqFull DEF IsList
<1>9. Len(Prefix(list, n)) = IF n < Len(list) THEN n ELSE Len(list)
  BY <1>3, <1>4 DEF m
<1> QED BY <1>3, <1>4, <1>6, <1>7, <1>8, <1>9 DEF IsList

\* A prefix keeps the order.
LEMMA PrefixKeepsOrder ==
    ASSUME NEW list, IsList(list), NEW n \in Nat, NEW p, NEW q, Precedes(Prefix(list, n), p, q)
    PROVE  Precedes(list, p, q)
<1> DEFINE short == Prefix(list, n)
<1>1. /\ IsList(short) /\ Len(short) <= Len(list) /\ Len(list) \in Nat /\ Len(short) \in Nat
      /\ \A i \in 1..Len(short) : short[i] = list[i]
  BY PrefixFacts, ListSize
<1>2. DOMAIN short = 1..Len(short) /\ DOMAIN list = 1..Len(list)
  BY <1>1, ListSize
<1> HIDE DEF short
<1>3. Precedes(short, p, q)
  BY DEF short
<1>4. PICK i, j \in 1..Len(short) : i < j /\ short[i] = p /\ short[j] = q
  BY <1>2, <1>3 DEF Precedes
<1>5. i \in DOMAIN list /\ j \in DOMAIN list /\ list[i] = p /\ list[j] = q
  BY <1>1, <1>2, <1>4
<1> QED BY <1>4, <1>5 DEF Precedes

\* What is left of a list when others than kept are taken out.
LEMMA Filters ==
    ASSUME NEW list, IsList(list), NEW kept \in SUBSET ProductIds,
           NEW order \in Filtered(list, kept)
    PROVE  /\ IsList(order) /\ ToSet(order) = ToSet(list) \cap kept
           /\ Len(order) <= Len(list)
           /\ \A p, q : Precedes(order, p, q) => Precedes(list, p, q)
<1> DEFINE S == ToSet(list) \cap kept
<1>1. /\ IsFiniteSet(ToSet(list)) /\ Cardinality(ToSet(list)) = Len(list)
      /\ ToSet(list) \subseteq ProductIds
  BY ListSize
<1>2. S \in SUBSET ToSet(list) /\ S \in SUBSET ProductIds
  BY <1>1
<1>3. IsFiniteSet(S) /\ Cardinality(S) <= Len(list)
  BY <1>1, <1>2, FS_Subset
<1>4. order \in SetToSeqs(S) /\ \A p, q \in kept : Precedes(order, p, q) => Precedes(list, p, q)
  BY DEF Filtered
<1> HIDE DEF S
<1>5. IsList(order) /\ ToSet(order) = S /\ Len(order) = Cardinality(S)
  BY <1>2, <1>3, <1>4, Enumerations
<1>6. \A p, q : Precedes(order, p, q) => Precedes(list, p, q)
  <2>1. SUFFICES ASSUME NEW p, NEW q, Precedes(order, p, q)
                 PROVE  Precedes(list, p, q)
    OBVIOUS
  <2>2. p \in ToSet(order) /\ q \in ToSet(order)
    BY <2>1 DEF Precedes, ToSet
  <2>3. p \in kept /\ q \in kept
    BY <1>5, <2>2 DEF S
  <2> QED BY <1>4, <2>1, <2>3
<1> QED BY <1>3, <1>5, <1>6 DEF S

\* An answer of an index is a scored candidate list, within the limit.
LEMMA AnswerFacts ==
    ASSUME NEW limit \in Nat, NEW list \in Answers(limit)
    PROVE  /\ IsScoredList(list) /\ Len(list) <= limit
           /\ IsList(Ids(list)) /\ ToSet(Ids(list)) = Products(list)
           /\ Products(list) \subseteq ProductIds /\ IsFiniteSet(Products(list))
<1>1. PICK n \in 0..limit : list \in [1..n -> ProductIds \X (1..MaxScore)]
  BY DEF Answers
<1>2. \A i, j \in DOMAIN list : i < j => list[i][1] # list[j][1] /\ list[i][2] >= list[j][2]
  BY DEF Answers
<1>3. n \in Nat /\ n <= limit /\ DOMAIN list = 1..n /\ Len(list) = n
  <2>1. n \in Nat /\ n <= limit
    BY <1>1
  <2>2. list \in Seq(ProductIds \X (1..MaxScore))
    BY <1>1, <2>1, SeqDef
  <2>3. DOMAIN list = 1..n /\ DOMAIN list = 1..Len(list) /\ Len(list) \in Nat
    BY <1>1, <2>2, LenProperties
  <2>4. n = Len(list)
    BY <2>1, <2>3
  <2> QED BY <2>1, <2>3, <2>4
<1>4. \A i \in 1..n : list[i][1] \in ProductIds /\ list[i][2] \in 1..MaxScore
  BY <1>1
<1>5. \A i, j \in 1..n : list[i][1] = list[j][1] => i = j
  <2>1. SUFFICES ASSUME NEW i \in 1..n, NEW j \in 1..n, i # j
                 PROVE  list[i][1] # list[j][1]
    OBVIOUS
  <2>2. CASE i < j
    BY <1>2, <1>3, <2>2
  <2>3. CASE j < i
    BY <1>2, <1>3, <2>3
  <2> QED BY <1>3, <2>1, <2>2, <2>3
<1>6. IsScoredList(list)
  <2>1. IsCandidateList(list)
    BY <1>3, <1>5 DEF IsCandidateList
  <2>2. \A i \in DOMAIN list : list[i][2] \in Nat
    BY <1>3, <1>4
  <2> QED BY <1>2, <2>1, <2>2 DEF IsScoredList
<1> DEFINE ids == Ids(list)
<1>7. ids \in [1..n -> ProductIds] /\ \A i \in 1..n : ids[i] = list[i][1]
  BY <1>3, <1>4 DEF Ids
<1>8. ToSet(ids) = Products(list)
  BY <1>3, <1>7 DEF ToSet, Products
<1> HIDE DEF ids
<1>9. IsList(ids)
  BY <1>3, <1>5, <1>7, ListIntro
<1>10. Products(list) \subseteq ProductIds /\ IsFiniteSet(Products(list))
  BY <1>8, <1>9, ListSize
<1> QED BY <1>3, <1>6, <1>8, <1>9, <1>10 DEF ids

\* An order by score puts no product before one with a greater score.
LEMMA ScoreOrder ==
    ASSUME NEW vector, NEW keyword, NEW score, NEW order \in ByScore(vector, keyword, score),
           NEW p, NEW q, Greater(score[p], score[q])
    PROVE  ~Precedes(order, q, p)
<1>1. SUFFICES ASSUME Precedes(order, q, p) PROVE FALSE
  OBVIOUS
<1>2. PICK i, j \in DOMAIN order : i < j /\ order[i] = q /\ order[j] = p
  BY <1>1 DEF Precedes
<1>3. ~Greater(score[order[j]], score[order[i]])
  BY <1>2 DEF ByScore
<1> QED BY <1>2, <1>3

\* fuse_rrf: consensus first, and in each list the better product first.
LEMMA RrfFacts ==
    ASSUME NEW vector \in VectorAnswers, NEW keyword \in KeywordAnswers,
           NEW order \in FuseRrf(vector, keyword)
    PROVE  /\ order \in SetToSeqs(Products(vector) \cup Products(keyword))
           /\ \A p, q \in Products(vector) \cup Products(keyword) :
                 Greater(Rrf(vector, keyword, p), Rrf(vector, keyword, q))
                    => ~Precedes(order, q, p)
<1> DEFINE score == [p \in Products(vector) \cup Products(keyword) |-> Rrf(vector, keyword, p)]
<1>1. order \in ByScore(vector, keyword, score)
  BY DEF FuseRrf
<1>2. \A p \in Products(vector) \cup Products(keyword) : score[p] = Rrf(vector, keyword, p)
  OBVIOUS
<1>3. order \in SetToSeqs(Products(vector) \cup Products(keyword))
  BY <1>1 DEF ByScore
<1> HIDE DEF score
<1>4. ASSUME NEW p \in Products(vector) \cup Products(keyword),
             NEW q \in Products(vector) \cup Products(keyword),
             Greater(Rrf(vector, keyword, p), Rrf(vector, keyword, q))
      PROVE  ~Precedes(order, q, p)
  <2>1. Greater(score[p], score[q])
    BY <1>2, <1>4
  <2> QED BY <1>1, <2>1, ScoreOrder
<1> QED BY <1>3, <1>4

\* fuse_weighted_sum: the better product first.
LEMMA WeightedFacts ==
    ASSUME NEW vector \in VectorAnswers, NEW keyword \in KeywordAnswers,
           NEW order \in FuseWeightedSum(vector, keyword)
    PROVE  /\ order \in SetToSeqs(Products(vector) \cup Products(keyword))
           /\ \A p, q \in Products(vector) \cup Products(keyword) :
                 Greater(WeightedSum(vector, keyword, p), WeightedSum(vector, keyword, q))
                    => ~Precedes(order, q, p)
<1> DEFINE score == [p \in Products(vector) \cup Products(keyword) |->
                        WeightedSum(vector, keyword, p)]
<1>1. order \in ByScore(vector, keyword, score)
  BY DEF FuseWeightedSum
<1>2. \A p \in Products(vector) \cup Products(keyword) :
         score[p] = WeightedSum(vector, keyword, p)
  OBVIOUS
<1>3. order \in SetToSeqs(Products(vector) \cup Products(keyword))
  BY <1>1 DEF ByScore
<1> HIDE DEF score
<1>4. ASSUME NEW p \in Products(vector) \cup Products(keyword),
             NEW q \in Products(vector) \cup Products(keyword),
             Greater(WeightedSum(vector, keyword, p), WeightedSum(vector, keyword, q))
      PROVE  ~Precedes(order, q, p)
  <2>1. Greater(score[p], score[q])
    BY <1>2, <1>4
  <2> QED BY <1>1, <2>1, ScoreOrder
<1> QED BY <1>3, <1>4

\* Either fusion returns every product of the two lists once.
LEMMA FusionKeepsAll ==
    ASSUME NEW vector \in VectorAnswers, NEW keyword \in KeywordAnswers,
           NEW order \in SetToSeqs(Products(vector) \cup Products(keyword))
    PROVE  IsList(order) /\ ToSet(order) = Products(vector) \cup Products(keyword)
<1>1. /\ Products(vector) \subseteq ProductIds /\ IsFiniteSet(Products(vector))
      /\ Products(keyword) \subseteq ProductIds /\ IsFiniteSet(Products(keyword))
  BY AnswerFacts, SearchAssumption DEF SearchAssumption, VectorAnswers, KeywordAnswers
<1>2. IsFiniteSet(Products(vector) \cup Products(keyword))
  BY <1>1, FS_Union
<1> QED BY <1>1, <1>2, Enumerations

\* _apply_rerank returns what it is given, and on the places it ranks only what
\* stood there.
LEMMA RerankFacts ==
    ASSUME NEW list, IsList(list), NEW order \in Rerank(list)
    PROVE  /\ IsList(order) /\ ToSet(order) = ToSet(list) /\ Len(order) = Len(list)
           /\ \A i \in 1..Len(order) :
                 i <= RerankCandidates => order[i] \in ToSet(Prefix(list, RerankCandidates))
<1> DEFINE front == Prefix(list, RerankCandidates)
           rest == SubSeq(list, RerankCandidates + 1, Len(list))
           m == Len(front)
           k == Len(list) - m
<1>1. PICK top \in SetToSeqs(ToSet(front)) : order = top \o rest
  BY DEF Rerank
<1>2. RerankCandidates \in Nat
  BY SearchAssumption DEF SearchAssumption
<1>3. /\ Len(list) \in Nat /\ DOMAIN list = 1..Len(list)
      /\ \A i \in 1..Len(list) : list[i] \in ProductIds
      /\ \A i, j \in 1..Len(list) : list[i] = list[j] => i = j
  BY ListSize
<1>4. /\ IsList(front) /\ m = IF RerankCandidates < Len(list) THEN RerankCandidates ELSE Len(list)
      /\ \A i \in 1..m : front[i] = list[i]
  BY <1>2, PrefixFacts
<1>5. /\ DOMAIN front = 1..m /\ ToSet(front) \subseteq ProductIds
      /\ IsFiniteSet(ToSet(front)) /\ Cardinality(ToSet(front)) = m
  BY <1>4, ListSize
<1>6. IsList(top) /\ ToSet(top) = ToSet(front) /\ Len(top) = m
  BY <1>5, Enumerations
<1>7. /\ DOMAIN top = 1..m /\ \A i \in 1..m : top[i] \in ProductIds
      /\ \A i, j \in 1..m : top[i] = top[j] => i = j
  BY <1>6, ListSize
<1>8. m \in Nat /\ k \in Nat /\ m + k = Len(list) /\ m <= RerankCandidates
  BY <1>2, <1>3, <1>4
<1>9. rest \in Seq(ProductIds) /\ Len(rest) = k /\ \A i \in 1..k : rest[i] = list[m + i]
  <2> DEFINE a == RerankCandidates + 1  b == Len(list)
  <2>1. a \in Int /\ b \in Int /\ \A i \in a..b : list[i] \in ProductIds
    BY <1>2, <1>3
  <2>2. /\ SubSeq(list, a, b) \in Seq(ProductIds)
        /\ Len(SubSeq(list, a, b)) = IF a <= b THEN b - a + 1 ELSE 0
        /\ \A i \in 1..(b - a + 1) : SubSeq(list, a, b)[i] = list[a + i - 1]
    BY <2>1, SubSeqProperties
  <2>3. CASE RerankCandidates < Len(list)
    <3>1. a <= b /\ b - a + 1 = k /\ \A i \in 1..k : a + i - 1 = m + i
      BY <1>2, <1>3, <1>4, <2>3
    <3> QED BY <2>2, <3>1
  <2>4. CASE ~(RerankCandidates < Len(list))
    <3>1. ~(a <= b) /\ k = 0
      BY <1>2, <1>3, <1>4, <2>4
    <3> QED BY <2>2, <3>1
  <2> QED BY <2>3, <2>4
<1> HIDE DEF front, rest, k
<1>10. /\ order \in Seq(ProductIds) /\ Len(order) = m + k
       /\ \A i \in 1..(m + k) : order[i] = IF i <= m THEN top[i] ELSE rest[i - m]
  <2>1. top \in Seq(ProductIds)
    BY <1>6 DEF IsList
  <2>2. /\ top \o rest \in Seq(ProductIds) /\ Len(top \o rest) = Len(top) + Len(rest)
        /\ \A i \in 1..(Len(top) + Len(rest)) :
              (top \o rest)[i] = IF i <= Len(top) THEN top[i] ELSE rest[i - Len(top)]
    BY <1>9, <2>1, ConcatProperties
  <2>3. Len(top) = m /\ Len(rest) = k
    BY <1>6, <1>9
  <2> HIDE DEF m
  <2> QED BY <1>1, <2>2, <2>3
<1>11. DOMAIN order = 1..(m + k)
  BY <1>10, LenProperties
<1> HIDE DEF m
<1>12. \A i \in 1..m : order[i] = top[i]
  BY <1>8, <1>10
<1>13. \A i \in (m + 1)..(m + k) : order[i] = list[i]
  <2>1. SUFFICES ASSUME NEW i \in (m + 1)..(m + k) PROVE order[i] = list[i]
    OBVIOUS
  <2>2. i - m \in 1..k /\ m + (i - m) = i /\ i \in 1..(m + k) /\ ~(i <= m)
    BY <1>8
  <2> QED BY <1>9, <1>10, <2>2
<1>14. \A i \in 1..m : \E j \in 1..m : top[i] = list[j]
  <2>1. ToSet(top) = {top[i] : i \in 1..m} /\ ToSet(front) = {front[i] : i \in 1..m}
    BY <1>5, <1>7 DEF ToSet
  <2> QED BY <1>4, <1>6, <2>1
<1>15. \A j \in 1..m : \E i \in 1..m : top[i] = list[j]
  <2>1. ToSet(top) = {top[i] : i \in 1..m} /\ ToSet(front) = {front[i] : i \in 1..m}
    BY <1>5, <1>7 DEF ToSet
  <2> QED BY <1>4, <1>6, <2>1
<1>16. \A i, j \in 1..(m + k) : order[i] = order[j] => i = j
  <2>1. SUFFICES ASSUME NEW i \in 1..(m + k), NEW j \in 1..(m + k), order[i] = order[j]
                 PROVE  i = j
    OBVIOUS
  <2>2. ASSUME NEW x \in 1..m, NEW y \in (m + 1)..(m + k) PROVE order[x] # order[y]
    <3>1. PICK z \in 1..m : top[x] = list[z]
      BY <1>14
    <3>2. z \in 1..Len(list) /\ y \in 1..Len(list) /\ z # y
      BY <1>8
    <3>3. list[z] # list[y]
      BY <1>3, <3>2
    <3> QED BY <1>12, <1>13, <3>1, <3>3
  <2>3. CASE i <= m /\ j <= m
    <3>1. i \in 1..m /\ j \in 1..m
      BY <1>8, <2>3
    <3> QED BY <1>7, <1>12, <2>1, <3>1
  <2>4. CASE i <= m /\ ~(j <= m)
    <3>1. i \in 1..m /\ j \in (m + 1)..(m + k)
      BY <1>8, <2>4
    <3> QED BY <2>1, <2>2, <3>1
  <2>5. CASE ~(i <= m) /\ j <= m
    <3>1. j \in 1..m /\ i \in (m + 1)..(m + k)
      BY <1>8, <2>5
    <3> QED BY <2>1, <2>2, <3>1
  <2>6. CASE ~(i <= m) /\ ~(j <= m)
    <3>1. i \in (m + 1)..(m + k) /\ j \in (m + 1)..(m + k) /\ i \in 1..Len(list) /\ j \in 1..Len(list)
      BY <1>8, <2>6
    <3> QED BY <1>3, <1>13, <2>1, <3>1
  <2> QED BY <2>3, <2>4, <2>5, <2>6
<1>17. IsList(order)
  BY <1>10, <1>11, <1>16 DEF IsList, IsInjective
<1>18. ToSet(order) \subseteq ToSet(list)
  <2>1. ASSUME NEW i \in 1..(m + k) PROVE \E j \in 1..Len(list) : order[i] = list[j]
    <3>1. CASE i <= m
      <4>1. i \in 1..m
        BY <1>8, <3>1
      <4>2. PICK j \in 1..m : top[i] = list[j]
        BY <1>14, <4>1
      <4>3. j \in 1..Len(list)
        BY <1>8
      <4> QED BY <1>12, <4>1, <4>2, <4>3
    <3>2. CASE ~(i <= m)
      <4>1. i \in (m + 1)..(m + k) /\ i \in 1..Len(list)
        BY <1>8, <3>2
      <4> QED BY <1>13, <4>1
    <3> QED BY <3>1, <3>2
  <2> QED BY <1>3, <1>11, <2>1 DEF ToSet
<1>19. ToSet(list) \subseteq ToSet(order)
  <2>1. ASSUME NEW j \in 1..Len(list) PROVE \E i \in 1..(m + k) : order[i] = list[j]
    <3>1. CASE j <= m
      <4>1. j \in 1..m
        BY <1>8, <3>1
      <4>2. PICK i \in 1..m : top[i] = list[j]
        BY <1>15, <4>1
      <4>3. i \in 1..(m + k)
        BY <1>8
      <4> QED BY <1>12, <4>2, <4>3
    <3>2. CASE ~(j <= m)
      <4>1. j \in (m + 1)..(m + k) /\ j \in 1..(m + k)
        BY <1>8, <3>2
      <4> QED BY <1>13, <4>1
    <3> QED BY <3>1, <3>2
  <2> QED BY <1>3, <1>11, <2>1 DEF ToSet
<1>20. ASSUME NEW i \in 1..(m + k), i <= RerankCandidates
       PROVE  order[i] \in ToSet(front)
  <2>1. CASE i <= m
    <3>1. i \in 1..m
      BY <1>8, <2>1
    <3>2. order[i] = top[i] /\ top[i] \in ToSet(top)
      BY <1>7, <1>12, <3>1 DEF ToSet
    <3> QED BY <1>6, <3>2
  <2>2. CASE ~(i <= m)
    <3>1. m = Len(list) \/ m = RerankCandidates
      BY <1>4
    <3>2. Len(list) = m + k /\ i <= m + k /\ i \in Nat /\ RerankCandidates \in Nat
      BY <1>2, <1>8, <1>20
    <3> QED BY <1>8, <1>20, <2>2, <3>1, <3>2
  <2> QED BY <2>1, <2>2
<1> QED BY <1>8, <1>10, <1>17, <1>18, <1>19, <1>20 DEF front

-----------------------------------------------------------------------------
(* The invariant.                                                          *)

\* An index that the strategy leaves out, or that was not asked yet, has given
\* nothing; the catalog has been seen as it is since the search started.
Sources ==
    /\ pc # "idle" => query \in Queries /\ catalog \in past
    /\ pc \in {"idle", "vector"} => vectorHits = <<>>
    /\ pc \in {"idle", "vector", "keyword"} => keywordHits = <<>>
    /\ pc # "idle" /\ query.strategy = "vector_only" => keywordHits = <<>> /\ pc # "keyword"
    /\ pc # "idle" /\ query.strategy = "keyword_only" => vectorHits = <<>> /\ pc # "vector"

\* What is looked up is the first of what fusion made of the answers.
FromFusion == pc = "hydrate" => scored \in Fused /\ todo = Prefix(scored, Cut)

\* The rows the search works on are those of one moment of the table.
Lookup(order, moment) ==
    /\ hydrated = [p \in ProductIds |->
                      IF p \in ToSet(Prefix(order, Cut)) THEN moment[p] ELSE "gone"]
    /\ scored \in Filtered(order, {p \in ProductIds : Shown(hydrated[p])})

Looked == pc \in {"rank", "answered"} => \E order \in Fused, moment \in past : Lookup(order, moment)

\* The answer is the first of the candidates, reranked or not.
Orders == IF Reranks /\ scored # <<>> THEN Rerank(scored) ELSE {scored}
Ordered == pc = "answered" => \E order \in Orders : results = Prefix(order, query.topK)

Inv == TypeOK /\ Sources /\ FromFusion /\ Looked /\ Ordered

\* What the types say of the lists and of the query being answered.
LEMMA TypeFacts ==
    ASSUME Inv
    PROVE  /\ IsList(todo) /\ IsList(scored) /\ IsList(results)
           /\ vectorHits \in VectorAnswers /\ keywordHits \in KeywordAnswers
           /\ catalog \in [ProductIds -> Rows] /\ hydrated \in [ProductIds -> Rows]
           /\ RerankCandidates \in Nat \ {0}
           /\ pc # "idle" => /\ query.strategy \in Strategies
                             /\ query.topK \in Nat \ {0} /\ Cut \in Nat
                             /\ query.topK <= Cut /\ catalog \in past
<1>1. /\ IsList(todo) /\ IsList(scored) /\ IsList(results)
      /\ vectorHits \in VectorAnswers /\ keywordHits \in KeywordAnswers
      /\ catalog \in [ProductIds -> Rows] /\ hydrated \in [ProductIds -> Rows]
  BY DEF Inv, TypeOK, IsList
<1>2. RerankCandidates \in Nat \ {0}
  BY SearchAssumption DEF SearchAssumption
<1>3. ASSUME pc # "idle"
      PROVE  /\ query.strategy \in Strategies /\ query.topK \in Nat \ {0} /\ catalog \in past
  <2>1. query \in Queries /\ catalog \in past
    BY <1>3 DEF Inv, Sources
  <2>2. query \in [strategy : Strategies, brand : Brands \cup {"any"},
                   topK : Nat \ {0}, rerank : BOOLEAN]
    BY <2>1, SearchAssumption DEF SearchAssumption
  <2> QED BY <2>1, <2>2
<1>4. query.topK \in Nat => Cut \in Nat /\ query.topK <= Cut
  BY <1>2 DEF Cut, Larger
<1> QED BY <1>1, <1>2, <1>3, <1>4

\* Whatever the strategy, what _fuse returns holds every hit once.
LEMMA FusedFacts ==
    ASSUME Inv, pc # "idle", NEW order \in Fused
    PROVE  IsList(order) /\ ToSet(order) = Hits
<1>1. /\ vectorHits \in VectorAnswers /\ keywordHits \in KeywordAnswers
      /\ query.strategy \in Strategies
  BY TypeFacts
<1>2. /\ IsList(Ids(vectorHits)) /\ ToSet(Ids(vectorHits)) = Products(vectorHits)
      /\ IsList(Ids(keywordHits)) /\ ToSet(Ids(keywordHits)) = Products(keywordHits)
  BY <1>1, AnswerFacts, SearchAssumption DEF SearchAssumption, VectorAnswers, KeywordAnswers
<1>3. Products(<<>>) = {}
  BY DEF Products
<1>4. CASE query.strategy = "rrf"
  <2>1. order \in FuseRrf(vectorHits, keywordHits)
    BY <1>4 DEF Fused
  <2> QED BY <1>1, <2>1, RrfFacts, FusionKeepsAll DEF Hits
<1>5. CASE query.strategy = "weighted_sum"
  <2>1. order \in FuseWeightedSum(vectorHits, keywordHits)
    BY <1>5 DEF Fused
  <2> QED BY <1>1, <2>1, WeightedFacts, FusionKeepsAll DEF Hits
<1>6. CASE query.strategy = "vector_only"
  <2>1. order = Ids(vectorHits)
    BY <1>6 DEF Fused
  <2>2. keywordHits = <<>>
    BY <1>6 DEF Inv, Sources
  <2> QED BY <1>2, <1>3, <2>1, <2>2 DEF Hits
<1>7. CASE query.strategy = "keyword_only"
  <2>1. order = Ids(keywordHits)
    BY <1>7 DEF Fused
  <2>2. vectorHits = <<>>
    BY <1>7 DEF Inv, Sources
  <2> QED BY <1>2, <1>3, <2>1, <2>2 DEF Hits
<1> QED BY <1>1, <1>4, <1>5, <1>6, <1>7 DEF Strategies

\* What depends on the query and the answers alone stays while they do.
LEMMA Frame ==
    ASSUME UNCHANGED <<query, vectorHits, keywordHits>>
    PROVE  /\ Fused' = Fused /\ Cut' = Cut /\ (Reranks' <=> Reranks)
           /\ \A row : Shown(row)' <=> Shown(row)
<1>1. query' = query /\ vectorHits' = vectorHits /\ keywordHits' = keywordHits
  OBVIOUS
<1>2. Fused' = Fused
  BY <1>1 DEF Fused
<1>3. Cut' = Cut
  BY <1>1 DEF Cut
<1>4. Reranks' <=> Reranks
  BY <1>1 DEF Reranks
<1>5. \A row : Shown(row)' <=> Shown(row)
  BY <1>1 DEF Shown, Matches
<1> QED BY <1>2, <1>3, <1>4, <1>5

\* A step that leaves the rows and the candidates alone leaves Lookup alone.
LEMMA LookupFrame ==
    ASSUME UNCHANGED <<query, vectorHits, keywordHits, hydrated, scored>>,
           NEW order, NEW moment
    PROVE  Lookup(order, moment) => Lookup(order, moment)'
<1>1. hydrated' = hydrated /\ scored' = scored
  OBVIOUS
<1>2. Cut' = Cut /\ \A row : Shown(row)' <=> Shown(row)
  BY Frame
<1>3. {p \in ProductIds : Shown(hydrated[p])}' = {p \in ProductIds : Shown(hydrated[p])}
  <2>1. ASSUME NEW p \in ProductIds PROVE Shown(hydrated[p])' <=> Shown(hydrated[p])
    BY <1>1, Frame DEF Shown, Matches
  <2> QED BY <2>1
<1>4. SUFFICES ASSUME Lookup(order, moment) PROVE Lookup(order, moment)'
  OBVIOUS
<1>5. hydrated' = [p \in ProductIds |->
          IF p \in ToSet(Prefix(order, Cut')) THEN moment[p] ELSE "gone"]
  BY <1>1, <1>2, <1>4 DEF Lookup
<1>6. scored' \in Filtered(order, {p \in ProductIds : Shown(hydrated[p])}')
  BY <1>1, <1>3, <1>4 DEF Lookup
<1> QED BY <1>5, <1>6 DEF Lookup

-----------------------------------------------------------------------------
(* The invariant holds at the start and every step keeps it.               *)

LEMMA InitInv == Init => Inv
<1> SUFFICES ASSUME Init PROVE Inv
  OBVIOUS
<1>1. /\ VectorCandidates \in Nat /\ KeywordCandidates \in Nat /\ MaxWrites \in Nat
  BY SearchAssumption DEF SearchAssumption
<1>2. \A limit \in Nat : <<>> \in Answers(limit)
  <2>1. ASSUME NEW limit \in Nat PROVE <<>> \in Answers(limit)
    <3>1. <<>> \in [1..0 -> ProductIds \X (1..MaxScore)] /\ 0 \in 0..limit
      OBVIOUS
    <3> QED BY <3>1 DEF Answers
  <2> QED BY <2>1
<1>3. <<>> \in Seq(ProductIds) /\ IsInjective(<<>>)
  BY EmptySeq DEF IsInjective
<1>4. TypeOK
  <2>1. vectorHits \in VectorAnswers /\ keywordHits \in KeywordAnswers
    BY <1>1, <1>2 DEF Init, VectorAnswers, KeywordAnswers
  <2>2. hydrated \in [ProductIds -> Rows]
    BY DEF Init, NoRows, Rows
  <2>3. writes \in 0..MaxWrites
    BY <1>1 DEF Init
  <2> QED BY <1>3, <2>1, <2>2, <2>3 DEF Init, TypeOK
<1> QED BY <1>4 DEF Init, Inv, Sources, FromFusion, Looked, Ordered

LEMMA StepInv == Inv /\ [Next]_vars => Inv'
<1> SUFFICES ASSUME Inv, [Next]_vars PROVE Inv'
  OBVIOUS
<1>0. TypeOK /\ Sources
  BY DEF Inv
<1>1. ASSUME NEW q \in Queries, Ask(q) PROVE Inv'
  <2>1. /\ pc = "idle" /\ query' = q /\ past' = {catalog} /\ pc' \in {"keyword", "vector"}
        /\ pc' = IF q.strategy = "keyword_only" THEN "keyword" ELSE "vector"
        /\ catalog' = catalog /\ writes' = writes /\ vectorHits' = vectorHits
        /\ keywordHits' = keywordHits /\ hydrated' = hydrated /\ todo' = todo
        /\ scored' = scored /\ results' = results
    BY <1>1 DEF Ask
  <2>2. vectorHits = <<>> /\ keywordHits = <<>>
    BY <1>0, <2>1 DEF Sources
  <2>3. TypeOK'
    BY <1>0, <2>1 DEF TypeOK
  <2>4. Sources'
    BY <2>1, <2>2 DEF Sources
  <2> QED BY <2>1, <2>3, <2>4 DEF Inv, FromFusion, Looked, Ordered
<1>2. ASSUME SearchVectors PROVE Inv'
  <2>1. /\ pc = "vector" /\ vectorHits' \in VectorAnswers /\ pc' \in {"fuse", "keyword"}
        /\ pc' = IF query.strategy = "vector_only" THEN "fuse" ELSE "keyword"
        /\ UNCHANGED <<catalog, writes, query, keywordHits, hydrated, todo, scored, results, past>>
    BY <1>2 DEF SearchVectors
  <2>2. TypeOK'
    BY <1>0, <2>1 DEF TypeOK
  <2>3. Sources'
    BY <1>0, <2>1 DEF Sources
  <2> QED BY <2>1, <2>2, <2>3 DEF Inv, FromFusion, Looked, Ordered
<1>3. ASSUME SearchKeywords PROVE Inv'
  <2>1. /\ pc = "keyword" /\ keywordHits' \in KeywordAnswers /\ pc' = "fuse"
        /\ UNCHANGED <<catalog, writes, query, vectorHits, hydrated, todo, scored, results, past>>
    BY <1>3 DEF SearchKeywords
  <2>2. TypeOK'
    BY <1>0, <2>1 DEF TypeOK
  <2>3. Sources'
    BY <1>0, <2>1 DEF Sources
  <2> QED BY <2>1, <2>2, <2>3 DEF Inv, FromFusion, Looked, Ordered
<1>4. ASSUME Fuse PROVE Inv'
  <2>1. /\ pc = "fuse" /\ scored' \in Fused /\ todo' = Prefix(scored', Cut) /\ pc' = "hydrate"
        /\ UNCHANGED <<catalog, writes, query, vectorHits, keywordHits, hydrated, results, past>>
    BY <1>4 DEF Fuse
  <2>2. Fused' = Fused /\ Cut' = Cut
    BY <2>1, Frame
  <2>3. IsList(scored')
    BY <2>1, FusedFacts
  <2>4. IsList(todo')
    <3>1. Cut \in Nat
      BY <2>1, TypeFacts
    <3> QED BY <2>1, <2>3, <3>1, PrefixFacts
  <2>5. TypeOK'
    BY <1>0, <2>1, <2>3, <2>4 DEF TypeOK, IsList
  <2>6. Sources'
    BY <1>0, <2>1 DEF Sources
  <2>7. FromFusion'
    BY <2>1, <2>2 DEF FromFusion
  <2> QED BY <2>1, <2>5, <2>6, <2>7 DEF Inv, Looked, Ordered
<1>5. ASSUME Hydrate PROVE Inv'
  <2>1. /\ pc = "hydrate" /\ todo' = <<>> /\ pc' = "rank"
        /\ hydrated' = [p \in ProductIds |-> IF p \in ToSet(todo) THEN catalog[p] ELSE "gone"]
        /\ scored' \in Filtered(scored, {p \in ProductIds : Shown(hydrated'[p])})
        /\ UNCHANGED <<catalog, writes, query, vectorHits, keywordHits, results, past>>
    BY <1>5 DEF Hydrate
  <2>2. scored \in Fused /\ todo = Prefix(scored, Cut)
    BY <2>1 DEF Inv, FromFusion
  <2>3. Fused' = Fused /\ Cut' = Cut
    BY <2>1, Frame
  <2>4. IsList(scored')
    <3>1. IsList(scored)
      BY TypeFacts
    <3>2. {p \in ProductIds : Shown(hydrated'[p])} \in SUBSET ProductIds
      OBVIOUS
    <3> QED BY <2>1, <3>1, <3>2, Filters
  <2>5. IsList(todo')
    BY <2>1, EmptySeq DEF IsList, IsInjective
  <2>6. hydrated' \in [ProductIds -> Rows]
    <3>1. catalog \in [ProductIds -> Rows]
      BY TypeFacts
    <3> QED BY <2>1, <3>1 DEF Rows
  <2>7. TypeOK'
    BY <1>0, <2>1, <2>4, <2>5, <2>6 DEF TypeOK, IsList
  <2>8. Sources'
    BY <1>0, <2>1 DEF Sources
  <2>9. Looked'
    <3>1. catalog \in past'
      BY <2>1, TypeFacts
    <3>2. hydrated' = [p \in ProductIds |->
              IF p \in ToSet(Prefix(scored, Cut')) THEN catalog[p] ELSE "gone"]
      BY <2>1, <2>2, <2>3
    <3>3. {p \in ProductIds : Shown(hydrated[p])}' = {p \in ProductIds : Shown(hydrated'[p])}
      <4>1. ASSUME NEW p \in ProductIds PROVE Shown(hydrated[p])' <=> Shown(hydrated'[p])
        BY <2>1 DEF Shown, Matches
      <4> QED BY <4>1
    <3>4. scored' \in Filtered(scored, {p \in ProductIds : Shown(hydrated[p])}')
      BY <2>1, <3>3
    <3>5. \E o \in Fused', m \in past' :
             /\ hydrated' = [p \in ProductIds |->
                    IF p \in ToSet(Prefix(o, Cut')) THEN m[p] ELSE "gone"]
             /\ scored' \in Filtered(o, {p \in ProductIds : Shown(hydrated[p])}')
      BY <2>2, <2>3, <3>1, <3>2, <3>4
    <3> QED BY <3>5 DEF Looked, Lookup
  <2> QED BY <2>1, <2>7, <2>8, <2>9 DEF Inv, FromFusion, Ordered
<1>6. ASSUME Rank PROVE Inv'
  <2>1. /\ pc = "rank" /\ pc' = "answered"
        /\ UNCHANGED <<catalog, writes, query, vectorHits, keywordHits, hydrated, todo, scored, past>>
    BY <1>6 DEF Rank
  <2>2. PICK order \in Orders : results' = Prefix(order, query.topK)
    BY <1>6 DEF Rank, Orders
  <2>3. Fused' = Fused /\ Cut' = Cut /\ (Reranks' <=> Reranks)
    BY <2>1, Frame
  <2>4. IsList(order)
    <3>1. IsList(scored)
      BY TypeFacts
    <3> QED BY <2>2, <3>1, RerankFacts DEF Orders
  <2>5. IsList(results')
    <3>1. query.topK \in Nat
      BY <2>1, TypeFacts
    <3> QED BY <2>2, <2>4, <3>1, PrefixFacts
  <2>6. TypeOK'
    BY <1>0, <2>1, <2>5 DEF TypeOK, IsList
  <2>7. Sources'
    BY <1>0, <2>1 DEF Sources
  <2>8. Looked'
    <3>1. PICK o \in Fused, m \in past : Lookup(o, m)
      BY <2>1 DEF Inv, Looked
    <3>2. Lookup(o, m)'
      BY <2>1, <3>1, LookupFrame
    <3>3. o \in Fused' /\ m \in past'
      BY <2>1, <2>3, <3>1
    <3> QED BY <3>2, <3>3 DEF Looked
  <2>9. Ordered'
    <3>1. Orders' = Orders
      BY <2>1, <2>3 DEF Orders
    <3> QED BY <2>1, <2>2, <3>1 DEF Ordered
  <2> QED BY <2>1, <2>6, <2>7, <2>8, <2>9 DEF Inv, FromFusion
<1>7. ASSUME Fail PROVE Inv'
  <2>1. /\ pc # "idle" /\ pc' = "failed"
        /\ UNCHANGED <<catalog, writes, query, vectorHits, keywordHits, hydrated, todo, scored,
                       results, past>>
    BY <1>7 DEF Fail
  <2>2. TypeOK'
    BY <1>0, <2>1 DEF TypeOK
  <2>3. Sources'
    BY <1>0, <2>1 DEF Sources
  <2> QED BY <2>1, <2>2, <2>3 DEF Inv, FromFusion, Looked, Ordered
<1>8. ASSUME NEW p \in ProductIds, NEW row \in Rows, Write(p, row) PROVE Inv'
  <2>1. /\ writes < MaxWrites /\ writes' = writes + 1
        /\ catalog' = [catalog EXCEPT ![p] = row]
        /\ past' = IF pc = "idle" THEN past ELSE past \cup {catalog'}
        /\ UNCHANGED <<pc, query, vectorHits, keywordHits, hydrated, todo, scored, results>>
    BY <1>8 DEF Write
  <2>2. Fused' = Fused /\ Cut' = Cut /\ (Reranks' <=> Reranks)
    BY <2>1, Frame
  <2>3. catalog' \in [ProductIds -> Rows]
    BY <2>1, TypeFacts
  <2>4. writes' \in 0..MaxWrites
    BY <1>0, <2>1, SearchAssumption DEF TypeOK, SearchAssumption
  <2>5. TypeOK'
    BY <1>0, <2>1, <2>3, <2>4 DEF TypeOK
  <2>6. Sources'
    BY <1>0, <2>1 DEF Sources
  <2>7. FromFusion'
    BY <2>1, <2>2 DEF Inv, FromFusion
  <2>8. Looked'
    <3>1. SUFFICES ASSUME pc \in {"rank", "answered"}
                   PROVE  \E order \in Fused', moment \in past' : Lookup(order, moment)'
      BY <2>1 DEF Looked
    <3>2. PICK o \in Fused, m \in past : Lookup(o, m)
      BY <3>1 DEF Inv, Looked
    <3>3. Lookup(o, m)'
      BY <2>1, <3>2, LookupFrame
    <3>4. o \in Fused' /\ m \in past'
      BY <2>1, <2>2, <3>1, <3>2
    <3> QED BY <3>3, <3>4
  <2>9. Ordered'
    <3>1. Orders' = Orders
      BY <2>1, <2>2 DEF Orders
    <3> QED BY <2>1, <3>1 DEF Inv, Ordered
  <2> QED BY <2>5, <2>6, <2>7, <2>8, <2>9 DEF Inv
<1>9. ASSUME UNCHANGED vars PROVE Inv'
  <2>1. /\ catalog' = catalog /\ writes' = writes /\ pc' = pc /\ past' = past
        /\ results' = results /\ todo' = todo
        /\ UNCHANGED <<query, vectorHits, keywordHits, hydrated, scored>>
    BY <1>9 DEF vars
  <2>2. Fused' = Fused /\ Cut' = Cut /\ (Reranks' <=> Reranks)
    BY <2>1, Frame
  <2>3. TypeOK'
    BY <1>0, <2>1 DEF TypeOK
  <2>4. Sources'
    BY <1>0, <2>1 DEF Sources
  <2>5. FromFusion'
    BY <2>1, <2>2 DEF Inv, FromFusion
  <2>6. Looked'
    <3>1. SUFFICES ASSUME pc \in {"rank", "answered"}
                   PROVE  \E order \in Fused', moment \in past' : Lookup(order, moment)'
      BY <2>1 DEF Looked
    <3>2. PICK o \in Fused, m \in past : Lookup(o, m)
      BY <3>1 DEF Inv, Looked
    <3>3. Lookup(o, m)'
      BY <2>1, <3>2, LookupFrame
    <3> QED BY <2>1, <2>2, <3>2, <3>3
  <2>7. Ordered'
    <3>1. Orders' = Orders
      BY <2>1, <2>2 DEF Orders
    <3> QED BY <2>1, <3>1 DEF Inv, Ordered
  <2> QED BY <2>3, <2>4, <2>5, <2>6, <2>7 DEF Inv
<1> QED BY <1>1, <1>2, <1>3, <1>4, <1>5, <1>6, <1>7, <1>8, <1>9 DEF Next

-----------------------------------------------------------------------------
(* What the invariant says of an answer.                                   *)

\* An answer comes from one fused list and one moment of the table.
LEMMA AnsweredFacts ==
    ASSUME Inv, Answered
    PROVE  \E fused \in Fused, moment \in past, order \in Orders :
              /\ IsList(fused) /\ ToSet(fused) = Hits
              /\ Lookup(fused, moment)
              /\ ToSet(scored) = ToSet(fused) \cap {p \in ProductIds : Shown(hydrated[p])}
              /\ Len(scored) <= Len(fused)
              /\ \A p, q : Precedes(scored, p, q) => Precedes(fused, p, q)
              /\ IsList(order) /\ ToSet(order) = ToSet(scored) /\ Len(order) = Len(scored)
              /\ results = Prefix(order, query.topK)
<1>1. pc = "answered"
  BY DEF Answered
<1>2. PICK fused \in Fused, moment \in past : Lookup(fused, moment)
  BY <1>1 DEF Inv, Looked
<1>3. IsList(fused) /\ ToSet(fused) = Hits
  BY <1>1, FusedFacts
<1>4. scored \in Filtered(fused, {p \in ProductIds : Shown(hydrated[p])})
  BY <1>2 DEF Lookup
<1>5. /\ ToSet(scored) = ToSet(fused) \cap {p \in ProductIds : Shown(hydrated[p])}
      /\ Len(scored) <= Len(fused)
      /\ \A p, q : Precedes(scored, p, q) => Precedes(fused, p, q)
  <2>1. {p \in ProductIds : Shown(hydrated[p])} \in SUBSET ProductIds
    OBVIOUS
  <2> QED BY <1>3, <1>4, <2>1, Filters
<1>6. PICK order \in Orders : results = Prefix(order, query.topK)
  BY <1>1 DEF Inv, Ordered
<1>7. IsList(order) /\ ToSet(order) = ToSet(scored) /\ Len(order) = Len(scored)
  <2>1. IsList(scored)
    BY TypeFacts
  <2> QED BY <2>1, <1>6, RerankFacts DEF Orders
<1> QED BY <1>2, <1>3, <1>5, <1>6, <1>7

LEMMA InvOneMoment == Inv => OneMoment
<1> SUFFICES ASSUME Inv, Answered
             PROVE  \E moment \in past : \A i \in DOMAIN results :
                       hydrated[results[i]] = moment[results[i]] /\ Shown(moment[results[i]])
  BY DEF OneMoment
<1>1. PICK fused \in Fused, moment \in past, order \in Orders :
          /\ Lookup(fused, moment)
          /\ ToSet(scored) = ToSet(fused) \cap {p \in ProductIds : Shown(hydrated[p])}
          /\ IsList(order) /\ ToSet(order) = ToSet(scored)
          /\ results = Prefix(order, query.topK)
  BY AnsweredFacts
<1>2. query.topK \in Nat
  BY TypeFacts DEF Answered
<1>3. ASSUME NEW i \in DOMAIN results
      PROVE  hydrated[results[i]] = moment[results[i]] /\ Shown(moment[results[i]])
  <2>1. results[i] \in ToSet(results)
    BY <1>3 DEF ToSet
  <2>2. results[i] \in ToSet(scored)
    BY <1>1, <1>2, <2>1, PrefixFacts
  <2>3. results[i] \in ProductIds /\ Shown(hydrated[results[i]])
    BY <1>1, <2>2
  <2>4. hydrated[results[i]] # "gone"
    BY <2>3 DEF Shown
  <2>5. hydrated[results[i]] = moment[results[i]]
    BY <1>1, <2>3, <2>4 DEF Lookup
  <2> QED BY <2>3, <2>5
<1> QED BY <1>3

LEMMA InvNoPromotion == Inv => NoPromotion
<1> SUFFICES ASSUME Inv, Answered
             PROVE  ToSet(Prefix(results, RerankCandidates))
                       \subseteq ToSet(Prefix(scored, RerankCandidates))
  BY DEF NoPromotion
<1>1. PICK order \in Orders : results = Prefix(order, query.topK)
  BY DEF Answered, Inv, Ordered
<1>2. IsList(scored) /\ IsList(results) /\ query.topK \in Nat /\ RerankCandidates \in Nat
  BY TypeFacts DEF Answered
<1> DEFINE best == Prefix(results, RerankCandidates)
           front == Prefix(scored, RerankCandidates)
<1>3. /\ IsList(best) /\ Len(best) \in Nat /\ Len(best) <= RerankCandidates
      /\ Len(best) <= Len(results) /\ \A i \in 1..Len(best) : best[i] = results[i]
  <2>1. IsList(best) /\ \A i \in 1..Len(best) : best[i] = results[i]
    BY <1>2, PrefixFacts
  <2>2. Len(best) = IF RerankCandidates < Len(results) THEN RerankCandidates ELSE Len(results)
    BY <1>2, PrefixFacts
  <2>3. Len(best) \in Nat /\ Len(results) \in Nat
    BY <1>2, <2>1, ListSize
  <2> QED BY <1>2, <2>1, <2>2, <2>3
<1>4. /\ IsList(order)
      /\ \A i \in 1..Len(order) : i <= RerankCandidates => order[i] \in ToSet(front)
  <2>1. CASE order \in Rerank(scored)
    BY <1>2, <2>1, RerankFacts
  <2>2. CASE order = scored
    <3>1. /\ Len(front) = IF RerankCandidates < Len(scored) THEN RerankCandidates ELSE Len(scored)
          /\ \A i \in 1..Len(front) : front[i] = scored[i]
          /\ IsList(front)
      BY <1>2, PrefixFacts
    <3>2. Len(scored) \in Nat /\ DOMAIN front = 1..Len(front)
      BY <1>2, <3>1, ListSize
    <3>3. ASSUME NEW i \in 1..Len(scored), i <= RerankCandidates
          PROVE  scored[i] \in ToSet(front)
      <4>1. i \in 1..Len(front)
        BY <1>2, <3>1, <3>2, <3>3
      <4> QED BY <3>1, <3>2, <4>1 DEF ToSet
    <3> QED BY <1>2, <2>2, <3>3
  <2> QED BY <1>1, <2>1, <2>2 DEF Orders
<1>5. /\ Len(results) \in Nat /\ Len(order) \in Nat /\ Len(results) <= Len(order)
      /\ \A i \in 1..Len(results) : results[i] = order[i]
  <2>1. /\ Len(results) = IF query.topK < Len(order) THEN query.topK ELSE Len(order)
        /\ \A i \in 1..Len(results) : results[i] = order[i]
    BY <1>1, <1>2, <1>4, PrefixFacts
  <2>2. Len(results) \in Nat /\ Len(order) \in Nat
    BY <1>2, <1>4, ListSize
  <2> QED BY <1>2, <2>1, <2>2
<1> HIDE DEF best, front
<1>6. \A i \in 1..Len(best) : best[i] \in ToSet(front)
  <2>1. SUFFICES ASSUME NEW i \in 1..Len(best) PROVE best[i] \in ToSet(front)
    OBVIOUS
  <2>2. i \in 1..Len(results) /\ i \in 1..Len(order) /\ i <= RerankCandidates
    BY <1>2, <1>3, <1>5
  <2> QED BY <1>3, <1>4, <1>5, <2>2
<1>7. DOMAIN best = 1..Len(best)
  BY <1>3, ListSize
<1>8. ToSet(best) \subseteq ToSet(front)
  BY <1>6, <1>7 DEF ToSet
<1> QED BY <1>8 DEF best, front

LEMMA InvNothingHidden == Inv => NothingHidden
<1> SUFFICES ASSUME Inv, Answered, Cardinality(Hits) <= query.topK,
                    NEW p \in Hits \ ToSet(results)
             PROVE  \E moment \in past : ~Shown(moment[p])
  BY DEF NothingHidden
<1>1. PICK fused \in Fused, moment \in past, order \in Orders :
          /\ IsList(fused) /\ ToSet(fused) = Hits
          /\ Lookup(fused, moment)
          /\ ToSet(scored) = ToSet(fused) \cap {r \in ProductIds : Shown(hydrated[r])}
          /\ Len(scored) <= Len(fused)
          /\ IsList(order) /\ ToSet(order) = ToSet(scored) /\ Len(order) = Len(scored)
          /\ results = Prefix(order, query.topK)
  BY AnsweredFacts
<1>2. query.topK \in Nat /\ Cut \in Nat /\ query.topK <= Cut
  BY TypeFacts DEF Answered
<1>3. /\ Len(fused) \in Nat /\ Cardinality(Hits) = Len(fused) /\ Len(order) \in Nat
      /\ Hits \subseteq ProductIds
  BY <1>1, ListSize
<1>4. Len(fused) <= query.topK /\ Len(fused) <= Cut /\ Len(order) <= query.topK
  BY <1>1, <1>2, <1>3
<1>5. results = order /\ Prefix(fused, Cut) = fused
  BY <1>1, <1>2, <1>4, PrefixFacts
<1>6. p \notin ToSet(scored) /\ p \in ToSet(fused) /\ p \in ProductIds
  BY <1>1, <1>3, <1>5
<1>7. hydrated[p] = moment[p]
  BY <1>1, <1>5, <1>6 DEF Lookup
<1>8. ~Shown(hydrated[p])
  BY <1>1, <1>6
<1> QED BY <1>7, <1>8

\* Without reranking the answer keeps the order of a fused list.
LEMMA AnswerKeepsOrder ==
    ASSUME Inv, Answered, ~Reranks
    PROVE  \E fused \in Fused : \A p, q : Precedes(results, p, q) => Precedes(fused, p, q)
<1>1. PICK fused \in Fused, order \in Orders :
          /\ \A p, q : Precedes(scored, p, q) => Precedes(fused, p, q)
          /\ IsList(order) /\ results = Prefix(order, query.topK)
  BY AnsweredFacts
<1>2. order = scored
  BY <1>1 DEF Orders
<1>3. query.topK \in Nat
  BY TypeFacts DEF Answered
<1>4. ASSUME NEW p, NEW q, Precedes(results, p, q) PROVE Precedes(fused, p, q)
  <2>1. Precedes(scored, p, q)
    BY <1>1, <1>2, <1>3, <1>4, PrefixKeepsOrder
  <2> QED BY <1>1, <2>1
<1> QED BY <1>4

LEMMA InvConsensusFirst ==
    ASSUME VectorCandidates <= RrfK + 1, KeywordCandidates <= RrfK + 1
    PROVE  Inv => ConsensusFirst
<1> SUFFICES ASSUME Inv, Answered, query.strategy = "rrf", ~Reranks,
                    NEW p \in Both, NEW q \in Hits \ Both
             PROVE  ~Precedes(results, q, p)
  BY DEF ConsensusFirst
<1>1. PICK fused \in Fused : \A a, b : Precedes(results, a, b) => Precedes(fused, a, b)
  BY AnswerKeepsOrder
<1>2. fused \in FuseRrf(vectorHits, keywordHits)
  BY <1>1 DEF Fused
<1>3. vectorHits \in VectorAnswers /\ keywordHits \in KeywordAnswers
  BY TypeFacts
<1>4. /\ IsCandidateList(vectorHits) /\ Len(vectorHits) <= VectorCandidates
      /\ IsCandidateList(keywordHits) /\ Len(keywordHits) <= KeywordCandidates
  BY <1>3, AnswerFacts, SearchAssumption
     DEF SearchAssumption, VectorAnswers, KeywordAnswers, IsScoredList
<1>5. Len(vectorHits) <= RrfK + 1 /\ Len(keywordHits) <= RrfK + 1
  <2>1. /\ VectorCandidates \in Nat /\ KeywordCandidates \in Nat /\ RrfK \in Nat
        /\ Len(vectorHits) \in Nat /\ Len(keywordHits) \in Nat
    BY <1>4, SearchAssumption, FusionAssumption
       DEF SearchAssumption, FusionAssumption, IsCandidateList
  <2> QED BY <1>4, <2>1
<1>6. /\ p \in Products(vectorHits) \cap Products(keywordHits)
      /\ q \in Products(vectorHits) \cup Products(keywordHits)
      /\ q \notin Products(vectorHits) \cap Products(keywordHits)
  BY DEF Both, Hits
<1>7. Greater(Rrf(vectorHits, keywordHits, p), Rrf(vectorHits, keywordHits, q))
  BY <1>4, <1>5, <1>6, RrfConsensus
<1>8. ~Precedes(fused, q, p)
  BY <1>2, <1>3, <1>6, <1>7, RrfFacts
<1> QED BY <1>1, <1>8

\* The better product stands first in its list.
LEMMA BetterRank ==
    ASSUME NEW list, IsScoredList(list), NEW p, NEW q, Better(list, p, q)
    PROVE  p \in Products(list) /\ (q \in Products(list) => RankOf(list, p) < RankOf(list, q))
<1>1. p \in Products(list) /\ (q \in Products(list) => ScoreOf(list, p) > ScoreOf(list, q))
  BY DEF Better
<1> QED BY <1>1, BetterIsBefore

LEMMA InvParetoOrder ==
    ASSUME VectorWeight > 0, KeywordWeight > 0
    PROVE  Inv => ParetoOrder
<1> SUFFICES ASSUME Inv, Answered, query.strategy \in {"rrf", "weighted_sum"}, ~Reranks,
                    NEW p \in Hits, NEW q \in Hits,
                    Better(vectorHits, p, q), Better(keywordHits, p, q)
             PROVE  ~Precedes(results, q, p)
  BY DEF ParetoOrder
<1>1. PICK fused \in Fused : \A a, b : Precedes(results, a, b) => Precedes(fused, a, b)
  BY AnswerKeepsOrder
<1>2. vectorHits \in VectorAnswers /\ keywordHits \in KeywordAnswers
  BY TypeFacts
<1>3. IsScoredList(vectorHits) /\ IsScoredList(keywordHits)
  BY <1>2, AnswerFacts, SearchAssumption DEF SearchAssumption, VectorAnswers, KeywordAnswers
<1>4. /\ p \in Products(vectorHits) \cap Products(keywordHits)
      /\ p \in Products(vectorHits) \cup Products(keywordHits)
      /\ q \in Products(vectorHits) \cup Products(keywordHits)
  BY DEF Hits, Better
<1>5. CASE query.strategy = "rrf"
  <2>1. fused \in FuseRrf(vectorHits, keywordHits)
    BY <1>1, <1>5 DEF Fused
  <2>2. /\ q \in Products(vectorHits) => RankOf(vectorHits, p) < RankOf(vectorHits, q)
        /\ q \in Products(keywordHits) => RankOf(keywordHits, p) < RankOf(keywordHits, q)
    BY <1>3, BetterRank
  <2>3. Greater(Rrf(vectorHits, keywordHits, p), Rrf(vectorHits, keywordHits, q))
    BY <1>3, <1>4, <2>2, RrfPareto DEF IsScoredList
  <2>4. ~Precedes(fused, q, p)
    BY <1>2, <1>4, <2>1, <2>3, RrfFacts
  <2> QED BY <1>1, <2>4
<1>6. CASE query.strategy = "weighted_sum"
  <2>1. fused \in FuseWeightedSum(vectorHits, keywordHits)
    BY <1>1, <1>6 DEF Fused
  <2>2. /\ q \in Products(vectorHits) => ScoreOf(vectorHits, p) > ScoreOf(vectorHits, q)
        /\ q \in Products(keywordHits) => ScoreOf(keywordHits, p) > ScoreOf(keywordHits, q)
    BY DEF Better
  <2>3. Greater(WeightedSum(vectorHits, keywordHits, p), WeightedSum(vectorHits, keywordHits, q))
    BY <1>3, <1>4, <2>2, WeightedPareto
  <2>4. ~Precedes(fused, q, p)
    BY <1>2, <1>4, <2>1, <2>3, WeightedFacts
  <2> QED BY <1>1, <2>4
<1> QED BY <1>5, <1>6

-----------------------------------------------------------------------------
\* The invariant holds throughout.
THEOREM InvHolds == Spec => []Inv
BY InitInv, StepInv, PTL DEF Spec

\* RetrievalService.search: the variables have their types for any constants; in
\* particular no step of the search names a product twice.
THEOREM TypeCorrect == Spec => []TypeOK
<1>1. Inv => TypeOK
  BY DEF Inv
<1> QED BY <1>1, InvHolds, PTL

\* The one SELECT of the candidates: an answer shows the catalog as it was at one
\* moment of the search, whatever is written meanwhile.
THEOREM AnswersOfOneMoment == Spec => []OneMoment
BY InvOneMoment, InvHolds, PTL

\* _apply_rerank and the cut behind it: none of the products behind the
\* candidates comes before them, whatever the model scores.
THEOREM RerankPromotesNone == Spec => []NoPromotion
BY InvNoPromotion, InvHolds, PTL

\* max(top_k, DEFAULT_RERANK_CANDIDATES) candidates are enough: what was found and
\* fits the answer is in it, unless the catalog or the filters took it out.
THEOREM NothingIsHidden == Spec => []NothingHidden
BY InvNothingHidden, InvHolds, PTL

\* fuse_rrf, through hydration, filters and the cut: consensus first, when the
\* indexes are asked for at most k + 1 candidates (50 each and k = 60 in the code).
THEOREM ConsensusIsFirst ==
    ASSUME VectorCandidates <= RrfK + 1, KeywordCandidates <= RrfK + 1
    PROVE  Spec => []ConsensusFirst
BY InvConsensusFirst, InvHolds, PTL

\* Both fusions, through hydration, filters and the cut: what both retrievers
\* prefer comes first, when both have a weight (0.6 and 0.4 in the code).
THEOREM BetterIsFirst ==
    ASSUME VectorWeight > 0, KeywordWeight > 0
    PROVE  Spec => []ParetoOrder
BY InvParetoOrder, InvHolds, PTL
===============================================================================
