--------------------------- MODULE Bm25IndexProofs ---------------------------
(***************************************************************************)
(* The keyword index without a lock, for any number of threads that build  *)
(* and search it, any products, texts, catalogs and any number of calls.   *)
(* However builds overlap, one that meets no other leaves the three        *)
(* attributes telling of the same documents, and a search that meets no    *)
(* build does not fail on them and names matching products only.           *)
(*                                                                         *)
(* The argument follows one undisturbed call: the attributes it has set    *)
(* are still as it set them (Progress), for nobody else builds meanwhile   *)
(* (Exclusive, Undisturbed), so that the index is aligned when it ends     *)
(* (Aligned) and stays so while searches look at it (Found).               *)
(***************************************************************************)
EXTENDS Bm25Index, FiniteSetTheorems, FunctionTheorems, SequenceTheorems, TLAPS

\* Of calls that change the index, an undisturbed one is alone.
Exclusive == \A t, u \in Building : calm[t] => u = t

\* What an undisturbed build has assigned is still there.
Progress ==
    \A t \in Building : calm[t] =>
        /\ pc[t] \in {"order", "score"} => byId = products[t]
        /\ pc[t] = "score" => ids = Keys(byId)
        /\ pc[t] \in {"clearIds", "clearProducts"} => bm25 = <<>>
        /\ pc[t] = "clearProducts" => ids = <<>>

\* An undisturbed search is one that nobody changes the index under.
Undisturbed == \A t \in Searching : calm[t] => Building = {}

MatchingProducts == {bm25[i][1] : i \in Matching(bm25)}

\* What such a search holds comes from the index as it is.
Found ==
    \A t \in Searching : calm[t] /\ sound =>
        /\ pc[t] # "failed"
        /\ pc[t] = "rank" => bm25 # <<>>
        /\ pc[t] = "name" => positions[t] \subseteq Matching(bm25)
        /\ hits[t] \subseteq MatchingProducts

\* A thread holds hits only between naming and answering.
Unanswered == \A t \in Threads : pc[t] \notin {"name", "found", "failed"} => hits[t] = {}

Inv ==
    /\ TypeOK /\ Exclusive /\ Progress /\ Aligned /\ Undisturbed /\ Found /\ Unanswered

-----------------------------------------------------------------------------
(* Lists of documents.                                                     *)

LEMMA CorpusFacts ==
    ASSUME NEW docs \in Corpora
    PROVE  /\ Len(docs) \in Nat /\ Len(docs) <= Cardinality(ProductIds)
           /\ docs \in Seq(Documents) /\ docs \in [1..Len(docs) -> Documents]
           /\ DOMAIN docs = 1..Len(docs)
           /\ \A i \in 1..Len(docs) : docs[i][1] \in ProductIds /\ docs[i][2] \in Texts
           /\ \A i, j \in 1..Len(docs) : docs[i][1] = docs[j][1] => i = j
<1>0. Cardinality(ProductIds) \in Nat
  BY IndexAssumption, FS_CardinalityType DEF IndexAssumption
<1>1. PICK n \in 0..Cardinality(ProductIds) : docs \in [1..n -> Documents]
  BY DEF Corpora
<1>2. n \in Nat /\ n <= Cardinality(ProductIds)
  BY <1>0, <1>1
<1>3. docs \in Seq(Documents)
  BY <1>1, <1>2, SeqDef
<1>4. Len(docs) \in Nat /\ DOMAIN docs = 1..Len(docs) /\ docs \in [1..Len(docs) -> Documents]
  BY <1>3, LenProperties
<1>5. n = Len(docs)
  BY <1>1, <1>2, <1>4
<1>6. \A i \in 1..Len(docs) : docs[i][1] \in ProductIds /\ docs[i][2] \in Texts
  BY <1>4 DEF Documents
<1>7. \A i, j \in 1..Len(docs) : docs[i][1] = docs[j][1] => i = j
  BY <1>4 DEF Corpora
<1> QED BY <1>2, <1>3, <1>4, <1>5, <1>6, <1>7

\* Documents of different products are no more than there are products.
LEMMA CorpusIntro ==
    ASSUME NEW n \in Nat, NEW docs \in [1..n -> Documents],
           \A i, j \in 1..n : docs[i][1] = docs[j][1] => i = j
    PROVE  docs \in Corpora
<1> DEFINE key == [i \in 1..n |-> docs[i][1]]
<1>1. key \in [1..n -> ProductIds] /\ \A i \in 1..n : key[i] = docs[i][1]
  BY DEF Documents
<1> HIDE DEF key
<1>2. key \in Injection(1..n, ProductIds)
  <2>1. \A a, b \in 1..n : key[a] = key[b] => a = b
    BY <1>1
  <2> QED BY <1>1, <2>1, Fun_IsInj
<1>3. IsFiniteSet(ProductIds) /\ Cardinality(ProductIds) \in Nat
  BY IndexAssumption, FS_CardinalityType DEF IndexAssumption
<1>4. Cardinality(1..n) <= Cardinality(ProductIds)
  BY <1>2, <1>3, FS_Injection
<1>5. Cardinality(1..n) = n
  <2>1. 1 \in Int /\ n \in Int
    OBVIOUS
  <2>2. Cardinality(1..n) = IF 1 > n THEN 0 ELSE n - 1 + 1
    BY <2>1, FS_Interval
  <2> QED BY <2>2
<1>6. n \in 0..Cardinality(ProductIds)
  BY <1>3, <1>4, <1>5
<1>7. DOMAIN docs = 1..n
  OBVIOUS
<1> QED BY <1>6, <1>7 DEF Corpora

LEMMA EmptyCorpus == <<>> \in Corpora
<1>1. <<>> \in [1..0 -> Documents] /\ 0 \in Nat
  OBVIOUS
<1>2. \A i, j \in 1..0 : <<>>[i][1] = <<>>[j][1] => i = j
  OBVIOUS
<1> QED BY <1>1, <1>2, CorpusIntro

\* upsert: a product is replaced or added, never there twice.
LEMMA MergeCorpus ==
    ASSUME NEW docs \in Corpora, NEW p \in ProductIds, NEW text \in Texts
    PROVE  Merge(docs, p, text) \in Corpora
<1> DEFINE n == Len(docs)
<1>1. /\ n \in Nat /\ docs \in Seq(Documents) /\ docs \in [1..n -> Documents] /\ DOMAIN docs = 1..n
      /\ \A i \in 1..n : docs[i][1] \in ProductIds /\ docs[i][2] \in Texts
      /\ \A i, j \in 1..n : docs[i][1] = docs[j][1] => i = j
  BY CorpusFacts
<1>2. <<p, text>> \in Documents
  BY DEF Documents
<1>3. CASE \E i \in DOMAIN docs : docs[i][1] = p
  <2> DEFINE new == [i \in DOMAIN docs |-> IF docs[i][1] = p THEN <<p, text>> ELSE docs[i]]
  <2>1. Merge(docs, p, text) = new
    BY <1>3 DEF Merge
  <2>2. new \in [1..n -> Documents]
    BY <1>1, <1>2
  <2>3. \A i \in 1..n : new[i][1] = docs[i][1]
    BY <1>1
  <2> HIDE DEF new, n
  <2>4. \A i, j \in 1..n : new[i][1] = new[j][1] => i = j
    BY <1>1, <2>3
  <2> QED BY <1>1, <2>1, <2>2, <2>4, CorpusIntro
<1>4. CASE ~\E i \in DOMAIN docs : docs[i][1] = p
  <2> DEFINE new == Append(docs, <<p, text>>)
  <2>1. Merge(docs, p, text) = new
    BY <1>4 DEF Merge
  <2>2. /\ new \in Seq(Documents) /\ Len(new) = n + 1
        /\ \A i \in 1..n : new[i] = docs[i]
        /\ new[n + 1] = <<p, text>>
    BY <1>1, <1>2, AppendProperties
  <2>3. new \in [1..Len(new) -> Documents]
    BY <2>2, LenProperties
  <2> HIDE DEF new, n
  <2>4. \A i, j \in 1..(n + 1) : new[i][1] = new[j][1] => i = j
    <3>1. SUFFICES ASSUME NEW i \in 1..(n + 1), NEW j \in 1..(n + 1), new[i][1] = new[j][1]
                   PROVE  i = j
      OBVIOUS
    <3>2. ASSUME NEW k \in 1..n PROVE new[k][1] # p
      BY <1>1, <1>4, <2>2
    <3>3. new[n + 1][1] = p
      BY <2>2
    <3>4. CASE i \in 1..n /\ j \in 1..n
      BY <1>1, <2>2, <3>1, <3>4
    <3>5. CASE i = n + 1 \/ j = n + 1
      <4>1. (i \in 1..n \/ i = n + 1) /\ (j \in 1..n \/ j = n + 1)
        BY <1>1
      <4> QED BY <3>1, <3>2, <3>3, <3>5, <4>1
    <3>6. (i \in 1..n \/ i = n + 1) /\ (j \in 1..n \/ j = n + 1)
      BY <1>1
    <3> QED BY <3>4, <3>5, <3>6
  <2>5. n + 1 \in Nat
    BY <1>1
  <2> QED BY <2>1, <2>2, <2>3, <2>4, <2>5, CorpusIntro
<1> QED BY <1>3, <1>4

\* delete: what remains is a list of different products again.
LEMMA WithoutCorpus ==
    ASSUME NEW docs \in Corpora, NEW p \in ProductIds
    PROVE  Without(docs, p) \in Corpora
<1> DEFINE n == Len(docs)
<1>1. /\ n \in Nat /\ DOMAIN docs = 1..n
      /\ \A i \in 1..n : docs[i] \in Documents
      /\ \A i, j \in 1..n : docs[i][1] = docs[j][1] => i = j
  <2>1. docs \in [1..n -> Documents]
    BY CorpusFacts
  <2> QED BY <2>1, CorpusFacts
<1>2. CASE ~\E i \in DOMAIN docs : docs[i][1] = p
  BY <1>2 DEF Without
<1>3. CASE \E i \in DOMAIN docs : docs[i][1] = p
  <2> DEFINE k == CHOOSE i \in DOMAIN docs : docs[i][1] = p
             front == SubSeq(docs, 1, k - 1)
             rest == SubSeq(docs, k + 1, n)
             new == front \o rest
  <2>1. k \in 1..n
    BY <1>1, <1>3
  <2>2. Without(docs, p) = new
    BY <1>3 DEF Without, RemoveAt
  <2> HIDE DEF k
  <2>3. k - 1 \in Nat /\ n - k \in Nat /\ 1 <= n /\ k \in Nat
    BY <1>1, <2>1
  <2>4. front \in Seq(Documents) /\ Len(front) = k - 1 /\ \A i \in 1..(k - 1) : front[i] = docs[i]
    <3>1. 1 \in Int /\ k - 1 \in Int /\ \A i \in 1..(k - 1) : docs[i] \in Documents
      BY <1>1, <2>1
    <3>2. /\ front \in Seq(Documents)
          /\ Len(front) = IF 1 <= k - 1 THEN (k - 1) - 1 + 1 ELSE 0
          /\ \A i \in 1..((k - 1) - 1 + 1) : front[i] = docs[1 + i - 1]
      BY <3>1, SubSeqProperties
    <3>3. (k - 1) - 1 + 1 = k - 1 /\ \A i \in 1..(k - 1) : 1 + i - 1 = i
      BY <2>3
    <3> HIDE DEF front
    <3> QED BY <2>3, <3>2, <3>3
  <2>5. rest \in Seq(Documents) /\ Len(rest) = n - k /\ \A i \in 1..(n - k) : rest[i] = docs[k + i]
    <3>1. k + 1 \in Int /\ n \in Int /\ \A i \in (k + 1)..n : docs[i] \in Documents
      BY <1>1, <2>1
    <3> DEFINE a == k + 1
    <3>2. /\ SubSeq(docs, a, n) \in Seq(Documents)
          /\ Len(SubSeq(docs, a, n)) = IF a <= n THEN n - a + 1 ELSE 0
          /\ \A i \in 1..(n - a + 1) : SubSeq(docs, a, n)[i] = docs[a + i - 1]
      <4> HIDE DEF a, n
      <4>1. a \in Int /\ n \in Int /\ \A i \in a..n : docs[i] \in Documents
        BY <3>1 DEF a
      <4> QED BY <4>1, SubSeqProperties
    <3>3. n - a + 1 = n - k /\ \A i \in 1..(n - k) : a + i - 1 = k + i
      BY <1>1, <2>3
    <3>4. rest = SubSeq(docs, a, n)
      OBVIOUS
    <3> HIDE DEF rest
    <3>5. Len(rest) = n - k
      <4>1. n \in Nat /\ k \in Nat /\ k <= n
        BY <1>1, <2>1
      <4>2. Len(rest) = IF a <= n THEN n - a + 1 ELSE 0
        BY <3>2, <3>4
      <4> HIDE DEF n
      <4> QED BY <4>1, <4>2
    <3> QED BY <3>2, <3>3, <3>4, <3>5
  <2> DEFINE m == n - 1
  <2>6. m \in Nat /\ (k - 1) + (n - k) = m
    BY <1>1, <2>3
  <2> HIDE DEF n, front, rest
  <2>7. /\ new \in Seq(Documents) /\ Len(new) = m
        /\ \A i \in 1..m : new[i] = IF i <= k - 1 THEN front[i] ELSE rest[i - (k - 1)]
    <3>1. /\ new \in Seq(Documents) /\ Len(new) = Len(front) + Len(rest)
          /\ \A i \in 1..(Len(front) + Len(rest)) :
                new[i] = IF i <= Len(front) THEN front[i] ELSE rest[i - Len(front)]
      BY <2>4, <2>5, ConcatProperties
    <3>2. Len(front) = k - 1 /\ Len(front) + Len(rest) = m
      BY <2>4, <2>5, <2>6
    <3> HIDE DEF new, m
    <3> QED BY <3>1, <3>2
  <2>8. new \in [1..m -> Documents]
    <3> HIDE DEF new, m
    <3> QED BY <2>7, LenProperties
  <2> HIDE DEF new
  <2>9. /\ \A i \in 1..(k - 1) : i \in 1..m /\ i \in 1..n /\ new[i] = docs[i]
        /\ \A i \in k..m : i + 1 \in 1..n /\ new[i] = docs[i + 1]
    <3>1. ASSUME NEW i \in 1..(k - 1) PROVE i \in 1..m /\ i \in 1..n /\ new[i] = docs[i]
      <4>1. i \in 1..m /\ i \in 1..n /\ i <= k - 1
        BY <1>1, <2>1, <2>3, <2>6
      <4> QED BY <2>4, <2>7, <4>1
    <3>2. ASSUME NEW i \in k..m PROVE i + 1 \in 1..n /\ new[i] = docs[i + 1]
      <4>1. /\ i \in 1..m /\ ~(i <= k - 1) /\ i - (k - 1) \in 1..(n - k)
            /\ k + (i - (k - 1)) = i + 1 /\ i + 1 \in 1..n
        BY <1>1, <2>1, <2>3, <2>6
      <4> QED BY <2>5, <2>7, <4>1
    <3> QED BY <3>1, <3>2
  <2>10. \A i, j \in 1..m : new[i][1] = new[j][1] => i = j
    <3>1. SUFFICES ASSUME NEW i \in 1..m, NEW j \in 1..m, new[i][1] = new[j][1]
                   PROVE  i = j
      OBVIOUS
    <3>2. (i \in 1..(k - 1) \/ i \in k..m) /\ (j \in 1..(k - 1) \/ j \in k..m)
      BY <2>3, <2>6
    <3>3. CASE i \in 1..(k - 1) /\ j \in 1..(k - 1)
      BY <1>1, <2>9, <3>1, <3>3
    <3>4. CASE i \in k..m /\ j \in k..m
      <4>1. i + 1 = j + 1
        BY <1>1, <2>9, <3>1, <3>4
      <4> QED BY <4>1
    <3>5. CASE i \in 1..(k - 1) /\ j \in k..m
      <4>1. i = j + 1
        BY <1>1, <2>9, <3>1, <3>5
      <4> QED BY <2>3, <3>5, <4>1
    <3>6. CASE i \in k..m /\ j \in 1..(k - 1)
      <4>1. i + 1 = j
        BY <1>1, <2>9, <3>1, <3>6
      <4> QED BY <2>3, <3>6, <4>1
    <3> QED BY <3>2, <3>3, <3>4, <3>5, <3>6
  <2>11. new \in Corpora
    <3> HIDE DEF m
    <3> QED BY <2>6, <2>8, <2>10, CorpusIntro
  <2> QED BY <2>2, <2>11 DEF new, front, rest, n
<1> QED BY <1>2, <1>3

\* The products of a list of documents.
LEMMA KeysFacts ==
    ASSUME NEW docs \in Corpora
    PROVE  /\ Keys(docs) \in Orders /\ DOMAIN Keys(docs) = 1..Len(docs)
           /\ \A i \in 1..Len(docs) : Keys(docs)[i] = docs[i][1]
           /\ Matching(docs) \subseteq 1..Len(docs)
           /\ Matching(docs) \subseteq 1..Cardinality(ProductIds)
<1>1. /\ DOMAIN docs = 1..Len(docs) /\ Len(docs) \in Nat
      /\ Len(docs) <= Cardinality(ProductIds)
  BY CorpusFacts
<1>2. Cardinality(ProductIds) \in Nat
  BY IndexAssumption, FS_CardinalityType DEF IndexAssumption
<1>3. Matching(docs) \subseteq 1..Len(docs)
  BY <1>1 DEF Matching
<1>4. 1..Len(docs) \subseteq 1..Cardinality(ProductIds)
  BY <1>1, <1>2
<1> QED BY <1>1, <1>3, <1>4 DEF Keys, Orders

LEMMA OrdersFacts ==
    ASSUME NEW order \in Orders, NEW i \in DOMAIN order
    PROVE  order[i] \in ProductIds
<1>1. PICK docs \in Corpora : order = Keys(docs)
  BY DEF Orders
<1> QED BY <1>1, KeysFacts, CorpusFacts

-----------------------------------------------------------------------------
(* The invariant holds at the start and every step keeps it.               *)

LEMMA InitInv == Init => Inv
<1> SUFFICES ASSUME Init PROVE Inv
  OBVIOUS
<1>1. <<>> \in Corpora /\ <<>> \in Orders /\ Keys(<<>>) = <<>>
  <2>1. Keys(<<>>) = <<>>
    BY DEF Keys
  <2> QED BY <2>1, EmptyCorpus, KeysFacts
<1>2. MaxCalls \in Nat
  BY IndexAssumption DEF IndexAssumption
<1>3. TypeOK
  BY <1>1, <1>2 DEF Init, TypeOK
<1>4. Building = {} /\ Searching = {}
  <2>1. \A t \in Threads : pc[t] = "idle"
    BY DEF Init
  <2> QED BY <2>1 DEF Building, Searching, BuildSteps, SearchSteps, Threads
<1>5. Aligned
  BY <1>1 DEF Init, Aligned
<1>6. Unanswered
  BY DEF Init, Unanswered
<1> QED BY <1>3, <1>4, <1>5, <1>6 DEF Inv, Exclusive, Progress, Undisturbed, Found

\* Where a thread goes, and that the others stay.
LEMMA Goes ==
    ASSUME TypeOK, NEW t \in Threads, NEW step, Goto(t, step)
    PROVE  /\ pc'[t] = step /\ \A u \in Threads : u # t => pc'[u] = pc[u]
           /\ step \in {"idle"} \cup BuildSteps \cup SearchSteps =>
                 pc' \in [Threads -> {"idle"} \cup BuildSteps \cup SearchSteps]
<1>1. pc \in [Threads -> {"idle"} \cup BuildSteps \cup SearchSteps]
  BY DEF TypeOK
<1>2. pc' = [pc EXCEPT ![t] = step]
  BY DEF Goto
<1> QED BY <1>1, <1>2

\* A step of a build: who is building and who is searching.
LEMMA BuilderMoves ==
    ASSUME TypeOK, NEW t \in Builders, NEW step, Goto(t, step),
           pc[t] \in BuildSteps \cup {"idle"}, step \in BuildSteps \cup {"idle"}
    PROVE  /\ Searching' = Searching /\ t \notin Searching
           /\ Building' \ {t} = Building \ {t}
           /\ t \in Building <=> pc[t] # "idle"
           /\ t \in Building' <=> step # "idle"
<1>1. pc'[t] = step /\ \A u \in Threads : u # t => pc'[u] = pc[u]
  BY Goes DEF Threads
<1>2. BuildSteps \cap SearchSteps = {} /\ "idle" \notin BuildSteps /\ "idle" \notin SearchSteps
  BY DEF BuildSteps, SearchSteps
<1>3. \A u \in Searchers : pc'[u] \in SearchSteps <=> pc[u] \in SearchSteps
  BY <1>1, <1>2 DEF Threads
<1>4. Searching' = Searching
  BY <1>3 DEF Searching
<1>5. \A u \in Builders : u # t => (pc'[u] \in BuildSteps <=> pc[u] \in BuildSteps)
  BY <1>1 DEF Threads
<1>6. Building' \ {t} = Building \ {t}
  BY <1>5 DEF Building
<1> QED BY <1>1, <1>2, <1>4, <1>6 DEF Building, Searching

\* While someone builds, or after a call has begun, no search is undisturbed.
LEMMA SearchesDisturbed ==
    ASSUME \A u \in Searching' : ~calm'[u]
    PROVE  Undisturbed' /\ Found'
BY DEF Undisturbed, Found

\* build, upsert, delete and clear are entered.
LEMMA EnterStep ==
    ASSUME Inv, NEW t \in Builders, NEW argument \in Corpora, NEW step \in {"assign", "clear"},
           Enter(t, argument, step)
    PROVE  Inv'
<1>1. /\ pc[t] = "idle" /\ calls < MaxCalls /\ calls' = calls + 1
      /\ products' = [products EXCEPT ![t] = argument]
      /\ calm' = [u \in Threads |->
            IF u = t THEN Building = {} ELSE calm[u] /\ u \notin Building \cup Searching]
      /\ Goto(t, step)
      /\ bm25' = bm25 /\ ids' = ids /\ byId' = byId
      /\ positions' = positions /\ hits' = hits /\ sound' = sound
  BY DEF Enter, shared
<1>2. TypeOK /\ t \in Threads /\ step \in BuildSteps /\ Building \subseteq Threads
      /\ Searching \subseteq Threads
  BY DEF Inv, Threads, BuildSteps, Building, Searching
<1>3. /\ pc'[t] = step /\ \A u \in Threads : u # t => pc'[u] = pc[u]
      /\ pc' \in [Threads -> {"idle"} \cup BuildSteps \cup SearchSteps]
  BY <1>1, <1>2, Goes
<1>4. /\ Searching' = Searching /\ t \notin Searching /\ t \notin Building
      /\ Building' \ {t} = Building \ {t} /\ t \in Building'
  <2>1. step # "idle"
    OBVIOUS
  <2> QED BY <1>1, <1>2, <2>1, BuilderMoves
<1>5. calm' \in [Threads -> BOOLEAN]
  <2>1. calm \in [Threads -> BOOLEAN]
    BY <1>2 DEF TypeOK
  <2>2. ASSUME NEW u \in Threads
        PROVE  (IF u = t THEN Building = {} ELSE calm[u] /\ u \notin Building \cup Searching)
                  \in BOOLEAN
    BY <2>1, Zenon
  <2> QED BY <1>1, <2>2, Zenon
<1>6. TypeOK'
  <2>1. calls' \in 0..MaxCalls
    BY <1>1, <1>2, IndexAssumption DEF TypeOK, IndexAssumption
  <2>2. products' \in [Threads -> Corpora]
    BY <1>1, <1>2 DEF TypeOK
  <2>3. /\ bm25' \in Corpora /\ byId' \in Corpora /\ ids' \in Orders
        /\ positions' \in [Threads -> SUBSET (1..Cardinality(ProductIds))]
        /\ hits' \in [Threads -> SUBSET ProductIds]
    BY <1>1, <1>2 DEF TypeOK
  <2>4. sound' \in BOOLEAN
    BY <1>1, <1>2, Zenon DEF TypeOK
  <2> QED BY <1>3, <1>5, <2>1, <2>2, <2>3, <2>4, Zenon DEF TypeOK
<1>7. /\ calm'[t] <=> Building = {}
      /\ \A u \in Building \cup Searching : ~calm'[u]
  <2>1. calm'[t] <=> Building = {}
    BY <1>1, <1>2, Zenon
  <2>2. ASSUME NEW u \in Building \cup Searching PROVE ~calm'[u]
    <3>1. u \in Threads /\ u # t
      BY <1>2, <1>4
    <3> QED BY <1>1, <3>1, Zenon
  <2> QED BY <2>1, <2>2
<1>8. ASSUME NEW u \in Building', calm'[u] PROVE u = t /\ Building = {}
  <2>1. u = t \/ u \in Building
    BY <1>4
  <2> QED BY <1>7, <1>8, <2>1
<1>9. Exclusive'
  <2>1. ASSUME NEW u \in Building', NEW v \in Building', calm'[u] PROVE v = u
    <3>1. u = t /\ Building = {}
      BY <1>8, <2>1
    <3> QED BY <1>4, <3>1
  <2> QED BY <2>1 DEF Exclusive
<1>10. Progress'
  <2>1. ASSUME NEW u \in Building', calm'[u] PROVE pc'[u] \in {"assign", "clear"}
    BY <1>3, <1>8, <2>1
  <2> QED BY <2>1 DEF Progress
<1>11. Aligned'
  BY <1>4 DEF Aligned
<1>12. Undisturbed' /\ Found'
  BY <1>4, <1>7, SearchesDisturbed
<1>13. Unanswered'
  <2>1. ASSUME NEW u \in Threads, pc'[u] \notin {"name", "found", "failed"} PROVE hits'[u] = {}
    <3>1. pc[u] \notin {"name", "found", "failed"}
      BY <1>1, <1>3, <2>1
    <3> QED BY <1>1, <3>1 DEF Inv, Unanswered
  <2> QED BY <2>1 DEF Unanswered
<1> QED BY <1>6, <1>9, <1>10, <1>11, <1>12, <1>13 DEF Inv

\* A build assigns an attribute and goes on.
LEMMA AssignStep ==
    ASSUME Inv, NEW t \in Builders,
           \/ AssignProducts(t) \/ AssignIds(t) \/ ClearStatistics(t) \/ ClearIds(t)
    PROVE  Inv'
<1> DEFINE step == CASE pc[t] = "assign" -> "order" [] pc[t] = "order" -> "score"
                     [] pc[t] = "clear" -> "clearIds" [] pc[t] = "clearIds" -> "clearProducts"
<1>1. /\ pc[t] \in {"assign", "order", "clear", "clearIds"} /\ Goto(t, step)
      /\ calls' = calls /\ products' = products /\ positions' = positions /\ hits' = hits
      /\ calm' = calm /\ sound' = sound
  BY DEF AssignProducts, AssignIds, ClearStatistics, ClearIds, local, history
<1>2. /\ bm25' = IF pc[t] = "clear" THEN <<>> ELSE bm25
      /\ ids' = IF pc[t] = "order" THEN Keys(byId)
                ELSE IF pc[t] = "clearIds" THEN <<>> ELSE ids
      /\ byId' = IF pc[t] = "assign" THEN products[t] ELSE byId
  BY DEF AssignProducts, AssignIds, ClearStatistics, ClearIds
<1>3. TypeOK /\ t \in Threads /\ pc[t] \in BuildSteps
      /\ step \in {"order", "score", "clearIds", "clearProducts"} /\ step \in BuildSteps
  BY <1>1 DEF Inv, Threads, BuildSteps
<1>4. /\ pc'[t] = step /\ \A u \in Threads : u # t => pc'[u] = pc[u]
      /\ pc' \in [Threads -> {"idle"} \cup BuildSteps \cup SearchSteps]
  <2> HIDE DEF step
  <2> QED BY <1>1, <1>3, Goes
<1>5. Searching' = Searching /\ t \notin Searching /\ Building' = Building /\ t \in Building
  <2>1. pc[t] # "idle" /\ step # "idle"
    BY <1>1
  <2> HIDE DEF step
  <2>2. /\ Searching' = Searching /\ t \notin Searching
        /\ Building' \ {t} = Building \ {t} /\ t \in Building /\ t \in Building'
    BY <1>1, <1>3, <2>1, BuilderMoves
  <2> QED BY <2>2
<1>6. TypeOK'
  <2>1. bm25' \in Corpora /\ byId' \in Corpora
    BY <1>2, <1>3, EmptyCorpus DEF TypeOK
  <2>2. ids' \in Orders
    <3>1. Keys(<<>>) = <<>>
      BY DEF Keys
    <3>2. <<>> \in Orders /\ Keys(byId) \in Orders
      BY <1>3, <3>1, EmptyCorpus, KeysFacts DEF TypeOK
    <3> QED BY <1>2, <1>3, <3>2 DEF TypeOK
  <2>3. /\ calls' \in 0..MaxCalls /\ products' \in [Threads -> Corpora]
        /\ positions' \in [Threads -> SUBSET (1..Cardinality(ProductIds))]
        /\ hits' \in [Threads -> SUBSET ProductIds]
    BY <1>1, <1>3 DEF TypeOK
  <2>4. calm' \in [Threads -> BOOLEAN] /\ sound' \in BOOLEAN
    BY <1>1, <1>3, Zenon DEF TypeOK
  <2> QED BY <1>4, <2>1, <2>2, <2>3, <2>4, Zenon DEF TypeOK
<1>7. Exclusive'
  BY <1>1, <1>5 DEF Inv, Exclusive
<1>8. ASSUME NEW u \in Building', calm'[u] PROVE u = t /\ calm[t]
  <2>1. u \in Building /\ calm[u]
    BY <1>1, <1>5, <1>8
  <2>2. u = t
    BY <1>5, <2>1 DEF Inv, Exclusive
  <2> QED BY <2>1, <2>2
<1>9. Progress'
  <2>1. SUFFICES ASSUME calm[t]
                 PROVE  /\ pc'[t] \in {"order", "score"} => byId' = products'[t]
                        /\ pc'[t] = "score" => ids' = Keys(byId')
                        /\ pc'[t] \in {"clearIds", "clearProducts"} => bm25' = <<>>
                        /\ pc'[t] = "clearProducts" => ids' = <<>>
    BY <1>8 DEF Progress
  <2>2. /\ pc[t] \in {"order", "score"} => byId = products[t]
        /\ pc[t] \in {"clearIds", "clearProducts"} => bm25 = <<>>
    BY <1>5, <2>1 DEF Inv, Progress
  <2>3. CASE pc[t] = "assign"
    BY <1>1, <1>2, <1>4, <2>3
  <2>4. CASE pc[t] = "order"
    BY <1>1, <1>2, <1>4, <2>2, <2>4
  <2>5. CASE pc[t] = "clear"
    BY <1>1, <1>2, <1>4, <2>5
  <2>6. CASE pc[t] = "clearIds"
    BY <1>1, <1>2, <1>4, <2>2, <2>6
  <2> QED BY <1>1, <2>3, <2>4, <2>5, <2>6
<1>10. Aligned'
  BY <1>5 DEF Aligned
<1>11. Undisturbed' /\ Found'
  <2>1. \A u \in Searching' : ~calm'[u]
    BY <1>1, <1>5 DEF Inv, Undisturbed
  <2> QED BY <2>1, SearchesDisturbed
<1>12. Unanswered'
  <2>1. ASSUME NEW u \in Threads, pc'[u] \notin {"name", "found", "failed"} PROVE hits'[u] = {}
    <3>1. pc[u] \notin {"name", "found", "failed"}
      BY <1>1, <1>4, <2>1
    <3> QED BY <1>1, <3>1 DEF Inv, Unanswered
  <2> QED BY <2>1 DEF Unanswered
<1> QED BY <1>6, <1>7, <1>9, <1>10, <1>11, <1>12 DEF Inv

\* build returns or raises, or clear returns.
LEMMA LeaveStep ==
    ASSUME Inv, NEW t \in Builders,
           AssignStatistics(t) \/ BuildFails(t) \/ ClearProducts(t)
    PROVE  Inv'
<1>1. /\ pc[t] \in {"score", "clearProducts"} /\ Goto(t, "idle")
      /\ products' = [products EXCEPT ![t] = <<>>] /\ calm' = [calm EXCEPT ![t] = TRUE]
      /\ calls' = calls /\ positions' = positions /\ hits' = hits /\ ids' = ids
  BY DEF AssignStatistics, BuildFails, ClearProducts, Leave, shared
<1>2. /\ bm25' \in {bm25, products[t]} /\ byId' \in {byId, <<>>}
  BY DEF AssignStatistics, BuildFails, ClearProducts, shared
<1>3. \/ sound' = FALSE
      \/ sound' = calm[t] /\ pc[t] = "score" /\ bm25' = products[t] /\ byId' = byId
      \/ sound' = calm[t] /\ pc[t] = "clearProducts" /\ bm25' = bm25 /\ byId' = <<>>
  BY Zenon DEF AssignStatistics, BuildFails, ClearProducts
<1>4. TypeOK /\ t \in Threads /\ pc[t] \in BuildSteps
  BY <1>1 DEF Inv, Threads, BuildSteps
<1>5. /\ pc'[t] = "idle" /\ \A u \in Threads : u # t => pc'[u] = pc[u]
      /\ pc' \in [Threads -> {"idle"} \cup BuildSteps \cup SearchSteps]
  BY <1>1, <1>4, Goes
<1>6. /\ Searching' = Searching /\ t \notin Searching /\ Building' = Building \ {t}
      /\ t \in Building /\ t \notin Building'
  <2>1. pc[t] # "idle"
    BY <1>1
  <2>2. /\ Searching' = Searching /\ t \notin Searching
        /\ Building' \ {t} = Building \ {t} /\ t \in Building /\ t \notin Building'
    BY <1>1, <1>4, <2>1, BuilderMoves
  <2> QED BY <2>2
<1>7. \A u \in Threads : u # t => (calm'[u] <=> calm[u])
  BY <1>1, <1>4 DEF TypeOK
<1>8. Building \subseteq Threads /\ Searching \subseteq Threads
  BY DEF Building, Searching, Threads
<1>9. TypeOK'
  <2>1. bm25' \in Corpora /\ byId' \in Corpora
    BY <1>2, <1>4, EmptyCorpus DEF TypeOK
  <2>2. products' \in [Threads -> Corpora]
    BY <1>1, <1>4, EmptyCorpus DEF TypeOK
  <2>3. /\ calls' \in 0..MaxCalls /\ ids' \in Orders
        /\ positions' \in [Threads -> SUBSET (1..Cardinality(ProductIds))]
        /\ hits' \in [Threads -> SUBSET ProductIds]
    BY <1>1, <1>4 DEF TypeOK
  <2>4. calm' \in [Threads -> BOOLEAN]
    BY <1>1, <1>4 DEF TypeOK
  <2>5. sound' \in BOOLEAN
    <3>1. calm[t] \in BOOLEAN
      BY <1>4 DEF TypeOK
    <3> QED BY <1>3, <3>1, Zenon
  <2> QED BY <1>5, <2>1, <2>2, <2>3, <2>4, <2>5, Zenon DEF TypeOK
<1>10. \A u \in Building' : ~calm'[u]
  <2>1. SUFFICES ASSUME NEW u \in Building' PROVE ~calm[u]
    BY <1>6, <1>7, <1>8
  <2>2. u \in Building /\ u # t
    BY <1>6
  <2> QED BY <1>6, <2>2 DEF Inv, Exclusive
<1>11. Exclusive' /\ Progress'
  BY <1>10 DEF Exclusive, Progress
<1>12. Aligned'
  <2>1. SUFFICES ASSUME Building' = {}, sound' PROVE bm25' = byId' /\ ids' = Keys(bm25')
    BY DEF Aligned
  <2>2. calm[t]
    BY <1>3, <2>1, Zenon
  <2>3. /\ pc[t] = "score" => byId = products[t] /\ ids = Keys(byId)
        /\ pc[t] = "clearProducts" => bm25 = <<>> /\ ids = <<>>
    BY <1>6, <2>2 DEF Inv, Progress
  <2>4. \/ pc[t] = "score" /\ bm25' = products[t] /\ byId' = byId
        \/ pc[t] = "clearProducts" /\ bm25' = bm25 /\ byId' = <<>>
    BY <1>3, <2>1, Zenon
  <2>5. Keys(<<>>) = <<>>
    BY DEF Keys
  <2>6. CASE pc[t] = "score" /\ bm25' = products[t] /\ byId' = byId
    BY <1>1, <2>3, <2>6
  <2>7. CASE pc[t] = "clearProducts" /\ bm25' = bm25 /\ byId' = <<>>
    BY <1>1, <2>3, <2>5, <2>7
  <2> QED BY <2>4, <2>6, <2>7
<1>13. Undisturbed' /\ Found'
  <2>1. ASSUME NEW u \in Searching' PROVE ~calm'[u]
    <3>1. u \in Searching /\ u # t /\ u \in Threads
      BY <1>6, <1>8
    <3>2. ~calm[u]
      BY <1>6, <3>1 DEF Inv, Undisturbed
    <3> QED BY <1>7, <3>1, <3>2
  <2> QED BY <2>1, SearchesDisturbed
<1>14. Unanswered'
  <2>1. ASSUME NEW u \in Threads, pc'[u] \notin {"name", "found", "failed"} PROVE hits'[u] = {}
    <3>1. pc[u] \notin {"name", "found", "failed"}
      BY <1>1, <1>5, <2>1
    <3> QED BY <1>1, <3>1 DEF Inv, Unanswered
  <2> QED BY <2>1 DEF Unanswered
<1> QED BY <1>9, <1>11, <1>12, <1>13, <1>14 DEF Inv

\* What an undisturbed search in a sound index relies on when it goes to step.
Holds(t, step, marks, named) ==
    /\ step # "failed"
    /\ step = "rank" => bm25 # <<>>
    /\ step = "name" => marks \subseteq Matching(bm25)
    /\ named \subseteq MatchingProducts

\* A step of a search changes nothing shared; what is to show is that the search
\* itself goes where it may with what it may hold.
LEMMA SearcherStep ==
    ASSUME Inv, NEW t \in Searchers, NEW step, NEW quiet \in BOOLEAN,
           NEW marks \in SUBSET (1..Cardinality(ProductIds)), NEW named \in SUBSET ProductIds,
           pc[t] \in SearchSteps \cup {"idle"}, step \in SearchSteps \cup {"idle"},
           Goto(t, step), UNCHANGED <<shared, products, sound>>, calls' \in 0..MaxCalls,
           calm' = [calm EXCEPT ![t] = quiet],
           positions' = [positions EXCEPT ![t] = marks], hits' = [hits EXCEPT ![t] = named],
           step # "idle" /\ quiet => Building = {},
           step # "idle" /\ quiet /\ sound => Holds(t, step, marks, named),
           step \notin {"name", "found", "failed"} => named = {}
    PROVE  Inv'
<1>1. /\ bm25' = bm25 /\ ids' = ids /\ byId' = byId /\ products' = products /\ sound' = sound
      /\ calm' = [calm EXCEPT ![t] = quiet]
      /\ positions' = [positions EXCEPT ![t] = marks] /\ hits' = [hits EXCEPT ![t] = named]
  BY DEF shared
<1>2. TypeOK /\ t \in Threads
  BY DEF Inv, Threads
<1>3. /\ pc'[t] = step /\ \A u \in Threads : u # t => pc'[u] = pc[u]
      /\ pc' \in [Threads -> {"idle"} \cup BuildSteps \cup SearchSteps]
  BY <1>2, Goes
<1>4. /\ calm \in [Threads -> BOOLEAN] /\ hits \in [Threads -> SUBSET ProductIds]
      /\ positions \in [Threads -> SUBSET (1..Cardinality(ProductIds))]
  BY <1>2 DEF TypeOK
<1>5. /\ hits'[t] = named /\ positions'[t] = marks
      /\ \A u \in Threads : u # t => hits'[u] = hits[u] /\ positions'[u] = positions[u]
  BY <1>1, <1>2, <1>4
<1>6. calm'[t] = quiet /\ \A u \in Threads : u # t => calm'[u] = calm[u]
  BY <1>1, <1>2, <1>4
<1>7. BuildSteps \cap SearchSteps = {} /\ "idle" \notin BuildSteps /\ "idle" \notin SearchSteps
  BY DEF BuildSteps, SearchSteps
<1>8. Building' = Building /\ t \notin Building /\ Building \subseteq Threads
  <2>1. \A u \in Builders : pc'[u] \in BuildSteps <=> pc[u] \in BuildSteps
    BY <1>3, <1>7 DEF Threads
  <2> QED BY <1>7, <2>1 DEF Building, Threads
<1>9. /\ Searching' \ {t} = Searching \ {t} /\ (t \in Searching' => step # "idle")
      /\ Searching \subseteq Threads /\ Searching' \subseteq Threads
  <2>1. \A u \in Searchers : u # t => (pc'[u] \in SearchSteps <=> pc[u] \in SearchSteps)
    BY <1>3 DEF Threads
  <2> QED BY <1>3, <1>7, <2>1 DEF Searching, Threads
<1>10. TypeOK'
  <2>1. /\ bm25' \in Corpora /\ byId' \in Corpora /\ ids' \in Orders
        /\ products' \in [Threads -> Corpora]
    BY <1>1, <1>2 DEF TypeOK
  <2>2. /\ positions' \in [Threads -> SUBSET (1..Cardinality(ProductIds))]
        /\ hits' \in [Threads -> SUBSET ProductIds]
    BY <1>1, <1>4
  <2>3. calm' \in [Threads -> BOOLEAN]
    BY <1>1, <1>4
  <2>4. sound' \in BOOLEAN
    BY <1>1, <1>2, Zenon DEF TypeOK
  <2> QED BY <1>3, <2>1, <2>2, <2>3, <2>4, Zenon DEF TypeOK
<1>11. \A u \in Building : u \in Threads /\ u # t /\ pc'[u] = pc[u]
  BY <1>3, <1>8
<1>12. \A u \in Building : calm'[u] = calm[u]
  BY <1>6, <1>11
<1>13. Exclusive'
  <2>1. ASSUME NEW u \in Building', NEW v \in Building', calm'[u] PROVE v = u
    <3>1. u \in Building /\ v \in Building /\ calm[u]
      BY <1>8, <1>12, <2>1
    <3> QED BY <3>1 DEF Inv, Exclusive
  <2> QED BY <2>1 DEF Exclusive
<1>14. Progress'
  <2>1. SUFFICES ASSUME NEW u \in Building', calm'[u]
                 PROVE  /\ pc'[u] \in {"order", "score"} => byId' = products'[u]
                        /\ pc'[u] = "score" => ids' = Keys(byId')
                        /\ pc'[u] \in {"clearIds", "clearProducts"} => bm25' = <<>>
                        /\ pc'[u] = "clearProducts" => ids' = <<>>
    BY DEF Progress
  <2>2. u \in Building /\ calm[u]
    BY <1>8, <1>12, <2>1
  <2>3. /\ pc[u] \in {"order", "score"} => byId = products[u]
        /\ pc[u] = "score" => ids = Keys(byId)
        /\ pc[u] \in {"clearIds", "clearProducts"} => bm25 = <<>>
        /\ pc[u] = "clearProducts" => ids = <<>>
    BY <2>2 DEF Inv, Progress
  <2> QED BY <1>1, <1>11, <2>2, <2>3
<1>15. Aligned'
  <2>1. SUFFICES ASSUME Building' = {}, sound' PROVE bm25' = byId' /\ ids' = Keys(bm25')
    BY DEF Aligned
  <2>2. Building = {} /\ sound
    BY <1>1, <1>8, <2>1
  <2>3. bm25 = byId /\ ids = Keys(bm25)
    BY <2>2 DEF Inv, Aligned
  <2> QED BY <1>1, <2>3
<1>16. Undisturbed'
  <2>1. ASSUME NEW u \in Searching', calm'[u] PROVE Building' = {}
    <3>1. CASE u = t
      BY <1>6, <1>8, <1>9, <2>1, <3>1
    <3>2. CASE u # t
      <4>1. u \in Searching /\ u \in Threads
        BY <1>9, <3>2
      <4>2. calm[u]
        BY <1>6, <2>1, <3>2, <4>1
      <4> QED BY <1>8, <4>1, <4>2 DEF Inv, Undisturbed
    <3> QED BY <3>1, <3>2
  <2> QED BY <2>1 DEF Undisturbed
<1>17. Matching(bm25)' = Matching(bm25) /\ MatchingProducts' = MatchingProducts
  BY <1>1 DEF Matching, MatchingProducts
<1>18. Found'
  <2>1. SUFFICES ASSUME NEW u \in Searching', calm'[u], sound'
                 PROVE  /\ pc'[u] # "failed"
                        /\ pc'[u] = "rank" => bm25' # <<>>
                        /\ pc'[u] = "name" => positions'[u] \subseteq Matching(bm25)'
                        /\ hits'[u] \subseteq MatchingProducts'
    BY DEF Found
  <2>2. sound
    BY <1>1, <2>1
  <2>3. CASE u = t
    <3>1. quiet /\ step # "idle"
      BY <1>6, <1>9, <2>1, <2>3
    <3>2. Holds(t, step, marks, named)
      BY <2>2, <3>1
    <3> QED BY <1>1, <1>3, <1>5, <1>17, <2>3, <3>2 DEF Holds
  <2>4. CASE u # t
    <3>1. u \in Searching /\ u \in Threads
      BY <1>9, <2>4
    <3>2. calm[u]
      BY <1>6, <2>1, <2>4, <3>1
    <3>3. /\ pc[u] # "failed" /\ (pc[u] = "rank" => bm25 # <<>>)
          /\ pc[u] = "name" => positions[u] \subseteq Matching(bm25)
          /\ hits[u] \subseteq MatchingProducts
      BY <2>2, <3>1, <3>2 DEF Inv, Found
    <3> QED BY <1>1, <1>3, <1>5, <1>17, <2>4, <3>1, <3>3
  <2> QED BY <2>3, <2>4
<1>19. Unanswered'
  <2>1. ASSUME NEW u \in Threads, pc'[u] \notin {"name", "found", "failed"} PROVE hits'[u] = {}
    <3>1. CASE u = t
      BY <1>3, <1>5, <2>1, <3>1
    <3>2. CASE u # t
      <4>1. pc[u] \notin {"name", "found", "failed"}
        BY <1>3, <2>1, <3>2
      <4> QED BY <1>5, <3>2, <4>1 DEF Inv, Unanswered
    <3> QED BY <3>1, <3>2
  <2> QED BY <2>1 DEF Unanswered
<1> QED BY <1>10, <1>13, <1>14, <1>15, <1>16, <1>18, <1>19 DEF Inv

\* What the types and the invariant say of a search.
LEMMA SearcherFacts ==
    ASSUME Inv, NEW t \in Searchers
    PROVE  /\ t \in Threads /\ calm[t] \in BOOLEAN /\ calls \in 0..MaxCalls
           /\ calm = [calm EXCEPT ![t] = calm[t]] /\ hits = [hits EXCEPT ![t] = hits[t]]
           /\ positions = [positions EXCEPT ![t] = positions[t]]
           /\ positions[t] \in SUBSET (1..Cardinality(ProductIds))
           /\ hits[t] \in SUBSET ProductIds
           /\ pc[t] \in SearchSteps /\ calm[t] => Building = {}
           /\ pc[t] \in SearchSteps /\ calm[t] /\ sound =>
                 /\ pc[t] # "failed" /\ (pc[t] = "rank" => bm25 # <<>>)
                 /\ pc[t] = "name" => positions[t] \subseteq Matching(bm25)
                 /\ hits[t] \subseteq MatchingProducts
                 /\ bm25 = byId /\ ids = Keys(bm25)
           /\ pc[t] \notin {"name", "found", "failed"} => hits[t] = {}
<1>1. t \in Threads
  BY DEF Threads
<1>2. /\ calm \in [Threads -> BOOLEAN] /\ calls \in 0..MaxCalls
      /\ hits \in [Threads -> SUBSET ProductIds]
      /\ positions \in [Threads -> SUBSET (1..Cardinality(ProductIds))]
  BY DEF Inv, TypeOK
<1>3. /\ calm[t] \in BOOLEAN /\ calm = [calm EXCEPT ![t] = calm[t]]
      /\ hits = [hits EXCEPT ![t] = hits[t]]
      /\ positions = [positions EXCEPT ![t] = positions[t]]
      /\ positions[t] \in SUBSET (1..Cardinality(ProductIds)) /\ hits[t] \in SUBSET ProductIds
  BY <1>1, <1>2
<1>4. pc[t] \in SearchSteps => t \in Searching
  BY DEF Searching
<1>5. pc[t] \in SearchSteps /\ calm[t] => Building = {}
  BY <1>4 DEF Inv, Undisturbed
<1>6. ASSUME pc[t] \in SearchSteps, calm[t], sound
      PROVE  /\ pc[t] # "failed" /\ (pc[t] = "rank" => bm25 # <<>>)
             /\ pc[t] = "name" => positions[t] \subseteq Matching(bm25)
             /\ hits[t] \subseteq MatchingProducts
             /\ bm25 = byId /\ ids = Keys(bm25)
  <2>1. bm25 = byId /\ ids = Keys(bm25)
    BY <1>5, <1>6 DEF Inv, Aligned
  <2> QED BY <1>4, <1>6, <2>1 DEF Inv, Found
<1>7. pc[t] \notin {"name", "found", "failed"} => hits[t] = {}
  BY <1>1 DEF Inv, Unanswered
<1> QED BY <1>1, <1>2, <1>3, <1>5, <1>6, <1>7

LEMMA SearchStep ==
    ASSUME Inv, NEW t \in Searchers, Search(t)
    PROVE  Inv'
<1>1. /\ pc[t] = "idle" /\ calls < MaxCalls /\ calls' = calls + 1
      /\ calm' = [calm EXCEPT ![t] = Building = {}] /\ Goto(t, "check")
      /\ UNCHANGED <<shared, products, sound>> /\ positions' = positions /\ hits' = hits
  BY DEF Search, local
<1>2. /\ calls \in 0..MaxCalls /\ hits[t] = {} /\ hits = [hits EXCEPT ![t] = hits[t]]
      /\ positions = [positions EXCEPT ![t] = positions[t]]
      /\ positions[t] \in SUBSET (1..Cardinality(ProductIds)) /\ hits[t] \in SUBSET ProductIds
  BY <1>1, SearcherFacts
<1>3. calls' \in 0..MaxCalls
  BY <1>1, <1>2, IndexAssumption DEF IndexAssumption
<1>4. "check" \in SearchSteps
  BY DEF SearchSteps
<1> DEFINE quiet == Building = {}  marks == positions[t]  named == hits[t]
<1>5. Holds(t, "check", marks, named)
  BY <1>2 DEF Holds
<1>6. /\ calm' = [calm EXCEPT ![t] = quiet] /\ quiet \in BOOLEAN /\ (quiet => Building = {})
      /\ positions' = [positions EXCEPT ![t] = marks] /\ hits' = [hits EXCEPT ![t] = named]
      /\ marks \in SUBSET (1..Cardinality(ProductIds)) /\ named \in SUBSET ProductIds
      /\ named = {} /\ pc[t] \in SearchSteps \cup {"idle"}
  BY <1>1, <1>2
<1> HIDE DEF quiet, marks, named
<1> QED BY <1>1, <1>3, <1>4, <1>5, <1>6, SearcherStep

LEMMA CheckStep ==
    ASSUME Inv, NEW t \in Searchers, CheckBuilt(t)
    PROVE  Inv'
<1> DEFINE step == IF bm25 = <<>> THEN "found" ELSE "rank"
           marks == positions[t]  named == hits[t]  quiet == calm[t]
<1>1. /\ pc[t] = "check" /\ Goto(t, step) /\ UNCHANGED <<shared, products, sound>>
      /\ calls' = calls /\ positions' = positions /\ hits' = hits /\ calm' = calm
  BY DEF CheckBuilt, local, history
<1>2. /\ pc[t] \in SearchSteps /\ step \in SearchSteps /\ step \in {"found", "rank"}
      /\ step = "rank" => bm25 # <<>>
  BY <1>1 DEF SearchSteps
<1>3. /\ calm' = [calm EXCEPT ![t] = quiet] /\ quiet \in BOOLEAN /\ (quiet => Building = {})
      /\ positions' = [positions EXCEPT ![t] = marks] /\ hits' = [hits EXCEPT ![t] = named]
      /\ marks \in SUBSET (1..Cardinality(ProductIds)) /\ named \in SUBSET ProductIds
      /\ named = {} /\ calls' \in 0..MaxCalls
  BY <1>1, <1>2, SearcherFacts
<1> HIDE DEF step, quiet, marks, named
<1>4. Holds(t, step, marks, named)
  BY <1>2, <1>3 DEF Holds
<1> QED BY <1>1, <1>2, <1>3, <1>4, SearcherStep

LEMMA RankStep ==
    ASSUME Inv, NEW t \in Searchers, Rank(t)
    PROVE  Inv'
<1> DEFINE named == hits[t]  quiet == calm[t]
<1>1. /\ pc[t] = "rank" /\ UNCHANGED <<shared, products, sound>>
      /\ calls' = calls /\ hits' = hits /\ calm' = calm
  BY DEF Rank, history
<1>2. pc[t] \in SearchSteps /\ "failed" \in SearchSteps /\ "name" \in SearchSteps
  BY <1>1 DEF SearchSteps
<1>3. /\ calm' = [calm EXCEPT ![t] = quiet] /\ quiet \in BOOLEAN /\ (quiet => Building = {})
      /\ hits' = [hits EXCEPT ![t] = named] /\ named \in SUBSET ProductIds
      /\ named = {} /\ calls' \in 0..MaxCalls
      /\ quiet /\ sound => bm25 # <<>>
      /\ positions = [positions EXCEPT ![t] = positions[t]]
      /\ positions[t] \in SUBSET (1..Cardinality(ProductIds))
  BY <1>1, <1>2, SearcherFacts
<1>4. CASE bm25 = <<>>
  <2> DEFINE marks == positions[t]
  <2>1. Goto(t, "failed") /\ positions' = [positions EXCEPT ![t] = marks]
    BY <1>3, <1>4 DEF Rank
  <2>2. marks \in SUBSET (1..Cardinality(ProductIds)) /\ ~(quiet /\ sound)
    BY <1>3, <1>4
  <2> HIDE DEF quiet, marks, named
  <2> QED BY <1>1, <1>2, <1>3, <2>1, <2>2, SearcherStep
<1>5. CASE bm25 # <<>>
  <2>1. PICK positive \in Positive(bm25) : \E best \in SUBSET positive :
            positions' = [positions EXCEPT ![t] = best]
    BY <1>5 DEF Rank
  <2>2. PICK marks \in SUBSET positive : positions' = [positions EXCEPT ![t] = marks]
    BY <2>1
  <2>3. Goto(t, "name")
    BY <1>5 DEF Rank
  <2>4. positive \in {Matching(bm25), {}}
    BY <2>1 DEF Positive
  <2>5. marks \subseteq Matching(bm25)
    BY <2>2, <2>4
  <2>6. bm25 \in Corpora
    BY DEF Inv, TypeOK
  <2>7. marks \in SUBSET (1..Cardinality(ProductIds))
    BY <2>5, <2>6, KeysFacts
  <2> HIDE DEF quiet, named
  <2>8. Holds(t, "name", marks, named)
    BY <1>3, <2>5 DEF Holds
  <2> QED BY <1>1, <1>2, <1>3, <2>2, <2>3, <2>7, <2>8, SearcherStep
<1> QED BY <1>4, <1>5

LEMMA NameStep ==
    ASSUME Inv, NEW t \in Searchers, Name(t)
    PROVE  Inv'
<1> DEFINE quiet == calm[t]
<1>1. /\ pc[t] = "name" /\ UNCHANGED <<shared, products, sound>> /\ calls' = calls /\ calm' = calm
  BY DEF Name, history
<1>2. /\ pc[t] \in SearchSteps /\ "failed" \in SearchSteps /\ "name" \in SearchSteps
      /\ "found" \in SearchSteps
  BY <1>1 DEF SearchSteps
<1>3. /\ calm' = [calm EXCEPT ![t] = quiet] /\ quiet \in BOOLEAN /\ (quiet => Building = {})
      /\ calls' \in 0..MaxCalls
      /\ hits = [hits EXCEPT ![t] = hits[t]] /\ hits[t] \in SUBSET ProductIds
      /\ positions = [positions EXCEPT ![t] = positions[t]]
      /\ positions[t] \in SUBSET (1..Cardinality(ProductIds))
      /\ quiet /\ sound => /\ positions[t] \subseteq Matching(bm25)
                           /\ hits[t] \subseteq MatchingProducts /\ ids = Keys(bm25)
  BY <1>1, <1>2, SearcherFacts
<1>4. bm25 \in Corpora /\ ids \in Orders
  BY DEF Inv, TypeOK
<1>5. /\ DOMAIN Keys(bm25) = 1..Len(bm25) /\ Matching(bm25) \subseteq 1..Len(bm25)
      /\ \A i \in 1..Len(bm25) : Keys(bm25)[i] = bm25[i][1]
  BY <1>4, KeysFacts
<1>6. CASE positions[t] = {}
  <2> DEFINE marks == positions[t]  named == hits[t]
  <2>1. /\ Goto(t, "found") /\ positions' = [positions EXCEPT ![t] = marks]
        /\ hits' = [hits EXCEPT ![t] = named]
    BY <1>3, <1>6 DEF Name
  <2>2. /\ marks \in SUBSET (1..Cardinality(ProductIds)) /\ named \in SUBSET ProductIds
        /\ quiet /\ sound => named \subseteq MatchingProducts
    BY <1>3
  <2> HIDE DEF quiet, marks, named
  <2>3. quiet /\ sound => Holds(t, "found", marks, named)
    BY <2>2 DEF Holds
  <2> QED BY <1>1, <1>2, <1>3, <2>1, <2>2, <2>3, SearcherStep
<1>7. CASE positions[t] # {}
  <2>1. PICK i \in positions[t] :
            IF i \in DOMAIN ids
            THEN /\ hits' = [hits EXCEPT ![t] = @ \cup {ids[i]}]
                 /\ positions' = [positions EXCEPT ![t] = @ \ {i}]
                 /\ UNCHANGED pc
            ELSE Goto(t, "failed") /\ UNCHANGED <<positions, hits>>
    BY <1>7 DEF Name
  <2>2. CASE i \in DOMAIN ids
    <3> DEFINE marks == positions[t] \ {i}  named == hits[t] \cup {ids[i]}
    <3>1. /\ positions' = [positions EXCEPT ![t] = marks]
          /\ hits' = [hits EXCEPT ![t] = named] /\ pc' = pc
      BY <2>1, <2>2
    <3>2. Goto(t, "name")
      <4>1. pc \in [Threads -> {"idle"} \cup BuildSteps \cup SearchSteps]
        BY DEF Inv, TypeOK
      <4>2. pc = [pc EXCEPT ![t] = "name"]
        BY <1>1, <4>1
      <4> QED BY <3>1, <4>2 DEF Goto
    <3>3. marks \in SUBSET (1..Cardinality(ProductIds)) /\ named \in SUBSET ProductIds
      BY <1>3, <1>4, <2>2, OrdersFacts
    <3>4. ASSUME quiet, sound PROVE Holds(t, "name", marks, named)
      <4>1. i \in Matching(bm25) /\ ids[i] = bm25[i][1]
        BY <1>3, <1>5, <2>1, <3>4
      <4>2. ids[i] \in MatchingProducts
        BY <4>1 DEF MatchingProducts
      <4> QED BY <1>3, <3>4, <4>2 DEF Holds
    <3> HIDE DEF quiet, marks, named
    <3> QED BY <1>1, <1>2, <1>3, <3>1, <3>2, <3>3, <3>4, SearcherStep
  <2>3. CASE i \notin DOMAIN ids
    <3> DEFINE marks == positions[t]  named == hits[t]
    <3>1. /\ Goto(t, "failed") /\ positions' = [positions EXCEPT ![t] = marks]
          /\ hits' = [hits EXCEPT ![t] = named]
      BY <1>3, <2>1, <2>3
    <3>2. marks \in SUBSET (1..Cardinality(ProductIds)) /\ named \in SUBSET ProductIds
      BY <1>3
    <3>3. ~(quiet /\ sound)
      <4>1. SUFFICES ASSUME quiet, sound PROVE FALSE
        OBVIOUS
      <4>2. i \in 1..Len(bm25) /\ ids = Keys(bm25)
        BY <1>3, <1>5, <2>1, <4>1
      <4> QED BY <1>5, <2>3, <4>2
    <3> HIDE DEF quiet, marks, named
    <3> QED BY <1>1, <1>2, <1>3, <3>1, <3>2, <3>3, SearcherStep
  <2> QED BY <2>2, <2>3
<1> QED BY <1>6, <1>7

LEMMA AnswerStep ==
    ASSUME Inv, NEW t \in Searchers, Answer(t)
    PROVE  Inv'
<1>1. /\ pc[t] \in {"found", "failed"} /\ Goto(t, "idle")
      /\ UNCHANGED <<shared, products, sound>> /\ calls' = calls
      /\ positions' = [positions EXCEPT ![t] = {}] /\ hits' = [hits EXCEPT ![t] = {}]
      /\ calm' = [calm EXCEPT ![t] = TRUE]
  BY DEF Answer
<1>2. pc[t] \in SearchSteps /\ calls' \in 0..MaxCalls
  BY <1>1, SearcherFacts DEF SearchSteps
<1>3. /\ {} \in SUBSET (1..Cardinality(ProductIds)) /\ {} \in SUBSET ProductIds
      /\ TRUE \in BOOLEAN
  OBVIOUS
<1> QED BY <1>1, <1>2, <1>3, SearcherStep

\* A stutter changes nothing the invariant is about.
LEMMA StutterStep == Inv /\ UNCHANGED vars => Inv'
<1> SUFFICES ASSUME Inv, UNCHANGED vars PROVE Inv'
  OBVIOUS
<1>1. /\ bm25' = bm25 /\ ids' = ids /\ byId' = byId /\ calls' = calls /\ pc' = pc
      /\ products' = products /\ positions' = positions /\ hits' = hits
      /\ calm' = calm /\ sound' = sound
  BY DEF vars, shared, local, history
<1>2. TypeOK'
  BY <1>1 DEF Inv, TypeOK
<1>3. Building' = Building /\ Searching' = Searching
  BY <1>1 DEF Building, Searching
<1>4. MatchingProducts' = MatchingProducts /\ Matching(bm25)' = Matching(bm25)
  BY <1>1 DEF Matching, MatchingProducts
<1>5. Exclusive'
  BY <1>1, <1>3 DEF Inv, Exclusive
<1>6. Progress'
  BY <1>1, <1>3 DEF Inv, Progress
<1>7. Aligned'
  BY <1>1, <1>3 DEF Inv, Aligned
<1>8. Undisturbed'
  BY <1>1, <1>3 DEF Inv, Undisturbed
<1>9. Found'
  BY <1>1, <1>3, <1>4 DEF Inv, Found
<1>10. Unanswered'
  BY <1>1 DEF Inv, Unanswered
<1> QED BY <1>2, <1>5, <1>6, <1>7, <1>8, <1>9, <1>10 DEF Inv

LEMMA StepInv == Inv /\ [Next]_vars => Inv'
<1> SUFFICES ASSUME Inv, [Next]_vars PROVE Inv'
  OBVIOUS
<1>0. Catalogs \subseteq Corpora /\ byId \in Corpora
  BY IndexAssumption DEF IndexAssumption, Inv, TypeOK
<1>1. ASSUME NEW t \in Builders, Build(t) PROVE Inv'
  BY <1>0, <1>1, EnterStep DEF Build
<1>2. ASSUME NEW t \in Builders, Upsert(t) PROVE Inv'
  <2>1. PICK p \in ProductIds, text \in Texts : Enter(t, Merge(byId, p, text), "assign")
    BY <1>2 DEF Upsert
  <2>2. Merge(byId, p, text) \in Corpora
    BY <1>0, MergeCorpus
  <2> QED BY <2>1, <2>2, EnterStep
<1>3. ASSUME NEW t \in Builders, Delete(t) PROVE Inv'
  <2>1. PICK p \in ProductIds : Enter(t, Without(byId, p), "assign")
    BY <1>3 DEF Delete
  <2>2. Without(byId, p) \in Corpora
    BY <1>0, WithoutCorpus
  <2> QED BY <2>1, <2>2, EnterStep
<1>4. ASSUME NEW t \in Builders, Clear(t) PROVE Inv'
  BY <1>4, EmptyCorpus, EnterStep DEF Clear
<1>5. ASSUME NEW t \in Builders,
             AssignProducts(t) \/ AssignIds(t) \/ ClearStatistics(t) \/ ClearIds(t)
      PROVE  Inv'
  BY <1>5, AssignStep
<1>6. ASSUME NEW t \in Builders, AssignStatistics(t) \/ BuildFails(t) \/ ClearProducts(t)
      PROVE  Inv'
  BY <1>6, LeaveStep
<1>7. ASSUME NEW t \in Searchers,
             Search(t) \/ CheckBuilt(t) \/ Rank(t) \/ Name(t) \/ Answer(t)
      PROVE  Inv'
  BY <1>7, SearchStep, CheckStep, RankStep, NameStep, AnswerStep
<1>8. CASE UNCHANGED vars
  BY <1>8, StutterStep
<1> QED BY <1>1, <1>2, <1>3, <1>4, <1>5, <1>6, <1>7, <1>8 DEF Next

-----------------------------------------------------------------------------
\* The invariant holds throughout.
THEOREM InvHolds == Spec => []Inv
BY InitInv, StepInv, PTL DEF Spec

\* BM25KeywordIndex, its three attributes and the locals of its methods: every
\* variable has its type, whatever the calls and however they interleave; no build
\* or upsert indexes a product twice.
THEOREM TypeCorrect == Spec => []TypeOK
<1>1. Inv => TypeOK
  BY DEF Inv
<1> QED BY <1>1, InvHolds, PTL

\* build and clear assign the three attributes one by one: when a call that met no
\* other has ended they describe the same documents in the same order, whatever
\* overlapping or failed builds had left before.
THEOREM AttributesAligned == Spec => []Aligned
<1>1. Inv => Aligned
  BY DEF Inv
<1> QED BY <1>1, InvHolds, PTL

\* search reads the attributes one by one: when no build comes in between it does
\* not fail and names only products whose text matches.
THEOREM CalmSearchesMatch == Spec => []CalmSearch
<1>1. Inv => CalmSearch
  <2>1. SUFFICES ASSUME Inv, NEW t \in Searchers, calm[t], sound
                 PROVE  /\ pc[t] # "failed"
                        /\ hits[t] \subseteq
                              {doc[1] : doc \in {d \in ElementsOf(byId) : d[2] = "match"}}
    BY DEF CalmSearch
  <2>2. CASE pc[t] \in SearchSteps
    <3>1. pc[t] # "failed" /\ hits[t] \subseteq MatchingProducts /\ bm25 = byId
      BY <2>1, <2>2, SearcherFacts
    <3>2. MatchingProducts \subseteq {doc[1] : doc \in {d \in ElementsOf(bm25) : d[2] = "match"}}
      BY DEF MatchingProducts, Matching, ElementsOf
    <3> QED BY <3>1, <3>2
  <2>3. CASE pc[t] \notin SearchSteps
    <3>1. pc[t] \notin {"name", "found", "failed"}
      BY <2>3 DEF SearchSteps
    <3>2. hits[t] = {}
      BY <2>1, <3>1, SearcherFacts
    <3> QED BY <3>1, <3>2
  <2> QED BY <2>2, <2>3
<1> QED BY <1>1, InvHolds, PTL
===============================================================================
