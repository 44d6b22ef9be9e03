---------------------------- MODULE ServingProofs ----------------------------
(***************************************************************************)
(* For any number of pods, threads, requests and restarts: providers       *)
(* construct no more objects than there are threads, the writes and        *)
(* searches of a pod share their stores, and no search misses a write its  *)
(* pod has answered.                                                       *)
(*                                                                         *)
(* The argument is the one behind the readiness gate.  An answered probe   *)
(* has been given a vector store and a keyword index, so both are cached   *)
(* in a pod that gets requests (GateHolds), and what is cached stays until *)
(* a restart.  A request therefore takes its stores from the cache         *)
(* (Supplied), and what was written is in the cached stores (Kept).        *)
(***************************************************************************)
EXTENDS Serving, FiniteSetTheorems, SequenceTheorems, TLAPS

Elements(list) == {list[i] : i \in 1..Len(list)}

Asked == {"probe", "write", "search"}
Writes == Pods \X (1..MaxRequests)

\* TypeOK, and the types of what the arguments below look at.
Types ==
    /\ TypeOK
    /\ todo \in [Threads -> Seq(Providers)]
    /\ floor \in [Threads -> SUBSET Writes]
    /\ \A t \in Threads :
          /\ pc[t] # "idle" => kind[t] \in Asked /\ req[t] \in 1..MaxRequests
          /\ pc[t] \in {"resolve", "construct"} => todo[t] # <<>>
          /\ pc[t] = "serve" => todo[t] = <<>>

\* The threads of pod d that construct an object of provider p.
Constructing(d, p) == {s \in Slots : pc[<<d, s>>] = "construct" /\ Head(todo[<<d, s>>]) = p}

\* Nothing is cached before the first object; after it, only those that construct
\* one already will add to their number.
Bounded ==
    \A d \in Pods, p \in Providers :
        /\ made[d][p] <= Cardinality(Slots)
        /\ cache[d][p] = 0 => made[d][p] = 0
        /\ cache[d][p] # 0 =>
              made[d][p] + Cardinality(Constructing(d, p)) <= Cardinality(Slots)

\* A pod that gets requests has its stores, and only such a pod works on one.
GateHolds ==
    /\ \A d \in Pods : ready[d] => \A p \in Stores : cache[d][p] # 0
    /\ \A t \in Threads : pc[t] # "idle" /\ kind[t] # "probe" => ready[Pod(t)]

\* The stores a request does not ask for any more are cached, and if it is no
\* probe, it has the cached ones.
Supplied ==
    \A t \in Threads : pc[t] # "idle" =>
        /\ \A p \in Stores :
              \/ p \in Elements(todo[t])
              \/ /\ cache[Pod(t)][p] # 0
                 /\ kind[t] # "probe" => got[t][p] = cache[Pod(t)][p]
        /\ pc[t] = "construct" /\ kind[t] # "probe" => Head(todo[t]) \notin Stores

\* What was answered is in the cached stores of a ready pod.
Kept ==
    /\ \A w \in acked : ready[w[1]] /\ \A p \in Stores : w[2] \in holds[w[1]][p][cache[w[1]][p]]
    /\ \A t \in Threads : floor[t] \subseteq acked

Inv == Types /\ Bounded /\ GateHolds /\ Supplied /\ Kept

-----------------------------------------------------------------------------
LEMMA Consume ==
    ASSUME NEW list \in Seq(Providers), list # <<>>
    PROVE  /\ Head(list) \in Providers /\ Tail(list) \in Seq(Providers)
           /\ Elements(list) = {Head(list)} \cup Elements(Tail(list))
<1>1. /\ Len(list) \in Nat \ {0} /\ Head(list) = list[1] /\ list[1] \in Providers
      /\ Tail(list) \in Seq(Providers) /\ Len(Tail(list)) = Len(list) - 1
      /\ \A i \in 1..Len(list) - 1 : Tail(list)[i] = list[i + 1]
  BY HeadTailProperties, EmptySeq, LenProperties, ElementOfSeq
<1>2. ASSUME NEW i \in 1..Len(list), i # 1
      PROVE  list[i] \in Elements(Tail(list))
  <2>1. i - 1 \in 1..Len(Tail(list)) /\ Tail(list)[i - 1] = list[i]
    BY <1>1, <1>2
  <2> QED BY <2>1 DEF Elements
<1>3. \A i \in 1..Len(Tail(list)) : i + 1 \in 1..Len(list) /\ Tail(list)[i] = list[i + 1]
  BY <1>1
<1> QED BY <1>1, <1>2, <1>3 DEF Elements

LEMMA NeedsStores ==
    ASSUME NEW what \in Asked
    PROVE  /\ Needs(what) \in Seq(Providers) /\ Needs(what) # <<>>
           /\ Stores \subseteq Elements(Needs(what))
<1>1. CASE what = "probe"
  <2>1. Needs(what) = <<"vector", "keyword">>
    BY <1>1 DEF Needs
  <2> QED BY <2>1 DEF Elements, Stores, Providers
<1>2. CASE what = "write"
  <2>1. Needs(what) = <<"vector", "embedding", "keyword">>
    BY <1>2 DEF Needs
  <2> QED BY <2>1 DEF Elements, Stores, Providers
<1>3. CASE what = "search"
  <2>1. Needs(what) = <<"vector", "keyword", "embedding">>
    BY <1>3 DEF Needs
  <2> QED BY <2>1 DEF Elements, Stores, Providers
<1> QED BY <1>1, <1>2, <1>3 DEF Asked

LEMMA SlotsCounted ==
    /\ Cardinality(Slots) \in Nat
    /\ \A d \in Pods, p \in Providers :
          IsFiniteSet(Constructing(d, p)) /\ Cardinality(Constructing(d, p)) \in Nat
<1>1. IsFiniteSet(Slots) /\ Cardinality(Slots) \in Nat
  BY FS_CardinalityType, ServingAssumption DEF ServingAssumption
<1>2. \A d \in Pods, p \in Providers : Constructing(d, p) \in SUBSET Slots
  BY DEF Constructing
<1> QED BY <1>1, <1>2, FS_Subset, FS_CardinalityType

LEMMA InitInv == Init => Inv
<1> SUFFICES ASSUME Init PROVE Inv
  OBVIOUS
<1> USE ServingAssumption DEF ServingAssumption, Init
<1>1. Types
  BY EmptySeq, SlotsCounted DEF Types, TypeOK, Threads, Nothing, Empty, Objects, Providers, Stores
<1>2. Bounded
  BY SlotsCounted DEF Bounded, Nothing
<1>3. GateHolds /\ Supplied /\ Kept
  BY DEF GateHolds, Supplied, Kept, Threads, Pod
<1> QED BY <1>1, <1>2, <1>3 DEF Inv

-----------------------------------------------------------------------------
\* What Take hands over fits the types.
LEMMA TakeTypes ==
    ASSUME Types, NEW t \in Threads, NEW object \in Objects, todo[t] # <<>>, Take(t, object),
           pc[t] # "idle", UNCHANGED kind, UNCHANGED req
    PROVE  /\ pc' \in [Threads -> {"idle", "resolve", "construct", "serve"}]
           /\ got' \in [Threads -> [Providers -> Objects \cup {0}]]
           /\ todo' \in [Threads -> Seq(Providers)]
           /\ \A u \in Threads : \A i \in DOMAIN todo'[u] : todo'[u][i] \in Providers
           /\ \A u \in Threads :
                 /\ pc'[u] # "idle" => kind'[u] \in Asked /\ req'[u] \in 1..MaxRequests
                 /\ pc'[u] \in {"resolve", "construct"} => todo'[u] # <<>>
                 /\ pc'[u] = "serve" => todo'[u] = <<>>
<1>1. todo[t] \in Seq(Providers)
  BY DEF Types
<1>2. Head(todo[t]) \in Providers /\ Tail(todo[t]) \in Seq(Providers)
  BY <1>1, Consume
<1>3. todo' \in [Threads -> Seq(Providers)]
  BY <1>2 DEF Take, Types
<1>4. got' \in [Threads -> [Providers -> Objects \cup {0}]]
  BY <1>2 DEF Take, Types, TypeOK
<1>5. pc' \in [Threads -> {"idle", "resolve", "construct", "serve"}]
  BY DEF Take, Types, TypeOK
<1>6. \A u \in Threads : \A i \in DOMAIN todo'[u] : todo'[u][i] \in Providers
  BY <1>3, LenProperties, ElementOfSeq
<1>7. ASSUME NEW u \in Threads
      PROVE  /\ pc'[u] # "idle" => kind'[u] \in Asked /\ req'[u] \in 1..MaxRequests
             /\ pc'[u] \in {"resolve", "construct"} => todo'[u] # <<>>
             /\ pc'[u] = "serve" => todo'[u] = <<>>
  BY <1>2 DEF Take, Types, TypeOK
<1> QED BY <1>3, <1>4, <1>5, <1>6, <1>7

\* A provider that returns makes an object of the types.
LEMMA ObjectFits ==
    ASSUME Types, Bounded, NEW t \in Threads, pc[t] = "construct"
    PROVE  /\ Pod(t) \in Pods /\ Head(todo[t]) \in Providers
           /\ made[Pod(t)][Head(todo[t])] \in Nat
           /\ made[Pod(t)][Head(todo[t])] + 1 \in Objects
<1> DEFINE d == Pod(t)
           p == Head(todo[t])
<1>1. /\ todo[t] \in Seq(Providers) /\ todo[t] # <<>> /\ d \in Pods
      /\ t[2] \in Slots /\ t = <<d, t[2]>>
  BY DEF Types, Pod, Threads
<1>2. p \in Providers
  BY <1>1, Consume
<1>3. made[d][p] \in Nat /\ cache[d][p] \in Objects \cup {0}
  BY <1>1, <1>2 DEF Types, TypeOK
<1>4. t[2] \in Constructing(d, p)
  BY <1>1 DEF Constructing
<1>5. IsFiniteSet(Slots) /\ Cardinality(Slots) \in Nat /\ Cardinality(Slots) # 0
  BY <1>1, SlotsCounted, FS_EmptySet, ServingAssumption DEF ServingAssumption
<1>6. Cardinality(Constructing(d, p)) \in Nat \ {0}
  BY <1>1, <1>2, <1>4, SlotsCounted, FS_EmptySet
<1>7. made[d][p] + 1 <= Cardinality(Slots)
  BY <1>1, <1>2, <1>3, <1>5, <1>6 DEF Bounded
<1> QED BY <1>1, <1>2, <1>3, <1>5, <1>7 DEF Objects

LEMMA TypesKept ==
    ASSUME Inv, [Next]_vars
    PROVE  Types'
<1> USE ServingAssumption DEF ServingAssumption
<1>0. Types /\ Bounded
  BY DEF Inv
<1>1. ASSUME NEW t \in Threads, NEW what \in Asked, Receive(t, what)
      PROVE  Types'
  <2>1. Needs(what) \in Seq(Providers) /\ Needs(what) # <<>>
    BY NeedsStores
  <2>2. todo' \in [Threads -> Seq(Providers)]
    BY <2>1, <1>0, <1>1 DEF Receive, Types
  <2>3. \A u \in Threads : \A i \in DOMAIN todo'[u] : todo'[u][i] \in Providers
    BY <2>2, LenProperties, ElementOfSeq
  <2>4. requests' \in 1..MaxRequests
    BY <1>0, <1>1 DEF Receive, Types, TypeOK
  <2>5. floor' \in [Threads -> SUBSET Writes]
    BY <1>0, <1>1 DEF Receive, Types, TypeOK, Writes
  <2>6. TypeOK'
    BY <2>3, <2>4, <1>0, <1>1 DEF Receive, Types, TypeOK, Asked, process
  <2>7. \A u \in Threads :
          /\ pc'[u] # "idle" => kind'[u] \in Asked /\ req'[u] \in 1..MaxRequests
          /\ pc'[u] \in {"resolve", "construct"} => todo'[u] # <<>>
          /\ pc'[u] = "serve" => todo'[u] = <<>>
    BY <2>1, <2>4, <1>0, <1>1 DEF Receive, Types, TypeOK
  <2> QED BY <2>2, <2>5, <2>6, <2>7 DEF Types
<1>2. ASSUME NEW t \in Threads, Resolve(t)
      PROVE  Types'
  <2> DEFINE p == Head(todo[t])
             cached == cache[Pod(t)][p]
  <2>1. Pod(t) \in Pods /\ p \in Providers /\ todo[t] # <<>> /\ pc[t] # "idle"
    BY <1>0, <1>2, Consume DEF Resolve, Types, Pod, Threads
  <2>2. CASE cached # 0
    <3>1. cached \in Objects /\ Take(t, cached) /\ UNCHANGED <<kind, req>>
      BY <2>1, <2>2, <1>0, <1>2 DEF Resolve, Types, TypeOK
    <3> HIDE DEF cached
    <3>2. /\ pc' \in [Threads -> {"idle", "resolve", "construct", "serve"}]
          /\ got' \in [Threads -> [Providers -> Objects \cup {0}]]
          /\ todo' \in [Threads -> Seq(Providers)]
          /\ \A u \in Threads : \A i \in DOMAIN todo'[u] : todo'[u][i] \in Providers
          /\ \A u \in Threads :
                 /\ pc'[u] # "idle" => kind'[u] \in Asked /\ req'[u] \in 1..MaxRequests
                 /\ pc'[u] \in {"resolve", "construct"} => todo'[u] # <<>>
                 /\ pc'[u] = "serve" => todo'[u] = <<>>
      BY <3>1, <2>1, <1>0, TakeTypes
    <3> QED BY <3>2, <1>0, <1>2 DEF Resolve, Types, TypeOK, process
  <2>3. CASE cached = 0
    <3>1. pc' = [pc EXCEPT ![t] = "construct"] /\ UNCHANGED <<todo, got>>
      BY <2>3, <1>2 DEF Resolve
    <3> QED BY <3>1, <2>1, <1>0, <1>2 DEF Resolve, Types, TypeOK, process
  <2> QED BY <2>2, <2>3
<1>3. ASSUME NEW t \in Threads, Construct(t)
      PROVE  Types'
  <2> DEFINE p == Head(todo[t])
             object == made[Pod(t)][p] + 1
  <2>1. /\ Pod(t) \in Pods /\ p \in Providers /\ object \in Objects /\ object \in Nat
        /\ todo[t] # <<>> /\ pc[t] # "idle" /\ UNCHANGED <<kind, req>>
    BY <1>0, <1>3, ObjectFits DEF Construct, Types
  <2>2. Take(t, object)
    BY <1>3 DEF Construct
  <2>3. /\ made' = [made EXCEPT ![Pod(t)][p] = object]
        /\ cache' = [cache EXCEPT ![Pod(t)][p] = IF @ = 0 THEN object ELSE @]
    BY <1>3 DEF Construct
  <2> HIDE DEF object, p
  <2>4. /\ pc' \in [Threads -> {"idle", "resolve", "construct", "serve"}]
        /\ got' \in [Threads -> [Providers -> Objects \cup {0}]]
        /\ todo' \in [Threads -> Seq(Providers)]
        /\ \A u \in Threads : \A i \in DOMAIN todo'[u] : todo'[u][i] \in Providers
        /\ \A u \in Threads :
               /\ pc'[u] # "idle" => kind'[u] \in Asked /\ req'[u] \in 1..MaxRequests
               /\ pc'[u] \in {"resolve", "construct"} => todo'[u] # <<>>
               /\ pc'[u] = "serve" => todo'[u] = <<>>
    BY <2>1, <2>2, <1>0, TakeTypes
  <2>5. made' \in [Pods -> [Providers -> 0..Cardinality(Slots)]]
    <3>1. object \in 0..Cardinality(Slots)
      BY <2>1, SlotsCounted DEF Objects
    <3> QED BY <2>1, <2>3, <3>1, <1>0 DEF Types, TypeOK
  <2>6. cache' \in [Pods -> [Providers -> Objects \cup {0}]]
    BY <2>1, <2>3, <1>0 DEF Types, TypeOK
  <2> QED BY <2>4, <2>5, <2>6, <1>0, <1>3 DEF Construct, Types, TypeOK
<1>4. ASSUME NEW t \in Threads, Answered(t),
             ready' \in [Pods -> BOOLEAN],
             holds' \in [Pods -> [Stores -> [Objects -> SUBSET (1..MaxRequests)]]],
             acked' \subseteq Writes, UNCHANGED <<cache, made>>
      PROVE  Types'
  <2>1. todo' \in [Threads -> Seq(Providers)]
    BY <1>0, <1>4, EmptySeq DEF Answered, Types
  <2>2. \A u \in Threads : \A i \in DOMAIN todo'[u] : todo'[u][i] \in Providers
    BY <2>1, LenProperties, ElementOfSeq
  <2>3. got' \in [Threads -> [Providers -> Objects \cup {0}]]
    BY <1>0, <1>4 DEF Answered, Types, TypeOK, Nothing
  <2>4. floor' \in [Threads -> SUBSET Writes]
    BY <1>0, <1>4 DEF Answered, Types
  <2> QED BY <2>1, <2>2, <2>3, <2>4, <1>0, <1>4 DEF Answered, Types, TypeOK, Writes
<1>5. ASSUME NEW t \in Threads, LoadFails(t) \/ AnswerSearch(t)
      PROVE  Types'
  BY <1>0, <1>4, <1>5 DEF LoadFails, AnswerSearch, Types, TypeOK, process, Writes
<1>6. ASSUME NEW t \in Threads, AnswerProbe(t)
      PROVE  Types'
  BY <1>0, <1>4, <1>6 DEF AnswerProbe, Types, TypeOK, Writes
<1>7. ASSUME NEW t \in Threads, AnswerWrite(t)
      PROVE  Types'
  <2>1. Pod(t) \in Pods /\ req[t] \in 1..MaxRequests
    BY <1>0, <1>7 DEF AnswerWrite, Types, Pod, Threads
  <2>2. acked' \subseteq Writes
    BY <2>1, <1>0, <1>7 DEF AnswerWrite, Types, TypeOK, Writes
  <2>3. holds' \in [Pods -> [Stores -> [Objects -> SUBSET (1..MaxRequests)]]]
    BY <2>1, <1>0, <1>7 DEF AnswerWrite, Types, TypeOK
  <2> QED BY <2>2, <2>3, <1>0, <1>4, <1>7 DEF AnswerWrite, Types, TypeOK
<1>8. ASSUME NEW d \in Pods, Restart(d)
      PROVE  Types'
  <2>1. todo' \in [Threads -> Seq(Providers)]
    BY <1>0, <1>8, EmptySeq DEF Restart, Types
  <2>2. \A u \in Threads : \A i \in DOMAIN todo'[u] : todo'[u][i] \in Providers
    BY <2>1, LenProperties, ElementOfSeq
  <2>3. /\ got' \in [Threads -> [Providers -> Objects \cup {0}]]
        /\ cache' \in [Pods -> [Providers -> Objects \cup {0}]]
    BY <1>0, <1>8 DEF Restart, Types, TypeOK, Nothing
  <2>4. holds' \in [Pods -> [Stores -> [Objects -> SUBSET (1..MaxRequests)]]]
    BY <1>0, <1>8 DEF Restart, Types, TypeOK, Empty
  <2>5. floor' \in [Threads -> SUBSET Writes]
    BY <1>0, <1>8 DEF Restart, Types
  <2>6. /\ pc' \in [Threads -> {"idle", "resolve", "construct", "serve"}]
        /\ kind' \in [Threads -> {"none", "probe", "write", "search"}]
        /\ req' \in [Threads -> 0..MaxRequests]
        /\ ready' \in [Pods -> BOOLEAN] /\ requests' \in 0..MaxRequests
        /\ restarts' \in 0..MaxRestarts /\ acked' \subseteq Writes
    BY <1>0, <1>8 DEF Restart, Types, TypeOK, Writes
  <2>7. \A u \in Threads :
          /\ pc'[u] # "idle" => kind'[u] \in Asked /\ req'[u] \in 1..MaxRequests
          /\ pc'[u] \in {"resolve", "construct"} => todo'[u] # <<>>
          /\ pc'[u] = "serve" => todo'[u] = <<>>
    BY <1>0, <1>8 DEF Restart, Types
  <2>8. made' \in [Pods -> [Providers -> 0..Cardinality(Slots)]]
    BY <1>0, <1>8, SlotsCounted DEF Restart, Types, TypeOK, Nothing
  <2> QED BY <2>1, <2>2, <2>3, <2>4, <2>5, <2>6, <2>7, <2>8 DEF Types, TypeOK, Writes
<1>9. CASE UNCHANGED vars
  BY <1>0, <1>9 DEF vars, process, local, Types, TypeOK
<1> QED BY <1>1, <1>2, <1>3, <1>5, <1>6, <1>7, <1>8, <1>9 DEF Next, Asked

-----------------------------------------------------------------------------
\* Of a pod and a provider, nothing counts but the cache, the objects, and who
\* constructs: fewer do no harm.
LEMMA FewerConstruct ==
    ASSUME Inv, NEW d \in Pods, NEW p \in Providers,
           UNCHANGED <<cache[d][p], made[d][p]>>,
           Constructing(d, p)' \subseteq Constructing(d, p)
    PROVE  /\ made'[d][p] <= Cardinality(Slots)
           /\ cache'[d][p] = 0 => made'[d][p] = 0
           /\ cache'[d][p] # 0 =>
                 made'[d][p] + Cardinality(Constructing(d, p)') <= Cardinality(Slots)
<1>1. /\ IsFiniteSet(Constructing(d, p)) /\ Cardinality(Constructing(d, p)) \in Nat
      /\ Cardinality(Slots) \in Nat /\ made[d][p] \in Nat
  BY SlotsCounted DEF Inv, Types, TypeOK
<1>2. /\ Cardinality(Constructing(d, p)') <= Cardinality(Constructing(d, p))
      /\ Cardinality(Constructing(d, p)') \in Nat
  BY <1>1, FS_Subset, FS_CardinalityType
<1> QED BY <1>1, <1>2 DEF Inv, Bounded

LEMMA BoundedKept ==
    ASSUME Inv, [Next]_vars
    PROVE  Bounded'
<1>0. Types /\ Bounded
  BY DEF Inv
<1>1. ASSUME \A d \in Pods, p \in Providers :
                 /\ UNCHANGED <<cache[d][p], made[d][p]>>
                 /\ Constructing(d, p)' \subseteq Constructing(d, p)
      PROVE  Bounded'
  BY <1>1, FewerConstruct DEF Bounded
<1>2. ASSUME NEW t \in Threads, NEW what \in Asked, Receive(t, what)
      PROVE  Bounded'
  BY <1>0, <1>1, <1>2 DEF Receive, Constructing, process, Types, TypeOK, Threads
<1>3. ASSUME NEW t \in Threads, Answered(t), UNCHANGED <<cache, made>>
      PROVE  Bounded'
  BY <1>0, <1>1, <1>3 DEF Answered, Constructing, Types, TypeOK, Threads
<1>4. ASSUME NEW t \in Threads, LoadFails(t) \/ AnswerProbe(t) \/ AnswerWrite(t) \/ AnswerSearch(t)
      PROVE  Bounded'
  BY <1>3, <1>4 DEF LoadFails, AnswerProbe, AnswerWrite, AnswerSearch, process
<1>5. ASSUME NEW t \in Threads, Resolve(t)
      PROVE  Bounded'
  <2>0. PICK q \in Providers, e \in Pods : q = Head(todo[t]) /\ e = Pod(t)
    BY <1>0, <1>5, Consume DEF Resolve, Types, Pod, Threads
  <2>1. e \in Pods /\ t[2] \in Slots /\ t = <<e, t[2]>> /\ UNCHANGED <<cache, made>>
    BY <2>0, <1>5 DEF Resolve, Pod, Threads, process
  <2>2. ASSUME NEW d \in Pods, NEW p \in Providers, d # e \/ p # q \/ cache[e][q] # 0
        PROVE  Constructing(d, p)' \subseteq Constructing(d, p)
    <3>1. ASSUME NEW s \in Slots, s \in Constructing(d, p)'
          PROVE  s \in Constructing(d, p)
      <4>1. <<d, s>> \in Threads /\ pc'[<<d, s>>] = "construct" /\ Head(todo'[<<d, s>>]) = p
        BY <3>1 DEF Constructing, Threads
      <4>2. CASE <<d, s>> = t
        BY <4>1, <4>2, <2>0, <2>1, <2>2, <1>0, <1>5 DEF Resolve, Take, Types, TypeOK
      <4>3. CASE <<d, s>> # t
        <5>1. pc'[<<d, s>>] = pc[<<d, s>>] /\ todo'[<<d, s>>] = todo[<<d, s>>]
          BY <4>1, <4>3, <1>0, <1>5 DEF Resolve, Take, Types, TypeOK
        <5> QED BY <5>1, <4>1 DEF Constructing
      <4> QED BY <4>2, <4>3
    <3> QED BY <3>1 DEF Constructing
  <2>3. CASE cache[e][q] # 0
    BY <2>1, <2>2, <2>3, <1>1
  <2>4. CASE cache[e][q] = 0
    <3>1. ASSUME NEW d \in Pods, NEW p \in Providers, d # e \/ p # q
          PROVE  /\ made'[d][p] <= Cardinality(Slots)
                 /\ cache'[d][p] = 0 => made'[d][p] = 0
                 /\ cache'[d][p] # 0 =>
                       made'[d][p] + Cardinality(Constructing(d, p)') <= Cardinality(Slots)
      BY <2>1, <2>2, <3>1, FewerConstruct
    <3>2. cache'[e][q] = 0 /\ (q \in Providers => made'[e][q] = 0 /\ 0 <= Cardinality(Slots))
      BY <2>0, <2>1, <2>4, <1>0, SlotsCounted DEF Bounded
    <3>3. ASSUME NEW d \in Pods, NEW p \in Providers
          PROVE  /\ made'[d][p] <= Cardinality(Slots)
                 /\ cache'[d][p] = 0 => made'[d][p] = 0
                 /\ cache'[d][p] # 0 =>
                       made'[d][p] + Cardinality(Constructing(d, p)') <= Cardinality(Slots)
      <4>1. CASE d = e /\ p = q
        BY <3>2, <4>1
      <4>2. CASE d # e \/ p # q
        BY <3>1, <4>2
      <4> QED BY <4>1, <4>2
    <3> QED BY <3>3 DEF Bounded
  <2> QED BY <2>3, <2>4
<1>6. ASSUME NEW t \in Threads, Construct(t)
      PROVE  Bounded'
  <2>0. PICK q \in Providers, e \in Pods : q = Head(todo[t]) /\ e = Pod(t)
    BY <1>0, <1>6, ObjectFits DEF Construct
  <2> DEFINE object == made[e][q] + 1
  <2>1. /\ e \in Pods /\ t[2] \in Slots /\ t = <<e, t[2]>> /\ pc[t] = "construct"
        /\ q \in Providers /\ made[e][q] \in Nat /\ object \in Objects /\ object # 0
    BY <2>0, <1>0, <1>6, ObjectFits DEF Construct, Pod, Threads
  <2>2. /\ made' = [made EXCEPT ![e][q] = object]
        /\ cache' = [cache EXCEPT ![e][q] = IF @ = 0 THEN object ELSE @]
    BY <2>0, <1>6 DEF Construct
  <2>3. \A d \in Pods, p \in Providers : Constructing(d, p)' \subseteq Constructing(d, p)
    BY <2>1, <1>0, <1>6 DEF Construct, Take, Constructing, Types, TypeOK, Threads
  <2>4. ASSUME NEW d \in Pods, NEW p \in Providers, d # e \/ p # q
        PROVE  UNCHANGED <<cache[d][p], made[d][p]>>
    BY <2>1, <2>2, <2>4, <1>0 DEF Types, TypeOK
  <2>5. /\ made'[e][q] = object /\ cache'[e][q] # 0
        /\ made'[e][q] + Cardinality(Constructing(e, q)') <= Cardinality(Slots)
        /\ made'[e][q] <= Cardinality(Slots)
    <3>1. made'[e][q] = object
      BY <2>1, <2>2, <1>0 DEF Types, TypeOK
    <3>2. cache'[e][q] = IF cache[e][q] = 0 THEN object ELSE cache[e][q]
      BY <2>1, <2>2, <1>0 DEF Types, TypeOK
    <3>3. t[2] \in Constructing(e, q) /\ t[2] \notin Constructing(e, q)'
      BY <2>0, <2>1, <1>0, <1>6 DEF Construct, Take, Constructing, Types, TypeOK
    <3>4. Constructing(e, q)' \subseteq Constructing(e, q) \ {t[2]}
      BY <2>1, <2>3, <3>3
    <3>5. /\ IsFiniteSet(Slots) /\ Cardinality(Slots) \in Nat
          /\ IsFiniteSet(Constructing(e, q)) /\ Cardinality(Constructing(e, q)) \in Nat
      BY <2>1, SlotsCounted, ServingAssumption DEF ServingAssumption
    <3>6. Cardinality(Constructing(e, q) \ {t[2]}) = Cardinality(Constructing(e, q)) - 1
          /\ IsFiniteSet(Constructing(e, q) \ {t[2]})
      BY <3>3, <3>5, FS_RemoveElement
    <3>7. /\ Cardinality(Constructing(e, q)') <= Cardinality(Constructing(e, q)) - 1
          /\ Cardinality(Constructing(e, q)') \in Nat
      BY <3>4, <3>6, FS_Subset, FS_CardinalityType
    <3>8. Constructing(e, q) \subseteq Slots
      BY DEF Constructing
    <3>9. Cardinality(Constructing(e, q)) <= Cardinality(Slots)
      BY <3>5, <3>8, FS_Subset
    <3>10. CASE cache[e][q] = 0
      BY <2>1, <3>1, <3>2, <3>5, <3>7, <3>9, <3>10, <1>0 DEF Bounded
    <3>11. CASE cache[e][q] # 0
      BY <2>1, <3>1, <3>2, <3>5, <3>7, <3>11, <1>0 DEF Bounded
    <3> QED BY <3>10, <3>11
  <2> HIDE DEF object
  <2>6. ASSUME NEW d \in Pods, NEW p \in Providers
        PROVE  /\ made'[d][p] <= Cardinality(Slots)
               /\ cache'[d][p] = 0 => made'[d][p] = 0
               /\ cache'[d][p] # 0 =>
                     made'[d][p] + Cardinality(Constructing(d, p)') <= Cardinality(Slots)
    <3>1. CASE d = e /\ p = q
      BY <2>5, <3>1
    <3>2. CASE d # e \/ p # q
      BY <2>3, <2>4, <3>2, FewerConstruct
    <3> QED BY <3>1, <3>2
  <2> QED BY <2>6 DEF Bounded
<1>7. ASSUME NEW e \in Pods, Restart(e)
      PROVE  Bounded'
  <2>1. \A p \in Providers : cache'[e][p] = 0 /\ made'[e][p] = 0
    BY <1>0, <1>7 DEF Restart, Nothing, Types, TypeOK
  <2>2. ASSUME NEW d \in Pods, NEW p \in Providers, d # e
        PROVE  /\ UNCHANGED <<cache[d][p], made[d][p]>>
               /\ Constructing(d, p)' \subseteq Constructing(d, p)
    BY <2>2, <1>0, <1>7 DEF Restart, Constructing, Types, TypeOK, Threads, Pod
  <2>3. 0 <= Cardinality(Slots)
    BY SlotsCounted
  <2>4. ASSUME NEW d \in Pods, NEW p \in Providers
        PROVE  /\ made'[d][p] <= Cardinality(Slots)
               /\ cache'[d][p] = 0 => made'[d][p] = 0
               /\ cache'[d][p] # 0 =>
                     made'[d][p] + Cardinality(Constructing(d, p)') <= Cardinality(Slots)
    <3>1. CASE d = e
      BY <2>1, <2>3, <3>1
    <3>2. CASE d # e
      BY <2>2, <3>2, FewerConstruct
    <3> QED BY <3>1, <3>2
  <2> QED BY <2>4 DEF Bounded
<1>8. CASE UNCHANGED vars
  BY <1>1, <1>8 DEF vars, process, local, Constructing
<1> QED BY <1>2, <1>4, <1>5, <1>6, <1>7, <1>8 DEF Next, Asked

-----------------------------------------------------------------------------
\* A thread that is about to serve has both stores, if it is no probe from the
\* cache; and one that takes them can, since its pod is ready.
LEMMA ServedStores ==
    ASSUME Inv, NEW t \in Threads, pc[t] = "serve", NEW p \in Stores
    PROVE  /\ cache[Pod(t)][p] # 0
           /\ kind[t] # "probe" => got[t][p] = cache[Pod(t)][p] /\ ready[Pod(t)]
<1>1. todo[t] = <<>>
  BY DEF Inv, Types
<1>2. p \notin Elements(todo[t])
  BY <1>1, LenProperties, EmptySeq DEF Elements
<1> QED BY <1>2 DEF Inv, Supplied, GateHolds

\* Caches fill up, except in a pod that restarts.
LEMMA CachesStay ==
    ASSUME Inv, [Next]_vars, NEW d \in Pods, ~Restart(d), NEW p \in Providers,
           cache[d][p] # 0
    PROVE  cache'[d][p] = cache[d][p]
<1>0. cache \in [Pods -> [Providers -> Objects \cup {0}]]
  BY DEF Inv, Types, TypeOK
<1>1. ASSUME NEW t \in Threads, Construct(t)
      PROVE  cache'[d][p] = cache[d][p]
  <2>1. Pod(t) \in Pods /\ Head(todo[t]) \in Providers
    BY <1>1, ObjectFits DEF Inv, Construct
  <2> QED BY <2>1, <1>0, <1>1 DEF Construct
<1>2. ASSUME NEW e \in Pods, Restart(e)
      PROVE  cache'[d][p] = cache[d][p]
  <2>1. e # d
    BY <1>2
  <2> QED BY <2>1, <1>0, <1>2 DEF Restart
<1>3. CASE UNCHANGED cache
  BY <1>3
<1>4. ASSUME NEW t \in Threads,
             \/ \E what \in Asked : Receive(t, what)
             \/ Resolve(t) \/ LoadFails(t) \/ AnswerProbe(t) \/ AnswerWrite(t) \/ AnswerSearch(t)
      PROVE  UNCHANGED cache
  BY <1>4 DEF Receive, Resolve, LoadFails, AnswerProbe, AnswerWrite, AnswerSearch, process
<1> QED BY <1>1, <1>2, <1>3, <1>4 DEF Next, Asked, vars, process

\* One by one, a thread that leaves its request, or has none, asks for nothing.
LEMMA AnsweredIdles ==
    ASSUME Inv, NEW t \in Threads, Answered(t)
    PROVE  /\ pc'[t] = "idle" /\ floor'[t] = {}
           /\ \A u \in Threads \ {t} :
                 /\ pc'[u] = pc[u] /\ kind'[u] = kind[u] /\ todo'[u] = todo[u]
                 /\ got'[u] = got[u] /\ floor'[u] = floor[u]
BY DEF Answered, Inv, Types, TypeOK

LEMMA GateKept ==
    ASSUME Inv, [Next]_vars
    PROVE  GateHolds'
<1>0. Types /\ GateHolds /\ (\A t \in Threads : Pod(t) \in Pods) /\ Stores \subseteq Providers
  BY DEF Inv, Threads, Pod, Stores, Providers
<1>1. ASSUME NEW d \in Pods, ready'[d], ready[d]
      PROVE  \A p \in Stores : cache'[d][p] # 0
  <2>1. ~Restart(d)
    BY <1>0, <1>1 DEF Restart, Types, TypeOK
  <2> QED BY <2>1, <1>0, <1>1, CachesStay DEF GateHolds
<1>2. ASSUME NEW t \in Threads, AnswerProbe(t)
      PROVE  GateHolds'
  <2>1. ASSUME NEW d \in Pods, ready'[d], ~ready[d]
        PROVE  \A p \in Stores : cache'[d][p] # 0
    <3>1. d = Pod(t) /\ UNCHANGED cache
      BY <2>1, <1>0, <1>2 DEF AnswerProbe, Types, TypeOK
    <3> QED BY <3>1, <1>2, ServedStores DEF AnswerProbe
  <2>2. \A d \in Pods : ready[d] => ready'[d]
    BY <1>0, <1>2 DEF AnswerProbe, Types, TypeOK
  <2>3. \A u \in Threads : pc'[u] # "idle" => u # t /\ pc'[u] = pc[u] /\ kind'[u] = kind[u]
    BY <1>2, AnsweredIdles DEF AnswerProbe
  <2> QED BY <2>1, <2>2, <2>3, <1>0, <1>1 DEF GateHolds
<1>3. ASSUME UNCHANGED ready,
             \A u \in Threads : pc'[u] # "idle" /\ kind'[u] # "probe" => ready[Pod(u)]
      PROVE  GateHolds'
  BY <1>1, <1>3 DEF GateHolds
<1>4. ASSUME NEW t \in Threads, NEW what \in Asked, Receive(t, what)
      PROVE  GateHolds'
  BY <1>0, <1>3, <1>4 DEF Receive, process, Types, TypeOK, GateHolds
<1>5. ASSUME NEW t \in Threads, Resolve(t) \/ Construct(t)
      PROVE  GateHolds'
  <2>1. pc[t] # "idle" /\ UNCHANGED <<ready, kind>>
    BY <1>5 DEF Resolve, Construct, process
  <2>2. \A u \in Threads : u # t => pc'[u] = pc[u]
    BY <1>0, <1>5 DEF Resolve, Construct, Take, Types, TypeOK
  <2> QED BY <2>1, <2>2, <1>0, <1>3 DEF GateHolds
<1>6. ASSUME NEW t \in Threads, LoadFails(t) \/ AnswerWrite(t) \/ AnswerSearch(t)
      PROVE  GateHolds'
  <2>1. Answered(t) /\ UNCHANGED ready
    BY <1>6 DEF LoadFails, AnswerWrite, AnswerSearch, process
  <2> QED BY <2>1, <1>0, <1>3, AnsweredIdles DEF GateHolds
<1>7. ASSUME NEW e \in Pods, Restart(e)
      PROVE  GateHolds'
  <2>1. \A d \in Pods : ready'[d] <=> d # e /\ ready[d]
    BY <1>0, <1>7 DEF Restart, Types, TypeOK
  <2>2. \A u \in Threads : pc'[u] # "idle" => Pod(u) # e /\ pc'[u] = pc[u] /\ kind'[u] = kind[u]
    BY <1>0, <1>7 DEF Restart
  <2> QED BY <2>1, <2>2, <1>0, <1>1 DEF GateHolds
<1>8. CASE UNCHANGED vars
  BY <1>0, <1>3, <1>8 DEF vars, process, local, GateHolds
<1> QED BY <1>2, <1>4, <1>5, <1>6, <1>7, <1>8 DEF Next, Asked

LEMMA SuppliedKept ==
    ASSUME Inv, [Next]_vars
    PROVE  Supplied'
<1>0. /\ Types /\ Supplied /\ GateHolds /\ (\A t \in Threads : Pod(t) \in Pods)
      /\ Stores \subseteq Providers
  BY DEF Inv, Threads, Pod, Stores, Providers
<1> DEFINE Good(u) ==
             /\ \A p \in Stores :
                   \/ p \in Elements(todo[u])
                   \/ /\ cache[Pod(u)][p] # 0
                      /\ kind[u] # "probe" => got[u][p] = cache[Pod(u)][p]
             /\ pc[u] = "construct" /\ kind[u] # "probe" => Head(todo[u]) \notin Stores
<1>1. ASSUME NEW u \in Threads, ~Restart(Pod(u)), pc'[u] # "idle",
             pc'[u] = pc[u], kind'[u] = kind[u], todo'[u] = todo[u], got'[u] = got[u]
      PROVE  Good(u)'
  <2>1. Good(u)
    BY <1>0, <1>1 DEF Supplied
  <2>2. \A p \in Stores : cache[Pod(u)][p] # 0 => cache'[Pod(u)][p] = cache[Pod(u)][p]
    BY <1>0, <1>1, CachesStay
  <2> QED BY <2>1, <2>2, <1>1 DEF Elements
<1>2. ASSUME NEW t \in Threads, NEW object \in Objects, Take(t, object), todo[t] # <<>>,
             pc[t] # "idle", UNCHANGED kind, ~Restart(Pod(t)),
             \A p \in Stores : Head(todo[t]) = p =>
                 cache'[Pod(t)][p] # 0 /\ (kind[t] # "probe" => object = cache'[Pod(t)][p])
      PROVE  Good(t)'
  <2>1. todo[t] \in Seq(Providers)
    BY <1>0 DEF Types
  <2>2. /\ Head(todo[t]) \in Providers
        /\ Elements(todo[t]) = {Head(todo[t])} \cup Elements(Tail(todo[t]))
    BY <2>1, <1>2, Consume
  <2>3. /\ todo'[t] = Tail(todo[t]) /\ pc'[t] # "construct"
        /\ got'[t] = [got[t] EXCEPT ![Head(todo[t])] = object]
        /\ got[t] \in [Providers -> Objects \cup {0}]
    BY <1>0, <1>2 DEF Take, Types, TypeOK
  <2>4. ASSUME NEW p \in Stores, p \notin Elements(todo'[t])
        PROVE  /\ cache'[Pod(t)][p] # 0
               /\ kind'[t] # "probe" => got'[t][p] = cache'[Pod(t)][p]
    <3>1. CASE p = Head(todo[t])
      BY <3>1, <2>2, <2>3, <1>0, <1>2
    <3>2. CASE p # Head(todo[t])
      <4>1. p \notin Elements(todo[t])
        BY <3>2, <2>2, <2>3, <2>4
      <4>2. cache[Pod(t)][p] # 0 /\ (kind[t] # "probe" => got[t][p] = cache[Pod(t)][p])
        BY <4>1, <1>0, <1>2 DEF Supplied
      <4>3. cache'[Pod(t)][p] = cache[Pod(t)][p] /\ got'[t][p] = got[t][p]
        BY <4>2, <3>2, <2>3, <1>0, <1>2, CachesStay
      <4> QED BY <4>2, <4>3, <1>2
    <3> QED BY <3>1, <3>2
  <2> QED BY <2>3, <2>4 DEF Elements
<1>3. ASSUME NEW t \in Threads, NEW what \in Asked, Receive(t, what)
      PROVE  Supplied'
  <2>1. Stores \subseteq Elements(todo'[t]) /\ pc'[t] = "resolve"
    BY <1>0, <1>3, NeedsStores DEF Receive, Types, TypeOK
  <2>2. Good(t)'
    BY <2>1 DEF Elements
  <2>3. ASSUME NEW u \in Threads, u # t, pc'[u] # "idle"
        PROVE  Good(u)'
    <3>1. /\ pc'[u] = pc[u] /\ kind'[u] = kind[u] /\ todo'[u] = todo[u]
          /\ got'[u] = got[u] /\ UNCHANGED <<cache>>
      BY <2>3, <1>0, <1>3 DEF Receive, process, Types, TypeOK
    <3> QED BY <3>1, <2>3, <1>0 DEF Supplied, Elements
  <2> QED BY <2>2, <2>3 DEF Supplied, Elements
<1>4. ASSUME NEW t \in Threads, Resolve(t)
      PROVE  Supplied'
  <2> DEFINE cached == cache[Pod(t)][Head(todo[t])]
  <2>1. /\ Head(todo[t]) \in Providers /\ todo[t] # <<>> /\ pc[t] # "idle"
        /\ UNCHANGED <<ready, cache, kind>>
    BY <1>0, <1>4, Consume DEF Resolve, Types, process
  <2>2. ASSUME NEW u \in Threads, u # t, pc'[u] # "idle"
        PROVE  Good(u)'
    <3>1. pc'[u] = pc[u] /\ todo'[u] = todo[u] /\ got'[u] = got[u]
      BY <2>2, <1>0, <1>4 DEF Resolve, Take, Types, TypeOK
    <3> QED BY <3>1, <2>1, <2>2, <1>0 DEF Supplied, Elements
  <2>3. CASE cached # 0
    <3>1. cached \in Objects /\ Take(t, cached) /\ cached = cache'[Pod(t)][Head(todo[t])]
      BY <2>1, <2>3, <1>0, <1>4 DEF Resolve, Types, TypeOK
    <3>2. ~Restart(Pod(t))
      BY <1>0, <1>4 DEF Resolve, Restart, Types, TypeOK
    <3> HIDE DEF cached
    <3>3. Good(t)'
      BY <3>1, <3>2, <2>1, <2>3, <1>2
    <3> QED BY <3>3, <2>2 DEF Supplied, Elements
  <2>4. CASE cached = 0
    <3>1. pc' = [pc EXCEPT ![t] = "construct"] /\ UNCHANGED <<todo, got>>
      BY <2>4, <1>4 DEF Resolve
    <3>2. kind[t] # "probe" => ready[Pod(t)]
      BY <2>1, <1>0 DEF GateHolds
    <3>3. kind[t] # "probe" => Head(todo[t]) \notin Stores
      BY <3>2, <2>4, <1>0 DEF GateHolds
    <3>4. Good(t)'
      BY <3>1, <3>3, <2>1, <1>0 DEF Supplied, Elements
    <3> QED BY <3>4, <2>2 DEF Supplied, Elements
  <2> QED BY <2>3, <2>4
<1>5. ASSUME NEW t \in Threads, Construct(t)
      PROVE  Supplied'
  <2> DEFINE object == made[Pod(t)][Head(todo[t])] + 1
  <2>1. /\ Head(todo[t]) \in Providers /\ todo[t] # <<>> /\ pc[t] = "construct"
        /\ object \in Objects /\ object # 0 /\ Take(t, object) /\ UNCHANGED kind
        /\ cache' = [cache EXCEPT ![Pod(t)][Head(todo[t])] = IF @ = 0 THEN object ELSE @]
    BY <1>0, <1>5, ObjectFits DEF Construct, Types, Inv
  <2> HIDE DEF object
  <2>2. ~Restart(Pod(t))
    BY <2>1, <1>0 DEF Take, Restart, Types, TypeOK
  <2>3. cache'[Pod(t)][Head(todo[t])] # 0
    BY <2>1, <1>0 DEF Types, TypeOK
  <2>4. kind[t] # "probe" => Head(todo[t]) \notin Stores
    BY <2>1, <1>0 DEF Supplied
  <2>5. Good(t)'
    BY <2>1, <2>2, <2>3, <2>4, <1>2
  <2>6. ASSUME NEW u \in Threads, u # t, pc'[u] # "idle"
        PROVE  Good(u)'
    <3>1. pc'[u] = pc[u] /\ todo'[u] = todo[u] /\ got'[u] = got[u] /\ kind'[u] = kind[u]
      BY <2>6, <1>0, <1>5 DEF Construct, Take, Types, TypeOK
    <3>2. ~Restart(Pod(u))
      BY <2>1, <1>0 DEF Take, Restart, Types, TypeOK
    <3> QED BY <3>1, <3>2, <2>6, <1>1
  <2> QED BY <2>5, <2>6 DEF Supplied, Elements
<1>6. ASSUME NEW t \in Threads, Answered(t), UNCHANGED <<cache, made>>
      PROVE  Supplied'
  <2>1. ASSUME NEW u \in Threads, pc'[u] # "idle"
        PROVE  Good(u)'
    <3>1. pc'[u] = pc[u] /\ todo'[u] = todo[u] /\ got'[u] = got[u] /\ kind'[u] = kind[u]
      BY <2>1, <1>6, AnsweredIdles
    <3> QED BY <3>1, <2>1, <1>0, <1>6 DEF Supplied, Elements
  <2> QED BY <2>1 DEF Supplied, Elements
<1>7. ASSUME NEW e \in Pods, Restart(e)
      PROVE  Supplied'
  <2>1. ASSUME NEW u \in Threads, pc'[u] # "idle"
        PROVE  Good(u)'
    <3>1. /\ Pod(u) # e /\ pc'[u] = pc[u] /\ todo'[u] = todo[u] /\ got'[u] = got[u]
          /\ kind'[u] = kind[u] /\ cache'[Pod(u)] = cache[Pod(u)]
      BY <2>1, <1>0, <1>7 DEF Restart, Types, TypeOK
    <3> QED BY <3>1, <2>1, <1>0 DEF Supplied, Elements
  <2> QED BY <2>1 DEF Supplied, Elements
<1>8. CASE UNCHANGED vars
  BY <1>0, <1>8 DEF vars, process, local, Supplied, Elements
<1>9. ASSUME NEW t \in Threads, LoadFails(t) \/ AnswerProbe(t) \/ AnswerWrite(t) \/ AnswerSearch(t)
      PROVE  Supplied'
  BY <1>6, <1>9 DEF LoadFails, AnswerProbe, AnswerWrite, AnswerSearch, process
<1> QED BY <1>3, <1>4, <1>5, <1>7, <1>8, <1>9 DEF Next, Asked

LEMMA KeptKept ==
    ASSUME Inv, [Next]_vars
    PROVE  Kept'
<1>0. /\ Types /\ Kept /\ GateHolds /\ (\A t \in Threads : Pod(t) \in Pods)
      /\ Stores \subseteq Providers /\ acked \subseteq Writes
  BY DEF Inv, Threads, Pod, Stores, Providers, Types, TypeOK, Writes
<1> DEFINE Held(w) == ready[w[1]] /\ \A p \in Stores : w[2] \in holds[w[1]][p][cache[w[1]][p]]
<1>1. ASSUME NEW w \in acked, ~Restart(w[1]),
             \A d \in Pods : ready[d] => ready'[d],
             \A d \in Pods, p \in Stores, o \in Objects : holds[d][p][o] \subseteq holds'[d][p][o]
      PROVE  Held(w)'
  <2>1. w[1] \in Pods /\ ready[w[1]] /\ \A p \in Stores : w[2] \in holds[w[1]][p][cache[w[1]][p]]
    BY <1>0 DEF Kept, Writes
  <2>2. ASSUME NEW p \in Stores
        PROVE  /\ cache'[w[1]][p] = cache[w[1]][p] /\ cache[w[1]][p] \in Objects
               /\ w[2] \in holds'[w[1]][p][cache[w[1]][p]]
    <3>1. cache[w[1]][p] # 0 /\ p \in Providers
      BY <2>1, <1>0 DEF GateHolds
    <3>2. cache'[w[1]][p] = cache[w[1]][p]
      BY <3>1, <2>1, <1>1, CachesStay
    <3>3. cache[w[1]][p] \in Objects
      BY <3>1, <2>1, <1>0 DEF Types, TypeOK
    <3> QED BY <3>2, <3>3, <2>1, <1>1
  <2> QED BY <2>1, <2>2, <1>1
<1>2. ASSUME UNCHANGED acked, UNCHANGED holds,
             \A d \in Pods : ready[d] => ready'[d], \A d \in Pods : ~Restart(d),
             \A u \in Threads : floor'[u] \subseteq acked
      PROVE  Kept'
  <2>1. \A w \in acked : Held(w)'
    BY <1>0, <1>1, <1>2 DEF Writes
  <2> QED BY <2>1, <1>2 DEF Kept
<1>4. ASSUME NEW t \in Threads,
             (\E what \in Asked : Receive(t, what)) \/ Resolve(t) \/ Construct(t)
      PROVE  Kept'
  <2>1. UNCHANGED <<ready, holds, acked, restarts>>
    BY <1>4 DEF Receive, Resolve, Construct, process
  <2>2. \A d \in Pods : ~Restart(d)
    BY <2>1, <1>0 DEF Restart, Types, TypeOK
  <2>3. \A u \in Threads : floor'[u] \subseteq acked
    BY <1>0, <1>4 DEF Receive, Resolve, Construct, Kept, Types
  <2> QED BY <2>1, <2>2, <2>3, <1>2
<1>5. ASSUME NEW t \in Threads, Answered(t)
      PROVE  /\ \A d \in Pods : ~Restart(d)
             /\ \A u \in Threads : floor'[u] \subseteq acked
  <2>1. UNCHANGED restarts
    BY <1>5 DEF Answered
  <2>2. \A d \in Pods : ~Restart(d)
    BY <2>1, <1>0 DEF Restart, Types, TypeOK
  <2>3. \A u \in Threads : floor'[u] \subseteq acked
    BY <1>0, <1>5, AnsweredIdles DEF Kept
  <2> QED BY <2>2, <2>3
<1>6. ASSUME NEW t \in Threads, LoadFails(t) \/ AnswerProbe(t) \/ AnswerSearch(t)
      PROVE  Kept'
  <2>1. /\ Answered(t) /\ UNCHANGED <<holds, acked>>
        /\ \A d \in Pods : ready[d] => ready'[d]
    BY <1>0, <1>6 DEF LoadFails, AnswerProbe, AnswerSearch, process, Types, TypeOK
  <2> QED BY <2>1, <1>2, <1>5
<1>7. ASSUME NEW t \in Threads, AnswerWrite(t)
      PROVE  Kept'
  <2>0. PICK n : n = req[t]
    OBVIOUS
  <2> DEFINE e == Pod(t)
             written == <<e, n>>
  <2>1. /\ e \in Pods /\ pc[t] = "serve" /\ kind[t] = "write" /\ Answered(t)
        /\ UNCHANGED <<ready, cache, made>> /\ acked' = acked \cup {written}
        /\ holds' = [holds EXCEPT ![e] = [p \in Stores |-> [o \in Objects |->
              holds[e][p][o] \cup IF o = got[t][p] THEN {n} ELSE {}]]]
    BY <2>0, <1>0, <1>7 DEF AnswerWrite
  <2>2. \A d \in Pods, p \in Stores, o \in Objects : holds[d][p][o] \subseteq holds'[d][p][o]
    BY <2>1, <1>0 DEF Types, TypeOK
  <2>3. \A w \in acked : Held(w)'
    BY <2>1, <2>2, <1>0, <1>1, <1>5 DEF Writes
  <2>4. Held(written)'
    <3>1. ASSUME NEW p \in Stores
          PROVE  /\ ready[e] /\ cache[e][p] \in Objects
                 /\ n \in holds'[e][p][cache[e][p]]
      <4>1. cache[e][p] # 0 /\ got[t][p] = cache[e][p] /\ ready[e]
        BY <2>1, ServedStores
      <4>2. cache[e][p] \in Objects
        BY <4>1, <2>1, <1>0 DEF Types, TypeOK
      <4> QED BY <4>1, <4>2, <2>1, <1>0 DEF Types, TypeOK
    <3>2. ready[e]
      BY <2>1, <1>0 DEF GateHolds
    <3> QED BY <3>1, <3>2, <2>1
  <2>5. \A u \in Threads : floor'[u] \subseteq acked'
    BY <2>1, <1>5
  <2> QED BY <2>1, <2>3, <2>4, <2>5 DEF Kept
<1>8. ASSUME NEW e \in Pods, Restart(e)
      PROVE  Kept'
  <2>1. /\ acked' = {w \in acked : w[1] # e}
        /\ \A d \in Pods : d # e =>
              ready'[d] = ready[d] /\ holds'[d] = holds[d] /\ cache'[d] = cache[d]
    BY <1>0, <1>8 DEF Restart, Types, TypeOK
  <2>2. \A w \in acked' : Held(w)'
    BY <2>1, <1>0 DEF Kept, Writes
  <2>3. \A u \in Threads : floor'[u] \subseteq acked'
    BY <2>1, <1>0, <1>8 DEF Restart, Kept
  <2> QED BY <2>2, <2>3 DEF Kept
<1>9. CASE UNCHANGED vars
  BY <1>0, <1>9 DEF vars, process, local, Kept
<1> QED BY <1>4, <1>6, <1>7, <1>8, <1>9 DEF Next, Asked

LEMMA SpecInv == Spec => []Inv
<1>1. Inv /\ [Next]_vars => Inv'
  BY TypesKept, BoundedKept, GateKept, SuppliedKept, KeptKept DEF Inv
<1> QED BY InitInv, <1>1, PTL DEF Spec

-----------------------------------------------------------------------------
\* Every variable keeps its type; a provider returns at most an object for every
\* thread, whatever fails, until the process restarts.
THEOREM TypeCorrect == Spec => []TypeOK
<1>1. Inv => TypeOK
  BY DEF Inv, Types
<1> QED BY <1>1, SpecInv, PTL

\* lru_cache does not lock, and still the writes and searches of a pod work on one
\* vector store and one keyword index.
THEOREM StoresAreShared == Spec => []SharedStores
<1>1. Inv => SharedStores
  BY ServedStores DEF SharedStores
<1> QED BY <1>1, SpecInv, PTL

\* The readiness probe makes the providers safe: no search misses a write that
\* its pod had answered when it came.
THEOREM OwnWritesFound == Spec => []FindsOwn
<1>1. Inv => FindsOwn
  <2> SUFFICES ASSUME Inv, NEW t \in Threads, pc[t] = "serve", kind[t] = "search",
                      NEW w \in floor[t], w[1] = Pod(t), NEW p \in Stores
               PROVE  w[2] \in holds[Pod(t)][p][got[t][p]]
    BY DEF FindsOwn, Finds
  <2>1. got[t][p] = cache[Pod(t)][p]
    BY ServedStores
  <2>2. w \in acked
    BY DEF Inv, Kept
  <2> QED BY <2>1, <2>2 DEF Inv, Kept
<1> QED BY <1>1, SpecInv, PTL
=============================================================================
