--------------------------- MODULE FaissStoreProofs ---------------------------
(***************************************************************************)
(* For any number of threads, products, calls and crashes the store keeps  *)
(* its types.  Behind the readiness gate, with one writer, which may name  *)
(* a product twice in a list, and any number of searches, its calls keep   *)
(* their contract, searches return nothing stale, the dictionaries agree,  *)
(* and it implements VectorStore.                                          *)
(*                                                                         *)
(* The argument: once requests are routed to the process, only the writer  *)
(* replaces the index (Gate), so what it has in hand is the current one,   *)
(* and each of its steps leaves a known difference between index and       *)
(* dictionaries (Paired, Reach, Done); what a search has in hand never     *)
(* gets a vector older than the calls that had returned when it started    *)
(* (Order, Seen).                                                          *)
(***************************************************************************)
EXTENDS FaissStore, FiniteSetTheorems, SequenceTheorems, TLAPS

Vector == ProductIds \X Calls \X Nat

Steps == {"idle", "getIndex", "create", "existing", "remove", "add", "mapId",
          "mapProduct", "popProduct", "popId", "replace", "clearIds",
          "clearProducts", "search", "lookup", "saveIndex", "saveMap", "end"}

Ops == {"none", "upsert", "delete", "clear", "search", "count", "save"}

\* Which call is at which step, who makes it, and what it has in hand there.
InStep(t) ==
    /\ pc[t] = "idle" <=> op[t] = "none"
    /\ pc[t] \in {"add", "mapId", "mapProduct"} => op[t] = "upsert"
    /\ pc[t] \in {"existing", "remove"} => op[t] \in {"upsert", "delete"}
    /\ pc[t] \in {"popProduct", "popId"} => op[t] = "delete"
    /\ pc[t] \in {"replace", "clearIds", "clearProducts"} => op[t] = "clear"
    /\ pc[t] \in {"search", "lookup"} => op[t] = "search"
    /\ pc[t] \in {"saveIndex", "saveMap"} => op[t] = "save"
    /\ pc[t] \in {"getIndex", "create"} => op[t] # "clear"
    /\ handle[t] = 0 <=> pc[t] \in {"idle", "getIndex", "create"} \/ op[t] = "clear"
    /\ list[t] = <<>> <=> op[t] \notin {"upsert", "delete"}
    /\ op[t] # "none" => call[t] \in Calls
    /\ op[t] \in {"upsert", "delete", "clear"} => t \in Writers
    /\ op[t] = "count" => t \in Probers
    /\ at[t] \in 1..Len(list[t]) \cup {1}
    /\ pc[t] \in {"idle", "getIndex", "create", "existing", "remove", "add"} => at[t] = 1
    /\ pc[t] = "idle" => floor[t] = NoCalls
    /\ hits[t] # {} => op[t] = "search"

\* TypeOK, and the types of what the arguments below look at.
Types ==
    /\ ready \in BOOLEAN /\ sound \in BOOLEAN
    /\ index \in [Handles -> SUBSET Vector] /\ current \in Handles \cup {0}
    /\ Gated /\ ready /\ sound => current # 0
    /\ \A t \in Threads : pc[t] = "end" /\ op[t] = "count" => current # 0
    /\ idToProduct \subseteq ProductIds /\ productToId \subseteq ProductIds
    /\ image \subseteq Vector /\ imageWhole \in BOOLEAN
    /\ savedIds \subseteq ProductIds /\ mapFile \in {"none", "part", "whole"}
    /\ calls \in 0..MaxCalls /\ crashes \in 0..MaxCrashes
    /\ pc \in [Threads -> Steps] /\ op \in [Threads -> Ops]
    /\ list \in [Threads -> Seq(ProductIds)] /\ call \in [Threads -> 0..MaxCalls]
    /\ handle \in [Threads -> Handles \cup {0}]
    /\ existing \in [Threads -> SUBSET ProductIds]
    /\ at \in [Threads -> Nat] /\ hits \in [Threads -> SUBSET Vector]
    /\ latest \in [ProductIds -> 0..MaxCalls]
    /\ floor \in [Threads -> [ProductIds -> 0..MaxCalls]]
    /\ \A t \in Threads : InStep(t)

-----------------------------------------------------------------------------
\* There are more index objects than threads can have in hand.
LEMMA UnusedExists ==
    ASSUME Types, NEW t \in Threads, handle[t] = 0
    PROVE  /\ Unused \in Handles /\ Unused # current /\ Unused # 0
           /\ \A u \in Threads : handle[u] # Unused
<1> DEFINE inHand == [u \in Threads |-> IF u = t THEN current ELSE handle[u]]
           holders == {u \in Threads : inHand[u] \in Handles}
<1>1. IsFiniteSet(Threads) /\ Cardinality(Threads) \in Nat
  BY StoreAssumption, FS_CardinalityType DEF StoreAssumption
<1>2. /\ IsFiniteSet(holders) /\ Cardinality(holders) \in Nat
      /\ Cardinality(holders) <= Cardinality(Threads)
  <2>1. holders \in SUBSET Threads
    OBVIOUS
  <2> QED BY <1>1, <2>1, FS_Subset, FS_CardinalityType
<1>3. IsFiniteSet(Handles) /\ Cardinality(Handles) = Cardinality(Threads) + 1
  <2>1. 1 \in Int /\ Cardinality(Threads) + 1 \in Int /\ 1 <= Cardinality(Threads) + 1
    BY <1>1
  <2> QED BY <1>1, <2>1, FS_Interval DEF Handles
<1>4. \E h \in Handles : \A u \in holders : inHand[u] # h
  <2> SUFFICES ASSUME \A h \in Handles : \E u \in holders : inHand[u] = h
               PROVE  FALSE
    OBVIOUS
  <2>1. [u \in holders |-> inHand[u]] \in Surjection(holders, Handles)
    BY DEF Surjection
  <2>2. Cardinality(Handles) <= Cardinality(holders)
    BY <1>2, <2>1, FS_Surjection
  <2> QED BY <1>1, <1>2, <1>3, <2>2
<1>5. PICK h \in Handles : \A u \in holders : inHand[u] # h
  BY <1>4
<1>6. h # current
  <2> SUFFICES ASSUME h = current PROVE FALSE
    OBVIOUS
  <2>1. t \in holders /\ inHand[t] = h
    OBVIOUS
  <2> QED BY <1>5, <2>1
<1>7. ASSUME NEW u \in Threads PROVE handle[u] # h
  <2>1. CASE u = t
    BY <2>1, 0 \notin Handles DEF Handles
  <2>2. CASE u # t
    BY <1>5, <2>2
  <2> QED BY <2>1, <2>2
<1>8. \E k \in Handles : k # current /\ \A u \in Threads : handle[u] # k
  BY <1>6, <1>7
<1>9. Unused \in Handles /\ Unused # current /\ \A u \in Threads : handle[u] # Unused
  BY <1>8 DEF Unused
<1> QED BY <1>9 DEF Handles

LEMMA InitTypes == Init => Types
<1> SUFFICES ASSUME Init PROVE Types
  OBVIOUS
<1> USE StoreAssumption DEF StoreAssumption, Init, Rest, NoIndex, NoCalls
<1>1. \A t \in Threads : InStep(t)
  BY EmptySeq DEF InStep
<1>2. NoCalls \in [ProductIds -> 0..MaxCalls]
  OBVIOUS
<1>3. ready \in BOOLEAN /\ imageWhole \in BOOLEAN /\ sound \in BOOLEAN /\ (Gated => ~ready)
  BY Zenon
<1>4. /\ index \in [Handles -> SUBSET Vector] /\ current \in Handles \cup {0}
      /\ idToProduct \subseteq ProductIds /\ productToId \subseteq ProductIds
      /\ image \subseteq Vector
      /\ savedIds \subseteq ProductIds /\ mapFile \in {"none", "part", "whole"}
      /\ calls \in 0..MaxCalls /\ crashes \in 0..MaxCrashes
  OBVIOUS
<1>5. /\ pc \in [Threads -> Steps] /\ op \in [Threads -> Ops]
      /\ list \in [Threads -> Seq(ProductIds)] /\ call \in [Threads -> 0..MaxCalls]
      /\ handle \in [Threads -> Handles \cup {0}]
  BY EmptySeq DEF Steps, Ops
<1>6. /\ existing \in [Threads -> SUBSET ProductIds]
      /\ at \in [Threads -> Nat] /\ hits \in [Threads -> SUBSET Vector]
  OBVIOUS
<1>7. /\ latest \in [ProductIds -> 0..MaxCalls]
      /\ floor \in [Threads -> [ProductIds -> 0..MaxCalls]]
  BY <1>2
<1>8. \A t \in Threads : ~(pc[t] = "end" /\ op[t] = "count")
  OBVIOUS
<1> QED BY <1>1, <1>3, <1>4, <1>5, <1>6, <1>7, <1>8, Zenon DEF Types

\* Next, one operation a case.
LEMMA StepCases ==
    ASSUME Next
    PROVE  \/ \E t \in Writers, products \in Lists : Start(t, "upsert", products)
           \/ \E t \in Writers, p \in ProductIds : Start(t, "delete", <<p>>)
           \/ \E t \in Writers : Start(t, "clear", <<>>)
           \/ \E t \in Readers, kind \in {"search", "save"} : Start(t, kind, <<>>)
           \/ \E t \in Probers : Start(t, "count", <<>>)
           \/ \E t \in Threads : GetIndex(t) \/ CreateIndex(t) \/ Find(t) \/ Remove(t) \/ Add(t)
           \/ \E t \in Threads : MapId(t) \/ MapProduct(t) \/ PopProduct(t) \/ PopId(t)
           \/ \E t \in Threads : ClearIndex(t) \/ ClearMaps(t) \/ SearchIndex(t) \/ Lookup(t)
           \/ \E t \in Threads : SaveIndex(t) \/ SaveMap(t) \/ Return(t) \/ Fail(t)
           \/ Crash \/ Load
BY Zenon DEF Next

\* A call names no product, or a list of them.
LEMMA StartTypes ==
    ASSUME Types, NEW t \in Threads, NEW kind \in Ops \ {"none"}, NEW products \in Seq(ProductIds),
           products = <<>> <=> kind \notin {"upsert", "delete"},
           kind \in {"upsert", "delete", "clear"} => t \in Writers,
           kind = "count" => t \in Probers,
           Start(t, kind, products)
    PROVE  Types'
<1> USE DEF Start, Goto, store, maps, files, local
<1>1. calls' \in Calls /\ calls \in Nat /\ calls' = calls + 1
  BY StoreAssumption DEF Types, Calls, StoreAssumption
<1>2. /\ pc' \in [Threads -> Steps] /\ op' \in [Threads -> Ops]
      /\ list' \in [Threads -> Seq(ProductIds)] /\ call' \in [Threads -> 0..MaxCalls]
  BY <1>1 DEF Types, Steps, Ops, Calls
<1>3. floor' \in [Threads -> [ProductIds -> 0..MaxCalls]]
  BY DEF Types
<1>4. ASSUME NEW u \in Threads
      PROVE  InStep(u)'
  <2>1. CASE u = t
    BY <2>1, <1>1 DEF Types, InStep, Ops
  <2>2. CASE u # t
    BY <2>2, <1>1 DEF Types, InStep
  <2> QED BY <2>1, <2>2
<1>5. \A u \in Threads : pc'[u] = "end" /\ op'[u] = "count" => current' # 0
  BY <1>2 DEF Types
<1> QED BY <1>1, <1>2, <1>3, <1>4, <1>5 DEF Types, Calls

LEMMA ReplaceTypes ==
    ASSUME Types, NEW t \in Threads, handle[t] = 0, NEW vectors \in SUBSET Vector,
           current' = Unused, index' = [index EXCEPT ![current'] = vectors]
    PROVE  /\ current' \in Handles /\ current' # current /\ current' # 0
           /\ \A u \in Threads : handle[u] # current'
           /\ index' \in [Handles -> SUBSET Vector] /\ index'[current'] = vectors
           /\ \A h \in Handles : h # current' => index'[h] = index[h]
<1>1. /\ current' \in Handles /\ current' # current /\ current' # 0
      /\ \A u \in Threads : handle[u] # current'
  BY UnusedExists
<1> QED BY <1>1 DEF Types

\* What steps inside a call leave alone.
LEMMA InnerTypes ==
    ASSUME Types, NEW t \in Threads,
           GetIndex(t) \/ CreateIndex(t) \/ Find(t) \/ Remove(t) \/ Add(t) \/ MapId(t)
             \/ MapProduct(t) \/ PopProduct(t) \/ PopId(t) \/ ClearIndex(t) \/ ClearMaps(t)
             \/ SearchIndex(t) \/ Lookup(t) \/ SaveIndex(t) \/ SaveMap(t)
    PROVE  /\ UNCHANGED <<ready, request, history>>
           /\ pc' = [pc EXCEPT ![t] = pc'[t]] /\ pc'[t] \in Steps \ {"idle"}
           /\ \A u \in Threads : u # t =>
                 /\ pc'[u] = pc[u] /\ handle'[u] = handle[u] /\ existing'[u] = existing[u]
                 /\ at'[u] = at[u] /\ hits'[u] = hits[u]
<1>1. pc \in [Threads -> Steps] /\ handle \in [Threads -> Handles \cup {0}]
  BY DEF Types
<1>2. existing \in [Threads -> SUBSET ProductIds] /\ at \in [Threads -> Nat]
      /\ hits \in [Threads -> SUBSET Vector]
  BY DEF Types
<1> USE <1>1, <1>2 DEF Goto, Steps, request, local, history
<1>3. CASE GetIndex(t)
  BY <1>3 DEF GetIndex, store
<1>4. CASE CreateIndex(t)
  BY <1>4 DEF Replace, CreateIndex
<1>5. CASE Find(t)
  BY <1>5 DEF Find, store
<1>6. CASE Remove(t)
  BY <1>6 DEF Remove
<1>7. CASE Add(t)
  BY <1>7 DEF Add
<1>8. CASE MapId(t)
  BY <1>8 DEF MapId, store
<1>9. CASE MapProduct(t)
  BY <1>9 DEF Advance, MapProduct, store
<1>10. CASE PopProduct(t)
  BY <1>10 DEF Advance, PopProduct, store
<1>11. CASE PopId(t)
  BY <1>11 DEF Advance, PopId, store
<1>12. CASE ClearIndex(t)
  BY <1>12 DEF Replace, ClearIndex
<1>13. CASE ClearMaps(t)
  BY <1>13 DEF ClearMaps, store
<1>14. CASE SearchIndex(t)
  BY <1>14 DEF SearchIndex, store
<1>15. CASE Lookup(t)
  BY <1>15 DEF Lookup, store
<1>16. CASE SaveIndex(t)
  BY <1>16 DEF SaveIndex, store
<1>17. CASE SaveMap(t)
  BY <1>17 DEF SaveMap, store
<1> QED BY <1>3, <1>4, <1>5, <1>6, <1>7, <1>8, <1>9, <1>10, <1>11, <1>12, <1>13, <1>14, <1>15, <1>16, <1>17

\* The next product of the list, or the end.
LEMMA AdvanceMoves ==
    ASSUME NEW t \in Threads, at \in [Threads -> Nat], pc \in [Threads -> Steps],
           Len(list[t]) \in Nat, at[t] \in 1..Len(list[t]), NEW step, Advance(t, step)
    PROVE  /\ at' \in [Threads -> Nat] /\ at'[t] \in 1..Len(list[t])
           /\ \/ at[t] < Len(list[t]) /\ at'[t] = at[t] + 1 /\ pc'[t] = step
              \/ at[t] = Len(list[t]) /\ at'[t] = at[t] /\ pc'[t] = "end"
<1>1. CASE at[t] < Len(list[t])
  BY <1>1 DEF Advance, Goto
<1>2. CASE ~(at[t] < Len(list[t]))
  BY <1>2 DEF Advance, Goto
<1> QED BY <1>1, <1>2

LEMMA InnerTypesKept ==
    ASSUME Types, NEW t \in Threads,
           GetIndex(t) \/ CreateIndex(t) \/ Find(t) \/ Remove(t) \/ Add(t) \/ MapId(t)
             \/ MapProduct(t) \/ PopProduct(t) \/ PopId(t) \/ ClearIndex(t) \/ ClearMaps(t)
             \/ SearchIndex(t) \/ Lookup(t) \/ SaveIndex(t) \/ SaveMap(t)
    PROVE  Types'
<1> DEFINE Local ==
        /\ handle' \in [Threads -> Handles \cup {0}]
        /\ existing' \in [Threads -> SUBSET ProductIds]
        /\ at' \in [Threads -> Nat] /\ hits' \in [Threads -> SUBSET Vector]
           Shared ==
        /\ index' \in [Handles -> SUBSET Vector] /\ current' \in Handles \cup {0}
        /\ current # 0 => current' # 0
        /\ idToProduct' \subseteq ProductIds /\ productToId' \subseteq ProductIds
        /\ image' \subseteq Vector /\ imageWhole' \in BOOLEAN
        /\ savedIds' \subseteq ProductIds /\ mapFile' \in {"none", "part", "whole"}
           Counted == pc'[t] = "end" /\ op[t] = "count" => current' # 0
<1>1. /\ UNCHANGED <<ready, request, history>>
      /\ pc' = [pc EXCEPT ![t] = pc'[t]] /\ pc'[t] \in Steps \ {"idle"}
      /\ \A u \in Threads : u # t =>
            /\ pc'[u] = pc[u] /\ handle'[u] = handle[u] /\ existing'[u] = existing[u]
            /\ at'[u] = at[u] /\ hits'[u] = hits[u]
  BY InnerTypes
<1>2. ASSUME NEW u \in Threads, u # t
      PROVE  InStep(u)' /\ (pc'[u] = "end" /\ op[u] = "count" => current # 0)
  BY <1>1, <1>2 DEF Types, InStep, request, history
<1>3. Local /\ Shared /\ Counted /\ InStep(t)'
  <2> USE DEF Goto, request, history, local, store, maps, files
  <2>0. /\ InStep(t) /\ list[t] \in Seq(ProductIds) /\ Len(list[t]) \in Nat
        /\ (list[t] # <<>> => list[t][at[t]] \in ProductIds)
        /\ \A i \in DOMAIN list[t] : list[t][i] \in ProductIds /\ i \in Nat
        /\ at[t] \in Nat /\ pc \in [Threads -> Steps]
    BY EmptySeq, ElementOfSeq, LenProperties DEF Types, InStep
  <2>1. CASE GetIndex(t)
    <3>1. op[t] \in Ops \ {"none", "clear"} /\ handle[t] = 0 /\ at[t] = 1
      BY <2>0, <2>1 DEF GetIndex, InStep, Types
    <3>2. CASE current = 0
      BY <2>0, <2>1, <1>1, <3>1, <3>2 DEF GetIndex, Types, InStep
    <3>3. CASE current # 0
      <4>1. /\ Local /\ handle'[t] \in Handles /\ handle'[t] = current /\ at'[t] = 1
            /\ Shared /\ current' # 0 /\ hits'[t] = hits[t]
            /\ op[t] = "search" => pc'[t] = "search"
            /\ op[t] = "count" => pc'[t] = "end"
            /\ op[t] = "save" => pc'[t] = "saveIndex"
            /\ op[t] \in {"upsert", "delete"} => pc'[t] = "existing"
        BY <2>0, <2>1, <3>1, <3>3 DEF GetIndex, Types, Ops
      <4>2. pc'[t] \in {"search", "end", "saveIndex", "existing"} /\ 0 \notin Handles
        BY <3>1, <4>1 DEF Ops, Handles
      <4> QED BY <2>0, <3>1, <1>1, <4>1, <4>2 DEF InStep, Ops
    <3> QED BY <3>2, <3>3
  <2>2. CASE CreateIndex(t)
    <3>1. handle[t] = 0 /\ {} \in SUBSET Vector
      BY <2>0, <2>2 DEF CreateIndex, InStep
    <3>2. current' \in Handles /\ current' # 0 /\ index' \in [Handles -> SUBSET Vector]
      BY <2>2, <3>1, ReplaceTypes DEF CreateIndex, Replace
    <3> QED BY <2>0, <2>2, <3>2, <1>1 DEF CreateIndex, Types, InStep
  <2>3. CASE Find(t)
    BY <2>0, <2>3, <1>1 DEF Find, Types, InStep
  <2>4. CASE Remove(t)
    BY <2>0, <2>4, <1>1 DEF Remove, Types, InStep
  <2>5. CASE Add(t)
    <3>1. handle[t] \in Handles /\ op[t] = "upsert" /\ call[t] \in Calls
      BY <2>0, <2>5 DEF Add, InStep, Types
    <3>2. Added(t) \subseteq Vector
      BY <2>0, <3>1 DEF Added, Vector
    <3>3. index' \in [Handles -> SUBSET Vector]
      BY <3>1, <3>2, <2>5 DEF Add, Types
    <3> QED BY <2>0, <2>5, <3>3, <1>1 DEF Add, Types, InStep
  <2>6. CASE MapId(t)
    BY <2>0, <2>6, <1>1 DEF MapId, Types, InStep
  <2>7. CASE MapProduct(t)
    <3>1. op[t] = "upsert" /\ handle[t] # 0 /\ list[t] # <<>> /\ at[t] \in 1..Len(list[t])
      BY <2>0, <2>7, EmptySeq DEF MapProduct, InStep
    <3>2. /\ at' \in [Threads -> Nat] /\ at'[t] \in 1..Len(list[t])
          /\ pc'[t] \in {"mapId", "end"}
      BY <2>0, <2>7, <3>1, AdvanceMoves DEF MapProduct, Types
    <3>3. Local /\ Shared /\ Counted
      BY <2>0, <2>7, <3>1, <3>2 DEF MapProduct, Types
    <3> QED BY <2>0, <2>7, <1>1, <3>1, <3>2, <3>3 DEF MapProduct, Types, InStep
  <2>8. CASE PopProduct(t)
    <3>1. op[t] = "delete" /\ handle[t] # 0 /\ list[t] # <<>> /\ at[t] \in 1..Len(list[t])
      BY <2>0, <2>8, EmptySeq DEF PopProduct, InStep
    <3>2. /\ at' \in [Threads -> Nat] /\ at'[t] \in 1..Len(list[t])
          /\ pc'[t] \in {"popId", "popProduct", "end"}
      BY <2>0, <2>8, <3>1, AdvanceMoves DEF PopProduct, Types
    <3>3. Local /\ Shared /\ Counted
      BY <2>0, <2>8, <3>1, <3>2 DEF PopProduct, Types
    <3> QED BY <2>0, <2>8, <1>1, <3>1, <3>2, <3>3 DEF PopProduct, Types, InStep
  <2>9. CASE PopId(t)
    <3>1. op[t] = "delete" /\ handle[t] # 0 /\ list[t] # <<>> /\ at[t] \in 1..Len(list[t])
      BY <2>0, <2>9, EmptySeq DEF PopId, InStep
    <3>2. /\ at' \in [Threads -> Nat] /\ at'[t] \in 1..Len(list[t])
          /\ pc'[t] \in {"popProduct", "end"}
      BY <2>0, <2>9, <3>1, AdvanceMoves DEF PopId, Types
    <3>3. Local /\ Shared /\ Counted
      BY <2>0, <2>9, <3>1, <3>2 DEF PopId, Types
    <3> QED BY <2>0, <2>9, <1>1, <3>1, <3>2, <3>3 DEF PopId, Types, InStep
  <2>10. CASE ClearIndex(t)
    <3>1. handle[t] = 0 /\ {} \in SUBSET Vector
      BY <2>0, <2>10 DEF ClearIndex, InStep
    <3>2. current' \in Handles /\ current' # 0 /\ index' \in [Handles -> SUBSET Vector]
      BY <2>10, <3>1, ReplaceTypes DEF ClearIndex, Replace
    <3> QED BY <2>0, <2>10, <3>2, <1>1 DEF ClearIndex, Types, InStep
  <2>11. CASE ClearMaps(t)
    BY <2>0, <2>11, <1>1 DEF ClearMaps, Types, InStep
  <2>12. CASE SearchIndex(t)
    <3>1. handle[t] \in Handles /\ index[handle[t]] \in SUBSET Vector
      BY <2>0, <2>12 DEF SearchIndex, InStep, Types
    <3> QED BY <2>0, <2>12, <3>1, <1>1 DEF SearchIndex, Types, InStep
  <2>13. CASE Lookup(t)
    BY <2>0, <2>13, <1>1 DEF Lookup, Types, InStep
  <2>14. CASE SaveIndex(t)
    <3>1. handle[t] \in Handles /\ index[handle[t]] \in SUBSET Vector
      BY <2>0, <2>14 DEF SaveIndex, InStep, Types
    <3> QED BY <2>0, <2>14, <3>1, <1>1 DEF SaveIndex, Types, InStep
  <2>15. CASE SaveMap(t)
    BY <2>0, <2>15, <1>1 DEF SaveMap, Types, InStep
  <2> QED BY <2>1, <2>2, <2>3, <2>4, <2>5, <2>6, <2>7, <2>8, <2>9, <2>10, <2>11, <2>12, <2>13, <2>14, <2>15
<1>4. pc' \in [Threads -> Steps]
  BY <1>1 DEF Types
<1>5. \A u \in Threads : pc'[u] = "end" /\ op'[u] = "count" => current' # 0
  BY <1>1, <1>2, <1>3 DEF request
<1>6. \A u \in Threads : InStep(u)'
  BY <1>2, <1>3
<1> QED BY <1>1, <1>3, <1>4, <1>5, <1>6 DEF Types, request, history

\* A call ends, with a result or an error.
LEMMA FinishTypes ==
    ASSUME Types, NEW t \in Threads, pc[t] # "idle", Return(t) \/ Fail(t)
    PROVE  Types'
<1> USE DEF Finish, Goto, maps
<1>1. /\ Finish(t) /\ (ready => ready') /\ (sound' => sound)
      /\ ready' /\ sound' => ready \/ current # 0
      /\ ready' \in BOOLEAN /\ sound' \in BOOLEAN /\ imageWhole' \in BOOLEAN
  <2>0. ready \in BOOLEAN /\ sound \in BOOLEAN /\ imageWhole \in BOOLEAN
    BY DEF Types
  <2>1. CASE Return(t)
    <3>1. pc[t] = "end" /\ (op[t] = "count" => current # 0)
      BY <2>1 DEF Types, Return
    <3> QED BY <2>0, <2>1, <3>1, Zenon DEF Return, files
  <2>2. CASE Fail(t)
    <3>1. /\ Finish(t) /\ ready' = (ready \/ op[t] = "count")
          /\ sound' = (sound /\ (ready' => ready \/ current # 0))
      BY <2>2, Zenon DEF Fail
    <3>2. imageWhole' = imageWhole \/ imageWhole' = FALSE
      BY <2>2, Zenon DEF Fail, files
    <3>3. ready' \in BOOLEAN /\ (ready => ready')
      BY <2>0, <3>1, Zenon
    <3>4. sound' \in BOOLEAN /\ (sound' => sound) /\ (ready' /\ sound' => ready \/ current # 0)
      BY <2>0, <3>1, Zenon
    <3> QED BY <2>0, <3>1, <3>2, <3>3, <3>4, Zenon
  <2> QED BY <2>1, <2>2
<1>2. latest' \in [ProductIds -> 0..MaxCalls]
  <2>1. CASE Return(t)
    BY <2>1 DEF Return, Types
  <2>2. CASE Fail(t)
    BY <2>2 DEF Fail, Types
  <2> QED BY <2>1, <2>2
<1>3. /\ image' \subseteq Vector
      /\ savedIds' \subseteq ProductIds /\ mapFile' \in {"none", "part", "whole"}
  BY DEF Return, Fail, files, Types
<1>4. /\ pc' \in [Threads -> Steps] /\ op' \in [Threads -> Ops]
      /\ list' \in [Threads -> Seq(ProductIds)] /\ call' \in [Threads -> 0..MaxCalls]
      /\ handle' \in [Threads -> Handles \cup {0}]
  BY <1>1, StoreAssumption, EmptySeq DEF Types, Steps, Ops, StoreAssumption
<1>5. /\ existing' \in [Threads -> SUBSET ProductIds]
      /\ at' \in [Threads -> Nat] /\ hits' \in [Threads -> SUBSET Vector]
      /\ floor' \in [Threads -> [ProductIds -> 0..MaxCalls]]
  BY <1>1, StoreAssumption DEF Types, NoCalls, StoreAssumption
<1>6. ASSUME NEW u \in Threads
      PROVE  InStep(u)' /\ (pc'[u] = "end" /\ op'[u] = "count" => current # 0)
  <2>1. CASE u = t
    BY <2>1, <1>1, EmptySeq DEF Types, InStep
  <2>2. CASE u # t
    BY <2>2, <1>1 DEF Types, InStep
  <2> QED BY <2>1, <2>2
<1>7. UNCHANGED <<index, current, idToProduct, productToId, calls, crashes>>
  BY <1>1
<1>8. Gated /\ ready' /\ sound' => current' # 0
  BY <1>1, <1>7 DEF Types
<1>9. \A u \in Threads : InStep(u)' /\ (pc'[u] = "end" /\ op'[u] = "count" => current' # 0)
  BY <1>6, <1>7
<1>10. /\ index' \in [Handles -> SUBSET Vector]
       /\ current' \in Handles \cup {0}
       /\ idToProduct' \subseteq ProductIds /\ productToId' \subseteq ProductIds
       /\ calls' \in 0..MaxCalls /\ crashes' \in 0..MaxCrashes
  BY <1>7 DEF Types
<1> QED BY <1>1, <1>2, <1>3, <1>4, <1>5, <1>8, <1>9, <1>10, Zenon DEF Types

LEMMA CrashTypes ==
    ASSUME Types, Crash
    PROVE  Types'
<1> USE StoreAssumption DEF StoreAssumption, Crash, Rest, NoIndex, NoCalls
<1>1. \A t \in Threads : InStep(t)' /\ pc'[t] # "end"
  BY EmptySeq DEF InStep, NoCalls
<1>2. ready' \in BOOLEAN /\ sound' \in BOOLEAN /\ (Gated => ~ready')
  BY Zenon
<1>3. imageWhole' \in BOOLEAN
  <2>1. imageWhole' = imageWhole \/ imageWhole' = FALSE
    BY Zenon
  <2> QED BY <2>1, Zenon DEF Types
<1>4. /\ index' \in [Handles -> SUBSET Vector] /\ current' \in Handles \cup {0}
      /\ idToProduct' \subseteq ProductIds /\ productToId' \subseteq ProductIds
      /\ image' \subseteq Vector /\ savedIds' \subseteq ProductIds
      /\ calls' \in 0..MaxCalls /\ crashes' \in 0..MaxCrashes
  BY DEF Types
<1>5. mapFile' \in {"none", "part", "whole"}
  BY DEF Types
<1>6. /\ pc' \in [Threads -> Steps] /\ op' \in [Threads -> Ops]
      /\ list' \in [Threads -> Seq(ProductIds)] /\ call' \in [Threads -> 0..MaxCalls]
      /\ handle' \in [Threads -> Handles \cup {0}]
  BY EmptySeq DEF Steps, Ops
<1>7. /\ existing' \in [Threads -> SUBSET ProductIds]
      /\ at' \in [Threads -> Nat] /\ hits' \in [Threads -> SUBSET Vector]
  OBVIOUS
<1>8. NoCalls \in [ProductIds -> 0..MaxCalls]
  OBVIOUS
<1>9. /\ latest' \in [ProductIds -> 0..MaxCalls]
      /\ floor' \in [Threads -> [ProductIds -> 0..MaxCalls]]
  BY <1>8
<1> QED BY <1>1, <1>2, <1>3, <1>4, <1>5, <1>6, <1>7, <1>9, Zenon DEF Types

LEMMA LoadTypes ==
    ASSUME Types, Load
    PROVE  Types'
<1> USE DEF Load, files, request, local
<1>1. PICK t \in Threads : TRUE
  BY StoreAssumption DEF StoreAssumption
<1>2. pc[t] = "idle" /\ handle[t] = 0
  BY <1>1 DEF Rest, Types, InStep
<1>3. image \in SUBSET Vector
  BY DEF Types
<1>4. /\ current' \in Handles /\ current' # 0
      /\ index' \in [Handles -> SUBSET Vector]
  BY <1>1, <1>2, <1>3, ReplaceTypes
<1>5. idToProduct' \subseteq ProductIds /\ productToId' \subseteq ProductIds
  BY DEF Types
<1>6. latest' \in [ProductIds -> 0..MaxCalls]
  BY StoreAssumption DEF NoCalls, StoreAssumption
<1>7. sound' \in BOOLEAN
  BY Zenon DEF Agree
<1>8. \A u \in Threads : InStep(u)'
  BY DEF InStep, Types
<1> QED BY <1>4, <1>5, <1>6, <1>7, <1>8 DEF Types

LEMMA StutterTypes ==
    ASSUME Types, UNCHANGED vars
    PROVE  Types'
<1> USE DEF vars, store, maps, files, request, local, history
<1>1. \A u \in Threads : InStep(u)'
  BY DEF Types, InStep
<1> QED BY <1>1 DEF Types

LEMMA TypesKept ==
    ASSUME Types, [Next]_vars
    PROVE  Types'
<1>1. CASE UNCHANGED vars
  BY <1>1, StutterTypes
<1>2. ASSUME NEW t \in Writers, NEW products \in Lists, Start(t, "upsert", products)
      PROVE  Types'
  BY <1>2, StartTypes, StoreAssumption DEF Threads, Ops, StoreAssumption
<1>3. ASSUME NEW t \in Writers, NEW p \in ProductIds, Start(t, "delete", <<p>>)
      PROVE  Types'
  <2>1. <<p>> \in Seq(ProductIds) /\ <<p>> # <<>>
    BY EmptySeq
  <2>2. t \in Threads
    BY DEF Threads
  <2> QED BY <1>3, <2>1, <2>2, StartTypes DEF Ops
<1>4. ASSUME NEW t \in Writers, Start(t, "clear", <<>>)
      PROVE  Types'
  BY <1>4, StartTypes, EmptySeq DEF Threads, Ops
<1>5. ASSUME NEW t \in Readers, NEW kind \in {"search", "save"}, Start(t, kind, <<>>)
      PROVE  Types'
  BY <1>5, StartTypes, EmptySeq DEF Threads, Ops
<1>6. ASSUME NEW t \in Probers, Start(t, "count", <<>>)
      PROVE  Types'
  BY <1>6, StartTypes, EmptySeq DEF Threads, Ops
<1>7. ASSUME NEW t \in Threads, Return(t) \/ Fail(t)
      PROVE  Types'
  <2>1. pc[t] # "idle"
    BY <1>7 DEF Return, Fail
  <2> QED BY <1>7, <2>1, FinishTypes
<1> QED BY <1>1, <1>2, <1>3, <1>4, <1>5, <1>6, <1>7, StepCases, InnerTypesKept,
           CrashTypes, LoadTypes

LEMMA SpecTypes == Spec => []Types
BY InitTypes, TypesKept, PTL DEF Spec

\* Every variable keeps its type, and requests find an index.
THEOREM TypeCorrect == Spec => []TypeOK
<1>1. Types => TypeOK
  <2> SUFFICES ASSUME Types PROVE TypeOK
    OBVIOUS
  <2>1. ready \in BOOLEAN /\ imageWhole \in BOOLEAN
    BY DEF Types
  <2>2. \A h \in Handles : index[h] \subseteq ProductIds \X Calls \X Nat
    BY DEF Types, Vector
  <2>3. \A t \in Threads :
          /\ op[t] \in {"none", "upsert", "delete", "clear", "search", "count", "save"}
          /\ call[t] \in 0..MaxCalls /\ handle[t] \in Handles \cup {0}
          /\ at[t] \in 1..Len(list[t]) \cup {1}
          /\ hits[t] \subseteq ProductIds \X Calls \X Nat
    BY DEF Types, InStep, Ops, Vector
  <2>4. \A p \in ProductIds : latest[p] \in 0..MaxCalls
    BY DEF Types
  <2>5. image \subseteq ProductIds \X Calls \X Nat
    BY DEF Types, Vector
  <2> QED BY <2>1, <2>2, <2>3, <2>4, <2>5 DEF Types, TypeOK
<1> QED BY <1>1, SpecTypes, PTL

-----------------------------------------------------------------------------
\* A process behind the readiness gate, with one worker that writes and one probe at
\* a time.
Served ==
    /\ Gated
    /\ \A t, u \in Writers : t = u
    /\ \A t, u \in Probers : t = u

\* Before requests are routed here only the probe is under way and the dictionaries
\* are as loaded; in a sound process the index is created then or never, and a write
\* has the current one.
Gate ==
    /\ ~ready => idToProduct = productToId /\ \A t \in Threads : op[t] \in {"none", "count"}
    /\ sound => \A t \in Threads :
          /\ pc[t] = "create" => current = 0
          /\ op[t] \in {"upsert", "delete"} /\ handle[t] # 0 => handle[t] = current

\* The calls a product has been through come in order.
Order ==
    /\ \A p \in ProductIds : latest[p] <= calls
    /\ \A t \in Threads :
          /\ call[t] <= calls
          /\ op[t] \in {"upsert", "delete", "clear"} =>
                \A p \in ProductIds : latest[p] <= call[t]
          /\ \A p \in ProductIds : floor[t][p] <= latest[p]

\* Where the dictionaries may differ: at the product a loop is at, and in a clear.
Between(t, p) ==
    \/ pc[t] \in {"mapProduct", "popId"} /\ p = list[t][at[t]]
    \/ pc[t] = "clearProducts"

Paired ==
    /\ \A p \in ProductIds :
          (\A t \in Writers : ~Between(t, p)) => (p \in idToProduct <=> p \in productToId)
    /\ \A t \in Writers :
          /\ pc[t] = "mapProduct" => list[t][at[t]] \in idToProduct
          /\ pc[t] = "popId" => list[t][at[t]] \notin productToId
          /\ pc[t] = "clearProducts" => idToProduct = {}

\* No product has vectors of two calls.
OneCall(vectors) == \A v, other \in vectors : v[1] = other[1] => v[2] = other[2]

Fresh(t, vectors) == OneCall(vectors) /\ \A v \in vectors : v[2] >= floor[t][v[1]]

\* The products an upsert has yet to put in the dictionaries.
Unmapped(t, p) ==
    /\ pc[t] \in {"mapId", "mapProduct"}
    /\ \E i \in DOMAIN list[t] : i >= at[t] /\ list[t][i] = p

\* What the current index holds is new and within reach of the dictionaries.
Reach ==
    /\ \A p \in ProductIds :
          /\ \A v, other \in Vectors(p) : v[2] = other[2]
          /\ \A v \in Vectors(p) : v[2] >= latest[p]
          /\ p \notin productToId /\ (\A t \in Writers : ~Unmapped(t, p)) => Vectors(p) = {}

\* What a writer has done so far.
Done(t) ==
    /\ pc[t] = "remove" => existing[t] = Named(list[t]) \cap productToId
    /\ pc[t] = "add" => \A p \in Named(list[t]) : Vectors(p) = {}
    /\ op[t] = "upsert" /\ pc[t] \in {"mapId", "mapProduct", "end"} =>
          \A i \in DOMAIN list[t] :
             /\ Vectors(list[t][i]) = {v \in Added(t) : v[1] = list[t][i]}
             /\ pc[t] = "end" \/ i < at[t] => list[t][i] \in idToProduct \cap productToId
    /\ op[t] = "delete" /\ pc[t] \in {"popProduct", "popId", "end"} =>
          \A p \in Named(list[t]) : Vectors(p) = {}
    /\ op[t] = "clear" /\ pc[t] \in {"clearIds", "clearProducts", "end"} =>
          \A p \in ProductIds : Vectors(p) = {}

\* What a search sees and what it has found.
Seen(t) == (pc[t] = "search" => Fresh(t, index[handle[t]])) /\ Fresh(t, hits[t])

Inv ==
    /\ Types /\ Gate /\ Order /\ Paired
    /\ sound => Reach /\ (\A t \in Writers : Done(t)) /\ (\A t \in Threads : Seen(t))

-----------------------------------------------------------------------------
LEMMA InitInv == Init => Inv
<1> SUFFICES ASSUME Init PROVE Inv
  OBVIOUS
<1> USE DEF Init, Rest, NoCalls, NoIndex
<1>1. Types
  BY InitTypes
<1>2. Gate
  BY DEF Gate
<1>3. Order /\ Paired
  BY DEF Order, Paired, Threads, Between
<1>4. Reach /\ (\A t \in Writers : Done(t)) /\ (\A t \in Threads : Seen(t))
  BY DEF Reach, Done, Seen, Vectors, Fresh, OneCall, Threads
<1> QED BY <1>1, <1>2, <1>3, <1>4 DEF Inv

\* Not ready: no writer, no reader.  In a sound process a thread about to create an
\* index is the probe.
LEMMA Quiet ==
    ASSUME Types, Gate, Served, NEW t \in Threads
    PROVE  /\ op[t] \notin {"none", "count"} => ready
           /\ sound =>
                 /\ op[t] \notin {"none", "count"} => current # 0
                 /\ pc[t] = "create" => ~ready
                 /\ \A u \in Threads : pc[t] = "create" /\ op[u] # "none" => u = t
<1>1. sound /\ pc[t] = "create" => current = 0 /\ ~ready
  BY DEF Types, Gate, Served
<1>2. op[t] \notin {"none", "count"} => ready /\ (sound => current # 0)
  BY DEF Types, Gate, Served
<1>3. ASSUME NEW u \in Threads, sound, pc[t] = "create", op[u] # "none"
      PROVE  u = t
  <2>1. op[t] = "count" /\ op[u] = "count"
    BY <1>1, <1>3 DEF Gate, Types, InStep
  <2> QED BY <2>1 DEF Types, InStep, Served
<1> QED BY <1>1, <1>2, <1>3

\* Only a writer that requests reached touches the dictionaries.
LEMMA ClosedKept ==
    ASSUME Types, Types', Gate, Served, [Next]_vars
    PROVE  ~ready' =>
              idToProduct' = productToId' /\ \A u \in Threads : op'[u] \in {"none", "count"}
<1> DEFINE Closed == ~ready =>
              idToProduct = productToId /\ \A u \in Threads : op[u] \in {"none", "count"}
<1>0. Closed
  BY DEF Gate
<1> SUFFICES Closed'
  OBVIOUS
<1>1. ASSUME NEW t \in Threads,
             GetIndex(t) \/ CreateIndex(t) \/ Find(t) \/ Remove(t) \/ Add(t) \/ MapId(t)
               \/ MapProduct(t) \/ PopProduct(t) \/ PopId(t) \/ ClearIndex(t) \/ ClearMaps(t)
               \/ SearchIndex(t) \/ Lookup(t) \/ SaveIndex(t) \/ SaveMap(t)
      PROVE  Closed'
  <2>0. UNCHANGED <<ready, request, history>>
    BY <1>1, InnerTypes
  <2>1. CASE MapId(t) \/ MapProduct(t) \/ PopProduct(t) \/ PopId(t) \/ ClearMaps(t)
    <3>1. op[t] \notin {"none", "count"}
      BY <2>1 DEF MapId, MapProduct, PopProduct, PopId, ClearMaps, Types, InStep
    <3>2. ready
      BY <3>1, Quiet
    <3> QED BY <2>0, <3>2
  <2>2. CASE UNCHANGED <<idToProduct, productToId>>
    BY <1>0, <2>0, <2>2 DEF request
  <2>3. \/ MapId(t) \/ MapProduct(t) \/ PopProduct(t) \/ PopId(t) \/ ClearMaps(t)
        \/ UNCHANGED <<idToProduct, productToId>>
    BY <1>1 DEF GetIndex, CreateIndex, Find, Remove, Add, ClearIndex, SearchIndex, Lookup,
       SaveIndex, SaveMap, maps
  <2> QED BY <2>1, <2>2, <2>3
<1>2. ASSUME NEW t \in Threads, NEW kind, NEW products, Start(t, kind, products)
      PROVE  Closed'
  <2>1. /\ UNCHANGED <<ready, idToProduct, productToId>> /\ (ready \/ kind = "count")
        /\ op'[t] = kind /\ \A u \in Threads : u # t => op'[u] = op[u]
    BY <1>2 DEF Start, store, maps, Types
  <2> QED BY <1>0, <2>1
<1>3. ASSUME NEW t \in Threads, Return(t) \/ Fail(t)
      PROVE  Closed'
  <2>1. /\ UNCHANGED <<idToProduct, productToId>> /\ (ready => ready')
        /\ op'[t] = "none" /\ \A u \in Threads : u # t => op'[u] = op[u]
    BY <1>3 DEF Return, Fail, Finish, maps, Types
  <2> QED BY <1>0, <2>1
<1>4. CASE Crash
  BY <1>4 DEF Crash, Rest
<1>5. CASE Load
  <2>1. UNCHANGED <<ready, op>> /\ idToProduct' = productToId'
    BY <1>0, <1>5 DEF Load, request
  <2> QED BY <1>0, <2>1
<1>6. CASE UNCHANGED vars
  BY <1>0, <1>6 DEF vars, store, maps, request
<1>7. Writers \subseteq Threads /\ Readers \subseteq Threads /\ Probers \subseteq Threads
  BY DEF Threads
<1>8. ASSUME Next PROVE Closed'
  <2> HIDE DEF Closed
  <2> QED BY <1>1, <1>2, <1>3, <1>4, <1>5, <1>7, <1>8, StepCases
<1> QED BY <1>6, <1>8

LEMMA GateKept ==
    ASSUME Types, Types', Gate, Served, [Next]_vars
    PROVE  Gate'
<1> DEFINE Good(u) ==
          /\ pc[u] = "create" => current = 0
          /\ op[u] \in {"upsert", "delete"} /\ handle[u] # 0 => handle[u] = current
<1>0. sound => \A u \in Threads : Good(u)
  BY DEF Gate
<1> SUFFICES ASSUME sound' PROVE \A u \in Threads : Good(u)'
  BY ClosedKept DEF Gate
<1>1. ASSUME NEW t \in Threads,
             GetIndex(t) \/ CreateIndex(t) \/ Find(t) \/ Remove(t) \/ Add(t) \/ MapId(t)
               \/ MapProduct(t) \/ PopProduct(t) \/ PopId(t) \/ ClearIndex(t) \/ ClearMaps(t)
               \/ SearchIndex(t) \/ Lookup(t) \/ SaveIndex(t) \/ SaveMap(t)
      PROVE  \A u \in Threads : Good(u)'
  <2>0. /\ UNCHANGED <<ready, request, history>> /\ sound
        /\ \A u \in Threads : u # t =>
              /\ pc'[u] = pc[u] /\ handle'[u] = handle[u] /\ existing'[u] = existing[u]
              /\ at'[u] = at[u] /\ hits'[u] = hits[u]
    BY <1>1, InnerTypes DEF history
  <2>1. CASE GetIndex(t)
    <3>1. /\ UNCHANGED current
          /\ pc'[t] = "create" => current = 0
          /\ handle'[t] # 0 => handle'[t] = current
      BY <2>1 DEF GetIndex, Goto, store, Types, InStep
    <3> QED BY <1>0, <2>0, <3>1 DEF request
  <2>2. CASE CreateIndex(t)
    <3>1. ~ready /\ pc[t] = "create" /\ pc'[t] = "getIndex" /\ UNCHANGED handle
      BY <2>0, <2>2, Quiet DEF CreateIndex, local, Goto, Types
    <3>2. \A u \in Threads : pc'[u] # "create"
      BY <2>0, <3>1, Quiet DEF Types, InStep
    <3>3. \A u \in Threads : op[u] \in {"none", "count"}
      BY <3>1 DEF Gate
    <3> QED BY <2>0, <3>2, <3>3 DEF request
  <2>3. CASE ClearIndex(t)
    <3>1. /\ pc[t] = "replace" /\ op[t] = "clear" /\ ready /\ UNCHANGED handle /\ handle[t] = 0
          /\ pc'[t] = "clearIds" /\ t \in Writers
      BY <2>3, Quiet DEF ClearIndex, local, Types, InStep, Goto
    <3>2. \A u \in Threads : op[u] \in {"upsert", "delete"} => u = t
      BY <3>1 DEF Types, InStep, Served
    <3>3. \A u \in Threads : pc[u] # "create"
      BY <2>0, <3>1, Quiet
    <3> QED BY <1>0, <2>0, <3>1, <3>2, <3>3 DEF request
  <2>4. CASE Find(t) \/ Remove(t) \/ Add(t) \/ SearchIndex(t) \/ Lookup(t)
               \/ SaveIndex(t) \/ SaveMap(t)
    <3>1. UNCHANGED <<current, handle>> /\ pc'[t] # "create"
      BY <2>4 DEF Find, Remove, Add, SearchIndex, Lookup, SaveIndex, SaveMap, Goto, store,
           local, Types
    <3> QED BY <1>0, <2>0, <3>1 DEF request
  <2>5. CASE MapId(t) \/ MapProduct(t) \/ PopProduct(t) \/ PopId(t) \/ ClearMaps(t)
    <3>1. UNCHANGED <<current, handle>> /\ pc'[t] # "create"
      BY <2>5 DEF MapId, MapProduct, PopProduct, PopId, ClearMaps, Advance, Goto, store,
           local, Types
    <3> QED BY <1>0, <2>0, <3>1 DEF request
  <2> QED BY <1>1, <2>1, <2>2, <2>3, <2>4, <2>5
<1>2. ASSUME NEW t \in Threads, NEW kind, NEW products, Start(t, kind, products)
      PROVE  \A u \in Threads : Good(u)'
  <2>1. /\ UNCHANGED <<current, handle, sound>>
        /\ handle[t] = 0 /\ pc'[t] # "create"
        /\ \A u \in Threads : u # t => pc'[u] = pc[u] /\ op'[u] = op[u]
    BY <1>2 DEF Start, Goto, store, local, Types, InStep
  <2> QED BY <1>0, <2>1
<1>3. ASSUME NEW t \in Threads, Return(t) \/ Fail(t)
      PROVE  \A u \in Threads : Good(u)'
  <2>1. sound
    BY <1>3 DEF Return, Fail
  <2>2. /\ UNCHANGED current
        /\ pc'[t] = "idle" /\ op'[t] = "none"
        /\ \A u \in Threads : u # t =>
              pc'[u] = pc[u] /\ op'[u] = op[u] /\ handle'[u] = handle[u]
    BY <1>3 DEF Return, Fail, Finish, Goto, Types
  <2> QED BY <1>0, <2>1, <2>2
<1>4. CASE Crash
  BY <1>4 DEF Crash, Rest
<1>5. CASE Load
  <2>1. UNCHANGED <<op, pc>> /\ (\A u \in Threads : pc[u] = "idle" /\ op[u] = "none")
    BY <1>5 DEF Load, request, Rest, Types, InStep
  <2> QED BY <2>1
<1>6. CASE UNCHANGED vars
  BY <1>0, <1>6 DEF vars, store, request, local, history
<1>7. Writers \subseteq Threads /\ Readers \subseteq Threads /\ Probers \subseteq Threads
  BY DEF Threads
<1>8. ASSUME Next PROVE \A u \in Threads : Good(u)'
  <2> HIDE DEF Good
  <2> QED BY <1>1, <1>2, <1>3, <1>4, <1>5, <1>7, <1>8, StepCases
<1> QED BY <1>6, <1>8

\* A call that does not write is about no product.
LEMMA SubjectOf ==
    ASSUME Types, NEW t \in Threads
    PROVE  /\ op[t] = "clear" => Subject(op[t], list[t]) = ProductIds
           /\ op[t] \in {"upsert", "delete"} => Subject(op[t], list[t]) = Named(list[t])
           /\ op[t] \notin {"upsert", "delete", "clear"} => Subject(op[t], list[t]) = {}
           /\ Named(list[t]) \subseteq ProductIds
<1>1. list[t] \in Seq(ProductIds) /\ (op[t] \notin {"upsert", "delete"} => list[t] = <<>>)
  BY DEF Types, InStep
<1> QED BY <1>1, ElementOfSeq, EmptySeq DEF Subject, Named

LEMMA OrderKept ==
    ASSUME Types, Order, Served, [Next]_vars
    PROVE  Order'
<1>1. ASSUME UNCHANGED <<latest, calls, call, op, floor>>
      PROVE  Order'
  BY <1>1 DEF Order
<1>2. ASSUME NEW t \in Threads, NEW kind, NEW products, Start(t, kind, products)
      PROVE  Order'
  <2>1. /\ calls' = calls + 1 /\ calls \in Nat /\ UNCHANGED latest
        /\ call' = [call EXCEPT ![t] = calls + 1] /\ floor' = [floor EXCEPT ![t] = latest]
        /\ op' = [op EXCEPT ![t] = kind]
    BY <1>2 DEF Start, Types
  <2>2. ASSUME NEW u \in Threads
        PROVE  /\ call'[u] <= calls'
               /\ op'[u] \in {"upsert", "delete", "clear"} =>
                     \A p \in ProductIds : latest[p] <= call'[u]
               /\ \A p \in ProductIds : floor'[u][p] <= latest[p]
    <3>1. CASE u = t
      BY <2>1, <3>1 DEF Types, Order
    <3>2. CASE u # t
      BY <2>1, <3>2 DEF Types, Order
    <3> QED BY <3>1, <3>2
  <2>3. \A p \in ProductIds : latest[p] <= calls'
    BY <2>1 DEF Types, Order
  <2> QED BY <2>1, <2>2, <2>3 DEF Order
<1>3. ASSUME NEW t \in Threads, Return(t)
      PROVE  Order'
  <2>1. /\ op' = [op EXCEPT ![t] = "none"] /\ call' = [call EXCEPT ![t] = 0]
        /\ floor' = [floor EXCEPT ![t] = NoCalls] /\ UNCHANGED calls
        /\ latest' = [p \in ProductIds |->
              IF p \in Subject(op[t], list[t]) THEN call[t] ELSE latest[p]]
    BY <1>3 DEF Return, Finish
  <2>2. \A p \in ProductIds : /\ latest[p] <= latest'[p] /\ latest'[p] <= calls
                              /\ latest'[p] # latest[p] => t \in Writers
    BY <2>1, SubjectOf DEF Types, Order, InStep
  <2>3. ASSUME NEW u \in Threads
        PROVE  /\ call'[u] <= calls
               /\ op'[u] \in {"upsert", "delete", "clear"} =>
                     \A p \in ProductIds : latest'[p] <= call'[u]
               /\ \A p \in ProductIds : floor'[u][p] <= latest'[p]
    <3>1. CASE u = t
      BY <2>1, <2>2, <3>1 DEF Types, Order, NoCalls
    <3>2. CASE u # t
      <4>1. op[u] \in {"upsert", "delete", "clear"} => \A p \in ProductIds : latest'[p] = latest[p]
        BY <2>2, <3>2 DEF Served, Types, InStep
      <4>2. /\ op'[u] = op[u] /\ call'[u] = call[u] /\ floor'[u] = floor[u]
            /\ floor[u] \in [ProductIds -> 0..MaxCalls] /\ latest \in [ProductIds -> 0..MaxCalls]
            /\ call[u] \in Nat /\ calls \in Nat /\ latest' \in [ProductIds -> 0..MaxCalls]
        BY <2>1, <3>2 DEF Types
      <4> QED BY <2>2, <4>1, <4>2 DEF Order
    <3> QED BY <3>1, <3>2
  <2> QED BY <2>1, <2>2, <2>3 DEF Order
<1>4. ASSUME NEW t \in Threads, Fail(t)
      PROVE  Order'
  <2>1. /\ op' = [op EXCEPT ![t] = "none"] /\ call' = [call EXCEPT ![t] = 0]
        /\ floor' = [floor EXCEPT ![t] = NoCalls] /\ UNCHANGED <<calls, latest>>
    BY <1>4 DEF Fail, Finish
  <2> QED BY <2>1 DEF Order, Types, NoCalls
<1>5. CASE Crash
  BY <1>5 DEF Crash, Rest, NoCalls, Order, Types
<1>6. CASE Load
  <2>1. latest' = NoCalls /\ (\A t \in Threads : op[t] = "none" /\ floor[t] = NoCalls)
        /\ UNCHANGED <<calls, call, op, floor>>
    BY <1>6 DEF Load, request, Types, InStep, Rest
  <2> QED BY <2>1 DEF Order, NoCalls, Types
<1>7. ASSUME NEW t \in Threads,
             GetIndex(t) \/ CreateIndex(t) \/ Find(t) \/ Remove(t) \/ Add(t) \/ MapId(t)
               \/ MapProduct(t) \/ PopProduct(t) \/ PopId(t) \/ ClearIndex(t) \/ ClearMaps(t)
               \/ SearchIndex(t) \/ Lookup(t) \/ SaveIndex(t) \/ SaveMap(t)
      PROVE  Order'
  <2>1. UNCHANGED <<request, history>>
    BY <1>7, InnerTypes
  <2> QED BY <1>1, <2>1 DEF request, history
<1>8. CASE UNCHANGED vars
  BY <1>1, <1>8 DEF vars, request, history
<1>9. Writers \subseteq Threads /\ Readers \subseteq Threads /\ Probers \subseteq Threads
  BY DEF Threads
<1>10. ASSUME Next PROVE Order'
  BY <1>2, <1>3, <1>4, <1>5, <1>6, <1>7, <1>9, <1>10, StepCases
<1> QED BY <1>8, <1>10

\* The one writer: where it is not between two updates, the dictionaries agree.
LEMMA PairedKept ==
    ASSUME Types, Gate, Paired, Served, [Next]_vars
    PROVE  Paired'
<1> DEFINE Loop == {"mapProduct", "popId", "clearProducts"}
<1>1. ASSUME UNCHANGED <<idToProduct, productToId>>, NEW t \in Threads,
             pc[t] \notin Loop, pc'[t] \notin Loop,
             \A u \in Threads : u # t =>
                pc'[u] = pc[u] /\ list'[u] = list[u] /\ at'[u] = at[u]
      PROVE  Paired'
  <2>1. \A u \in Threads, p \in ProductIds : Between(u, p)' <=> Between(u, p)
    BY <1>1 DEF Between
  <2> QED BY <1>1, <2>1 DEF Paired, Threads
<1>2. ASSUME NEW t \in Threads, op[t] \in {"upsert", "delete", "clear"}, pc[t] \notin Loop
      PROVE  \A p \in ProductIds : p \in idToProduct <=> p \in productToId
  <2>1. \A u \in Writers : u = t
    BY <1>2 DEF Served, Types, InStep
  <2> QED BY <1>2, <2>1 DEF Paired, Between
<1>3. ASSUME NEW t \in Threads, op[t] \in {"upsert", "delete", "clear"},
             pc'[t] \notin Loop,
             \A p \in ProductIds : p \in idToProduct' <=> p \in productToId'
      PROVE  Paired'
  <2>1. \A u \in Writers : u = t
    BY <1>3 DEF Served, Types, InStep
  <2> QED BY <1>3, <2>1 DEF Paired
<1>4. ASSUME NEW t \in Threads,
             GetIndex(t) \/ CreateIndex(t) \/ Find(t) \/ Remove(t) \/ Add(t) \/ MapId(t)
               \/ MapProduct(t) \/ PopProduct(t) \/ PopId(t) \/ ClearIndex(t) \/ ClearMaps(t)
               \/ SearchIndex(t) \/ Lookup(t) \/ SaveIndex(t) \/ SaveMap(t)
      PROVE  Paired'
  <2>0. /\ UNCHANGED <<request, history>>
        /\ \A u \in Threads : u # t => pc'[u] = pc[u] /\ at'[u] = at[u]
        /\ pc \in [Threads -> Steps] /\ InStep(t) /\ at \in [Threads -> Nat]
        /\ Len(list[t]) \in Nat
    BY <1>4, InnerTypes, LenProperties DEF Types
  <2>1. CASE GetIndex(t) \/ CreateIndex(t) \/ Find(t) \/ Remove(t) \/ Add(t) \/ ClearIndex(t)
               \/ SearchIndex(t) \/ Lookup(t) \/ SaveIndex(t) \/ SaveMap(t)
    <3>1. UNCHANGED <<idToProduct, productToId>> /\ pc[t] \notin Loop /\ pc'[t] \notin Loop
      BY <2>0, <2>1 DEF GetIndex, CreateIndex, Find, Remove, Add, ClearIndex, SearchIndex,
           Lookup, SaveIndex, SaveMap, Goto, maps
    <3> HIDE DEF Loop
    <3> QED BY <1>1, <2>0, <3>1 DEF request
  <2>2. CASE MapId(t)
    <3>1. /\ pc[t] = "mapId" /\ pc'[t] = "mapProduct" /\ UNCHANGED <<productToId, at>>
          /\ idToProduct' = idToProduct \cup {list[t][at[t]]} /\ UNCHANGED list
      BY <2>0, <2>2 DEF MapId, Goto, local, request
    <3>2. op[t] \in {"upsert", "delete", "clear"}
      BY <2>0, <3>1 DEF InStep
    <3>3. \A u \in Writers : u = t
      BY <3>2 DEF Served, Types, InStep
    <3> QED BY <1>2, <3>1, <3>2, <3>3 DEF Paired, Between, Types, InStep
  <2>3. CASE MapProduct(t)
    <3>1. /\ pc[t] = "mapProduct" /\ pc'[t] \in {"mapId", "end"} /\ UNCHANGED idToProduct
          /\ productToId' = productToId \cup {list[t][at[t]]}
      BY <2>0, <2>3 DEF MapProduct, Advance, Goto
    <3>2. op[t] \in {"upsert", "delete", "clear"} /\ t \in Writers
      BY <2>0, <3>1 DEF InStep
    <3>3. \A u \in Writers : u = t
      BY <3>2 DEF Served
    <3> QED BY <1>3, <3>1, <3>2, <3>3 DEF Paired, Between
  <2>4. CASE PopProduct(t)
    <3>1. pc[t] = "popProduct" /\ op[t] = "delete" /\ t \in Writers
      BY <2>0, <2>4 DEF PopProduct, InStep
    <3>2. \A u \in Writers : u = t
      BY <3>1 DEF Served
    <3>3. \A p \in ProductIds : p \in idToProduct <=> p \in productToId
      BY <1>2, <3>1
    <3>4. CASE list[t][at[t]] \in productToId
      <4>1. /\ pc'[t] = "popId" /\ UNCHANGED <<idToProduct, at, list>>
            /\ productToId' = productToId \ {list[t][at[t]]}
        BY <2>0, <2>4, <3>4 DEF PopProduct, Goto, request
      <4> QED BY <3>1, <3>2, <3>3, <4>1 DEF Paired, Between
    <3>5. CASE list[t][at[t]] \notin productToId
      <4>1. /\ pc'[t] \in {"popProduct", "end"} /\ UNCHANGED idToProduct
            /\ productToId' = productToId
        BY <2>0, <2>4, <3>5 DEF PopProduct, Advance, Goto
      <4> QED BY <1>3, <3>1, <3>3, <4>1
    <3> QED BY <3>4, <3>5
  <2>5. CASE PopId(t)
    <3>1. /\ pc[t] = "popId" /\ pc'[t] \in {"popProduct", "end"} /\ UNCHANGED productToId
          /\ idToProduct' = idToProduct \ {list[t][at[t]]}
      BY <2>0, <2>5 DEF PopId, Advance, Goto
    <3>2. op[t] \in {"upsert", "delete", "clear"} /\ t \in Writers
      BY <2>0, <3>1 DEF InStep
    <3>3. \A u \in Writers : u = t
      BY <3>2 DEF Served
    <3> QED BY <1>3, <3>1, <3>2, <3>3 DEF Paired, Between
  <2>6. CASE ClearMaps(t)
    <3>1. op[t] = "clear" /\ t \in Writers /\ pc[t] \in {"clearIds", "clearProducts"}
      BY <2>0, <2>6 DEF ClearMaps, InStep
    <3>2. \A u \in Writers : u = t
      BY <3>1 DEF Served
    <3>3. CASE pc[t] = "clearIds"
      <4>1. pc'[t] = "clearProducts" /\ idToProduct' = {}
        BY <2>0, <2>6, <3>3 DEF ClearMaps, Goto
      <4>2. \A p \in ProductIds : Between(t, p)'
        BY <4>1 DEF Between
      <4> QED BY <3>1, <3>2, <4>1, <4>2 DEF Paired
    <3>4. CASE pc[t] = "clearProducts"
      <4>1. pc'[t] = "end" /\ UNCHANGED idToProduct /\ productToId' = {} /\ idToProduct = {}
        BY <2>0, <2>6, <3>1, <3>4 DEF ClearMaps, Goto, Paired
      <4> QED BY <1>3, <3>1, <4>1
    <3> QED BY <3>1, <3>3, <3>4
  <2> QED BY <1>4, <2>1, <2>2, <2>3, <2>4, <2>5, <2>6
<1>5. ASSUME NEW t \in Threads, NEW kind, NEW products, Start(t, kind, products)
      PROVE  Paired'
  <2>1. /\ UNCHANGED <<idToProduct, productToId, at>> /\ pc[t] \notin Loop /\ pc'[t] \notin Loop
        /\ \A u \in Threads : u # t => pc'[u] = pc[u] /\ list'[u] = list[u]
    BY <1>5 DEF Start, Goto, maps, local, Types
  <2> HIDE DEF Loop
  <2> QED BY <1>1, <2>1
<1>6. ASSUME NEW t \in Threads, Return(t) \/ Fail(t)
      PROVE  Paired'
  <2>1. /\ UNCHANGED <<idToProduct, productToId>> /\ pc[t] \notin Loop /\ pc'[t] \notin Loop
        /\ \A u \in Threads : u # t => pc'[u] = pc[u] /\ list'[u] = list[u] /\ at'[u] = at[u]
    BY <1>6 DEF Return, Fail, Finish, Goto, maps, Types
  <2> HIDE DEF Loop
  <2> QED BY <1>1, <2>1
<1>7. CASE Crash
  BY <1>7 DEF Crash, Rest, Paired, Threads
<1>8. CASE Load
  <2>1. idToProduct' = productToId' /\ \A u \in Writers : pc'[u] = "idle"
    BY <1>8 DEF Load, Rest, Gate, Threads
  <2> QED BY <2>1 DEF Paired
<1>9. CASE UNCHANGED vars
  BY <1>9 DEF vars, maps, request, local, Paired, Between
<1>10. Writers \subseteq Threads /\ Readers \subseteq Threads /\ Probers \subseteq Threads
  BY DEF Threads
<1>11. ASSUME Next PROVE Paired'
  BY <1>4, <1>5, <1>6, <1>7, <1>8, <1>10, <1>11, StepCases
<1> QED BY <1>9, <1>11

Consistent == Reach /\ (\A t \in Writers : Done(t)) /\ (\A t \in Threads : Seen(t))

\* A search that takes the index now sees nothing stale.
LEMMA CurrentFresh ==
    ASSUME Types, Order, Reach, NEW t \in Threads, current # 0
    PROVE  Fresh(t, index[current])
<1>1. index[current] \subseteq Vector
  BY DEF Types
<1>2. ASSUME NEW v \in index[current]
      PROVE  v[1] \in ProductIds /\ v \in Vectors(v[1]) /\ v[2] >= floor[t][v[1]]
  <2>1. v[1] \in ProductIds /\ v[2] \in Calls
    BY <1>1 DEF Vector
  <2>2. v \in Vectors(v[1])
    BY <1>2 DEF Vectors
  <2>3. v[2] >= latest[v[1]] /\ latest[v[1]] >= floor[t][v[1]]
    BY <2>1, <2>2 DEF Reach, Order, Types
  <2>4. latest[v[1]] \in Nat /\ floor[t][v[1]] \in Nat /\ v[2] \in Nat
    BY <2>1 DEF Types, Calls
  <2> QED BY <2>1, <2>2, <2>3, <2>4
<1>3. ASSUME NEW v \in index[current], NEW other \in index[current], v[1] = other[1]
      PROVE  v[2] = other[2]
  BY <1>2, <1>3 DEF Reach
<1> QED BY <1>2, <1>3 DEF Fresh, OneCall

LEMMA SubsetFresh ==
    ASSUME NEW t, NEW vectors, Fresh(t, vectors), NEW part \in SUBSET vectors
    PROVE  Fresh(t, part)
BY DEF Fresh, OneCall

LEMMA SoleWriter ==
    ASSUME Types, Served, NEW t \in Threads, op[t] \in {"upsert", "delete", "clear"}
    PROVE  t \in Writers /\ \A u \in Writers : u = t
BY DEF Types, InStep, Served

\* Steps that leave index, dictionaries and writers alone.
LEMMA ReadsKeep ==
    ASSUME Inv, sound, Served, NEW t \in Threads, Types', Order',
           GetIndex(t) \/ SearchIndex(t) \/ Lookup(t) \/ SaveIndex(t) \/ SaveMap(t)
    PROVE  Consistent'
<1> USE DEF Consistent
<1>0. Types /\ Order /\ Consistent
  BY DEF Inv
<1>1. /\ UNCHANGED <<ready, request, history, store, maps>>
      /\ pc \in [Threads -> Steps] /\ pc'[t] \in Steps \ {"idle"}
      /\ \A u \in Threads : u # t =>
            /\ pc'[u] = pc[u] /\ handle'[u] = handle[u] /\ existing'[u] = existing[u]
            /\ at'[u] = at[u] /\ hits'[u] = hits[u]
  BY <1>0, InnerTypes DEF GetIndex, SearchIndex, Lookup, SaveIndex, SaveMap, store, Types
<1>2. /\ UNCHANGED <<index, current, idToProduct, productToId, latest, floor, op, list, call>>
      /\ \A p \in ProductIds : Vectors(p)' = Vectors(p)
  BY <1>1 DEF store, maps, request, history, Vectors
<1>3. /\ InStep(t)
      /\ pc[t] \in {"getIndex", "search", "lookup", "saveIndex", "saveMap"}
      /\ pc'[t] \in {"create", "search", "lookup", "saveMap", "saveIndex", "existing", "end"}
      /\ pc'[t] = "end" => op[t] \in {"count", "search", "save"}
      /\ UNCHANGED <<at, existing>>
  BY <1>0, <1>1 DEF GetIndex, SearchIndex, Lookup, SaveIndex, SaveMap, Goto, Types, InStep,
     local
<1>4. Reach'
  <2>1. \A u \in Threads, p \in ProductIds : Unmapped(u, p)' <=> Unmapped(u, p)
    BY <1>1, <1>2, <1>3 DEF Unmapped
  <2> QED BY <1>0, <1>2, <2>1 DEF Reach, Threads
<1>5. ASSUME NEW u \in Writers
      PROVE  Done(u)'
  <2>1. list[u] \in Seq(ProductIds) /\ u \in Threads
    BY <1>0 DEF Types, Threads
  <2>2. \A i \in DOMAIN list[u] : list[u][i] \in ProductIds
    BY <2>1, ElementOfSeq
  <2>3. CASE u = t
    BY <1>2, <1>3, <2>3 DEF Done
  <2>4. CASE u # t
    BY <1>0, <1>1, <1>2, <1>3, <2>1, <2>2, <2>4 DEF Done, Named, Added
  <2> QED BY <2>3, <2>4
<1>6. ASSUME NEW u \in Threads
      PROVE  Seen(u)'
  <2>1. CASE u # t
    <3>1. \A vectors : Fresh(u, vectors)' <=> Fresh(u, vectors)
      BY <1>2 DEF Fresh
    <3> QED BY <1>0, <1>1, <1>2, <2>1, <3>1 DEF Seen, Fresh
  <2>2. CASE u = t
    <3>1. Seen(t)
      BY <1>0
    <3>2. CASE GetIndex(t)
      <4>1. hits' = hits /\ (pc'[t] = "search" => handle'[t] = current /\ current # 0)
        BY <1>0, <1>1, <3>2 DEF GetIndex, Goto, Types
      <4>2. pc'[t] = "search" => Fresh(t, index[current])
        BY <1>0, <4>1, CurrentFresh
      <4> QED BY <1>2, <2>2, <3>1, <4>1, <4>2 DEF Seen, Fresh
    <3>3. CASE SearchIndex(t)
      <4>1. pc[t] = "search" /\ pc'[t] = "lookup" /\ hits'[t] \in SUBSET index[handle[t]]
        BY <1>0, <1>1, <3>3 DEF SearchIndex, Goto, Types
      <4>2. Fresh(t, hits'[t])
        BY <3>1, <4>1, SubsetFresh DEF Seen
      <4> QED BY <1>2, <2>2, <4>1, <4>2 DEF Seen, Fresh
    <3>4. CASE Lookup(t)
      <4>1. pc'[t] = "end" /\ hits'[t] \in SUBSET hits[t]
        BY <1>0, <1>1, <3>4 DEF Lookup, Goto, Types
      <4>2. Fresh(t, hits'[t])
        BY <3>1, <4>1, SubsetFresh DEF Seen
      <4> QED BY <1>2, <2>2, <4>1, <4>2 DEF Seen, Fresh
    <3>5. CASE SaveIndex(t) \/ SaveMap(t)
      <4>1. hits' = hits /\ pc'[t] # "search"
        BY <1>0, <1>1, <3>5 DEF SaveIndex, SaveMap, local, Goto, Types
      <4> QED BY <1>2, <2>2, <3>1, <4>1 DEF Seen, Fresh
    <3> QED BY <3>2, <3>3, <3>4, <3>5
  <2> QED BY <2>1, <2>2
<1> QED BY <1>4, <1>5, <1>6

\* What one writer's step asks of the rest: nobody's index gets anything stale.
LEMMA SeenKept ==
    ASSUME Types, Order, Consistent, NEW t \in Threads, pc[t] # "search", pc'[t] # "search",
           UNCHANGED <<floor, hits, handle>>,
           \A u \in Threads : u # t => pc'[u] = pc[u],
           \A u \in Threads : u # t /\ pc[u] = "search" =>
              index'[handle[u]] \subseteq index[handle[u]] \/ Fresh(u, index'[handle[u]])
    PROVE  \A u \in Threads : Seen(u)'
<1> SUFFICES ASSUME NEW u \in Threads PROVE Seen(u)'
  OBVIOUS
<1>1. \A vectors : Fresh(u, vectors)' <=> Fresh(u, vectors)
  BY DEF Fresh
<1>2. Seen(u)
  BY DEF Consistent
<1>3. Fresh(u, hits[u])
  BY <1>2 DEF Seen
<1>4. ASSUME pc'[u] = "search"
      PROVE  Fresh(u, index'[handle[u]])
  <2>1. u # t /\ Fresh(u, index[handle[u]])
    BY <1>2, <1>4 DEF Seen
  <2> QED BY <1>4, <2>1, SubsetFresh
<1> QED BY <1>3, <1>4 DEF Seen, Fresh

\* The writer's steps.  Each has the same frame.
LEMMA WriterFrame ==
    ASSUME Inv, sound, Served, NEW t \in Threads, Types',
           Find(t) \/ Remove(t) \/ Add(t) \/ MapId(t) \/ MapProduct(t) \/ PopProduct(t)
             \/ PopId(t) \/ ClearIndex(t) \/ ClearMaps(t)
    PROVE  /\ Types /\ Gate /\ Order /\ Paired /\ Consistent /\ InStep(t) /\ InStep(t)'
           /\ UNCHANGED <<op, list, call, latest, floor, hits, handle>>
           /\ pc' = [pc EXCEPT ![t] = pc'[t]]
           /\ pc[t] # "search" /\ pc'[t] # "search"
           /\ \A u \in Threads : u # t => pc'[u] = pc[u]
           /\ op[t] \in {"upsert", "delete", "clear"}
           /\ \A u \in Writers : u = t
           /\ list[t] \in Seq(ProductIds) /\ Named(list[t]) \subseteq ProductIds
           /\ \A i \in DOMAIN list[t] :
                 i \in Nat /\ list[t][i] \in ProductIds /\ list[t][i] \in Named(list[t])
           /\ current # 0 /\ Done(t)
<1>0. Types /\ Gate /\ Order /\ Paired /\ Consistent
  BY DEF Inv, Consistent
<1>1. /\ UNCHANGED <<request, history>>
      /\ pc' = [pc EXCEPT ![t] = pc'[t]]
      /\ \A u \in Threads : u # t => pc'[u] = pc[u]
  BY <1>0, InnerTypes
<1>2. InStep(t) /\ InStep(t)' /\ pc \in [Threads -> Steps]
  BY <1>0 DEF Types
<1>3. UNCHANGED <<hits, handle>> /\ pc[t] # "search" /\ pc'[t] # "search"
      /\ op[t] \in {"upsert", "delete", "clear"}
  BY <1>2 DEF Find, Remove, Add, MapId, MapProduct, PopProduct, PopId, ClearIndex, ClearMaps,
     Advance, Goto, local, InStep
<1>4. t \in Writers /\ \A u \in Writers : u = t
  BY <1>0, <1>3, SoleWriter
<1>5. list[t] \in Seq(ProductIds) /\ Named(list[t]) \subseteq ProductIds
  BY <1>0, SubjectOf DEF Types
<1>6. \A i \in DOMAIN list[t] :
         i \in Nat /\ list[t][i] \in ProductIds /\ list[t][i] \in Named(list[t])
  BY <1>5, ElementOfSeq DEF Named
<1>7. current # 0
  BY <1>0, <1>3, Quiet
<1> QED BY <1>0, <1>1, <1>2, <1>3, <1>4, <1>5, <1>6, <1>7 DEF request, history, Consistent

LEMMA FindKeeps ==
    ASSUME Inv, sound, Served, NEW t \in Threads, Types', Find(t)
    PROVE  Consistent'
<1>1. /\ UNCHANGED <<index, current, idToProduct, productToId, at>>
      /\ \A p \in ProductIds : Vectors(p)' = Vectors(p)
  BY DEF Find, store, maps, Vectors
<1>2. /\ pc[t] = "existing" /\ op[t] \in {"upsert", "delete"}
      /\ existing'[t] = Named(list[t]) \cap productToId
      /\ \/ pc'[t] = "remove"
         \/ existing'[t] = {} /\ op[t] = "upsert" /\ pc'[t] = "add"
         \/ existing'[t] = {} /\ op[t] = "delete" /\ pc'[t] = "end"
  <2>1. /\ pc[t] = "existing" /\ op[t] \in {"upsert", "delete"}
        /\ existing \in [Threads -> SUBSET ProductIds] /\ pc \in [Threads -> Steps]
    BY WriterFrame DEF Find, InStep, Types
  <2>2. existing'[t] = Named(list[t]) \cap productToId
    BY <2>1 DEF Find
  <2>3. pc'[t] = IF existing'[t] # {} THEN "remove"
                 ELSE IF op[t] = "upsert" THEN "add" ELSE "end"
    BY <2>1 DEF Find, Goto
  <2> QED BY <2>1, <2>2, <2>3
<1>3. \A u \in Writers, p \in ProductIds : ~Unmapped(u, p) /\ ~Unmapped(u, p)'
  BY <1>2, WriterFrame DEF Unmapped
<1>4. Reach'
  BY <1>1, <1>3, WriterFrame DEF Reach, Consistent
<1>5. existing'[t] = {} => \A p \in Named(list[t]) : Vectors(p) = {}
  BY <1>2, <1>3, WriterFrame DEF Reach, Consistent
<1>6. Done(t)'
  <2>1. \A p \in Named(list[t]) : Vectors(p)' = Vectors(p)
    BY <1>1, WriterFrame
  <2>2. UNCHANGED <<op, list>> /\ Named(list[t])' = Named(list[t])
    BY WriterFrame DEF Named
  <2> QED BY <1>1, <1>2, <1>5, <2>1, <2>2 DEF Done
<1>7. \A u \in Threads : Seen(u)'
  BY <1>1, WriterFrame, SeenKept
<1> QED BY <1>4, <1>6, <1>7, WriterFrame DEF Consistent

LEMMA SearchHas ==
    ASSUME Types, NEW t \in Threads, pc[t] = "search"
    PROVE  handle[t] \in Handles
BY DEF Types, InStep

LEMMA RemoveKeeps ==
    ASSUME Inv, sound, Served, NEW t \in Threads, Types', Remove(t)
    PROVE  Consistent'
<1>1. /\ pc[t] = "remove" /\ op[t] \in {"upsert", "delete"} /\ handle[t] = current
      /\ current \in Handles /\ index \in [Handles -> SUBSET Vector]
      /\ pc \in [Threads -> Steps]
  BY WriterFrame DEF Remove, InStep, Types, Gate
<1>2. /\ UNCHANGED <<current, idToProduct, productToId, at, existing>>
      /\ existing[t] = Named(list[t]) \cap productToId
      /\ index'[current] = {v \in index[current] : v[1] \notin existing[t]}
      /\ \A h \in Handles : index'[h] \subseteq index[h]
      /\ pc'[t] = IF op[t] = "upsert" THEN "add" ELSE "popProduct"
  BY <1>1, WriterFrame DEF Remove, maps, local, Goto, Done
<1>3. \A p \in ProductIds :
         Vectors(p)' = IF p \in existing[t] THEN {} ELSE Vectors(p)
  <2>1. \A p \in ProductIds : Vectors(p)' = {v \in index'[current] : v[1] = p}
    BY <1>1, <1>2, WriterFrame DEF Vectors
  <2>2. \A p \in ProductIds : Vectors(p) = {v \in index[current] : v[1] = p}
    BY WriterFrame DEF Vectors
  <2> QED BY <1>2, <2>1, <2>2
<1>4. \A u \in Writers, p \in ProductIds : ~Unmapped(u, p) /\ ~Unmapped(u, p)'
  BY <1>1, <1>2, WriterFrame DEF Unmapped
<1>5. Reach'
  BY <1>2, <1>3, <1>4, WriterFrame DEF Reach, Consistent
<1>6. \A p \in Named(list[t]) : Vectors(p)' = {}
  BY <1>2, <1>3, <1>4, WriterFrame DEF Reach, Consistent
<1>7. Done(t)'
  <2>1. UNCHANGED <<op, list>> /\ Named(list[t])' = Named(list[t])
    BY WriterFrame DEF Named
  <2> QED BY <1>1, <1>2, <1>6, <2>1 DEF Done
<1>8. \A u \in Threads : Seen(u)'
  <2>1. \A u \in Threads : pc[u] = "search" => handle[u] \in Handles
    BY WriterFrame, SearchHas
  <2> QED BY <1>2, <2>1, WriterFrame, SeenKept
<1> QED BY <1>5, <1>7, <1>8, WriterFrame DEF Consistent

LEMMA AddKeeps ==
    ASSUME Inv, sound, Served, NEW t \in Threads, Types', Add(t)
    PROVE  Consistent'
<1>1. /\ pc[t] = "add" /\ op[t] = "upsert" /\ handle[t] = current /\ at[t] = 1
      /\ current \in Handles /\ index \in [Handles -> SUBSET Vector]
      /\ pc \in [Threads -> Steps] /\ call[t] \in Calls
      /\ \A p \in Named(list[t]) : Vectors(p) = {}
      /\ \A p \in ProductIds : latest[p] <= call[t]
  BY WriterFrame DEF Add, InStep, Types, Gate, Done, Order
<1>2. /\ UNCHANGED <<current, idToProduct, productToId, at, existing>>
      /\ index'[current] = index[current] \cup Added(t)
      /\ \A h \in Handles : h # current => index'[h] = index[h]
      /\ pc'[t] = "mapId"
  BY <1>1, WriterFrame DEF Add, maps, local, Goto
<1>3. \A p \in ProductIds :
         Vectors(p)' = Vectors(p) \cup {v \in Added(t) : v[1] = p}
  BY <1>1, <1>2, WriterFrame DEF Vectors
<1>4. \A p \in ProductIds \ Named(list[t]) : Vectors(p)' = Vectors(p)
  BY <1>3 DEF Added, Named
<1>5. \A p \in Named(list[t]) : Vectors(p)' = {v \in Added(t) : v[1] = p}
  BY <1>1, <1>3, WriterFrame
<1>6. \A u \in Writers, p \in ProductIds :
         ~Unmapped(u, p) /\ (p \in Named(list[t]) => Unmapped(t, p)')
  BY <1>1, <1>2, WriterFrame DEF Unmapped, Named
<1>7. Reach'
  <2> SUFFICES ASSUME NEW p \in ProductIds
               PROVE  /\ \A v, other \in Vectors(p)' : v[2] = other[2]
                      /\ \A v \in Vectors(p)' : v[2] >= latest[p]
                      /\ p \notin productToId /\ (\A u \in Writers : ~Unmapped(u, p)') =>
                            Vectors(p)' = {}
    BY <1>2, WriterFrame DEF Reach
  <2>1. CASE p \in Named(list[t])
    <3>1. \A v \in Vectors(p)' : v[2] = call[t]
      BY <1>5, <2>1 DEF Added
    <3>2. t \in Writers
      BY <1>1, WriterFrame DEF InStep
    <3>3. call[t] >= latest[p] /\ latest[p] \in Nat /\ call[t] \in Nat
      <4>0. latest \in [ProductIds -> 0..MaxCalls]
        BY DEF Inv, Types
      <4>1. latest[p] \in Nat /\ call[t] \in Calls
        BY <1>1, <4>0
      <4>2. call[t] \in Nat
        BY <4>1 DEF Calls
      <4>3. call[t] >= latest[p]
        BY <1>1, WriterFrame
      <4> QED BY <4>1, <4>2, <4>3
    <3> QED BY <1>6, <2>1, <3>1, <3>2, <3>3
  <2>2. CASE p \notin Named(list[t])
    BY <1>4, <1>6, <2>2, WriterFrame DEF Reach, Consistent
  <2> QED BY <2>1, <2>2
<1>8. Done(t)'
  <2>1. UNCHANGED <<op, list, call>> /\ at'[t] = 1 /\ op[t] = "upsert"
    BY <1>1, <1>2, WriterFrame
  <2>2. \A i \in DOMAIN list[t] : i \in Nat /\ i >= 1
    BY WriterFrame, LenProperties
  <2>3. \A i \in DOMAIN list[t] : Vectors(list[t][i])' = {v \in Added(t) : v[1] = list[t][i]}
    BY <1>5, WriterFrame
  <2>4. Added(t)' = Added(t)
    BY <2>1 DEF Added
  <2> QED BY <1>2, <2>1, <2>2, <2>3, <2>4 DEF Done
<1>9. \A u \in Threads : Seen(u)'
  <2>1. ASSUME NEW u \in Threads, u # t, pc[u] = "search"
        PROVE  \/ index'[handle[u]] \subseteq index[handle[u]]
               \/ Fresh(u, index'[handle[u]])
    <3>1. handle[u] \in Handles
      BY <2>1, WriterFrame, SearchHas
    <3>2. CASE handle[u] # current
      BY <1>2, <3>1, <3>2
    <3>3. CASE handle[u] = current
      <4>1. ASSUME NEW v \in index'[current]
            PROVE  /\ v[1] \in ProductIds /\ v \in Vectors(v[1])'
                   /\ v[2] >= floor[u][v[1]]
        <5>1. v \in Vector
          BY <1>1, <1>2 DEF Types
        <5>2. v[1] \in ProductIds /\ v[2] \in Nat
          BY <5>1 DEF Vector, Calls
        <5>3. v \in Vectors(v[1])'
          BY <1>1, <1>2, WriterFrame DEF Vectors
        <5>4. v[2] >= latest[v[1]]
          BY <1>7, <5>2, <5>3, WriterFrame DEF Reach
        <5>5. floor[u][v[1]] <= latest[v[1]] /\ floor[u][v[1]] \in Nat /\ latest[v[1]] \in Nat
          <6>1. Types /\ Order
            BY WriterFrame
          <6>2. floor[u][v[1]] <= latest[v[1]]
            BY <5>2, <6>1 DEF Order
          <6>3. floor[u] \in [ProductIds -> 0..MaxCalls]
            BY <6>1 DEF Types
          <6> QED BY <5>2, <6>1, <6>2, <6>3 DEF Types
        <5> QED BY <5>2, <5>3, <5>4, <5>5
      <4>2. OneCall(index'[current])
        BY <1>7, <4>1 DEF Reach, OneCall
      <4> QED BY <3>3, <4>1, <4>2 DEF Fresh
    <3> QED BY <3>2, <3>3
  <2> QED BY <2>1, WriterFrame, SeenKept
<1> QED BY <1>7, <1>8, <1>9, WriterFrame DEF Consistent

\* The loops touch the dictionaries only.
LEMMA LoopsKeep ==
    ASSUME Inv, sound, Served, NEW t \in Threads, Types', UNCHANGED store,
           MapId(t) \/ MapProduct(t) \/ PopProduct(t) \/ PopId(t) \/ ClearMaps(t),
           Reach', Done(t)'
    PROVE  Consistent'
<1>1. UNCHANGED index
  BY DEF store
<1>2. \A u \in Threads : Seen(u)'
  BY <1>1, WriterFrame, SeenKept
<1> QED BY <1>2, WriterFrame DEF Consistent

LEMMA MapsKeep ==
    ASSUME Inv, sound, Served, NEW t \in Threads, Types', MapId(t) \/ MapProduct(t)
    PROVE  Consistent'
<1>1. /\ op[t] = "upsert" /\ list[t] # <<>> /\ at[t] \in 1..Len(list[t])
      /\ at \in [Threads -> Nat] /\ pc \in [Threads -> Steps] /\ Len(list[t]) \in Nat
      /\ DOMAIN list[t] = 1..Len(list[t]) /\ pc[t] \in {"mapId", "mapProduct"}
  <2>1. pc[t] \in {"mapId", "mapProduct"} /\ InStep(t) /\ list[t] \in Seq(ProductIds)
    BY WriterFrame DEF MapId, MapProduct
  <2>2. list[t] # <<>> /\ at[t] \in 1..Len(list[t]) \cup {1}
    BY <2>1, WriterFrame DEF InStep
  <2>3. Len(list[t]) \in Nat \ {0} /\ DOMAIN list[t] = 1..Len(list[t])
    BY <2>1, <2>2, EmptySeq, LenProperties
  <2>4. op[t] = "upsert"
    BY <2>1 DEF InStep
  <2>5. at \in [Threads -> Nat] /\ pc \in [Threads -> Steps]
    BY WriterFrame DEF Types
  <2> QED BY <2>1, <2>2, <2>3, <2>4, <2>5
<1>2. /\ UNCHANGED <<index, current, op, list, call, latest, store>>
      /\ \A p \in ProductIds : Vectors(p)' = Vectors(p)
      /\ Added(t)' = Added(t)
  <2>1. UNCHANGED store
    BY DEF MapId, MapProduct
  <2> QED BY <2>1, WriterFrame DEF store, Vectors, Added
<1>3. \A i \in DOMAIN list[t] :
         /\ list[t][i] \in ProductIds /\ i \in Nat
         /\ Vectors(list[t][i]) = {v \in Added(t) : v[1] = list[t][i]}
         /\ i < at[t] => list[t][i] \in idToProduct \cap productToId
  BY <1>1, WriterFrame DEF Done
<1>4. \A i \in DOMAIN list[t] :
         Vectors(list[t][i])' = {v \in Added(t) : v[1] = list[t][i]}
  BY <1>2, <1>3
<1>5. t \in Writers /\ (\A u \in Writers : u = t)
  BY <1>1, WriterFrame DEF InStep
<1>6. CASE MapId(t)
  <2>1. /\ pc[t] = "mapId" /\ pc'[t] = "mapProduct" /\ UNCHANGED <<productToId, at>>
        /\ idToProduct \subseteq idToProduct'
    BY <1>1, <1>6 DEF MapId, Goto, local
  <2>2. \A p : Unmapped(t, p)' <=> Unmapped(t, p)
    BY <1>2, <2>1 DEF Unmapped
  <2>3. Reach'
    BY <1>2, <1>5, <2>1, <2>2, WriterFrame DEF Reach, Consistent
  <2>4. Done(t)'
    BY <1>1, <1>2, <1>3, <1>4, <2>1 DEF Done
  <2> QED BY <1>2, <1>6, <2>3, <2>4, LoopsKeep
<1>7. CASE MapProduct(t)
  <2>1. /\ pc[t] = "mapProduct" /\ UNCHANGED idToProduct
        /\ productToId' = productToId \cup {list[t][at[t]]}
        /\ list[t][at[t]] \in idToProduct
        /\ Advance(t, "mapId")
    BY <1>5, <1>7, WriterFrame DEF MapProduct, Paired
  <2>2. \/ at[t] < Len(list[t]) /\ at'[t] = at[t] + 1 /\ pc'[t] = "mapId"
        \/ at[t] = Len(list[t]) /\ at'[t] = at[t] /\ pc'[t] = "end"
    BY <1>1, <2>1, AdvanceMoves
  <2>3. \A p \in ProductIds : p \notin productToId' /\ ~Unmapped(t, p)' => ~Unmapped(t, p)
    <3> SUFFICES ASSUME NEW p \in ProductIds, Unmapped(t, p), p \notin productToId'
                 PROVE  Unmapped(t, p)'
      OBVIOUS
    <3>1. PICK i \in DOMAIN list[t] : i >= at[t] /\ list[t][i] = p
      BY DEF Unmapped
    <3>2. i # at[t] /\ i \in 1..Len(list[t])
      BY <1>1, <2>1, <3>1
    <3>3. at'[t] = at[t] + 1 /\ pc'[t] = "mapId" /\ i >= at'[t]
      BY <1>1, <2>2, <3>1, <3>2
    <3> QED BY <1>2, <3>1, <3>3 DEF Unmapped
  <2>4. Reach'
    BY <1>2, <1>5, <2>1, <2>3, WriterFrame DEF Reach, Consistent
  <2>5. \A i \in DOMAIN list[t] :
           pc'[t] = "end" \/ i < at'[t] => list[t][i] \in idToProduct' \cap productToId'
    <3> SUFFICES ASSUME NEW i \in DOMAIN list[t], pc'[t] = "end" \/ i < at'[t]
                 PROVE  list[t][i] \in idToProduct' \cap productToId'
      OBVIOUS
    <3>1. i = at[t] \/ i < at[t]
      BY <1>1, <2>2
    <3> QED BY <1>3, <2>1, <3>1
  <2>6. Done(t)'
    BY <1>1, <1>2, <1>4, <2>2, <2>5 DEF Done
  <2> QED BY <1>2, <1>7, <2>4, <2>6, LoopsKeep
<1> QED BY <1>6, <1>7

LEMMA PopsKeep ==
    ASSUME Inv, sound, Served, NEW t \in Threads, Types', PopProduct(t) \/ PopId(t)
    PROVE  Consistent'
<1>1. /\ op[t] = "delete" /\ list[t] # <<>> /\ at[t] \in 1..Len(list[t])
      /\ at \in [Threads -> Nat] /\ pc \in [Threads -> Steps] /\ Len(list[t]) \in Nat
      /\ DOMAIN list[t] = 1..Len(list[t]) /\ pc[t] \in {"popProduct", "popId"}
  <2>1. pc[t] \in {"popProduct", "popId"} /\ InStep(t) /\ list[t] \in Seq(ProductIds)
    BY WriterFrame DEF PopProduct, PopId
  <2>2. list[t] # <<>> /\ at[t] \in 1..Len(list[t]) \cup {1}
    BY <2>1, WriterFrame DEF InStep
  <2>3. Len(list[t]) \in Nat \ {0} /\ DOMAIN list[t] = 1..Len(list[t])
    BY <2>1, <2>2, EmptySeq, LenProperties
  <2>4. op[t] = "delete"
    BY <2>1 DEF InStep
  <2>5. at \in [Threads -> Nat] /\ pc \in [Threads -> Steps]
    BY WriterFrame DEF Types
  <2> QED BY <2>1, <2>2, <2>3, <2>4, <2>5
<1>2. /\ UNCHANGED <<index, current, op, list, call, latest, store>>
      /\ \A p \in ProductIds : Vectors(p)' = Vectors(p)
      /\ Named(list[t])' = Named(list[t])
  <2>1. UNCHANGED store
    BY DEF PopProduct, PopId
  <2> QED BY <2>1, WriterFrame DEF store, Vectors, Named
<1>3. t \in Writers /\ (\A u \in Writers : u = t)
  BY <1>1, WriterFrame DEF InStep
<1>4. \A p \in Named(list[t]) : p \in ProductIds /\ Vectors(p) = {}
  BY <1>1, WriterFrame DEF Done
<1>5. /\ pc'[t] \in {"popId", "popProduct", "end"}
      /\ \A p \in productToId : p \in productToId' \/ p = list[t][at[t]]
  BY <1>1 DEF PopProduct, PopId, Advance, Goto
<1>6. list[t][at[t]] \in Named(list[t])
  BY <1>1, WriterFrame
<1>7. \A p : ~Unmapped(t, p) /\ ~Unmapped(t, p)'
  BY <1>1, <1>5 DEF Unmapped
<1>8. Reach'
  BY <1>2, <1>3, <1>4, <1>5, <1>6, <1>7, WriterFrame DEF Reach, Consistent
<1>9. Done(t)'
  BY <1>1, <1>2, <1>4, <1>5 DEF Done
<1> QED BY <1>2, <1>8, <1>9, LoopsKeep

LEMMA ClearsKeep ==
    ASSUME Inv, sound, Served, NEW t \in Threads, Types', ClearIndex(t) \/ ClearMaps(t)
    PROVE  Consistent'
<1>1. op[t] = "clear" /\ pc \in [Threads -> Steps] /\ UNCHANGED op
      /\ pc[t] \in {"replace", "clearIds", "clearProducts"}
  BY WriterFrame DEF ClearIndex, ClearMaps, InStep, Types
<1>2. t \in Writers /\ (\A u \in Writers : u = t)
  BY <1>1, WriterFrame DEF InStep
<1>3. pc'[t] \in {"clearIds", "clearProducts", "end"}
  BY <1>1 DEF ClearIndex, ClearMaps, Goto
<1>4. \A p : ~Unmapped(t, p) /\ ~Unmapped(t, p)'
  BY <1>1, <1>3 DEF Unmapped
<1>5. CASE ClearIndex(t)
  <2>1. pc[t] = "replace" /\ handle[t] = 0 /\ {} \in SUBSET Vector
    BY <1>5, WriterFrame DEF ClearIndex, InStep
  <2>2. /\ current' \in Handles /\ current' # 0 /\ (\A u \in Threads : handle[u] # current')
        /\ index'[current'] = {} /\ \A h \in Handles : h # current' => index'[h] = index[h]
    BY <1>5, <2>1, WriterFrame, ReplaceTypes DEF ClearIndex, Replace
  <2>3. \A p \in ProductIds : Vectors(p)' = {}
    BY <2>2 DEF Vectors
  <2>4. Reach'
    BY <2>3 DEF Reach
  <2>5. Done(t)'
    BY <1>1, <1>3, <2>3 DEF Done
  <2>6. \A u \in Threads : pc[u] = "search" => index'[handle[u]] = index[handle[u]]
    BY <2>2, WriterFrame, SearchHas
  <2>7. \A u \in Threads : Seen(u)'
    BY <2>6, WriterFrame, SeenKept
  <2> QED BY <1>2, <2>4, <2>5, <2>7 DEF Consistent
<1>6. CASE ClearMaps(t)
  <2>1. UNCHANGED store /\ pc[t] \in {"clearIds", "clearProducts"}
    BY <1>6 DEF ClearMaps
  <2>2. \A p \in ProductIds : Vectors(p)' = {}
    BY <1>1, <2>1, WriterFrame DEF Done, store, Vectors
  <2>3. Reach'
    BY <2>2 DEF Reach
  <2>4. Done(t)'
    BY <1>1, <1>3, <2>2 DEF Done
  <2> QED BY <1>6, <2>1, <2>3, <2>4, LoopsKeep
<1> QED BY <1>5, <1>6

\* The probe makes the first index.
LEMMA CreateKeeps ==
    ASSUME Inv, sound, Served, NEW t \in Threads, Types', CreateIndex(t)
    PROVE  Consistent'
<1>1. Types /\ Gate /\ Consistent
  BY DEF Inv, Consistent
<1>2. pc[t] = "create" /\ handle[t] = 0 /\ {} \in SUBSET Vector /\ ~ready
  BY <1>1, Quiet DEF CreateIndex, Types, InStep
<1>3. /\ current' \in Handles /\ current' # 0
      /\ index'[current'] = {}
  BY <1>1, <1>2, ReplaceTypes DEF CreateIndex, Replace
<1>4. UNCHANGED <<op, hits, floor>>
  BY DEF CreateIndex, request, local, history
<1>5. \A u \in Threads : op'[u] \in {"none", "count"}
  BY <1>1, <1>2, <1>4 DEF Gate
<1>6. \A p \in ProductIds : Vectors(p)' = {}
  BY <1>3 DEF Vectors
<1>7. Reach'
  BY <1>6 DEF Reach
<1>8. ASSUME NEW u \in Threads
      PROVE  Done(u)' /\ Seen(u)'
  <2>1. InStep(u)' /\ op'[u] \in {"none", "count"}
    BY <1>5 DEF Types
  <2>2. Done(u)'
    BY <2>1 DEF Done, InStep
  <2>3. Fresh(u, hits[u])
    BY <1>1 DEF Consistent, Seen
  <2>4. Seen(u)'
    BY <1>4, <2>1, <2>3 DEF Seen, InStep, Fresh
  <2> QED BY <2>2, <2>4
<1> QED BY <1>7, <1>8 DEF Consistent, Threads

LEMMA StartKeeps ==
    ASSUME Inv, sound, Served, NEW t \in Threads, NEW kind, NEW products,
           Start(t, kind, products)
    PROVE  Consistent'
<1>1. Types /\ Consistent
  BY DEF Inv, Consistent
<1>2. /\ UNCHANGED <<index, current, idToProduct, productToId, handle, existing, at, hits, latest>>
      /\ \A p \in ProductIds : Vectors(p)' = Vectors(p)
  BY DEF Start, store, maps, local, Vectors
<1>3. /\ pc[t] = "idle" /\ pc'[t] \in {"getIndex", "replace"} /\ hits[t] = {}
      /\ \A u \in Threads : u # t =>
            /\ pc'[u] = pc[u] /\ op'[u] = op[u] /\ list'[u] = list[u] /\ call'[u] = call[u]
            /\ floor'[u] = floor[u]
  BY <1>1 DEF Start, Goto, Types, InStep
<1>4. \A u \in Threads, p \in ProductIds : Unmapped(u, p)' <=> Unmapped(u, p)
  BY <1>2, <1>3 DEF Unmapped
<1>5. Reach'
  BY <1>1, <1>2, <1>4 DEF Reach, Consistent, Threads
<1>6. ASSUME NEW u \in Writers
      PROVE  Done(u)'
  <2>1. CASE u = t
    BY <1>3, <2>1 DEF Done
  <2>2. CASE u # t
    <3>1. list[u] \in Seq(ProductIds) /\ u \in Threads /\ UNCHANGED <<list[u], pc[u], op[u], call[u]>>
      BY <1>1, <1>3, <2>2 DEF Types, Threads
    <3>2. \A i \in DOMAIN list[u] : list[u][i] \in ProductIds
      BY <3>1, ElementOfSeq
    <3>3. Done(u)
      BY <1>1 DEF Consistent
    <3> QED BY <1>2, <3>1, <3>2, <3>3 DEF Done, Named, Added
  <2> QED BY <2>1, <2>2
<1>7. ASSUME NEW u \in Threads
      PROVE  Seen(u)'
  <2>1. CASE u = t
    BY <1>2, <1>3, <2>1 DEF Seen, Fresh, OneCall
  <2>2. CASE u # t
    BY <1>1, <1>2, <1>3, <2>2 DEF Seen, Fresh, Consistent
  <2> QED BY <2>1, <2>2
<1> QED BY <1>5, <1>6, <1>7 DEF Consistent

\* What a call that returns leaves is what its products' latest call wanted.
LEMMA ReturnSettles ==
    ASSUME Inv, sound, Served, NEW t \in Threads, pc[t] = "end"
    PROVE  \A p \in Subject(op[t], list[t]) : \A v \in Vectors(p) : v[2] = call[t]
<1> SUFFICES ASSUME NEW p \in Subject(op[t], list[t]), NEW v \in Vectors(p)
             PROVE  v[2] = call[t]
  OBVIOUS
<1>1. Types /\ Consistent
  BY DEF Inv, Consistent
<1>2. op[t] \in {"upsert", "delete", "clear"} /\ t \in Writers
  BY <1>1, SubjectOf DEF Types, InStep
<1>3. Done(t)
  BY <1>1, <1>2 DEF Consistent
<1>4. CASE op[t] = "upsert"
  BY <1>1, <1>3, <1>4, SubjectOf DEF Done, Named, Added
<1>5. CASE op[t] \in {"delete", "clear"}
  BY <1>1, <1>3, <1>5, SubjectOf DEF Done
<1> QED BY <1>2, <1>4, <1>5

LEMMA FinishKeeps ==
    ASSUME Inv, sound, Served, NEW t \in Threads, Types', Return(t) \/ Fail(t)
    PROVE  Consistent'
<1>1. Types /\ Consistent /\ Order
  BY DEF Inv, Consistent
<1>2. /\ UNCHANGED <<index, current, idToProduct, productToId>>
      /\ pc'[t] = "idle" /\ op'[t] = "none" /\ hits'[t] = {}
      /\ \A u \in Threads : u # t =>
            /\ pc'[u] = pc[u] /\ op'[u] = op[u] /\ list'[u] = list[u] /\ call'[u] = call[u]
            /\ floor'[u] = floor[u] /\ handle'[u] = handle[u] /\ existing'[u] = existing[u]
            /\ at'[u] = at[u] /\ hits'[u] = hits[u]
      /\ pc[t] \notin {"mapId", "mapProduct"}
  BY <1>1 DEF Return, Fail, Finish, Goto, maps, Types
<1>3. \A p \in ProductIds : Vectors(p)' = Vectors(p)
  BY <1>2 DEF Vectors
<1>4. \A u \in Threads, p \in ProductIds : Unmapped(u, p)' <=> Unmapped(u, p)
  BY <1>2 DEF Unmapped
<1>5. \A p \in ProductIds : \A v \in Vectors(p) : v[2] >= latest'[p]
  <2>1. CASE Return(t)
    <3>1. \A p \in ProductIds : latest'[p] =
             IF p \in Subject(op[t], list[t]) THEN call[t] ELSE latest[p]
      BY <2>1 DEF Return
    <3>2. pc[t] = "end" /\ call[t] \in Nat
      BY <1>1, <2>1 DEF Return, Types
    <3>3. \A p \in Subject(op[t], list[t]) : \A v \in Vectors(p) : v[2] = call[t]
      BY <3>2, ReturnSettles
    <3> QED BY <1>1, <3>1, <3>2, <3>3 DEF Consistent, Reach
  <2>2. CASE Fail(t)
    BY <1>1, <2>2 DEF Fail, Consistent, Reach
  <2> QED BY <2>1, <2>2
<1>6. Reach'
  BY <1>1, <1>2, <1>3, <1>4, <1>5 DEF Reach, Consistent, Threads
<1>7. ASSUME NEW u \in Writers
      PROVE  Done(u)'
  <2>1. CASE u = t
    BY <1>2, <2>1 DEF Done
  <2>2. CASE u # t
    <3>1. list[u] \in Seq(ProductIds) /\ u \in Threads
          /\ UNCHANGED <<list[u], pc[u], op[u], call[u], existing[u], at[u]>>
      BY <1>1, <1>2, <2>2 DEF Types, Threads
    <3>2. \A i \in DOMAIN list[u] : list[u][i] \in ProductIds
      BY <3>1, ElementOfSeq
    <3>3. Done(u)
      BY <1>1 DEF Consistent
    <3> QED BY <1>2, <1>3, <3>1, <3>2, <3>3 DEF Done, Named, Added
  <2> QED BY <2>1, <2>2
<1>8. ASSUME NEW u \in Threads
      PROVE  Seen(u)'
  <2>1. CASE u = t
    BY <1>2, <2>1 DEF Seen, Fresh, OneCall
  <2>2. CASE u # t
    BY <1>1, <1>2, <2>2 DEF Seen, Fresh, Consistent
  <2> QED BY <2>1, <2>2
<1> QED BY <1>6, <1>7, <1>8 DEF Consistent

LEMMA CrashMakes ==
    ASSUME Crash
    PROVE  Consistent'
<1>1. \A p \in ProductIds : Vectors(p)' = {}
  BY DEF Crash, Vectors
<1>2. Reach'
  BY <1>1 DEF Reach
<1>3. \A u \in Threads : Done(u)' /\ Seen(u)'
  BY DEF Crash, Rest, Done, Seen, Fresh, OneCall
<1> QED BY <1>2, <1>3 DEF Consistent, Threads

\* Files that agree make a store that does.
LEMMA LoadMakes ==
    ASSUME Types, Gate, Load, sound', Types'
    PROVE  Consistent'
<1>1. PICK t \in Threads : TRUE
  BY StoreAssumption DEF StoreAssumption
<1>2. /\ handle[t] = 0 /\ image \in SUBSET Vector
      /\ \A u \in Threads : pc[u] = "idle" /\ op[u] = "none" /\ hits[u] = {}
  BY <1>1 DEF Load, Rest, Types, InStep
<1>3. /\ current' \in Handles /\ current' # 0 /\ index'[current'] = image
  BY <1>1, <1>2, ReplaceTypes DEF Load
<1>4. /\ {v[1] : v \in image} = productToId'
      /\ \A v, other \in image : v[1] = other[1] => v[2] = other[2]
      /\ latest' = NoCalls /\ UNCHANGED <<pc, op, hits>>
  BY DEF Load, Agree, Gate, request, local
<1>5. \A p \in ProductIds : Vectors(p)' = {v \in image : v[1] = p}
  BY <1>3 DEF Vectors
<1>6. Reach'
  <2>1. \A v \in image : v[1] \in productToId' /\ v[2] \in Nat
    BY <1>2, <1>4 DEF Vector, Calls
  <2> QED BY <1>4, <1>5, <2>1 DEF Reach, NoCalls
<1>7. \A u \in Threads : Done(u)' /\ Seen(u)'
  BY <1>2, <1>4 DEF Done, Seen, Fresh, OneCall
<1> QED BY <1>6, <1>7 DEF Consistent, Threads

LEMMA ContentKept ==
    ASSUME Inv, Served, [Next]_vars, Types', Order', sound'
    PROVE  Consistent'
<1>0. Types /\ Gate
  BY DEF Inv
<1>1. CASE Crash
  BY <1>1, CrashMakes
<1>2. CASE Load
  BY <1>0, <1>2, LoadMakes
<1>3. CASE UNCHANGED vars
  <2>1. sound /\ Consistent
    BY <1>3 DEF vars, history, Inv, Consistent
  <2>2. \A u \in Threads, p \in ProductIds : Unmapped(u, p)' <=> Unmapped(u, p)
    BY <1>3 DEF vars, Unmapped, local, request
  <2>3. \A p \in ProductIds : Vectors(p)' = Vectors(p)
    BY <1>3 DEF vars, Vectors, store
  <2>4. Reach'
    BY <1>3, <2>1, <2>2, <2>3 DEF vars, maps, history, Reach, Consistent, Threads
  <2>5. \A u \in Threads : Seen(u)'
    BY <1>3, <2>1 DEF vars, local, history, store, Seen, Fresh, Consistent
  <2>6. ASSUME NEW u \in Writers
        PROVE  Done(u)'
    <3>1. Done(u)
      BY <2>1 DEF Consistent
    <3> QED BY <1>3, <3>1 DEF vars, local, request, store, maps, Done, Named, Added, Vectors
  <2> QED BY <2>4, <2>5, <2>6 DEF Consistent
<1>4. ASSUME NEW t \in Threads,
             GetIndex(t) \/ CreateIndex(t) \/ Find(t) \/ Remove(t) \/ Add(t) \/ MapId(t)
               \/ MapProduct(t) \/ PopProduct(t) \/ PopId(t) \/ ClearIndex(t) \/ ClearMaps(t)
               \/ SearchIndex(t) \/ Lookup(t) \/ SaveIndex(t) \/ SaveMap(t)
      PROVE  Consistent'
  <2>1. sound
    BY <1>0, <1>4, InnerTypes DEF history
  <2> QED BY <1>4, <2>1, ReadsKeep, FindKeeps, RemoveKeeps, AddKeeps, MapsKeep, PopsKeep,
             ClearsKeep, CreateKeeps
<1>5. ASSUME NEW t \in Threads, NEW kind, NEW products, Start(t, kind, products)
      PROVE  Consistent'
  <2>1. sound
    BY <1>5 DEF Start
  <2> QED BY <1>5, <2>1, StartKeeps
<1>6. ASSUME NEW t \in Threads, Return(t) \/ Fail(t)
      PROVE  Consistent'
  <2>1. sound
    BY <1>6 DEF Return, Fail, Finish
  <2> QED BY <1>6, <2>1, FinishKeeps
<1>7. Writers \subseteq Threads /\ Readers \subseteq Threads /\ Probers \subseteq Threads
  BY DEF Threads
<1>8. ASSUME Next PROVE Consistent'
  BY <1>1, <1>2, <1>4, <1>5, <1>6, <1>7, <1>8, StepCases
<1> QED BY <1>3, <1>8

LEMMA InvKept ==
    ASSUME Inv, Served, [Next]_vars
    PROVE  Inv'
<1>1. Types /\ Gate /\ Order /\ Paired
  BY DEF Inv
<1>2. Types' /\ Order'
  BY <1>1, TypesKept, OrderKept
<1>3. Gate' /\ Paired'
  BY <1>1, <1>2, GateKept, PairedKept
<1>4. sound' => Consistent'
  BY <1>2, ContentKept
<1> QED BY <1>2, <1>3, <1>4 DEF Inv, Consistent

LEMMA SpecInv == ASSUME Served PROVE Spec => []Inv
<1>1. Init => Inv
  BY InitInv
<1>2. Inv /\ [Next]_vars => Inv'
  BY InvKept
<1> QED BY <1>1, <1>2, PTL DEF Spec

-----------------------------------------------------------------------------
\* With one writer behind the gate, when upsert, delete or clear returns its products
\* have what it was called for, a list that repeats a product included.
THEOREM CallsKeepContract == ASSUME Served PROVE Spec => []CallContract
<1>1. Inv => CallContract
  <2> SUFFICES ASSUME Inv, NEW t \in Writers, sound, pc[t] = "end",
                      NEW p \in Subject(op[t], list[t])
               PROVE  IF op[t] = "upsert"
                      THEN /\ Vectors(p) = {v \in Added(t) : v[1] = p}
                           /\ p \in idToProduct \cap productToId
                      ELSE Vectors(p) = {}
    BY DEF CallContract
  <2>1. t \in Threads /\ Types /\ Done(t)
    BY DEF Threads, Inv
  <2>2. op[t] \in {"upsert", "delete", "clear"}
    BY <2>1, SubjectOf DEF Types, InStep
  <2>3. CASE op[t] = "upsert"
    <3>1. PICK i \in DOMAIN list[t] : p = list[t][i]
      BY <2>1, <2>3, SubjectOf DEF Named
    <3>2. Vectors(p) = {v \in Added(t) : v[1] = p} /\ p \in idToProduct \cap productToId
      BY <2>1, <2>3, <3>1 DEF Done
    <3> QED BY <2>3, <3>2
  <2>4. CASE op[t] \in {"delete", "clear"}
    BY <2>1, <2>4, SubjectOf DEF Done
  <2> QED BY <2>2, <2>3, <2>4
<1> QED BY <1>1, SpecInv, PTL

\* Beside one writer, any number of searches: none returns two calls' vectors of a
\* product, or a vector older than the calls that had returned when it started.
THEOREM SearchesFresh == ASSUME Served PROVE Spec => []FreshHits
<1>1. Inv => FreshHits
  BY DEF Inv, Seen, Fresh, OneCall, FreshHits, Threads
<1> QED BY <1>1, SpecInv, PTL

\* Where the writer is not at work the dictionaries agree and cover the index.
THEOREM DictionariesAgree == ASSUME Served PROVE Spec => []MapsAgree
<1>1. Inv => MapsAgree
  <2> SUFFICES ASSUME Inv, NEW p \in ProductIds, sound,
                      \A t \in Writers : pc[t] = "idle" \/ p \notin Subject(op[t], list[t])
               PROVE  /\ p \in idToProduct <=> p \in productToId
                      /\ p \notin productToId => Vectors(p) = {}
    BY DEF MapsAgree
  <2>1. Types /\ Paired /\ Reach
    BY DEF Inv
  <2>2. ASSUME NEW t \in Writers
        PROVE  ~Between(t, p) /\ ~Unmapped(t, p)
    <3>1. t \in Threads /\ InStep(t) /\ list[t] \in Seq(ProductIds)
      BY <2>1 DEF Types, Threads
    <3>2. CASE pc[t] = "clearProducts"
      BY <2>1, <3>1, <3>2, SubjectOf DEF InStep
    <3>3. CASE pc[t] \in {"mapId", "mapProduct", "popId"}
      <4>1. p \notin Named(list[t]) /\ list[t] # <<>>
        BY <2>1, <3>1, <3>3, SubjectOf DEF InStep
      <4>2. at[t] \in DOMAIN list[t]
        BY <3>1, <4>1, EmptySeq, LenProperties DEF InStep
      <4> QED BY <3>3, <4>1, <4>2 DEF Between, Unmapped, Named
    <3>4. CASE pc[t] \notin {"clearProducts", "mapId", "mapProduct", "popId"}
      BY <3>4 DEF Between, Unmapped
    <3> QED BY <3>2, <3>3, <3>4
  <2> QED BY <2>1, <2>2 DEF Paired, Reach
<1> QED BY <1>1, SpecInv, PTL

-----------------------------------------------------------------------------
\* What the interface sees of the store.
Shown(p) == IF sound THEN Content(p) ELSE 0
Doings == [t \in Writers |-> Doing(t)]
Wants(t) == IF op[t] = "upsert" THEN call[t] ELSE 0

\* A product of the list has a vector to come, and all are of the call.
LEMMA AddedFacts ==
    ASSUME NEW t, NEW p \in Named(list[t])
    PROVE  /\ {v \in Added(t) : v[1] = p} # {}
           /\ \A v \in Added(t) : v[2] = call[t]
<1>1. PICK i \in DOMAIN list[t] : p = list[t][i]
  BY DEF Named
<1>2. <<p, call[t], i>> \in Added(t) /\ <<p, call[t], i>>[1] = p
  BY <1>1 DEF Added
<1>3. {v \in Added(t) : v[1] = p} # {}
  BY <1>2
<1>4. \A v \in Added(t) : v[2] = call[t]
  BY DEF Added
<1> QED BY <1>3, <1>4

LEMMA ContentOf ==
    ASSUME NEW p
    PROVE  /\ p \notin idToProduct \/ Vectors(p) = {} => Content(p) = 0
           /\ \A n : p \in idToProduct /\ Vectors(p) # {} /\ (\A v \in Vectors(p) : v[2] = n)
                     => Content(p) = n
<1>1. p \notin idToProduct \/ Vectors(p) = {} => Content(p) = 0
  BY DEF Content
<1>2. ASSUME NEW n, p \in idToProduct, Vectors(p) # {}, \A v \in Vectors(p) : v[2] = n
      PROVE  Content(p) = n
  <2>1. (CHOOSE x \in Vectors(p) : TRUE) \in Vectors(p)
    BY <1>2
  <2> QED BY <1>2, <2>1 DEF Content
<1> QED BY <1>1, <1>2

LEMMA ContentNext ==
    ASSUME NEW p, NEW n, p \in idToProduct', Vectors(p)' # {}, \A v \in Vectors(p)' : v[2] = n
    PROVE  Content(p)' = n
<1>1. (CHOOSE x \in Vectors(p)' : TRUE) \in Vectors(p)'
  OBVIOUS
<1> QED BY <1>1 DEF Content

LEMMA ContentStays ==
    ASSUME NEW p, Vectors(p)' = Vectors(p), p \in idToProduct' <=> p \in idToProduct
    PROVE  Content(p)' = Content(p)
BY DEF Content

LEMMA ContentType ==
    ASSUME Types, NEW p \in ProductIds
    PROVE  Shown(p) \in Calls \cup {0}
<1>1. ASSUME Vectors(p) # {}
      PROVE  (CHOOSE v \in Vectors(p) : TRUE)[2] \in Calls
  <2>1. (CHOOSE v \in Vectors(p) : TRUE) \in Vector
    BY <1>1 DEF Vectors, Types
  <2> QED BY <2>1 DEF Vector
<1> QED BY <1>1 DEF Shown, Content

LEMMA ShownIs ==
    /\ [p \in ProductIds |-> IF sound THEN Content(p) ELSE 0] = [p \in ProductIds |-> Shown(p)]
    /\ [p \in ProductIds |-> IF sound THEN Content(p) ELSE 0]' =
          [p \in ProductIds |-> Shown(p)']
BY DEF Shown

\* Steps the interface does not see.
LEMMA Unseen ==
    ASSUME \A p \in ProductIds : Shown(p)' = Shown(p),
           \A u \in Writers : Doing(u)' = Doing(u)
    PROVE  UNCHANGED Interface!vars
<1>1. UNCHANGED [p \in ProductIds |-> IF sound THEN Content(p) ELSE 0]
  BY ShownIs
<1>2. UNCHANGED [t \in Writers |-> Doing(t)]
  OBVIOUS
<1> QED BY <1>1, <1>2 DEF Interface!vars

LEMMA SettleStep ==
    ASSUME sound, sound', NEW t \in Writers, \A u \in Writers : u = t,
           op[t] \in {"upsert", "delete", "clear"}, UNCHANGED <<op, call>>,
           pc[t] # "end", NEW products, products \subseteq Left(t),
           NEW settled, settled \subseteq products,
           \A p \in ProductIds : Content(p)' = IF p \in products THEN Wants(t) ELSE Content(p),
           Left(t)' = Left(t) \ settled, pc'[t] = "end" => settled = Left(t)
    PROVE  Interface!Settle(t)
<1>1. PICK ok \in BOOLEAN : ok = (pc'[t] = "end")
  OBVIOUS
<1>2. Doings[t] = [op |-> op[t], wants |-> Wants(t), left |-> Left(t), ok |-> FALSE]
  BY DEF Doings, Doing, Wants
<1>3. Doing(t)' = [op |-> Doings[t].op, wants |-> Doings[t].wants,
                   left |-> Doings[t].left \ settled, ok |-> ok]
  BY <1>1, <1>2 DEF Doing, Wants
<1>4. Doings' = [Doings EXCEPT ![t] = Doing(t)']
  BY DEF Doings
<1>5. Interface!Set(products, Doings[t].wants)
  <2>1. \A p \in ProductIds : Shown(p)' = IF p \in products THEN Doings[t].wants ELSE Shown(p)
    BY <1>2 DEF Shown
  <2> QED BY <2>1, ShownIs DEF Interface!Set
<1>6. Doings[t].op \in Interface!Kinds /\ Doings[t].ok = FALSE
  BY <1>2 DEF Interface!Kinds
<1>7. products \in SUBSET Doings[t].left /\ settled \in SUBSET products
  BY <1>2
<1>8. ok => settled = Doings[t].left \/ (FALSE /\ Doings[t].op = "clear")
  <2>1. CASE pc'[t] = "end"
    BY <2>1, <1>2
  <2>2. CASE pc'[t] # "end"
    BY <2>2, <1>1, Zenon
  <2> QED BY <2>1, <2>2
<1>9. Doings' = [Doings EXCEPT ![t] = [op |-> Doings[t].op, wants |-> Doings[t].wants,
                                       left |-> Doings[t].left \ settled, ok |-> ok]]
  BY <1>3, <1>4
<1>10. \E chosen \in SUBSET Doings[t].left : \E done \in SUBSET chosen, good \in BOOLEAN :
          /\ Interface!Set(chosen, Doings[t].wants)
          /\ good => done = Doings[t].left \/ (FALSE /\ Doings[t].op = "clear")
          /\ Doings' = [Doings EXCEPT ![t] = [op |-> Doings[t].op, wants |-> Doings[t].wants,
                                              left |-> Doings[t].left \ done, ok |-> good]]
  BY <1>5, <1>7, <1>8, <1>9, Zenon
<1> QED BY <1>6, <1>10, Zenon DEF Interface!Settle, Doings

LEMMA InitMaps == Init => Interface!Init
<1> SUFFICES ASSUME Init PROVE Interface!Init
  OBVIOUS
<1>1. \A p \in ProductIds : Shown(p) = 0
  BY DEF Init, Shown, Content
<1>2. \A t \in Writers : Doing(t) = Interface!Idle
  BY DEF Init, Rest, Threads, Doing, Interface!Idle
<1> QED BY <1>1, <1>2, ShownIs DEF Interface!Init

-----------------------------------------------------------------------------
\* A call begins, and a read is nothing to the interface.
LEMMA StartMaps ==
    ASSUME Types, NEW t \in Threads, NEW kind \in Ops \ {"none"}, NEW products \in Seq(ProductIds),
           kind \in {"upsert", "delete", "clear"} => t \in Writers,
           Start(t, kind, products)
    PROVE  Interface!Next \/ UNCHANGED Interface!vars
<1>1. /\ UNCHANGED <<index, current, idToProduct, sound>>
      /\ pc[t] = "idle" /\ op[t] = "none"
      /\ op'[t] = kind /\ list'[t] = products /\ call'[t] \in Calls
      /\ pc'[t] = IF kind = "clear" THEN "replace" ELSE "getIndex"
      /\ \A u \in Threads : u # t =>
            /\ pc'[u] = pc[u] /\ op'[u] = op[u] /\ list'[u] = list[u] /\ call'[u] = call[u]
  BY StoreAssumption DEF Start, store, maps, Goto, Types, InStep, StoreAssumption, Calls
<1>2. \A p \in ProductIds : Shown(p)' = Shown(p)
  BY <1>1 DEF Shown, Content, Vectors
<1>3. ASSUME NEW u \in Writers, u # t
      PROVE  Doing(u)' = Doing(u)
  <2>1. Left(u)' = Left(u)
    BY <1>1, <1>3 DEF Left, Threads, Named
  <2> QED BY <1>1, <1>3, <2>1 DEF Doing, Threads
<1>4. CASE ~sound \/ kind \notin {"upsert", "delete", "clear"}
  <2>1. t \in Writers => Doing(t)' = Doing(t)
    BY <1>1, <1>4 DEF Doing
  <2> QED BY <1>2, <1>3, <2>1, Unseen
<1>5. CASE sound /\ kind \in {"upsert", "delete", "clear"}
  <2> DEFINE wanted == IF kind = "upsert" THEN call'[t] ELSE 0
             named == IF kind = "clear" THEN ProductIds ELSE {products[i] : i \in DOMAIN products}
  <2>1. t \in Writers /\ Doings[t] = Interface!Idle
    BY <1>1, <1>5 DEF Doings, Doing, Interface!Idle
  <2>2. Left(t)' = named
    BY <1>1, <1>5 DEF Left, Named
  <2>3. Doing(t)' = [op |-> kind, wants |-> wanted, left |-> named, ok |-> FALSE]
    BY <1>1, <1>5, <2>2 DEF Doing
  <2>4. Doings' = [Doings EXCEPT ![t] =
           [op |-> kind, wants |-> wanted, left |-> named, ok |-> FALSE]]
    BY <1>3, <2>1, <2>3 DEF Doings
  <2>5. named \in SUBSET ProductIds
    BY ElementOfSeq
  <2>6. /\ wanted \in Calls \cup {0} /\ (kind # "upsert" <=> wanted = 0)
        /\ kind \in Interface!Kinds
    BY <1>1, <1>5 DEF Calls, Interface!Kinds
  <2>7. UNCHANGED [p \in ProductIds |-> IF sound THEN Content(p) ELSE 0]
    BY <1>2, ShownIs
  <2>8. Interface!Begin(t, kind, named, wanted)
    <3> HIDE DEF named, wanted
    <3>1. kind = "clear" => named = ProductIds
      BY DEF named
    <3> QED BY <2>1, <2>4, <2>6, <2>7, <3>1, Zenon DEF Interface!Begin, Doings
  <2>9. Interface!Next
    <3> HIDE DEF named, wanted
    <3> QED BY <2>1, <2>5, <2>6, <2>8, Zenon DEF Interface!Next
  <2> QED BY <2>9
<1> QED BY <1>4, <1>5

\* A call leaves; the probe may, without an index, before anything was stored.
LEMMA FinishMaps ==
    ASSUME Types, Types', Gate, Served, NEW t \in Threads, Return(t) \/ Fail(t)
    PROVE  Interface!Next \/ UNCHANGED Interface!vars
<1>1. /\ UNCHANGED <<index, current, idToProduct>> /\ (sound' => sound)
      /\ op'[t] = "none" /\ pc'[t] = "idle"
      /\ \A u \in Threads : u # t =>
            /\ pc'[u] = pc[u] /\ op'[u] = op[u] /\ list'[u] = list[u] /\ call'[u] = call[u]
  BY DEF Return, Fail, Finish, maps, Goto, Types
<1>c. \A p \in ProductIds : Content(p)' = Content(p)
  BY <1>1, ContentStays DEF Vectors
<1>p. CASE sound' # sound
  <2>1. sound /\ ~sound' /\ Fail(t)
    BY <1>1, <1>p DEF Return, Types
  <2>2. ~ready /\ current = 0
    BY <2>1, Zenon DEF Fail
  <2>3. \A p \in ProductIds : Shown(p) = 0 /\ Shown(p)' = 0
    BY <2>1, <2>2 DEF Shown, Content, Vectors
  <2>4. \A u \in Threads : op[u] \in {"none", "count"}
    BY <2>2 DEF Gate
  <2>5. \A u \in Writers : Doing(u) = Doing(u)'
    BY <2>1, <2>4 DEF Doing, Threads
  <2> QED BY <2>3, <2>5, Unseen
<1> SUFFICES ASSUME sound' = sound PROVE Interface!Next \/ UNCHANGED Interface!vars
  BY <1>p
<1>2. \A p \in ProductIds : Shown(p)' = Shown(p)
  BY <1>c DEF Shown
<1>3. ASSUME NEW u \in Writers, u # t
      PROVE  Doing(u)' = Doing(u)
  <2>1. Left(u)' = Left(u)
    BY <1>1, <1>3 DEF Left, Threads, Named
  <2> QED BY <1>1, <1>3, <2>1 DEF Doing, Threads
<1>4. CASE ~sound \/ op[t] \notin {"upsert", "delete", "clear"}
  <2>1. t \in Writers => Doing(t)' = Doing(t)
    BY <1>1, <1>4 DEF Doing
  <2> QED BY <1>2, <1>3, <2>1, Unseen
<1>5. CASE sound /\ op[t] \in {"upsert", "delete", "clear"}
  <2>1. t \in Writers /\ Doings[t].op \in Interface!Kinds
    BY <1>5 DEF Doings, Doing, Interface!Kinds, Types, InStep
  <2>2. Doing(t)' = Interface!Idle
    BY <1>1 DEF Doing, Interface!Idle
  <2>3. Doings' = [Doings EXCEPT ![t] = Interface!Idle]
    BY <1>3, <2>1, <2>2 DEF Doings
  <2>4. UNCHANGED [p \in ProductIds |-> IF sound THEN Content(p) ELSE 0]
    BY <1>2, ShownIs
  <2>5. Interface!Leave(t)
    BY <2>1, <2>3, <2>4, Zenon DEF Interface!Leave, Doings
  <2> QED BY <2>1, <2>5, Zenon DEF Interface!Next
<1> QED BY <1>4, <1>5

\* The process starts anew, or from files.
LEMMA RestartMaps ==
    ASSUME Types, Types', Crash \/ Load
    PROVE  Interface!Next
<1>1. \A u \in Threads : op'[u] = "none"
  BY DEF Crash, Load, Rest, request, Types, InStep
<1>2. \A u \in Writers : Doing(u)' = Interface!Idle
  BY <1>1 DEF Doing, Interface!Idle, Threads
<1>3. Doings' = [u \in Writers |-> Interface!Idle]
  BY <1>2 DEF Doings
<1>4. \A p \in ProductIds : Shown(p)' \in Calls \cup {0}
  <2>1. CASE Crash
    BY <2>1 DEF Crash, Shown, Content, Vectors
  <2>2. CASE Load
    <3>1. index' \in [Handles -> SUBSET Vector] /\ current' \in Handles \cup {0}
      BY DEF Types
    <3>2. ASSUME NEW p \in ProductIds, Vectors(p)' # {}
          PROVE  (CHOOSE v \in Vectors(p)' : TRUE)[2] \in Calls
      <4>1. (CHOOSE v \in Vectors(p)' : TRUE) \in Vector
        BY <3>1, <3>2 DEF Vectors
      <4> QED BY <4>1 DEF Vector
    <3> QED BY <3>2 DEF Shown, Content
  <2> QED BY <2>1, <2>2
<1>5. [p \in ProductIds |-> IF sound THEN Content(p) ELSE 0]' \in [ProductIds -> Calls \cup {0}]
  BY <1>4, ShownIs
<1>6. Interface!Restart
  BY <1>3, <1>5 DEF Interface!Restart, Doings
<1> QED BY <1>6, Zenon DEF Interface!Next

\* Reads, the probe's index, and what is done with a store the files left unsound.
LEMMA ReadMaps ==
    ASSUME Inv, Served, NEW t \in Threads, Types',
           \/ GetIndex(t) \/ SearchIndex(t) \/ Lookup(t) \/ SaveIndex(t) \/ SaveMap(t)
             \/ CreateIndex(t)
           \/ /\ ~sound
              /\ Find(t) \/ Remove(t) \/ Add(t) \/ MapId(t) \/ MapProduct(t) \/ PopProduct(t)
                   \/ PopId(t) \/ ClearIndex(t) \/ ClearMaps(t)
    PROVE  UNCHANGED Interface!vars
<1>1. Types /\ Gate /\ InStep(t)
  BY DEF Inv, Types
<1>2. /\ UNCHANGED <<op, list, call, sound>>
      /\ \A u \in Threads : u # t => pc'[u] = pc[u]
  BY <1>1, InnerTypes DEF request, history
<1>3. CASE ~sound
  <2>1. \A u \in Writers : Doing(u)' = Doing(u)
    BY <1>2, <1>3 DEF Doing
  <2>2. \A p \in ProductIds : Shown(p)' = Shown(p)
    BY <1>2, <1>3 DEF Shown
  <2> QED BY <2>1, <2>2, Unseen
<1>4. CASE sound
  <2>1. UNCHANGED idToProduct
    BY <1>4 DEF GetIndex, SearchIndex, Lookup, SaveIndex, SaveMap, CreateIndex, maps
  <2>2. \A p \in ProductIds : Vectors(p)' = Vectors(p)
    <3>1. CASE CreateIndex(t)
      <4>1. pc[t] = "create" /\ handle[t] = 0 /\ current = 0 /\ {} \in SUBSET Vector
        BY <1>1, <1>4, <3>1 DEF CreateIndex, Gate, InStep
      <4>2. current' # 0 /\ index'[current'] = {}
        BY <1>1, <3>1, <4>1, ReplaceTypes DEF CreateIndex, Replace
      <4> QED BY <4>1, <4>2 DEF Vectors
    <3>2. CASE ~CreateIndex(t)
      BY <1>4, <3>2 DEF GetIndex, SearchIndex, Lookup, SaveIndex, SaveMap, store, Vectors
    <3> QED BY <3>1, <3>2
  <2>3. \A p \in ProductIds : Shown(p)' = Shown(p)
    <3>1. \A p \in ProductIds : Content(p)' = Content(p)
      BY <2>1, <2>2, ContentStays
    <3> QED BY <1>2, <3>1 DEF Shown
  <2>4. ASSUME NEW u \in Writers
        PROVE  Doing(u)' = Doing(u)
    <3>1. CASE u # t
      <4>1. Left(u)' = Left(u)
        BY <1>2, <2>1, <3>1 DEF Left, Threads, Named
      <4> QED BY <1>2, <3>1, <4>1 DEF Doing, Threads
    <3>2. CASE u = t /\ op[t] \in {"upsert", "delete", "clear"}
      <4>1. /\ pc[t] \in {"getIndex", "create"} /\ pc'[t] \in {"getIndex", "create", "existing"}
        BY <1>1, <1>4, <3>2 DEF GetIndex, SearchIndex, Lookup, SaveIndex, SaveMap, CreateIndex,
           Goto, Types, InStep
      <4>2. Left(t)' = Left(t)
        BY <1>2, <4>1 DEF Left, Named
      <4> QED BY <1>2, <3>2, <4>1, <4>2 DEF Doing
    <3>3. CASE u = t /\ op[t] \notin {"upsert", "delete", "clear"}
      BY <1>2, <3>3 DEF Doing
    <3> QED BY <3>1, <3>2, <3>3
  <2> QED BY <2>3, <2>4, Unseen
<1> QED BY <1>1, <1>3, <1>4 DEF Types

\* The writer's steps settle products, or empty those an upsert replaces.
LEMMA WriteMaps ==
    ASSUME Inv, sound, Served, NEW t \in Threads, Types',
           Find(t) \/ Remove(t) \/ Add(t) \/ MapId(t) \/ MapProduct(t) \/ PopProduct(t)
             \/ PopId(t) \/ ClearIndex(t) \/ ClearMaps(t)
    PROVE  Interface!Next \/ UNCHANGED Interface!vars
<1> USE DEF Goto
<1>0. /\ Types /\ Types' /\ Gate /\ Paired /\ Reach /\ Done(t) /\ t \in Writers
      /\ \A u \in Writers : u = t
      /\ op[t] \in {"upsert", "delete", "clear"}
      /\ UNCHANGED <<op, list, call>> /\ sound'
      /\ pc \in [Threads -> Steps] /\ InStep(t) /\ current # 0
      /\ list[t] \in Seq(ProductIds) /\ Named(list[t]) \subseteq ProductIds
      /\ Named(list[t])' = Named(list[t])
      /\ \A i \in DOMAIN list[t] :
            i \in Nat /\ list[t][i] \in ProductIds /\ list[t][i] \in Named(list[t])
  <2>1. Types /\ Gate /\ Paired /\ Reach /\ Done(t) /\ InStep(t) /\ pc \in [Threads -> Steps]
    BY WriterFrame DEF Inv, Types
  <2>2. t \in Writers /\ UNCHANGED sound
    BY <2>1, WriterFrame, SoleWriter, InnerTypes DEF history
  <2> QED BY <2>1, <2>2, WriterFrame DEF Named
<1>1. ASSUME NEW products, products \subseteq Left(t),
             NEW settled, settled \subseteq products,
             \A p \in ProductIds : Content(p)' = IF p \in products THEN Wants(t) ELSE Content(p),
             Left(t)' = Left(t) \ settled, pc'[t] = "end" => settled = Left(t), pc[t] # "end"
      PROVE  Interface!Next
  <2>1. Interface!Settle(t)
    BY <1>0, <1>1, SettleStep
  <2> QED BY <1>0, <2>1, Zenon DEF Interface!Next
<1>2. ASSUME \A p \in ProductIds : Content(p)' = Content(p), Left(t)' = Left(t),
             pc[t] # "end", pc'[t] # "end"
      PROVE  UNCHANGED Interface!vars
  <2>1. Doing(t)' = Doing(t)
    BY <1>0, <1>2 DEF Doing
  <2> QED BY <1>0, <1>2, <2>1, Unseen DEF Shown
<1>3. CASE Find(t)
  <2>1. /\ pc[t] = "existing" /\ op[t] \in {"upsert", "delete"}
        /\ UNCHANGED <<index, current, idToProduct, productToId>>
    BY <1>0, <1>3 DEF Find, InStep, store, maps
  <2>2. \A p \in ProductIds : Content(p)' = Content(p)
    BY <2>1, ContentStays DEF Vectors
  <2>3. existing'[t] = Named(list[t]) \cap productToId
    BY <1>0, <1>3 DEF Find, Types
  <2>4. pc'[t] = IF existing'[t] # {} THEN "remove"
                 ELSE IF op[t] = "upsert" THEN "add" ELSE "end"
    BY <1>0, <1>3 DEF Find
  <2>5. Left(t) = Named(list[t])
    BY <2>1 DEF Left
  <2>6. CASE pc'[t] # "end"
    <3>1. Left(t)' = Left(t)
      BY <1>0, <2>4, <2>5, <2>6 DEF Left
    <3> QED BY <1>2, <2>1, <2>2, <2>6, <3>1
  <2>7. CASE pc'[t] = "end"
    <3>1. op[t] = "delete" /\ Named(list[t]) \cap productToId = {} /\ Wants(t) = 0
      BY <2>1, <2>3, <2>4, <2>7 DEF Wants
    <3>2. \A p \in Named(list[t]) : Vectors(p) = {}
      BY <1>0, <2>1, <3>1 DEF Reach, Unmapped
    <3>3. \A p \in Named(list[t]) : Content(p) = 0
      BY <3>2, ContentOf
    <3>4. Left(t)' = {}
      BY <2>7 DEF Left
    <3> QED BY <1>1, <2>1, <2>2, <2>5, <3>1, <3>3, <3>4
  <2> QED BY <2>6, <2>7
<1>4. CASE Remove(t)
  <2>1. /\ pc[t] = "remove" /\ op[t] \in {"upsert", "delete"} /\ handle[t] = current
        /\ current \in Handles /\ index \in [Handles -> SUBSET Vector]
        /\ UNCHANGED <<current, idToProduct, productToId>>
        /\ existing[t] = Named(list[t]) \cap productToId
    BY <1>0, <1>4 DEF Remove, InStep, Types, Gate, Done, maps
  <2>2. /\ index'[current] = {v \in index[current] : v[1] \notin existing[t]}
        /\ pc'[t] = IF op[t] = "upsert" THEN "add" ELSE "popProduct"
    BY <1>0, <1>4, <2>1 DEF Remove
  <2>3. \A p \in ProductIds : Vectors(p)' = IF p \in existing[t] THEN {} ELSE Vectors(p)
    <3>1. \A p \in ProductIds : Vectors(p)' = {v \in index'[current] : v[1] = p}
      BY <1>0, <2>1 DEF Vectors
    <3>2. \A p \in ProductIds : Vectors(p) = {v \in index[current] : v[1] = p}
      BY <1>0 DEF Vectors
    <3>3. \A p \in existing[t] : Vectors(p)' = {}
      BY <2>1, <2>2, <3>1, <1>0
    <3>4. ASSUME NEW p \in ProductIds, p \notin existing[t]
          PROVE  Vectors(p)' = Vectors(p)
      <4>1. {v \in index'[current] : v[1] = p} = {v \in index[current] : v[1] = p}
        BY <2>2, <3>4
      <4> QED BY <3>1, <3>2, <4>1
    <3> QED BY <3>3, <3>4
  <2>4. \A p \in ProductIds : Content(p)' = IF p \in existing[t] THEN 0 ELSE Content(p)
    <3>1. \A p \in ProductIds \ existing[t] : Content(p)' = Content(p)
      BY <2>1, <2>3, ContentStays
    <3>2. \A p \in ProductIds : Vectors(p)' = {} => Content(p)' = 0
      BY DEF Content
    <3> QED BY <2>3, <3>1, <3>2
  <2>5. Left(t) = Named(list[t]) /\ existing[t] \subseteq Left(t)
    BY <2>1 DEF Left
  <2>6. CASE op[t] = "upsert"
    <3>1. pc'[t] = "add" /\ Left(t)' = Left(t)
      BY <1>0, <2>2, <2>5, <2>6 DEF Left
    <3>2. Doing(t)' = Doing(t)
      BY <1>0, <2>1, <3>1 DEF Doing
    <3>3. Interface!Set(existing[t], 0)
      <4>1. \A p \in ProductIds : Shown(p)' = IF p \in existing[t] THEN 0 ELSE Shown(p)
        BY <1>0, <2>4 DEF Shown
      <4> QED BY <4>1, ShownIs DEF Interface!Set
    <3>4. Doings[t].op = "upsert" /\ Doings[t].left = Left(t) /\ UNCHANGED Doings
      BY <1>0, <2>6, <3>2 DEF Doings, Doing
    <3>5. existing[t] \in SUBSET Doings[t].left
      BY <2>5, <3>4
    <3>6. Interface!Vacate(t)
      BY <3>3, <3>4, <3>5, Zenon DEF Interface!Vacate, Doings
    <3> QED BY <1>0, <3>6, Zenon DEF Interface!Next
  <2>7. CASE op[t] = "delete"
    <3>1. pc'[t] = "popProduct" /\ Left(t)' = {} /\ Wants(t) = 0
      BY <2>2, <2>7 DEF Left, Wants
    <3>2. \A p \in Named(list[t]) : Vectors(p)' = {}
      BY <1>0, <2>1, <2>3 DEF Reach, Unmapped
    <3>3. \A p \in Named(list[t]) : Content(p)' = 0
      BY <3>2 DEF Content
    <3>4. \A p \in ProductIds : Content(p)' = IF p \in Named(list[t]) THEN 0 ELSE Content(p)
      BY <2>4, <2>5, <3>3
    <3> QED BY <1>1, <2>1, <2>5, <3>1, <3>4
  <2> QED BY <2>1, <2>6, <2>7
<1>5. CASE Add(t)
  <2>1. /\ pc[t] = "add" /\ pc'[t] = "mapId" /\ op[t] = "upsert" /\ current' # 0
        /\ UNCHANGED <<idToProduct, productToId, current>>
    BY <1>0, <1>5 DEF Add, InStep, maps
  <2>2. Consistent'
    BY <1>5, AddKeeps
  <2>3. \A p \in Named(list[t]) : Vectors(p)' = {v \in Added(t) : v[1] = p}
    BY <1>0, <2>1, <2>2 DEF Consistent, Done, Named, Added
  <2>4. Left(t) = Named(list[t]) /\ Left(t)' = Named(list[t]) \ idToProduct /\ Wants(t) = call[t]
    BY <1>0, <2>1 DEF Left, Wants
  <2>5. \A p \in Named(list[t]) : p \in idToProduct => Content(p)' = call[t]
    <3> SUFFICES ASSUME NEW p \in Named(list[t]), p \in idToProduct
                 PROVE  Content(p)' = call[t]
      OBVIOUS
    <3>1. Vectors(p)' # {} /\ \A v \in Vectors(p)' : v[2] = call[t]
      BY <2>3, AddedFacts
    <3> QED BY <2>1, <3>1, ContentNext
  <2>6. \A p \in ProductIds \ Named(list[t]) : Vectors(p)' = Vectors(p)
    <3>1. /\ handle[t] = current /\ current \in Handles /\ index \in [Handles -> SUBSET Vector]
      BY <1>0, <2>1 DEF Gate, Types, InStep
    <3>2. index'[current] = index[current] \cup Added(t)
      BY <1>5, <3>1 DEF Add
    <3> QED BY <1>0, <2>1, <3>2 DEF Vectors, Added
  <2>7. \A p \in ProductIds : p \notin idToProduct => Content(p)' = Content(p)
    BY <2>1 DEF Content
  <2>8. \A p \in ProductIds \ Named(list[t]) : Content(p)' = Content(p)
    BY <2>1, <2>6, ContentStays
  <2>9. \A p \in ProductIds : Content(p)' =
           IF p \in Named(list[t]) \cap idToProduct THEN Wants(t) ELSE Content(p)
    BY <2>4, <2>5, <2>7, <2>8
  <2> QED BY <1>1, <2>1, <2>4, <2>9
<1>6. CASE MapId(t) \/ MapProduct(t)
  <2>1. /\ op[t] = "upsert" /\ list[t] # <<>> /\ at[t] \in 1..Len(list[t])
        /\ Len(list[t]) \in Nat /\ DOMAIN list[t] = 1..Len(list[t])
        /\ at \in [Threads -> Nat]
    <3>1. op[t] = "upsert" /\ list[t] # <<>> /\ at[t] \in 1..Len(list[t]) \cup {1}
      BY <1>0, <1>6 DEF MapId, MapProduct, InStep
    <3>2. Len(list[t]) \in Nat \ {0} /\ DOMAIN list[t] = 1..Len(list[t])
      BY <1>0, <3>1, EmptySeq, LenProperties
    <3>3. at \in [Threads -> Nat]
      BY <1>0 DEF Types
    <3> QED BY <3>1, <3>2, <3>3
  <2>2. \A p \in ProductIds : Vectors(p)' = Vectors(p)
    BY <1>6 DEF MapId, MapProduct, store, Vectors
  <2>3. CASE MapId(t)
    <3> DEFINE q == list[t][at[t]]
    <3>1. /\ pc[t] = "mapId" /\ pc'[t] = "mapProduct"
          /\ idToProduct' = idToProduct \cup {q} /\ q \in Named(list[t])
      BY <1>0, <2>1, <2>3 DEF MapId
    <3>2. Left(t) = Named(list[t]) \ idToProduct /\ Left(t)' = Left(t) \ {q}
      BY <1>0, <3>1 DEF Left
    <3>3. Wants(t) = call[t] /\ Vectors(q) # {} /\ \A v \in Vectors(q) : v[2] = call[t]
      <4>1. Wants(t) = call[t] /\ Vectors(q) = {v \in Added(t) : v[1] = q}
        BY <1>0, <2>1, <3>1 DEF Wants, Done
      <4> QED BY <3>1, <4>1, AddedFacts
    <3>4. Content(q)' = call[t]
      <4>1. q \in ProductIds
        BY <1>0, <2>1
      <4>2. \A p \in ProductIds : p = q =>
               /\ Vectors(p)' # {} /\ (\A v \in Vectors(p)' : v[2] = call[t])
               /\ p \in idToProduct'
        BY <2>2, <3>1, <3>3
      <4>3. ASSUME NEW p \in ProductIds, p = q
            PROVE  Content(p)' = call[t]
        BY <4>2, <4>3, ContentNext
      <4>4. UNCHANGED <<list, at>>
        BY <1>0, <2>3 DEF MapId, local
      <4> QED BY <4>1, <4>3, <4>4
    <3>5. \A p \in ProductIds : Content(p)' =
             IF p \in {q} \cap Left(t) THEN Wants(t) ELSE Content(p)
      <4>1. ASSUME NEW p \in ProductIds, p # q
            PROVE  Content(p)' = Content(p)
        BY <2>2, <3>1, <4>1, ContentStays
      <4>2. q \in idToProduct => Content(q) = call[t]
        BY <3>3, ContentOf
      <4>3. \A p \in ProductIds : p = q => Content(p)' = call[t]
        <5>1. UNCHANGED <<list, at>>
          BY <1>0, <2>3 DEF MapId, local
        <5> QED BY <3>4, <5>1
      <4> QED BY <3>1, <3>2, <3>3, <4>1, <4>2, <4>3
    <3>6. Left(t)' = Left(t) \ ({q} \cap Left(t))
      BY <3>2
    <3> HIDE DEF q
    <3> QED BY <1>1, <3>1, <3>5, <3>6
  <2>4. CASE MapProduct(t)
    <3>1. /\ pc[t] = "mapProduct" /\ UNCHANGED idToProduct /\ Advance(t, "mapId")
      BY <2>4 DEF MapProduct
    <3>2. \/ at[t] < Len(list[t]) /\ pc'[t] = "mapId"
          \/ at[t] = Len(list[t]) /\ pc'[t] = "end"
      BY <1>0, <2>1, <3>1, AdvanceMoves
    <3>3. \A p \in ProductIds : Content(p)' = Content(p)
      BY <2>2, <3>1, ContentStays
    <3>4. Left(t) = Named(list[t]) \ idToProduct
      BY <3>1 DEF Left
    <3>5. CASE pc'[t] = "mapId"
      <4>1. Left(t)' = Left(t)
        BY <1>0, <3>1, <3>4, <3>5 DEF Left
      <4> QED BY <1>2, <3>1, <3>3, <3>5, <4>1
    <3>6. CASE pc'[t] = "end"
      <4>1. \A i \in DOMAIN list[t] : list[t][i] \in idToProduct
        <5>1. at[t] = Len(list[t]) /\ list[t][at[t]] \in idToProduct
          BY <1>0, <3>1, <3>2, <3>6 DEF Paired
        <5>2. \A i \in DOMAIN list[t] : i < at[t] => list[t][i] \in idToProduct
          BY <1>0, <2>1, <3>1 DEF Done
        <5> QED BY <2>1, <5>1, <5>2
      <4>2. Left(t) = {} /\ Left(t)' = {}
        BY <3>4, <3>6, <4>1 DEF Left, Named
      <4> QED BY <1>1, <3>1, <3>3, <4>2
    <3> QED BY <3>2, <3>5, <3>6
  <2> QED BY <1>6, <2>3, <2>4
<1>7. CASE PopProduct(t) \/ PopId(t)
  <2>1. /\ op[t] = "delete" /\ pc[t] \in {"popProduct", "popId"}
        /\ pc'[t] \in {"popProduct", "popId", "end"}
        /\ \A p \in ProductIds : p \in idToProduct' \/ p \notin idToProduct \/ p \in Named(list[t])
        /\ idToProduct' \subseteq idToProduct
        /\ \A p \in ProductIds : Vectors(p)' = Vectors(p)
    <3>1. op[t] = "delete" /\ pc[t] \in {"popProduct", "popId"} /\ list[t] # <<>>
      BY <1>0, <1>7 DEF PopProduct, PopId, InStep
    <3>2. at[t] \in DOMAIN list[t]
      BY <1>0, <3>1, EmptySeq, LenProperties DEF InStep
    <3> QED BY <1>0, <1>7, <3>1, <3>2 DEF PopProduct, PopId, Advance, store, Vectors
  <2>2. \A p \in Named(list[t]) : Vectors(p) = {}
    BY <1>0, <2>1 DEF Done
  <2>3. \A p \in ProductIds : Content(p)' = Content(p)
    <3>1. ASSUME NEW p \in ProductIds, Vectors(p) = {}
          PROVE  Content(p)' = 0 /\ Content(p) = 0
      BY <2>1, <3>1 DEF Content
    <3>2. ASSUME NEW p \in ProductIds, p \notin Named(list[t])
          PROVE  Content(p)' = Content(p)
      BY <2>1, <3>2, ContentStays
    <3> QED BY <1>0, <2>2, <3>1, <3>2
  <2>4. Left(t) = {} /\ Left(t)' = {}
    BY <2>1 DEF Left
  <2> QED BY <1>1, <2>1, <2>3, <2>4
<1>8. CASE ClearIndex(t)
  <2>1. pc[t] = "replace" /\ handle[t] = 0 /\ op[t] = "clear" /\ pc'[t] = "clearIds"
        /\ {} \in SUBSET Vector
    BY <1>0, <1>8 DEF ClearIndex, InStep
  <2>2. current' # 0 /\ index'[current'] = {}
    BY <1>0, <1>8, <2>1, ReplaceTypes DEF ClearIndex, Replace
  <2>3. \A p \in ProductIds : Content(p)' = 0
    BY <2>2 DEF Content, Vectors
  <2>4. Left(t) = ProductIds /\ Left(t)' = {} /\ Wants(t) = 0
    BY <2>1 DEF Left, Wants
  <2> QED BY <1>1, <2>1, <2>3, <2>4
<1>9. CASE ClearMaps(t)
  <2>1. op[t] = "clear" /\ pc[t] \in {"clearIds", "clearProducts"} /\ UNCHANGED store
        /\ pc'[t] \in {"clearProducts", "end"}
    BY <1>0, <1>9 DEF ClearMaps, InStep
  <2>2. \A p \in ProductIds : Vectors(p) = {} /\ Vectors(p)' = {}
    BY <1>0, <2>1 DEF Done, store, Vectors
  <2>3. \A p \in ProductIds : Content(p)' = Content(p)
    BY <2>2 DEF Content
  <2>4. Left(t) = {} /\ Left(t)' = {}
    BY <2>1 DEF Left
  <2> QED BY <1>1, <2>1, <2>3, <2>4
<1> QED BY <1>3, <1>4, <1>5, <1>6, <1>7, <1>8, <1>9

\* Behind the gate, with one writer, FAISS is the vector store of the interface.
THEOREM ImplementsInterface == ASSUME Served PROVE Spec => Implements
<1>1. Inv /\ [Next]_vars => [Interface!Next]_(Interface!vars)
  <2> SUFFICES ASSUME Inv, [Next]_vars PROVE Interface!Next \/ UNCHANGED Interface!vars
    OBVIOUS
  <2>0. Types /\ Types' /\ Gate
    BY TypesKept DEF Inv
  <2>1. CASE UNCHANGED vars
    <3>1. UNCHANGED <<index, current, idToProduct, sound, pc, op, list, call>>
      BY <2>1 DEF vars, store, maps, request, history
    <3>2. \A p \in ProductIds : Content(p)' = Content(p)
      BY <3>1, ContentStays DEF Vectors
    <3>3. \A u \in Writers : Left(u)' = Left(u)
      BY <3>1 DEF Left, Named
    <3>4. \A u \in Writers : Doing(u)' = Doing(u)
      BY <3>1, <3>3 DEF Doing
    <3> QED BY <3>1, <3>2, <3>4, Unseen DEF Shown
  <2>2. ASSUME NEW t \in Writers, NEW products \in Lists, Start(t, "upsert", products)
        PROVE  Interface!Next \/ UNCHANGED Interface!vars
    BY <2>0, <2>2, StartMaps, StoreAssumption DEF Threads, Ops, StoreAssumption
  <2>3. ASSUME NEW t \in Writers, NEW p \in ProductIds, Start(t, "delete", <<p>>)
        PROVE  Interface!Next \/ UNCHANGED Interface!vars
    <3>1. <<p>> \in Seq(ProductIds) /\ t \in Threads
      BY DEF Threads
    <3> QED BY <2>0, <2>3, <3>1, StartMaps DEF Ops
  <2>4. ASSUME NEW t \in Writers, Start(t, "clear", <<>>)
        PROVE  Interface!Next \/ UNCHANGED Interface!vars
    BY <2>0, <2>4, StartMaps, EmptySeq DEF Threads, Ops
  <2>5. ASSUME NEW t \in Threads, NEW kind \in {"search", "save", "count"}, Start(t, kind, <<>>)
        PROVE  Interface!Next \/ UNCHANGED Interface!vars
    BY <2>0, <2>5, StartMaps, EmptySeq DEF Ops
  <2>6. Readers \subseteq Threads /\ Probers \subseteq Threads
    BY DEF Threads
  <2>7. ASSUME Next PROVE Interface!Next \/ UNCHANGED Interface!vars
    BY <2>0, <2>2, <2>3, <2>4, <2>5, <2>6, <2>7, StepCases, ReadMaps, WriteMaps, FinishMaps,
       RestartMaps
  <2> QED BY <2>1, <2>7
<1> QED BY InitMaps, <1>1, SpecInv, PTL DEF Spec, Implements, Interface!Spec
===============================================================================
