----------------------- MODULE IndexingPipelineProofs -----------------------
(***************************************************************************)
(* Theorems about IndexingPipeline, for any set of threads, any finite set *)
(* of products, any catalogs, batch size, list limit, faults and restarts. *)
(* SerialStoresAgree alone is about one thread, as its property is.        *)
(***************************************************************************)
EXTENDS IndexingPipeline, FiniteSetTheorems, TLAPS

(* Type correctness needs to know that a busy worker serves a request.     *)
Busy == \A w \in Workers : pc[w] # "idle" => cur[w] \in Requests
TypeInv == TypeOK /\ Busy

\* A map over the products stays one when some of them are overwritten.
LEMMA PutContents ==
    ASSUME NEW f \in Contents, NEW ps, NEW v \in Versions
    PROVE  Put(f, ps, v) \in Contents
BY DEF Put, Contents

\* A history stays one when a version is added to it.
LEMMA NoteHistory ==
    ASSUME NEW h \in [ProductIds -> SUBSET Requests], NEW ps, NEW v \in Requests
    PROVE  Note(h, ps, v) \in [ProductIds -> SUBSET Requests]
BY DEF Note

\* The empty map is a map over the products.
LEMMA NothingContents == Nothing \in Contents
BY ConstantsAssumption DEF Nothing, Contents, Versions

\* The table has finitely many rows, so counting them gives a number.
LEMMA RowsCount == Cardinality(Rows) \in Nat
BY ConstantsAssumption, FS_Subset, FS_CardinalityType DEF Rows

\* Answering a request keeps every type, whatever the answer.
LEMMA ReplyType ==
    ASSUME TypeInv, NEW w \in Workers, pc[w] # "idle",
           NEW result \in {"ok", "error"}, Reply(w, result)
    PROVE  /\ issued' \in Versions
           /\ request' \in [Requests -> [op : Operations \cup {"none"}, list : Seq(ProductIds)]]
           /\ outcome' \in [Requests -> {"none", "open", "ok", "error", "lost"}]
           /\ pc' \in [Workers -> Steps]
           /\ cur' \in [Workers -> Versions]
           /\ saved' \in [Workers -> Nat]
           /\ done' \in [Workers -> Nat]
           /\ snap' \in [Workers -> Contents]
           /\ counted' \in [Workers -> Nat]
           /\ Busy'
<1>1. 0 \in Versions
  BY ConstantsAssumption DEF Versions
<1>2. "idle" \in Steps
  BY DEF Steps
<1> QED
  BY <1>1, <1>2, NothingContents, ConstantsAssumption
  DEF Reply, Goto, TypeInv, TypeOK, Busy

\* So does raising an error, inside or outside index_catalog.
LEMMA RaiseType ==
    ASSUME TypeInv, NEW w \in Workers, pc[w] # "idle", Raise(w)
    PROVE  /\ issued' \in Versions
           /\ request' \in [Requests -> [op : Operations \cup {"none"}, list : Seq(ProductIds)]]
           /\ outcome' \in [Requests -> {"none", "open", "ok", "error", "lost"}]
           /\ pc' \in [Workers -> Steps]
           /\ cur' \in [Workers -> Versions]
           /\ saved' \in [Workers -> Nat]
           /\ done' \in [Workers -> Nat]
           /\ snap' \in [Workers -> Contents]
           /\ counted' \in [Workers -> Nat]
           /\ Busy'
<1>1. CASE Op(w) = "index"
  BY <1>1 DEF Raise, Goto, TypeInv, TypeOK, Busy, client, locals, Steps
<1>2. CASE Op(w) # "index"
  BY <1>2, ReplyType DEF Raise
<1> QED
  BY <1>1, <1>2

\* What a busy worker reads from its request.
LEMMA BusyFacts ==
    ASSUME TypeInv, NEW w \in Workers, pc[w] # "idle"
    PROVE  /\ cur[w] \in Requests /\ cur[w] \in Versions
           /\ Items(w) \in Seq(ProductIds)
           /\ Total(w) \in Nat
           /\ BatchEnd(w) \in Nat
<1>1. cur[w] \in Requests /\ cur[w] \in Versions
  BY DEF TypeInv, Busy, Requests, Versions
<1>2. Items(w) \in Seq(ProductIds)
  BY <1>1 DEF TypeInv, TypeOK, Items
<1>3. Total(w) \in Nat
  BY <1>2 DEF Total
<1> QED
  BY <1>1, <1>2, <1>3, ConstantsAssumption DEF BatchEnd, TypeInv, TypeOK

\* Saving a job keeps the type of the table.
LEMMA SaveJobType ==
    ASSUME TypeInv, NEW w \in Workers, pc[w] # "idle",
           NEW status \in Statuses, SaveJob(w, status)
    PROVE  jobs' \in [Requests -> [status : Statuses, total : Nat, indexed : Nat]]
BY BusyFacts DEF SaveJob, TypeInv, TypeOK

LEMMA TypeInit == Init => TypeInv
BY ConstantsAssumption, NothingContents
DEF Init, TypeInv, TypeOK, Busy, Versions, NoRow, NoRequest, Statuses, Steps

\* A worker's own steps keep every type.
LEMMA TypeWorks ==
    ASSUME TypeInv, NEW w \in Workers, Works(w)
    PROVE  TypeInv'
<1> USE DEF TypeInv, TypeOK, Busy, Goto
<1>a. pc[w] # "idle"
  BY DEF Works, CreateJob, StartJob, Persist, UpsertVectors, SaveProgress, ListProducts,
         MergeKeyword, Rebuild, CompleteJob, CountProducts, SetGauge, FailJob, DeleteRow,
         DeleteVector
<1>b. /\ cur[w] \in Requests /\ cur[w] \in Versions /\ BatchEnd(w) \in Nat
  BY <1>a, BusyFacts
<1>c. Statuses = {"none", "pending", "running", "completed", "failed"} /\ 0 \in Versions
  BY ConstantsAssumption DEF Statuses, Versions
<1>1. CASE CreateJob(w)
  BY <1>1, <1>a, <1>c, SaveJobType DEF CreateJob, client, locals, timing, history, Steps
<1>2. CASE StartJob(w)
  BY <1>2, <1>a, <1>c, SaveJobType DEF StartJob, NextBatch, client, locals, timing, history, Steps
<1>3. CASE Persist(w)
  <2>1. catalog' \in Contents
    BY <1>3, <1>b, PutContents DEF Persist
  <2>2. stored' \in [ProductIds -> SUBSET Requests]
    BY <1>3, <1>b, NoteHistory DEF Persist
  <2>3. saved' \in [Workers -> Nat]
    BY <1>3 DEF Persist
  <2>4. pc' \in [Workers -> Steps] /\ Busy'
    BY <1>3, <1>b DEF Persist, Steps
  <2> QED
    BY <1>3, <2>1, <2>2, <2>3, <2>4 DEF Persist, client, timing
<1>4. CASE UpsertVectors(w)
  <2>1. vectors' \in Contents
    BY <1>4, <1>b, PutContents DEF UpsertVectors
  <2>2. vectorised' \in [ProductIds -> SUBSET Requests]
    BY <1>4, <1>b, NoteHistory DEF UpsertVectors
  <2> QED
    BY <1>4, <1>b, <2>1, <2>2 DEF UpsertVectors, tables, client, timing, Steps
<1>5. CASE SaveProgress(w)
  BY <1>5, <1>a, <1>c, SaveJobType DEF SaveProgress, NextBatch, client, locals, timing, history, Steps
<1>6. CASE ListProducts(w)
  BY <1>6, <1>c, PutContents DEF ListProducts, tables, client, timing, history, Steps
<1>7. CASE MergeKeyword(w)
  BY <1>7, <1>b, <1>c, PutContents DEF MergeKeyword, tables, client, timing, history, Steps
<1>8. CASE Rebuild(w)
  BY <1>8, NothingContents DEF Rebuild, tables, client, timing, history, Steps
<1>9. CASE CompleteJob(w)
  BY <1>9, <1>a, <1>c, SaveJobType DEF CompleteJob, client, locals, timing, history, Steps
<1>10. CASE CountProducts(w)
  BY <1>10, RowsCount DEF CountProducts, tables, client, timing, history, Steps
<1>11. CASE SetGauge(w)
  BY <1>11, <1>a, ReplyType DEF SetGauge, tables, timing, history
<1>12. CASE FailJob(w)
  BY <1>12, <1>a, <1>c, SaveJobType, ReplyType DEF FailJob, timing, history
<1>13. CASE DeleteRow(w)
  BY <1>13, <1>c, PutContents DEF DeleteRow, client, locals, timing, history, Steps
<1>14. CASE DeleteVector(w)
  BY <1>14, <1>c, PutContents DEF DeleteVector, tables, client, locals, timing, history, Steps
<1> QED
  BY <1>1, <1>2, <1>3, <1>4, <1>5, <1>6, <1>7, <1>8, <1>9, <1>10, <1>11, <1>12, <1>13, <1>14
  DEF Works

\* So do the steps in which a call raises.
LEMMA TypeFails ==
    ASSUME TypeInv, NEW w \in Workers, Fails(w)
    PROVE  TypeInv'
<1>a. pc[w] # "idle"
  BY DEF Fails, SaveFails, VectorFails, DeleteVectorFails, RebuildFails, RawFails
<1>b. cur[w] \in Requests /\ cur[w] \in Versions /\ 0 \in Versions
  BY <1>a, BusyFacts, ConstantsAssumption DEF Versions
<1>1. CASE SaveFails(w)
  <2>1. Raise(w) \/ Reply(w, "error")
    BY <1>1 DEF SaveFails, Abort
  <2> QED
    BY <1>1, <1>a, <2>1, RaiseType, ReplyType
    DEF SaveFails, TypeInv, TypeOK, tables, timing, history
<1>2. CASE VectorFails(w)
  <2>1. vectors' \in Contents
    BY <1>2, <1>b, PutContents DEF VectorFails, TypeInv, TypeOK
  <2>2. vectorised' \in [ProductIds -> SUBSET Requests]
    <3>1. vectorised \in [ProductIds -> SUBSET Requests]
      BY DEF TypeInv, TypeOK
    <3>2. CASE vectorised' = vectorised
      BY <3>1, <3>2
    <3>3. ASSUME NEW n \in done[w]..BatchEnd(w),
                 vectorised' = Note(vectorised, Slice(w, done[w] + 1, n), cur[w])
          PROVE  vectorised' \in [ProductIds -> SUBSET Requests]
      BY <3>1, <3>3, <1>b, NoteHistory
    <3> QED
      BY <1>2, <3>2, <3>3 DEF VectorFails
  <2> QED
    BY <1>2, <1>a, <2>1, <2>2, RaiseType DEF VectorFails, TypeInv, TypeOK, tables, timing
<1>3. CASE DeleteVectorFails(w)
  <2>1. vectors' \in Contents
    BY <1>3, <1>b, PutContents DEF DeleteVectorFails, TypeInv, TypeOK
  <2> QED
    BY <1>3, <1>a, <2>1, RaiseType
    DEF DeleteVectorFails, TypeInv, TypeOK, tables, timing, history
<1>4. CASE RebuildFails(w)
  BY <1>4, <1>a, RaiseType DEF RebuildFails, TypeInv, TypeOK, tables, timing, history
<1>5. CASE RawFails(w)
  BY <1>5, <1>a, ReplyType DEF RawFails, Abort, TypeInv, TypeOK, tables, timing, history
<1> QED
  BY <1>1, <1>2, <1>3, <1>4, <1>5 DEF Fails

\* The next-state relation keeps every type.
LEMMA TypeStep == TypeInv /\ [Next]_vars => TypeInv'
<1> SUFFICES ASSUME TypeInv, [Next]_vars PROVE TypeInv'
  OBVIOUS
<1>1. ASSUME NEW w \in Workers, NEW op \in Operations, NEW list \in Lists(op),
             Receive(w, op, list)
      PROVE  TypeInv'
  <2>1. list \in Seq(ProductIds)
    <3>1. CASE op = "index"
      BY <3>1, ConstantsAssumption DEF Lists
    <3>2. CASE op # "index"
      <4> PICK p \in ProductIds : list = <<p>>
        BY <3>2 DEF Lists
      <4> QED
        OBVIOUS
    <3> QED
      BY <3>1, <3>2
  <2>2. issued' = issued + 1 /\ issued' \in Requests /\ issued' \in Versions
    BY <1>1, ConstantsAssumption DEF Receive, TypeInv, TypeOK, Requests, Versions
  <2>3. FirstStep[op] \in Steps
    BY DEF Operations, FirstStep, Steps
  <2> QED
    BY <1>1, <2>1, <2>2, <2>3
    DEF Receive, TypeInv, TypeOK, Busy, Goto, tables, timing, history
<1>2. CASE Restart
  BY <1>2, NothingContents, ConstantsAssumption
  DEF Restart, TypeInv, TypeOK, Busy, tables, history, Versions, Steps
<1>3. CASE UNCHANGED vars
  BY <1>3 DEF vars, tables, client, locals, history, timing, TypeInv, TypeOK, Busy
<1> QED
  BY <1>1, <1>2, <1>3, TypeWorks, TypeFails DEF Next, Quiet

\* Every variable keeps its type, however many threads, requests and restarts.
THEOREM TypeCorrect == Spec => []TypeOK
<1>1. Spec => []TypeInv
  BY TypeInit, TypeStep, PTL DEF Spec
<1>2. TypeInv => TypeOK
  BY DEF TypeInv
<1> QED
  BY <1>1, <1>2, PTL

-----------------------------------------------------------------------------
(***************************************************************************)
(* The inductive invariant.  StorageFirst and the other properties are not *)
(* inductive: they need to know how far a busy worker is in its list and   *)
(* that no two workers serve the same request.                             *)
(***************************************************************************)

\* The request a busy worker serves is its own, and still open.
Serves(w) ==
    /\ cur[w] \in 1..issued
    /\ outcome[cur[w]] = "open"
    /\ Op(w) \in Operations
    /\ Op(w) = "upsert" => Total(w) = 1
    /\ \A v \in Workers : pc[v] # "idle" /\ cur[v] = cur[w] => v = w

\* What it has saved and embedded is recorded in the histories.
Covers(w) ==
    /\ done[w] <= saved[w] /\ saved[w] <= Total(w)
    /\ \A i \in 1..saved[w] : cur[w] \in stored[Items(w)[i]]
    /\ \A i \in 1..done[w] : cur[w] \in vectorised[Items(w)[i]]

\* How far it is at each step.
Position(w) ==
    /\ pc[w] \in {"create", "start"} => saved[w] = 0 /\ done[w] = 0
    /\ pc[w] = "persist" => saved[w] < BatchEnd(w)
    /\ pc[w] = "vector" => saved[w] = BatchEnd(w)
    /\ pc[w] = "progress" => saved[w] = done[w]
    /\ pc[w] \in {"list", "complete"} => done[w] = Total(w)
    /\ pc[w] \in {"merge", "rebuild", "count", "gauge"} /\ Op(w) # "delete" => done[w] = Total(w)
    /\ pc[w] \in {"create", "start", "progress", "list", "complete", "fail"} => Op(w) = "index"
    /\ pc[w] \in {"deleteRow", "deleteVector"} => Op(w) = "delete"
    /\ pc[w] = "merge" => Op(w) # "index"
    /\ pc[w] \in {"persist", "vector"} => Op(w) # "delete"
    /\ pc[w] \in {"count", "gauge"} /\ Op(w) = "index" => jobs[cur[w]].status = "completed"

Stage(w) ==
    IF pc[w] = "idle" THEN saved[w] = 0 /\ done[w] = 0
    ELSE Serves(w) /\ Covers(w) /\ Position(w)

\* A request not received yet has left no trace.
Fresh == \A r \in Requests : r > issued =>
            /\ outcome[r] = "none"
            /\ jobs[r] = NoRow /\ request[r] = NoRequest

Stages == (\A w \in Workers : Stage(w)) /\ Fresh

Inv == TypeInv /\ Stages

\* What a step of worker w leaves alone: the other workers, their requests and
\* jobs, and everything already in the histories.
Keeps(w) ==
    /\ pc[w] # "idle"
    /\ pc'[w] # "idle" => cur'[w] = cur[w]
    /\ \A v \in Workers \ {w} :
          pc'[v] = pc[v] /\ cur'[v] = cur[v] /\ saved'[v] = saved[v] /\ done'[v] = done[v]
    /\ \A r \in Requests \ {cur[w]} : jobs'[r] = jobs[r] /\ outcome'[r] = outcome[r]
    /\ request' = request /\ issued' = issued
    /\ \A p \in ProductIds :
          stored[p] \subseteq stored'[p] /\ vectorised[p] \subseteq vectorised'[p]

LEMMA ReplyKeeps ==
    ASSUME TypeInv, NEW w \in Workers, pc[w] # "idle", NEW result, Reply(w, result)
    PROVE  /\ pc'[w] = "idle" /\ saved'[w] = 0 /\ done'[w] = 0
           /\ outcome'[cur[w]] = result
           /\ \A v \in Workers \ {w} :
                 pc'[v] = pc[v] /\ cur'[v] = cur[v] /\ saved'[v] = saved[v] /\ done'[v] = done[v]
           /\ \A r \in Requests \ {cur[w]} : outcome'[r] = outcome[r]
           /\ request' = request /\ issued' = issued
BY DEF TypeInv, TypeOK, Busy, Reply, Goto

\* Raising closes the request with an error, or moves index_catalog to its
\* handler and touches nothing else.
LEMMA RaiseKeeps ==
    ASSUME TypeInv, NEW w \in Workers, pc[w] # "idle", Raise(w)
    PROVE  /\ \/ /\ pc'[w] = "idle" /\ saved'[w] = 0 /\ done'[w] = 0
                 /\ outcome'[cur[w]] = "error"
              \/ /\ pc'[w] = "fail" /\ Op(w) = "index"
                 /\ cur'[w] = cur[w] /\ saved'[w] = saved[w] /\ done'[w] = done[w]
                 /\ outcome' = outcome
           /\ \A v \in Workers \ {w} :
                 pc'[v] = pc[v] /\ cur'[v] = cur[v] /\ saved'[v] = saved[v] /\ done'[v] = done[v]
           /\ \A r \in Requests \ {cur[w]} : outcome'[r] = outcome[r]
           /\ request' = request /\ issued' = issued
<1>1. CASE Op(w) = "index"
  BY <1>1 DEF Raise, Goto, TypeInv, TypeOK, client, locals
<1>2. CASE Op(w) # "index"
  BY <1>2, ReplyKeeps DEF Raise
<1> QED
  BY <1>1, <1>2

\* The histories only grow.
LEMMA NoteGrows ==
    ASSUME NEW h \in [ProductIds -> SUBSET Requests], NEW ps, NEW v, NEW p \in ProductIds
    PROVE  /\ h[p] \subseteq Note(h, ps, v)[p]
           /\ p \in ps => v \in Note(h, ps, v)[p]
BY DEF Note

LEMMA SaveJobKeeps ==
    ASSUME TypeInv, NEW w \in Workers, pc[w] # "idle", NEW status, SaveJob(w, status)
    PROVE  /\ \A r \in Requests \ {cur[w]} : jobs'[r] = jobs[r]
           /\ jobs'[cur[w]] = [status |-> status, total |-> Total(w), indexed |-> done[w]]
BY BusyFacts DEF SaveJob, TypeInv, TypeOK

LEMMA WorksKeeps ==
    ASSUME TypeInv, NEW w \in Workers, Works(w)
    PROVE  Keeps(w)
<1> USE DEF TypeInv, TypeOK, Goto, Keeps
<1>1. CASE CreateJob(w)
  BY <1>1, SaveJobKeeps DEF CreateJob, client, locals, history
<1>2. CASE StartJob(w)
  BY <1>2, SaveJobKeeps DEF StartJob, client, locals, history, NextBatch
<1>3. CASE Persist(w)
  BY <1>3, NoteGrows DEF Persist, client
<1>4. CASE UpsertVectors(w)
  BY <1>4, NoteGrows DEF UpsertVectors, client, tables
<1>5. CASE SaveProgress(w)
  BY <1>5, SaveJobKeeps DEF SaveProgress, client, locals, history, NextBatch
<1>6. CASE ListProducts(w)
  BY <1>6 DEF ListProducts, tables, client, history
<1>7. CASE MergeKeyword(w)
  BY <1>7 DEF MergeKeyword, tables, client, history
<1>8. CASE Rebuild(w)
  BY <1>8 DEF Rebuild, tables, client, history
<1>9. CASE CompleteJob(w)
  BY <1>9, SaveJobKeeps DEF CompleteJob, client, locals, history
<1>10. CASE CountProducts(w)
  BY <1>10 DEF CountProducts, tables, client, history
<1>11. CASE SetGauge(w)
  BY <1>11, ReplyKeeps DEF SetGauge, tables, history
<1>12. CASE FailJob(w)
  BY <1>12, ReplyKeeps, SaveJobKeeps DEF FailJob, history
<1>13. CASE DeleteRow(w)
  BY <1>13 DEF DeleteRow, client, locals, history
<1>14. CASE DeleteVector(w)
  BY <1>14 DEF DeleteVector, tables, client, locals, history
<1> QED
  BY <1>1, <1>2, <1>3, <1>4, <1>5, <1>6, <1>7, <1>8, <1>9, <1>10, <1>11, <1>12, <1>13, <1>14
  DEF Works

LEMMA FailsKeeps ==
    ASSUME TypeInv, NEW w \in Workers, Fails(w)
    PROVE  Keeps(w)
<1>1. CASE SaveFails(w)
  BY <1>1, RaiseKeeps, ReplyKeeps DEF SaveFails, Abort, Keeps, tables, history
<1>2. CASE VectorFails(w)
  <2>1. pc[w] # "idle" /\ Raise(w) /\ stored' = stored /\ jobs' = jobs
    BY <1>2 DEF VectorFails, tables
  <2>2. \A p \in ProductIds : vectorised[p] \subseteq vectorised'[p]
    BY <1>2, NoteGrows DEF VectorFails, TypeInv, TypeOK
  <2> QED
    BY <2>1, <2>2, RaiseKeeps DEF Keeps
<1>3. CASE DeleteVectorFails(w)
  BY <1>3, RaiseKeeps DEF DeleteVectorFails, Keeps, tables, history
<1>4. CASE RebuildFails(w)
  BY <1>4, RaiseKeeps DEF RebuildFails, Keeps, tables, history
<1>5. CASE RawFails(w)
  BY <1>5, ReplyKeeps DEF RawFails, Abort, Keeps, tables, history
<1> QED
  BY <1>1, <1>2, <1>3, <1>4, <1>5 DEF Fails

-----------------------------------------------------------------------------
\* A step of w leaves every other worker at its stage.
LEMMA OthersStage ==
    ASSUME Inv, NEW w \in Workers, Keeps(w), NEW v \in Workers, v # w
    PROVE  Stage(v)'
<1>1. CASE pc[v] = "idle"
  BY <1>1 DEF Inv, Stages, Stage, Keeps
<1>2. CASE pc[v] # "idle"
  <2>1. Serves(v) /\ Covers(v) /\ Position(v)
    BY <1>2 DEF Inv, Stages, Stage
  <2>2. cur[v] \in Requests /\ cur[v] # cur[w]
    BY <1>2, <2>1 DEF Inv, TypeInv, Busy, Serves, Keeps
  <2>3. /\ pc'[v] = pc[v] /\ cur'[v] = cur[v] /\ saved'[v] = saved[v] /\ done'[v] = done[v]
        /\ Items(v)' = Items(v) /\ Op(v)' = Op(v) /\ Total(v)' = Total(v)
        /\ BatchEnd(v)' = BatchEnd(v)
        /\ jobs'[cur[v]] = jobs[cur[v]] /\ outcome'[cur[v]] = outcome[cur[v]]
    BY <2>2 DEF Keeps, Items, Op, Total, BatchEnd
  <2>4. Serves(v)'
    <3>1. \A u \in Workers : pc'[u] # "idle" /\ cur'[u] = cur'[v] => u = v
      BY <2>1, <2>2, <2>3 DEF Serves, Keeps
    <3> QED
      BY <2>1, <2>3, <3>1 DEF Serves, Keeps
  <2>5. Covers(v)'
    <3>1. Items(v) \in Seq(ProductIds) /\ Total(v) = Len(Items(v))
      BY <1>2, BusyFacts DEF Inv, Total
    <3>2. \A i \in 1..saved[v] : Items(v)[i] \in ProductIds
      BY <2>1, <3>1 DEF Covers, Inv, TypeInv, TypeOK
    <3>3. \A i \in 1..done[v] : Items(v)[i] \in ProductIds
      BY <2>1, <3>1 DEF Covers, Inv, TypeInv, TypeOK
    <3> QED
      BY <2>1, <2>3, <3>2, <3>3 DEF Covers, Keeps
  <2>6. Position(v)'
    BY <2>1, <2>3 DEF Position
  <2> QED
    BY <2>3, <2>4, <2>5, <2>6, <1>2 DEF Stage
<1> QED
  BY <1>1, <1>2

\* A worker that stays busy keeps serving its request, over the same list.
LEMMA OwnServes ==
    ASSUME Inv, NEW w \in Workers, Keeps(w), pc'[w] # "idle", outcome'[cur[w]] = outcome[cur[w]]
    PROVE  /\ Serves(w)'
           /\ cur'[w] = cur[w] /\ cur[w] \in Requests /\ Items(w)' = Items(w)
           /\ Op(w)' = Op(w) /\ Total(w)' = Total(w)
<1>1. Serves(w) /\ cur'[w] = cur[w] /\ cur[w] \in Requests
  BY DEF Inv, Stages, Stage, Keeps, TypeInv, Busy
<1>2. Items(w)' = Items(w) /\ Op(w)' = Op(w) /\ Total(w)' = Total(w)
  BY <1>1 DEF Keeps, Items, Op, Total
<1>3. \A v \in Workers : pc'[v] # "idle" /\ cur'[v] = cur'[w] => v = w
  BY <1>1 DEF Keeps, Serves
<1> QED
  BY <1>1, <1>2, <1>3 DEF Serves, Keeps

\* If it also saves and embeds nothing in the step, its record still stands.
LEMMA OwnCovers ==
    ASSUME Inv, NEW w \in Workers, Keeps(w), pc'[w] # "idle", outcome'[cur[w]] = outcome[cur[w]],
           saved'[w] = saved[w], done'[w] = done[w]
    PROVE  Covers(w)' /\ BatchEnd(w)' = BatchEnd(w)
<1>1. Covers(w)
  BY DEF Inv, Stages, Stage, Keeps
<1>2. cur'[w] = cur[w] /\ Items(w)' = Items(w) /\ Total(w)' = Total(w)
  BY OwnServes
<1>3. Items(w) \in Seq(ProductIds) /\ Total(w) = Len(Items(w))
  BY BusyFacts DEF Inv, Keeps, Total
<1>4. \A i \in 1..saved[w] : Items(w)[i] \in ProductIds
  BY <1>1, <1>3 DEF Covers, Inv, TypeInv, TypeOK
<1>5. \A i \in 1..done[w] : Items(w)[i] \in ProductIds
  BY <1>1, <1>3 DEF Covers, Inv, TypeInv, TypeOK
<1> QED
  BY <1>1, <1>2, <1>4, <1>5 DEF Covers, Keeps, BatchEnd

\* A worker that raises goes idle, or to index_catalog's handler.
LEMMA RaiseStage ==
    ASSUME Inv, NEW w \in Workers, Keeps(w), Raise(w) \/ Reply(w, "error")
    PROVE  Stage(w)'
<1>1. CASE pc'[w] = "idle" /\ saved'[w] = 0 /\ done'[w] = 0
  BY <1>1 DEF Stage
<1>2. CASE /\ pc'[w] = "fail" /\ Op(w) = "index"
           /\ saved'[w] = saved[w] /\ done'[w] = done[w] /\ outcome' = outcome
  BY <1>2, OwnServes, OwnCovers DEF Stage, Position
<1> QED
  BY <1>1, <1>2, RaiseKeeps, ReplyKeeps DEF Inv, Keeps

LEMMA OwnFails ==
    ASSUME Inv, NEW w \in Workers, Fails(w)
    PROVE  Stage(w)'
<1>1. Keeps(w)
  BY FailsKeeps DEF Inv
<1>2. Raise(w) \/ Reply(w, "error")
  BY DEF Fails, SaveFails, VectorFails, DeleteVectorFails, RebuildFails, RawFails, Abort
<1> QED
  BY <1>1, <1>2, RaiseStage

LEMMA OwnWorks ==
    ASSUME Inv, NEW w \in Workers, Works(w)
    PROVE  Stage(w)'
<1>k. Keeps(w)
  BY WorksKeeps DEF Inv
<1>s. Serves(w) /\ Covers(w) /\ Position(w)
  BY <1>k DEF Inv, Stages, Stage, Keeps
<1>b. /\ Items(w) \in Seq(ProductIds) /\ Total(w) = Len(Items(w)) /\ Total(w) \in Nat
      /\ BatchEnd(w) \in Nat /\ saved[w] \in Nat /\ done[w] \in Nat
      /\ cur[w] \in Requests
  BY <1>k, BusyFacts DEF Inv, Keeps, Total, TypeInv, TypeOK
<1>e. /\ BatchEnd(w) <= Total(w)
      /\ done[w] < Total(w) => done[w] < BatchEnd(w)
      /\ Total(w) = 1 => BatchEnd(w) = 1
  BY <1>b, ConstantsAssumption DEF BatchEnd
<1> USE DEF Goto
<1>t. pc \in [Workers -> Steps] /\ saved \in [Workers -> Nat] /\ done \in [Workers -> Nat]
  BY DEF Inv, TypeInv, TypeOK
<1> DEFINE same == saved' = saved /\ done' = done /\ outcome' = outcome
<1>c. ASSUME same, pc'[w] # "idle", Position(w)'
      PROVE  Stage(w)'
  BY <1>c, <1>k, OwnServes, OwnCovers DEF Stage
<1>n. ASSUME same, pc'[w] # "idle"
      PROVE  /\ Op(w)' = Op(w) /\ Total(w)' = Total(w) /\ BatchEnd(w)' = BatchEnd(w)
             /\ cur'[w] = cur[w]
  BY <1>n, <1>k, OwnServes, OwnCovers
<1>1. CASE CreateJob(w)
  <2>1. same /\ pc'[w] = "start"
    BY <1>1, <1>t DEF CreateJob, client, locals
  <2>2. saved[w] = 0 /\ done[w] = 0 /\ Op(w) = "index"
    BY <1>1, <1>s DEF CreateJob, Position
  <2> QED
    BY <2>1, <2>2, <1>n, <1>c DEF Position
<1>2. CASE StartJob(w)
  <2>1. same /\ pc'[w] = NextBatch(w, 0)
    BY <1>2, <1>t DEF StartJob, client, locals
  <2>2. saved[w] = 0 /\ done[w] = 0 /\ Op(w) = "index"
    BY <1>2, <1>s DEF StartJob, Position
  <2> QED
    BY <2>1, <2>2, <1>n, <1>c, <1>b, <1>e DEF Position, NextBatch
<1>5. CASE SaveProgress(w)
  <2>1. same /\ pc'[w] = NextBatch(w, done[w])
    BY <1>5, <1>t DEF SaveProgress, client, locals
  <2>2. saved[w] = done[w] /\ Op(w) = "index" /\ done[w] <= Total(w)
    BY <1>5, <1>s, <1>b DEF SaveProgress, Position, Covers
  <2> QED
    BY <2>1, <2>2, <1>n, <1>c, <1>b, <1>e DEF Position, NextBatch
<1>6. CASE ListProducts(w)
  <2>1. same /\ pc'[w] = "rebuild" /\ done[w] = Total(w)
    BY <1>6, <1>s, <1>t DEF ListProducts, client, Position
  <2> QED
    BY <2>1, <1>n, <1>c DEF Position
<1>7. CASE MergeKeyword(w)
  <2>1. same /\ pc'[w] = "rebuild" /\ (Op(w) # "delete" => done[w] = Total(w))
    BY <1>7, <1>s, <1>t DEF MergeKeyword, client, Position
  <2> QED
    BY <2>1, <1>n, <1>c DEF Position
<1>8. CASE Rebuild(w)
  <2>1. /\ same /\ pc'[w] = IF Op(w) = "index" THEN "complete" ELSE "count"
        /\ Op(w) # "delete" => done[w] = Total(w)
    BY <1>8, <1>s, <1>t DEF Rebuild, client, Position
  <2> QED
    BY <2>1, <1>n, <1>c DEF Position
<1>9. CASE CompleteJob(w)
  <2>1. same /\ pc'[w] = "count" /\ Op(w) = "index" /\ done[w] = Total(w)
    BY <1>9, <1>s, <1>t DEF CompleteJob, client, locals, Position
  <2>2. jobs'[cur[w]].status = "completed"
    <3>1. SaveJob(w, "completed") /\ TypeInv /\ pc[w] # "idle"
      BY <1>9 DEF CompleteJob, Inv
    <3>2. jobs'[cur[w]] = [status |-> "completed", total |-> Total(w), indexed |-> done[w]]
      BY <3>1, SaveJobKeeps
    <3> QED
      BY <3>2
  <2> QED
    BY <2>1, <2>2, <1>n, <1>c DEF Position
<1>10. CASE CountProducts(w)
  <2>1. /\ same /\ pc'[w] = "gauge" /\ (Op(w) # "delete" => done[w] = Total(w))
        /\ Op(w) = "index" => jobs'[cur[w]].status = "completed"
    BY <1>10, <1>s, <1>t DEF CountProducts, client, tables, Position
  <2> QED
    BY <2>1, <1>n, <1>c DEF Position
<1>11. CASE SetGauge(w) \/ FailJob(w)
  BY <1>11, <1>k, ReplyKeeps DEF SetGauge, FailJob, Stage, Inv, Keeps
<1>13. CASE DeleteRow(w)
  <2>1. same /\ pc'[w] = "deleteVector" /\ Op(w) = "delete"
    BY <1>13, <1>s, <1>t DEF DeleteRow, client, locals, Position
  <2> QED
    BY <2>1, <1>n, <1>c DEF Position
<1>14. CASE DeleteVector(w)
  <2>1. same /\ pc'[w] = "merge" /\ Op(w) = "delete"
    BY <1>14, <1>s, <1>t DEF DeleteVector, client, locals, Position
  <2> QED
    BY <2>1, <1>n, <1>c DEF Position
<1>3. CASE Persist(w)
  <2>1. /\ pc'[w] = IF saved[w] + 1 < BatchEnd(w) THEN "persist" ELSE "vector"
        /\ saved'[w] = saved[w] + 1 /\ done' = done /\ outcome' = outcome
        /\ saved[w] < BatchEnd(w) /\ Op(w) # "delete"
    BY <1>3, <1>s, <1>t DEF Persist, client, Position
  <2>2. pc'[w] # "idle" /\ BatchEnd(w) <= Total(w)
    BY <2>1, <1>e
  <2>3. /\ Serves(w)' /\ cur'[w] = cur[w] /\ Items(w)' = Items(w)
        /\ Op(w)' = Op(w) /\ Total(w)' = Total(w) /\ BatchEnd(w)' = BatchEnd(w)
    BY <2>1, <2>2, <1>k, OwnServes DEF BatchEnd
  <2>4. \A i \in 1..saved[w] + 1 : cur[w] \in stored'[Items(w)[i]]
    <3> SUFFICES ASSUME NEW i \in 1..saved[w] + 1 PROVE cur[w] \in stored'[Items(w)[i]]
      OBVIOUS
    <3>1. Items(w)[i] \in ProductIds
      BY <2>1, <2>2, <1>b
    <3>2. CASE i \in 1..saved[w]
      BY <3>1, <3>2, <1>s, <1>k DEF Covers, Keeps
    <3>3. CASE i = saved[w] + 1
      BY <1>3, <3>1, <3>3, NoteGrows DEF Persist, Inv, TypeInv, TypeOK
    <3> QED
      BY <3>2, <3>3, <1>b
  <2>5. \A i \in 1..done[w] : cur[w] \in vectorised'[Items(w)[i]]
    BY <1>3, <1>s DEF Persist, Covers
  <2>6. Covers(w)'
    BY <2>1, <2>2, <2>3, <2>4, <2>5, <1>b, <1>s DEF Covers
  <2>7. Position(w)'
    BY <2>1, <2>3, <1>b DEF Position
  <2> QED
    BY <2>2, <2>3, <2>6, <2>7 DEF Stage
<1>4. CASE UpsertVectors(w)
  <2>1. /\ pc'[w] = IF Op(w) = "index" THEN "progress" ELSE "merge"
        /\ saved' = saved /\ done'[w] = BatchEnd(w) /\ outcome' = outcome
        /\ saved[w] = BatchEnd(w)
    BY <1>4, <1>s, <1>t DEF UpsertVectors, client, Position
  <2>2. pc'[w] # "idle" /\ BatchEnd(w) <= Total(w)
    BY <2>1, <1>e
  <2>3. /\ Serves(w)' /\ cur'[w] = cur[w] /\ Items(w)' = Items(w)
        /\ Op(w)' = Op(w) /\ Total(w)' = Total(w)
    BY <2>1, <2>2, <1>k, OwnServes
  <2>4. \A i \in 1..saved[w] : cur[w] \in stored'[Items(w)[i]]
    BY <1>4, <1>s DEF UpsertVectors, Covers
  <2>5. \A i \in 1..BatchEnd(w) : cur[w] \in vectorised'[Items(w)[i]]
    <3> SUFFICES ASSUME NEW i \in 1..BatchEnd(w) PROVE cur[w] \in vectorised'[Items(w)[i]]
      OBVIOUS
    <3>1. Items(w)[i] \in ProductIds
      BY <2>2, <1>b
    <3>2. CASE i \in 1..done[w]
      BY <3>1, <3>2, <1>s, <1>k DEF Covers, Keeps
    <3>3. CASE i \in done[w] + 1..BatchEnd(w)
      <4>1. Items(w)[i] \in Batch(w)
        BY <3>3 DEF Batch, Slice
      <4> QED
        BY <1>4, <3>1, <4>1, NoteGrows DEF UpsertVectors, Inv, TypeInv, TypeOK
    <3> QED
      BY <3>2, <3>3, <1>b
  <2>6. Covers(w)'
    BY <2>1, <2>2, <2>3, <2>4, <2>5, <1>b DEF Covers
  <2>7. Position(w)'
    BY <2>1, <2>3, <1>s, <1>e DEF Position, Serves, Operations, FirstStep
  <2> QED
    BY <2>2, <2>3, <2>6, <2>7 DEF Stage
<1> QED
  BY <1>1, <1>2, <1>3, <1>4, <1>5, <1>6, <1>7, <1>8, <1>9, <1>10, <1>11, <1>13, <1>14
  DEF Works

LEMMA FreshStep ==
    ASSUME Inv, NEW w \in Workers, Keeps(w)
    PROVE  Fresh'
<1>1. cur[w] \in 1..issued
  BY DEF Inv, Stages, Stage, Keeps, Serves
<1>2. issued \in Nat
  BY ConstantsAssumption DEF Inv, TypeInv, TypeOK, Versions
<1> QED
  BY <1>1, <1>2 DEF Inv, Stages, Fresh, Keeps, Requests

LEMMA InvInit == Init => Inv
<1> SUFFICES ASSUME Init PROVE Inv
  OBVIOUS
<1> QED
  BY TypeInit DEF Init, Inv, Stages, Stage, Fresh

\* A request starts with nothing saved or embedded, on a worker of its own.
LEMMA ReceiveStages ==
    ASSUME Inv, NEW w \in Workers, NEW op \in Operations, NEW list \in Lists(op),
           Receive(w, op, list)
    PROVE  Stages'
<1>1. /\ issued \in Nat /\ issued' = issued + 1 /\ issued' \in Requests /\ issued \in Versions
      /\ pc'[w] = FirstStep[op] /\ cur'[w] = issued'
      /\ outcome'[issued'] = "open" /\ request'[issued'] = [op |-> op, list |-> list]
      /\ saved' = saved /\ done' = done /\ stored' = stored /\ vectorised' = vectorised
      /\ jobs' = jobs
      /\ \A r \in Requests \ {issued'} : request'[r] = request[r] /\ outcome'[r] = outcome[r]
      /\ \A v \in Workers \ {w} : pc'[v] = pc[v] /\ cur'[v] = cur[v]
  BY ConstantsAssumption
  DEF Receive, Inv, TypeInv, TypeOK, Goto, tables, history, Requests, Versions
<1>2. \A v \in Workers \ {w} : pc[v] # "idle" => cur[v] \in 1..issued /\ cur[v] \in Requests
  BY DEF Inv, Stages, Stage, Serves, TypeInv, Busy
<1>3. Stage(w)'
  <2>1. saved[w] = 0 /\ done[w] = 0
    BY DEF Receive, Inv, Stages, Stage
  <2>2. /\ Op(w)' = op /\ Items(w)' = list /\ Total(w)' = Len(list)
    BY <1>1 DEF Op, Items, Total
  <2>3. list \in Seq(ProductIds) /\ Len(list) \in Nat /\ (op = "upsert" => Len(list) = 1)
    <3>1. CASE op = "index"
      BY <3>1, ConstantsAssumption DEF Lists
    <3>2. CASE op # "index"
      <4> PICK p \in ProductIds : list = <<p>>
        BY <3>2 DEF Lists
      <4> QED
        OBVIOUS
    <3> QED
      BY <3>1, <3>2
  <2>4. Serves(w)'
    BY <1>1, <1>2, <2>2, <2>3 DEF Serves
  <2>5. Covers(w)'
    BY <1>1, <2>1, <2>2, <2>3 DEF Covers
  <2>6. BatchEnd(w)' > 0 \/ op # "upsert"
    BY <1>1, <2>1, <2>2, <2>3, ConstantsAssumption DEF BatchEnd
  <2>7. Position(w)'
    BY <1>1, <2>1, <2>2, <2>6 DEF Position, Operations, FirstStep
  <2> QED
    BY <2>4, <2>5, <2>7, <1>1, <2>1 DEF Stage
<1>4. ASSUME NEW v \in Workers, v # w PROVE Stage(v)'
  <2>1. CASE pc[v] = "idle"
    BY <2>1, <1>1, <1>4 DEF Inv, Stages, Stage
  <2>2. CASE pc[v] # "idle"
    <3>1. Serves(v) /\ Covers(v) /\ Position(v)
      BY <2>2 DEF Inv, Stages, Stage
    <3>2. /\ cur'[v] = cur[v] /\ pc'[v] = pc[v] /\ cur[v] \in 1..issued /\ cur[v] \in Requests
          /\ cur[v] # issued'
      BY <1>1, <1>2, <1>4, <2>2
    <3>3. /\ Items(v)' = Items(v) /\ Op(v)' = Op(v) /\ Total(v)' = Total(v)
          /\ BatchEnd(v)' = BatchEnd(v)
      BY <1>1, <3>2 DEF Items, Op, Total, BatchEnd
    <3>4. Serves(v)'
      BY <1>1, <1>2, <3>1, <3>2, <3>3 DEF Serves
    <3>5. Covers(v)' /\ Position(v)'
      BY <1>1, <3>1, <3>2, <3>3 DEF Covers, Position
    <3> QED
      BY <2>2, <3>2, <3>4, <3>5 DEF Stage
  <2> QED
    BY <2>1, <2>2
<1>5. Fresh'
  BY <1>1 DEF Inv, Stages, Fresh, Requests
<1> QED
  BY <1>3, <1>4, <1>5 DEF Stages

LEMMA RestartStages ==
    ASSUME Inv, Restart
    PROVE  Stages'
BY DEF Inv, Restart, Stages, Stage, Fresh, tables

LEMMA InvStep == Inv /\ [Next]_vars => Inv'
<1> SUFFICES ASSUME Inv, [Next]_vars PROVE Inv'
  OBVIOUS
<1>t. TypeInv'
  BY TypeStep DEF Inv
<1>1. ASSUME NEW w \in Workers, Works(w) \/ Fails(w) PROVE Stages'
  <2>1. Keeps(w) /\ Stage(w)'
    BY <1>1, WorksKeeps, FailsKeeps, OwnWorks, OwnFails DEF Inv
  <2> QED
    BY <2>1, OthersStage, FreshStep DEF Stages
<1>2. ASSUME UNCHANGED vars PROVE Stages'
  BY <1>2 DEF Inv, Stages, Stage, Serves, Covers, Position, Fresh, Items, Op, Total, BatchEnd,
              vars, tables, client, locals, history, timing
<1>3. ASSUME NEW w \in Workers, NEW op \in Operations, NEW list \in Lists(op),
             Receive(w, op, list)
      PROVE  Stages'
  BY <1>3, ReceiveStages
<1>4. ASSUME Restart PROVE Stages'
  BY <1>4, RestartStages
<1>5. Stages'
  BY <1>1, <1>2, <1>3, <1>4 DEF Next, Quiet
<1> QED
  BY <1>t, <1>5 DEF Inv

\* The worker invariant holds in every reachable state.
LEMMA Invariant == Spec => []Inv
BY InvInit, InvStep, PTL DEF Spec

-----------------------------------------------------------------------------
\* A map within a history stays within it when the history grows,
LEMMA GrowWithin ==
    ASSUME NEW f, NEW h, NEW g, Within(f, h), \A p \in ProductIds : h[p] \subseteq g[p]
    PROVE  Within(f, g)
BY DEF Within

\* when it takes versions the history has, or loses entries.
LEMMA PutWithin ==
    ASSUME NEW f, NEW h, Within(f, h), NEW ps, NEW v,
           \A p \in ps : p \in ProductIds /\ v # 0 => v \in h[p]
    PROVE  Within(Put(f, ps, v), h)
BY DEF Within, Put

LEMMA NothingWithin == ASSUME NEW h PROVE Within(Nothing, h)
BY DEF Within, Nothing

\* All a worker has saved of its list is in SQLite's history.
LEMMA SliceStored ==
    ASSUME Inv, NEW w \in Workers, pc[w] # "idle", NEW a \in Nat, a > 0, NEW b \in Nat, b <= saved[w]
    PROVE  \A p \in Slice(w, a, b) : cur[w] \in stored[p]
<1>1. \A i \in 1..saved[w] : cur[w] \in stored[Items(w)[i]]
  BY DEF Inv, Stages, Stage, Covers
<1>2. saved[w] \in Nat
  BY DEF Inv, TypeInv, TypeOK
<1>3. SUFFICES ASSUME NEW i \in a..b PROVE cur[w] \in stored[Items(w)[i]]
  BY DEF Slice
<1>4. i \in 1..saved[w]
  BY <1>2
<1> QED
  BY <1>1, <1>4

LEMMA StorageFirstWorks ==
    ASSUME Inv, StorageFirst, NEW w \in Workers, Works(w)
    PROVE  StorageFirst'
<1>k. Keeps(w) /\ pc[w] # "idle"
  BY WorksKeeps DEF Inv, Keeps
<1>g. \A p \in ProductIds : stored[p] \subseteq stored'[p]
  BY <1>k DEF Keeps
<1>w. /\ Within(catalog, stored') /\ Within(vectors, stored') /\ Within(keyword, stored')
      /\ \A v \in Workers : Within(snap[v], stored')
  BY <1>g, GrowWithin DEF StorageFirst
<1>s. Serves(w) /\ Covers(w) /\ Position(w)
  BY <1>k DEF Inv, Stages, Stage
<1>b. /\ BatchEnd(w) \in Nat /\ Total(w) \in Nat /\ saved[w] \in Nat /\ done[w] \in Nat
      /\ snap \in [Workers -> Contents]
  BY <1>k, BusyFacts DEF Inv, TypeInv, TypeOK
<1>r. ASSUME NEW result, Reply(w, result)
      PROVE  \A v \in Workers : Within(snap'[v], stored')
  BY <1>r, <1>b, <1>w, NothingWithin DEF Reply
<1>1. CASE CreateJob(w) \/ StartJob(w) \/ SaveProgress(w) \/ CompleteJob(w) \/ CountProducts(w)
  BY <1>1, <1>w DEF CreateJob, StartJob, SaveProgress, CompleteJob, CountProducts, StorageFirst,
                    tables, locals
<1>2. CASE SetGauge(w) \/ FailJob(w)
  BY <1>2, <1>w, <1>r DEF SetGauge, FailJob, StorageFirst, tables
<1>3. CASE Persist(w)
  <2>1. Within(catalog', stored')
    <3>1. \A p \in {Items(w)[saved[w] + 1]} : p \in ProductIds => cur[w] \in stored'[p]
      BY <1>3, NoteGrows DEF Persist, Inv, TypeInv, TypeOK
    <3> QED
      <4>1. catalog' = Put(catalog, {Items(w)[saved[w] + 1]}, cur[w])
        BY <1>3 DEF Persist
      <4> QED
        BY <4>1, <1>w, <3>1, PutWithin
  <2> QED
    BY <1>3, <1>w, <2>1 DEF Persist, StorageFirst
<1>4. CASE UpsertVectors(w)
  <2>1. \A p \in Batch(w) : cur[w] \in stored[p]
    BY <1>4, <1>b, <1>k, <1>s, SliceStored DEF UpsertVectors, Batch, Position
  <2>2. Within(vectors', stored')
    BY <1>4, <2>1, PutWithin DEF UpsertVectors, StorageFirst
  <2> QED
    BY <1>4, <1>w, <2>2 DEF UpsertVectors, StorageFirst, tables
<1>5. CASE ListProducts(w)
  <2>1. PICK listed \in SUBSET Rows :
            snap' = [snap EXCEPT ![w] = Put(catalog, ProductIds \ listed, 0)]
    BY <1>5 DEF ListProducts
  <2>2. Within(Put(catalog, ProductIds \ listed, 0), stored')
    BY <1>w, PutWithin
  <2> QED
    BY <1>5, <1>w, <1>b, <2>1, <2>2 DEF ListProducts, StorageFirst, tables
<1>6. CASE MergeKeyword(w)
  <2> DEFINE v == IF Op(w) = "upsert" THEN cur[w] ELSE 0
             ps == Slice(w, 1, Total(w))
  <2>1. v # 0 => \A p \in ps : cur[w] \in stored[p]
    BY <1>6, <1>b, <1>k, <1>s, SliceStored DEF MergeKeyword, Position, Covers
  <2>2. Within(Put(keyword, ps, v), stored)
    BY <2>1, PutWithin DEF StorageFirst
  <2>3. snap' = [snap EXCEPT ![w] = Put(keyword, ps, v)] /\ stored' = stored
    BY <1>6 DEF MergeKeyword, history
  <2> QED
    BY <1>6, <1>w, <1>b, <2>2, <2>3 DEF MergeKeyword, StorageFirst, tables
<1>7. CASE Rebuild(w)
  BY <1>7, <1>w, <1>b, NothingWithin DEF Rebuild, StorageFirst, tables
<1>8. CASE DeleteRow(w)
  BY <1>8, <1>w, PutWithin DEF DeleteRow, StorageFirst, locals
<1>9. CASE DeleteVector(w)
  BY <1>9, <1>w, PutWithin DEF DeleteVector, StorageFirst, tables, locals
<1> QED
  BY <1>1, <1>2, <1>3, <1>4, <1>5, <1>6, <1>7, <1>8, <1>9 DEF Works

\* What a failing upsert wrote before it raised was in SQLite too.
LEMMA StorageFirstFails ==
    ASSUME Inv, StorageFirst, NEW w \in Workers, Fails(w)
    PROVE  StorageFirst'
<1>k. pc[w] # "idle" /\ stored' = stored /\ catalog' = catalog
  BY FailsKeeps DEF Inv, Keeps, Fails, SaveFails, VectorFails, DeleteVectorFails, RebuildFails,
                    RawFails, tables, history
<1>b. /\ BatchEnd(w) \in Nat /\ saved[w] \in Nat /\ done[w] \in Nat
      /\ snap \in [Workers -> Contents]
  BY <1>k, BusyFacts DEF Inv, TypeInv, TypeOK
<1>1. \A v \in Workers : Within(snap'[v], stored')
  <2>1. snap' = snap \/ snap' = [snap EXCEPT ![w] = Nothing]
    BY DEF Fails, SaveFails, VectorFails, DeleteVectorFails, RebuildFails, RawFails, Abort,
           Raise, Reply, locals
  <2> QED
    BY <1>k, <1>b, <2>1, NothingWithin DEF StorageFirst
<1>2. Within(keyword', stored')
  BY <1>k DEF Fails, SaveFails, VectorFails, DeleteVectorFails, RebuildFails, RawFails,
              StorageFirst
<1>3. Within(vectors', stored')
  <2>1. CASE \/ vectors' = vectors \/ vectors' = Put(vectors, Batch(w), 0)
             \/ vectors' = Put(vectors, Slice(w, 1, Total(w)), 0)
    BY <1>k, <2>1, PutWithin DEF StorageFirst
  <2>2. ASSUME pc[w] = "vector", NEW n \in done[w]..BatchEnd(w),
               vectors' = Put(vectors, Slice(w, done[w] + 1, n), cur[w])
        PROVE  Within(vectors', stored')
    <3>1. saved[w] = BatchEnd(w) /\ n \in Nat /\ n <= saved[w]
      BY <2>2, <1>b DEF Inv, Stages, Stage, Position
    <3>2. \A p \in Slice(w, done[w] + 1, n) : cur[w] \in stored[p]
      <4>1. done[w] + 1 \in Nat /\ done[w] + 1 > 0
        BY <1>b
      <4> QED
        BY <3>1, <4>1, <1>k, SliceStored
    <3> QED
      BY <1>k, <2>2, <3>2, PutWithin DEF StorageFirst
  <2> QED
    BY <2>1, <2>2 DEF Fails, SaveFails, VectorFails, DeleteVectorFails, RebuildFails, RawFails
<1> QED
  BY <1>k, <1>1, <1>2, <1>3 DEF StorageFirst

LEMMA StorageFirstStep == Inv /\ StorageFirst /\ [Next]_vars => StorageFirst'
<1> SUFFICES ASSUME Inv, StorageFirst, [Next]_vars PROVE StorageFirst'
  OBVIOUS
<1>1. ASSUME NEW w \in Workers, NEW op \in Operations, NEW list \in Lists(op),
             Receive(w, op, list)
      PROVE  StorageFirst'
  BY <1>1 DEF Receive, StorageFirst, tables, history
<1>2. ASSUME Restart PROVE StorageFirst'
  BY <1>2, NothingWithin DEF Restart, StorageFirst, tables, history
<1>3. ASSUME UNCHANGED vars PROVE StorageFirst'
  BY <1>3 DEF StorageFirst, vars, tables, locals, history
<1> QED
  BY <1>1, <1>2, <1>3, StorageFirstWorks, StorageFirstFails DEF Next, Quiet

\* No index ever serves a text that SQLite did not accept first.
THEOREM StorageIsFirst == Spec => []StorageFirst
<1>1. Init => StorageFirst
  BY NothingWithin DEF Init, StorageFirst
<1> QED
  BY <1>1, Invariant, StorageFirstStep, PTL DEF Spec

-----------------------------------------------------------------------------
(* Jobs.  A busy worker's job row is at the status its step implies.       *)

Recorded(w) ==
    pc[w] # "idle" /\ Op(w) = "index" =>
        jobs[cur[w]].status =
            CASE pc[w] = "create" -> "none"
              [] pc[w] = "start" -> "pending"
              [] pc[w] \in {"count", "gauge"} -> "completed"
              [] OTHER -> "running"

JobsRecorded == \A w \in Workers : Recorded(w)

\* The row after a step of w: as it was, or saved by the step.
LEMMA RowOf ==
    ASSUME Inv, NEW w \in Workers, Works(w) \/ Fails(w)
    PROVE  \/ jobs' = jobs
           \/ \E st \in Statuses :
                /\ \/ pc[w] = "create" /\ st = "pending" /\ pc'[w] = "start"
                   \/ pc[w] = "start" /\ st = "running" /\ pc'[w] \in {"persist", "list"}
                   \/ pc[w] = "progress" /\ st = "running" /\ pc'[w] \in {"persist", "list"}
                   \/ pc[w] = "complete" /\ st = "completed" /\ pc'[w] = "count"
                   \/ pc[w] = "fail" /\ st = "failed" /\ pc'[w] = "idle"
                /\ jobs'[cur[w]] = [status |-> st, total |-> Total(w), indexed |-> done[w]]
<1>k. pc \in [Workers -> Steps] /\ TypeInv
  BY DEF Inv, TypeInv, TypeOK
<1>t. {"pending", "running", "completed", "failed"} \subseteq Statuses
  BY DEF Statuses
<1>1. CASE Fails(w)
  BY <1>1 DEF Fails, SaveFails, VectorFails, DeleteVectorFails, RebuildFails, RawFails, tables
<1>2. CASE CreateJob(w)
  <2>1. pc[w] = "create" /\ pc'[w] = "start" /\ SaveJob(w, "pending")
    BY <1>2, <1>k DEF CreateJob, Goto
  <2>2. jobs'[cur[w]] = [status |-> "pending", total |-> Total(w), indexed |-> done[w]]
    BY <2>1, <1>k, SaveJobKeeps
  <2> QED
    BY <2>1, <2>2, <1>t
<1>3. CASE StartJob(w) \/ SaveProgress(w)
  <2>1. /\ pc[w] \in {"start", "progress"} /\ pc'[w] \in {"persist", "list"}
        /\ SaveJob(w, "running")
    BY <1>3, <1>k DEF StartJob, SaveProgress, Goto, NextBatch
  <2>2. jobs'[cur[w]] = [status |-> "running", total |-> Total(w), indexed |-> done[w]]
    BY <2>1, <1>k, SaveJobKeeps
  <2> QED
    BY <2>1, <2>2, <1>t
<1>4. CASE CompleteJob(w)
  <2>1. pc[w] = "complete" /\ pc'[w] = "count" /\ SaveJob(w, "completed")
    BY <1>4, <1>k DEF CompleteJob, Goto
  <2>2. jobs'[cur[w]] = [status |-> "completed", total |-> Total(w), indexed |-> done[w]]
    BY <2>1, <1>k, SaveJobKeeps
  <2> QED
    BY <2>1, <2>2, <1>t
<1>5. CASE FailJob(w)
  <2>1. pc[w] = "fail" /\ pc'[w] = "idle" /\ SaveJob(w, "failed")
    BY <1>5, <1>k DEF FailJob, Reply, Goto
  <2>2. jobs'[cur[w]] = [status |-> "failed", total |-> Total(w), indexed |-> done[w]]
    BY <2>1, <1>k, SaveJobKeeps
  <2> QED
    BY <2>1, <2>2, <1>t
<1> QED
  BY <1>1, <1>2, <1>3, <1>4, <1>5
  DEF Works, Persist, UpsertVectors, ListProducts, MergeKeyword, Rebuild, CountProducts,
      SetGauge, DeleteRow, DeleteVector, tables

LEMMA RecordedStep ==
    ASSUME Inv, JobsRecorded, NEW w \in Workers, Works(w) \/ Fails(w)
    PROVE  Recorded(w)'
<1>k. Keeps(w) /\ TypeInv /\ pc \in [Workers -> Steps]
  BY WorksKeeps, FailsKeeps DEF Inv, TypeInv, TypeOK
<1>r. Recorded(w) /\ Position(w) /\ Operations = {"index", "upsert", "delete"}
  BY <1>k DEF JobsRecorded, Inv, Stages, Stage, Keeps, Operations, FirstStep
<1>o. pc'[w] # "idle" => cur'[w] = cur[w] /\ Op(w)' = Op(w)
  BY <1>k DEF Keeps, Op
<1>c. ASSUME jobs' = jobs,
             \/ /\ pc[w] \in {"persist", "vector", "progress", "list", "rebuild", "complete"}
                /\ pc'[w] \in {"persist", "vector", "progress", "rebuild", "complete", "fail"}
             \/ pc[w] = "count" /\ pc'[w] = "gauge"
             \/ pc'[w] = "idle"
             \/ Op(w) # "index"
      PROVE  Recorded(w)'
  BY <1>c, <1>o, <1>r DEF Recorded
<1>1. CASE CreateJob(w) \/ StartJob(w) \/ SaveProgress(w) \/ CompleteJob(w) \/ FailJob(w)
  <2>1. \/ /\ SaveJob(w, "pending") /\ pc'[w] = "start"
        \/ /\ SaveJob(w, "running") /\ pc'[w] \in {"persist", "list"}
        \/ /\ SaveJob(w, "completed") /\ pc'[w] = "count"
        \/ /\ SaveJob(w, "failed") /\ pc'[w] = "idle"
    BY <1>1, <1>k DEF CreateJob, StartJob, SaveProgress, CompleteJob, FailJob, Goto, NextBatch,
                      Reply
  <2>2. ASSUME NEW st, SaveJob(w, st) PROVE jobs'[cur[w]].status = st
    <3>1. jobs'[cur[w]] = [status |-> st, total |-> Total(w), indexed |-> done[w]]
      BY <2>2, <1>k, SaveJobKeeps DEF Keeps
    <3> QED
      BY <3>1
  <2> QED
    BY <2>1, <2>2, <1>o DEF Recorded
<1>2. CASE Persist(w)
  BY <1>2, <1>c, <1>k DEF Persist, Goto
<1>3. CASE UpsertVectors(w)
  BY <1>3, <1>c, <1>k DEF UpsertVectors, Goto, tables
<1>4. CASE ListProducts(w)
  BY <1>4, <1>c, <1>k DEF ListProducts, Goto, tables
<1>5. CASE MergeKeyword(w)
  <2>1. Op(w) # "index" \/ pc[w] # "merge"
    BY <1>r DEF Position
  <2> QED
    BY <1>5, <2>1, <1>c, <1>k DEF MergeKeyword, tables
<1>6. CASE Rebuild(w)
  BY <1>6, <1>c, <1>k DEF Rebuild, Goto, tables
<1>7. CASE CountProducts(w) \/ SetGauge(w)
  BY <1>7, <1>c, <1>k DEF CountProducts, SetGauge, Reply, Goto, tables
<1>8. CASE DeleteRow(w) \/ DeleteVector(w)
  BY <1>8, <1>c, <1>r DEF DeleteRow, DeleteVector, Position, tables
<1>9. CASE Fails(w)
  <2>1. jobs' = jobs
    BY <1>9 DEF Fails, SaveFails, VectorFails, DeleteVectorFails, RebuildFails, RawFails, tables
  <2>2. CASE pc'[w] = "idle"
    BY <2>1, <2>2, <1>c
  <2>3. CASE /\ Raise(w)
             /\ pc[w] \in {"persist", "vector", "progress", "complete", "rebuild", "deleteVector"}
    <3>1. pc'[w] = "idle" \/ pc'[w] = "fail"
      BY <2>3, <1>k, RaiseKeeps
    <3>2. pc[w] = "deleteVector" => Op(w) # "index"
      BY <1>r DEF Position
    <3> QED
      BY <2>1, <2>3, <3>1, <3>2, <1>c
  <2>4. CASE Reply(w, "error")
    BY <2>2, <2>4, <1>k DEF Reply, Goto
  <2> QED
    BY <1>9, <2>3, <2>4
    DEF Fails, SaveFails, VectorFails, DeleteVectorFails, RebuildFails, RawFails, Abort
<1> QED
  BY <1>1, <1>2, <1>3, <1>4, <1>5, <1>6, <1>7, <1>8, <1>9 DEF Works

LEMMA JobsRecordedStep == Inv /\ JobsRecorded /\ [Next]_vars => JobsRecorded'
<1> SUFFICES ASSUME Inv, JobsRecorded, [Next]_vars PROVE JobsRecorded'
  OBVIOUS
<1>1. ASSUME NEW w \in Workers, Works(w) \/ Fails(w) PROVE JobsRecorded'
  <2>1. Recorded(w)'
    BY <1>1, RecordedStep
  <2>2. ASSUME NEW v \in Workers, v # w PROVE Recorded(v)'
    <3>1. Keeps(w) /\ Recorded(v)
      BY <1>1, WorksKeeps, FailsKeeps DEF Inv, JobsRecorded
    <3>2. pc[v] # "idle" => cur[v] \in Requests \ {cur[w]}
      BY <2>2, <3>1 DEF Inv, Stages, Stage, Serves, TypeInv, Busy, Keeps
    <3> QED
      BY <2>2, <3>1, <3>2 DEF Recorded, Keeps, Op
  <2> QED
    BY <2>1, <2>2 DEF JobsRecorded
<1>2. ASSUME NEW w \in Workers, NEW op \in Operations, NEW list \in Lists(op),
             Receive(w, op, list)
      PROVE  JobsRecorded'
  <2>1. /\ issued' \in Requests /\ issued' > issued /\ jobs' = jobs
        /\ pc'[w] = FirstStep[op] /\ cur'[w] = issued'
        /\ request'[issued'].op = op
        /\ \A r \in Requests \ {issued'} : request'[r] = request[r]
        /\ \A v \in Workers \ {w} : pc'[v] = pc[v] /\ cur'[v] = cur[v]
    BY <1>2, ConstantsAssumption
    DEF Receive, Inv, TypeInv, TypeOK, Goto, tables, Requests, Versions
  <2>2. jobs[issued'].status = "none"
    BY <2>1 DEF Inv, Stages, Fresh, NoRow
  <2>3. Recorded(w)'
    BY <2>1, <2>2 DEF Recorded, Op, FirstStep
  <2>4. ASSUME NEW v \in Workers, v # w PROVE Recorded(v)'
    <3>1. pc[v] # "idle" => cur[v] \in Requests /\ cur[v] # issued'
      BY <2>1 DEF Inv, Stages, Stage, Serves, TypeInv, TypeOK, Busy, Versions
    <3> QED
      BY <2>1, <2>4, <3>1 DEF JobsRecorded, Recorded, Op
  <2> QED
    BY <2>3, <2>4 DEF JobsRecorded
<1>3. ASSUME Restart PROVE JobsRecorded'
  BY <1>3 DEF Restart, JobsRecorded, Recorded
<1>4. ASSUME UNCHANGED vars PROVE JobsRecorded'
  BY <1>4 DEF JobsRecorded, Recorded, Op, vars, tables, client, locals
<1> QED
  BY <1>1, <1>2, <1>3, <1>4 DEF Next, Quiet

LEMMA JobsAreRecorded == Spec => []JobsRecorded
<1>1. Init => JobsRecorded
  BY DEF Init, JobsRecorded, Recorded
<1> QED
  BY <1>1, Invariant, JobsRecordedStep, PTL DEF Spec

\* Moves a job row may make in a step.
Moves == \A r \in Requests :
    LET moves == <<jobs[r].status, jobs'[r].status>> IN
    jobs'[r] # jobs[r] => moves \in {<<"none", "pending">>, <<"pending", "running">>,
        <<"running", "running">>, <<"running", "completed">>, <<"running", "failed">>}

\* The job state machine is kept by every thread, failure and restart.
THEOREM JobsFollowLifecycle == Spec => JobLifecycle
<1>1. ASSUME Inv, JobsRecorded, [Next]_vars PROVE [Moves]_vars
  <2>1. ASSUME NEW w \in Workers, Works(w) \/ Fails(w) PROVE Moves
    <3>1. /\ Keeps(w) /\ Recorded(w) /\ Position(w) /\ cur[w] \in Requests
      <4>1. Keeps(w) /\ pc[w] # "idle"
        BY <1>1, <2>1, WorksKeeps, FailsKeeps DEF Inv, Keeps
      <4> QED
        BY <1>1, <4>1 DEF Inv, Stages, Stage, JobsRecorded, TypeInv, Busy
    <3> SUFFICES ASSUME jobs'[cur[w]] # jobs[cur[w]]
                 PROVE  <<jobs[cur[w]].status, jobs'[cur[w]].status>> \in
                          {<<"none", "pending">>, <<"pending", "running">>,
                           <<"running", "running">>, <<"running", "completed">>,
                           <<"running", "failed">>}
      BY <3>1 DEF Moves, Keeps
    <3>2. PICK st \in Statuses :
             /\ \/ pc[w] = "create" /\ st = "pending"
                \/ pc[w] = "start" /\ st = "running"
                \/ pc[w] = "progress" /\ st = "running"
                \/ pc[w] = "complete" /\ st = "completed"
                \/ pc[w] = "fail" /\ st = "failed"
             /\ jobs'[cur[w]] = [status |-> st, total |-> Total(w), indexed |-> done[w]]
      BY <1>1, <2>1, RowOf
    <3>3. jobs'[cur[w]].status = st
      BY <3>2
    <3> QED
      BY <3>1, <3>2, <3>3 DEF Recorded, Position
  <2>2. ASSUME NEW w \in Workers, NEW op \in Operations, NEW list \in Lists(op),
               Receive(w, op, list)
        PROVE  Moves
    BY <2>2 DEF Receive, Moves, tables
  <2>3. ASSUME Restart \/ UNCHANGED vars PROVE Moves
    BY <2>3 DEF Restart, Moves, tables, vars
  <2> QED
    BY <1>1, <2>1, <2>2, <2>3 DEF Next, Quiet
<1>2. Spec => [][Moves]_vars
  BY <1>1, Invariant, JobsAreRecorded, PTL DEF Spec
<1> QED
  BY <1>2 DEF JobLifecycle, Moves

-----------------------------------------------------------------------------
(* What a job row and an answer claim.                                     *)

\* The row of request r claims no more than was done.
RowBacked(r) ==
    /\ jobs[r].indexed <= Len(request[r].list)
    /\ \A i \in 1..jobs[r].indexed : r \in vectorised[request[r].list[i]]
    /\ jobs[r].status = "completed" =>
          jobs[r].indexed = jobs[r].total /\ jobs[r].total = Len(request[r].list)

\* A row stays backed when neither it nor its request changes.
LEMMA RowStays ==
    ASSUME Inv, NEW r \in Requests, RowBacked(r), jobs'[r] = jobs[r], request'[r] = request[r],
           \A p \in ProductIds : vectorised[p] \subseteq vectorised'[p]
    PROVE  RowBacked(r)'
<1>1. request[r].list \in Seq(ProductIds) /\ jobs[r].indexed \in Nat
  BY DEF Inv, TypeInv, TypeOK
<1>2. \A i \in 1..jobs[r].indexed : request[r].list[i] \in ProductIds
  BY <1>1 DEF RowBacked
<1> QED
  BY <1>2 DEF RowBacked

LEMMA ProgressStep == Inv /\ ProgressBacked /\ [Next]_vars => ProgressBacked'
<1> SUFFICES ASSUME Inv, ProgressBacked, [Next]_vars, NEW r \in Requests PROVE RowBacked(r)'
  BY DEF ProgressBacked, RowBacked
<1>r. RowBacked(r)
  BY DEF ProgressBacked, RowBacked
<1>1. ASSUME NEW w \in Workers, Works(w) \/ Fails(w) PROVE RowBacked(r)'
  <2>k. Keeps(w) /\ pc[w] # "idle"
    BY <1>1, WorksKeeps, FailsKeeps DEF Inv, Keeps
  <2>1. CASE r # cur[w] \/ jobs' = jobs
    BY <2>1, <2>k, <1>r, RowStays DEF Keeps
  <2>2. CASE r = cur[w] /\ jobs' # jobs
    <3>1. PICK st \in Statuses :
             /\ st = "completed" => pc[w] = "complete"
             /\ jobs'[r] = [status |-> st, total |-> Total(w), indexed |-> done[w]]
      BY <1>1, <2>2, RowOf
    <3>2. /\ jobs'[r].status = st /\ jobs'[r].total = Total(w) /\ jobs'[r].indexed = done[w]
      BY <3>1
    <3>3. Covers(w) /\ Position(w)
      BY <2>k DEF Inv, Stages, Stage
    <3>4. /\ Items(w) \in Seq(ProductIds) /\ Total(w) = Len(Items(w)) /\ Total(w) \in Nat
          /\ request'[r].list = Items(w) /\ done[w] \in Nat /\ saved[w] \in Nat
      BY <2>2, <2>k, BusyFacts DEF Inv, TypeInv, TypeOK, Items, Total, Keeps
    <3>5. done[w] <= Total(w)
      BY <3>3, <3>4 DEF Covers
    <3>6. \A i \in 1..done[w] : r \in vectorised'[Items(w)[i]]
      <4> SUFFICES ASSUME NEW i \in 1..done[w] PROVE r \in vectorised'[Items(w)[i]]
        OBVIOUS
      <4>1. Items(w)[i] \in ProductIds
        BY <3>4, <3>5
      <4> QED
        BY <4>1, <2>2, <2>k, <3>3 DEF Covers, Keeps
    <3> QED
      BY <3>1, <3>2, <3>3, <3>4, <3>5, <3>6 DEF RowBacked, Position
  <2> QED
    BY <2>1, <2>2
<1>2. ASSUME NEW w \in Workers, NEW op \in Operations, NEW list \in Lists(op),
             Receive(w, op, list)
      PROVE  RowBacked(r)'
  <2>1. /\ issued' = issued + 1 /\ issued \in Nat /\ issued' \in Requests
        /\ jobs' = jobs /\ vectorised' = vectorised
        /\ r # issued' => request'[r] = request[r]
        /\ request'[issued'].list = list
    BY <1>2, ConstantsAssumption
    DEF Receive, Inv, TypeInv, TypeOK, tables, history, Requests, Versions
  <2>2. CASE r # issued'
    BY <2>1, <2>2, <1>r, RowStays
  <2>3. CASE r = issued'
    <3>1. jobs[r] = NoRow
      BY <2>1, <2>3 DEF Inv, Stages, Fresh
    <3>2. jobs'[r].indexed = 0 /\ jobs'[r].status = "none"
      BY <2>1, <3>1 DEF NoRow
    <3>3. Len(list) \in Nat
      <4>1. CASE op = "index"
        BY <4>1, ConstantsAssumption DEF Lists
      <4>2. CASE op # "index"
        BY <4>2 DEF Lists
      <4> QED
        BY <4>1, <4>2
    <3> QED
      BY <2>1, <2>3, <3>2, <3>3 DEF RowBacked
  <2> QED
    BY <2>2, <2>3
<1>3. ASSUME Restart \/ UNCHANGED vars PROVE RowBacked(r)'
  <2>1. jobs' = jobs /\ request' = request /\ vectorised' = vectorised
    BY <1>3 DEF Restart, vars, tables, client, history
  <2> QED
    BY <2>1, <1>r, RowStays
<1> QED
  BY <1>1, <1>2, <1>3 DEF Next, Quiet

\* products_indexed and COMPLETED are always backed by stored vectors.
THEOREM ProgressIsBacked == Spec => []ProgressBacked
<1>1. Init => ProgressBacked
  BY ConstantsAssumption DEF Init, ProgressBacked, NoRow, NoRequest
<1> QED
  BY <1>1, Invariant, ProgressStep, PTL DEF Spec

-----------------------------------------------------------------------------
\* What an answer of success to request r promises.
OkBacked(r) ==
    outcome[r] = "ok" /\ request[r].op # "delete" =>
        /\ \A p \in ProductIds : Touches(r, p) => r \in stored[p] \cap vectorised[p]
        /\ request[r].op = "index" => jobs[r].status = "completed"

\* Only the last step of an operation answers with success.
LEMMA OkFromGauge ==
    ASSUME Inv, NEW w \in Workers, Works(w) \/ Fails(w), outcome'[cur[w]] = "ok"
    PROVE  SetGauge(w)
<1>1. pc[w] # "idle" /\ outcome[cur[w]] = "open" /\ TypeInv
  BY WorksKeeps, FailsKeeps DEF Inv, Stages, Stage, Serves, Keeps
<1>2. ~Fails(w)
  BY <1>1, RaiseKeeps, ReplyKeeps
  DEF Fails, SaveFails, VectorFails, DeleteVectorFails, RebuildFails, RawFails, Abort
<1>3. ~FailJob(w)
  BY <1>1, ReplyKeeps DEF FailJob
<1> QED
  BY <1>1, <1>2, <1>3
  DEF Works, CreateJob, StartJob, Persist, UpsertVectors, SaveProgress, ListProducts,
      MergeKeyword, Rebuild, CompleteJob, CountProducts, DeleteRow, DeleteVector, client

LEMMA OkStep == Inv /\ OkMeansIndexed /\ [Next]_vars => OkMeansIndexed'
<1> SUFFICES ASSUME Inv, OkMeansIndexed, [Next]_vars, NEW r \in Requests PROVE OkBacked(r)'
  BY DEF OkMeansIndexed, OkBacked
<1>r. OkBacked(r)
  BY DEF OkMeansIndexed, OkBacked
<1>s. ASSUME outcome'[r] = outcome[r], request'[r] = request[r], jobs'[r] = jobs[r],
             \A p \in ProductIds :
                stored[p] \subseteq stored'[p] /\ vectorised[p] \subseteq vectorised'[p]
      PROVE  OkBacked(r)'
  BY <1>r, <1>s DEF OkBacked, Touches
<1>1. ASSUME NEW w \in Workers, Works(w) \/ Fails(w) PROVE OkBacked(r)'
  <2>k. Keeps(w) /\ pc[w] # "idle"
    BY <1>1, WorksKeeps, FailsKeeps DEF Inv, Keeps
  <2>1. CASE r # cur[w]
    BY <2>1, <2>k, <1>s DEF Keeps
  <2>2. CASE r = cur[w] /\ outcome'[r] # "ok"
    BY <2>2 DEF OkBacked
  <2>3. CASE r = cur[w] /\ outcome'[r] = "ok"
    <3>1. SetGauge(w)
      BY <1>1, <2>3, OkFromGauge
    <3>2. /\ pc[w] = "gauge" /\ jobs' = jobs /\ stored' = stored /\ vectorised' = vectorised
          /\ request' = request
      BY <3>1 DEF SetGauge, Reply, tables, history
    <3>3. Covers(w) /\ Position(w)
      BY <2>k DEF Inv, Stages, Stage
    <3>4. /\ Items(w) \in Seq(ProductIds) /\ Total(w) = Len(Items(w)) /\ Total(w) \in Nat
          /\ Items(w) = request[r].list /\ Op(w) = request[r].op
          /\ done[w] \in Nat /\ saved[w] \in Nat
      BY <2>3, <2>k, BusyFacts DEF Inv, TypeInv, TypeOK, Items, Op, Total
    <3>5. Op(w) # "delete" => \A i \in 1..Total(w) : r \in stored[Items(w)[i]] \cap vectorised[Items(w)[i]]
      BY <2>3, <3>2, <3>3, <3>4 DEF Covers, Position
    <3>6. \A p \in ProductIds : Touches(r, p) => \E i \in 1..Total(w) : p = Items(w)[i]
      BY <3>4 DEF Touches
    <3> QED
      BY <2>3, <3>2, <3>3, <3>4, <3>5, <3>6 DEF OkBacked, Position, Touches
  <2> QED
    BY <2>1, <2>2, <2>3
<1>2. ASSUME NEW w \in Workers, NEW op \in Operations, NEW list \in Lists(op),
             Receive(w, op, list)
      PROVE  OkBacked(r)'
  <2>1. /\ jobs' = jobs /\ stored' = stored /\ vectorised' = vectorised
        /\ r # issued' => request'[r] = request[r] /\ outcome'[r] = outcome[r]
        /\ r = issued' => outcome'[r] = "open"
    BY <1>2 DEF Receive, Inv, TypeInv, TypeOK, tables, history
  <2>2. CASE r # issued'
    BY <2>1, <2>2, <1>s
  <2>3. CASE r = issued'
    BY <2>1, <2>3 DEF OkBacked
  <2> QED
    BY <2>2, <2>3
<1>3. ASSUME Restart PROVE OkBacked(r)'
  <2>1. /\ jobs' = jobs /\ stored' = stored /\ vectorised' = vectorised /\ request' = request
        /\ outcome'[r] = outcome[r] \/ outcome'[r] = "lost"
    BY <1>3 DEF Restart, tables, history
  <2> QED
    BY <2>1, <1>s DEF OkBacked
<1>4. ASSUME UNCHANGED vars PROVE OkBacked(r)'
  BY <1>4, <1>s DEF vars, tables, client, history
<1> QED
  BY <1>1, <1>2, <1>3, <1>4 DEF Next, Quiet

\* An answer of success always means the request's products are indexed.
THEOREM OkIsBacked == Spec => []OkMeansIndexed
<1>1. Init => OkMeansIndexed
  BY DEF Init, OkMeansIndexed
<1> QED
  BY <1>1, Invariant, OkStep, PTL DEF Spec

-----------------------------------------------------------------------------
(***************************************************************************)
(* Whose products a step disturbs: those of the request in hand, and they  *)
(* get what the request says of them.  On this rest the two properties     *)
(* that say when the stores agree.                                         *)
(***************************************************************************)

\* What the stores should hold of a product once request r was the last to name it.
Version(r) == IF request[r].op = "delete" THEN 0 ELSE r

\* How far SQLite and the vectors hold what the request in hand says of product p.
HasSaved(w, p) ==
    IF Op(w) # "delete"
    THEN (\E i \in 1..saved[w] : Items(w)[i] = p) => catalog[p] = cur[w]
    ELSE pc[w] # "deleteRow" => catalog[p] = 0

HasVector(w, p) ==
    IF Op(w) # "delete"
    THEN (\E i \in 1..done[w] : Items(w)[i] = p) => vectors[p] = cur[w]
    ELSE pc[w] \notin {"deleteRow", "deleteVector"} => vectors[p] = 0

\* What a busy worker of the invariant knows of its list and its progress.
LEMMA HandFacts ==
    ASSUME Inv, NEW w \in Workers, pc[w] # "idle"
    PROVE  /\ Items(w) \in Seq(ProductIds) /\ Total(w) = Len(Items(w)) /\ Total(w) \in Nat
           /\ \A i \in 1..Total(w) : Items(w)[i] \in ProductIds
           /\ cur[w] \in Requests /\ cur[w] \in 1..issued /\ cur[w] \in Versions
           /\ Op(w) \in {"index", "upsert", "delete"} /\ Op(w) = request[cur[w]].op
           /\ outcome[cur[w]] = "open"
           /\ saved[w] \in Nat /\ done[w] \in Nat /\ BatchEnd(w) \in Nat
           /\ BatchEnd(w) <= Total(w) /\ done[w] <= saved[w] /\ saved[w] <= Total(w)
           /\ Position(w)
<1>1. Serves(w) /\ Covers(w) /\ Position(w)
  BY DEF Inv, Stages, Stage
<1>2. /\ Items(w) \in Seq(ProductIds) /\ Total(w) = Len(Items(w)) /\ Total(w) \in Nat
      /\ cur[w] \in Requests /\ cur[w] \in Versions /\ BatchEnd(w) \in Nat
      /\ saved[w] \in Nat /\ done[w] \in Nat
  BY BusyFacts DEF Inv, Total, TypeInv, TypeOK
<1>3. BatchEnd(w) <= Total(w)
  BY <1>2, ConstantsAssumption DEF BatchEnd
<1>4. Op(w) \in {"index", "upsert", "delete"}
  BY <1>1 DEF Serves, Operations, FirstStep
<1> QED
  BY <1>1, <1>2, <1>3, <1>4 DEF Serves, Covers, Op

\* A slice of the list in hand has only products the request names.
LEMMA SliceTouched ==
    ASSUME Inv, NEW w \in Workers, pc[w] # "idle", NEW a \in Nat, a > 0,
           NEW b \in Int, b <= Total(w), NEW p, p \in Slice(w, a, b)
    PROVE  Touches(cur[w], p)
<1>1. Items(w) \in Seq(ProductIds) /\ Total(w) = Len(Items(w))
  BY BusyFacts DEF Inv, Total
<1>2. PICK i \in a..b : Items(w)[i] = p
  BY DEF Slice
<1>3. i \in DOMAIN Items(w)
  BY <1>1
<1> QED
  BY <1>2, <1>3 DEF Touches, Items

\* A product the request in hand does not name: its entries stay, and a map to
\* be served that is not a listing has what the served one has.
LEMMA ApartWorks ==
    ASSUME Inv, NEW w \in Workers, Works(w),
           NEW p \in ProductIds, ~Touches(cur[w], p)
    PROVE  /\ catalog'[p] = catalog[p] /\ vectors'[p] = vectors[p]
           /\ keyword'[p] = keyword[p] \/ (pc[w] = "rebuild" /\ keyword'[p] = snap[w][p])
           /\ pc'[w] = "rebuild" => ListProducts(w) \/ snap'[w][p] = keyword[p]
<1>k. pc[w] # "idle" /\ pc \in [Workers -> Steps] /\ snap \in [Workers -> Contents]
  BY WorksKeeps DEF Inv, Keeps, TypeInv, TypeOK
<1>h. /\ saved[w] \in Nat /\ done[w] \in Nat /\ BatchEnd(w) \in Nat /\ Total(w) \in Nat
      /\ BatchEnd(w) <= Total(w) /\ Position(w)
  BY <1>k, HandFacts
<1>a. p \notin Slice(w, 1, Total(w))
  BY <1>k, <1>h, SliceTouched
<1>b. p \notin Batch(w)
  BY <1>k, <1>h, SliceTouched DEF Batch
<1> USE DEF Goto
<1>1. CASE CreateJob(w) \/ StartJob(w) \/ SaveProgress(w) \/ CompleteJob(w)
  BY <1>1, <1>k DEF CreateJob, StartJob, SaveProgress, CompleteJob, NextBatch
<1>2. CASE CountProducts(w) \/ SetGauge(w) \/ FailJob(w)
  BY <1>2, <1>k DEF CountProducts, SetGauge, FailJob, Reply, tables
<1>3. CASE Persist(w)
  <2>1. saved[w] < BatchEnd(w)
    BY <1>3, <1>h DEF Persist, Position
  <2>2. Items(w)[saved[w] + 1] \in Slice(w, saved[w] + 1, saved[w] + 1)
    BY <1>h DEF Slice
  <2>3. p # Items(w)[saved[w] + 1]
    BY <2>1, <2>2, <1>k, <1>h, SliceTouched
  <2> QED
    BY <1>3, <1>k, <2>3 DEF Persist, Put
<1>4. CASE UpsertVectors(w)
  BY <1>4, <1>k, <1>b DEF UpsertVectors, Put, tables
<1>5. CASE ListProducts(w)
  BY <1>5 DEF ListProducts, tables
<1>6. CASE MergeKeyword(w)
  BY <1>6, <1>k, <1>a DEF MergeKeyword, Put, tables
<1>7. CASE Rebuild(w)
  BY <1>7, <1>k DEF Rebuild, tables
<1>8. CASE DeleteRow(w)
  BY <1>8, <1>k, <1>a DEF DeleteRow, Put
<1>9. CASE DeleteVector(w)
  BY <1>9, <1>k, <1>a DEF DeleteVector, Put, tables
<1> QED
  BY <1>1, <1>2, <1>3, <1>4, <1>5, <1>6, <1>7, <1>8, <1>9 DEF Works

\* So it is when a call raises.
LEMMA ApartFails ==
    ASSUME Inv, NEW w \in Workers, Fails(w), NEW p \in ProductIds, ~Touches(cur[w], p)
    PROVE  /\ catalog'[p] = catalog[p] /\ vectors'[p] = vectors[p]
           /\ keyword'[p] = keyword[p] \/ (pc[w] = "rebuild" /\ keyword'[p] = snap[w][p])
           /\ pc'[w] \in {"idle", "fail"}
<1>k. pc[w] # "idle"
  BY FailsKeeps DEF Inv, Keeps
<1>r. pc'[w] \in {"idle", "fail"}
  BY <1>k, RaiseKeeps, ReplyKeeps
  DEF Inv, Fails, SaveFails, VectorFails, DeleteVectorFails, RebuildFails, RawFails, Abort
<1>h. /\ done[w] \in Nat /\ BatchEnd(w) \in Nat /\ Total(w) \in Nat /\ BatchEnd(w) <= Total(w)
  BY <1>k, HandFacts
<1>1. CASE VectorFails(w)
  <2>1. p \notin Batch(w)
    BY <1>k, <1>h, SliceTouched DEF Batch
  <2>2. \A n \in done[w]..BatchEnd(w) : p \notin Slice(w, done[w] + 1, n)
    BY <1>k, <1>h, SliceTouched
  <2>3. vectors'[p] = vectors[p]
    BY <1>1, <2>1, <2>2 DEF VectorFails, Put
  <2> QED
    BY <1>1, <1>r, <2>3 DEF VectorFails, tables
<1>2. CASE RebuildFails(w)
  BY <1>2, <1>r DEF RebuildFails, tables
<1>3. CASE DeleteVectorFails(w)
  <2>1. p \notin Slice(w, 1, Total(w))
    BY <1>k, <1>h, SliceTouched
  <2>2. vectors'[p] = vectors[p]
    BY <1>3, <2>1 DEF DeleteVectorFails, Put
  <2> QED
    BY <1>3, <1>r, <2>2 DEF DeleteVectorFails, tables
<1>4. CASE SaveFails(w) \/ RawFails(w)
  BY <1>4, <1>r DEF SaveFails, RawFails, tables
<1> QED
  BY <1>1, <1>2, <1>3, <1>4 DEF Fails

\* A call that raises ends the request or leaves it to the handler.
LEMMA FailsEnd ==
    ASSUME Inv, NEW w \in Workers, Fails(w)
    PROVE  pc'[w] \in {"idle", "fail"}
<1>1. pc[w] # "idle"
  BY FailsKeeps DEF Inv, Keeps
<1> QED
  BY <1>1, RaiseKeeps, ReplyKeeps
  DEF Inv, Fails, SaveFails, VectorFails, DeleteVectorFails, RebuildFails, RawFails, Abort

\* What a step of the request in hand leaves as it is, when it is not the last.
LEMMA HandStays ==
    ASSUME Inv, NEW w \in Workers, Keeps(w), pc'[w] # "idle", outcome' = outcome
    PROVE  /\ cur'[w] = cur[w] /\ Items(w)' = Items(w) /\ Op(w)' = Op(w)
           /\ Total(w)' = Total(w) /\ Version(cur[w])' = Version(cur[w])
BY OwnServes DEF Keeps, Version

\* Each step of the request in hand adds its part to what SQLite and the vectors
\* hold of a product it names.
LEMMA OwnProgress ==
    ASSUME Inv, NEW w \in Workers, Works(w), pc'[w] # "idle",
           NEW p \in ProductIds, Touches(cur[w], p),
           pc[w] # "fail" => HasSaved(w, p) /\ HasVector(w, p)
    PROVE  HasSaved(w, p)' /\ HasVector(w, p)'
<1>k. Keeps(w) /\ pc[w] # "idle" /\ pc \in [Workers -> Steps]
  BY WorksKeeps DEF Inv, Keeps, TypeInv, TypeOK
<1>t. saved \in [Workers -> Nat] /\ done \in [Workers -> Nat]
  BY DEF Inv, TypeInv, TypeOK
<1>h. /\ Items(w) \in Seq(ProductIds) /\ Total(w) = Len(Items(w)) /\ Total(w) \in Nat
      /\ saved[w] \in Nat /\ done[w] \in Nat /\ BatchEnd(w) \in Nat
      /\ BatchEnd(w) <= Total(w) /\ done[w] <= saved[w] /\ saved[w] <= Total(w)
      /\ Op(w) \in {"index", "upsert", "delete"}
      /\ Position(w)
  BY <1>k, HandFacts
<1>p. p \in Slice(w, 1, Total(w))
  BY <1>h DEF Touches, Items, Slice
<1>f. ASSUME outcome' = outcome
      PROVE  cur'[w] = cur[w] /\ Items(w)' = Items(w) /\ Op(w)' = Op(w)
  BY <1>f, <1>k, HandStays
<1> USE DEF Goto
<1>1. CASE CreateJob(w) \/ StartJob(w) \/ SaveProgress(w) \/ CompleteJob(w)
  <2>1. /\ pc[w] \in {"create", "start", "progress", "complete"}
        /\ outcome' = outcome /\ catalog' = catalog /\ vectors' = vectors
        /\ saved' = saved /\ done' = done
    BY <1>1 DEF CreateJob, StartJob, SaveProgress, CompleteJob, client, locals
  <2>2. Op(w) = "index"
    BY <2>1, <1>h DEF Position
  <2> QED
    BY <2>1, <2>2, <1>f DEF HasSaved, HasVector
<1>2. CASE Persist(w)
  <2>1. /\ pc[w] = "persist"
        /\ outcome' = outcome /\ vectors' = vectors /\ done' = done
        /\ saved'[w] = saved[w] + 1
        /\ catalog'[p] = IF p = Items(w)[saved[w] + 1] THEN cur[w] ELSE catalog[p]
    BY <1>2, <1>t DEF Persist, client, Put
  <2>2. Op(w) # "delete"
    BY <2>1, <1>h DEF Position
  <2>3. ASSUME NEW i \in 1..saved[w] + 1, Items(w)[i] = p PROVE catalog'[p] = cur[w]
    <3>1. i = saved[w] + 1 \/ i \in 1..saved[w]
      BY <1>h
    <3> QED
      BY <2>1, <2>2, <2>3, <3>1 DEF HasSaved
  <2>4. HasSaved(w, p)'
    BY <2>1, <2>2, <2>3, <1>f DEF HasSaved
  <2> QED
    BY <2>1, <2>2, <2>4, <1>f DEF HasVector
<1>3. CASE UpsertVectors(w)
  <2>1. /\ pc[w] = "vector"
        /\ outcome' = outcome /\ catalog' = catalog /\ saved' = saved
        /\ done'[w] = BatchEnd(w)
        /\ vectors'[p] = IF p \in Batch(w) THEN cur[w] ELSE vectors[p]
    BY <1>3, <1>t DEF UpsertVectors, client, tables, Put
  <2>2. Op(w) # "delete"
    BY <2>1, <1>h DEF Position
  <2>3. ASSUME NEW i \in 1..BatchEnd(w), Items(w)[i] = p PROVE vectors'[p] = cur[w]
    <3>1. i \in 1..done[w] \/ i \in done[w] + 1..BatchEnd(w)
      BY <1>h
    <3>2. i \in done[w] + 1..BatchEnd(w) => p \in Batch(w)
      BY <2>3 DEF Batch, Slice
    <3> QED
      BY <2>1, <2>2, <2>3, <3>1, <3>2 DEF HasVector
  <2>4. HasVector(w, p)'
    BY <2>1, <2>2, <2>3, <1>f DEF HasVector
  <2> QED
    BY <2>1, <2>2, <2>4, <1>f DEF HasSaved
<1>4. CASE ListProducts(w) \/ MergeKeyword(w) \/ Rebuild(w) \/ CountProducts(w)
  <2>1. /\ pc[w] \in {"list", "merge", "rebuild", "count"}
        /\ outcome' = outcome /\ catalog' = catalog /\ vectors' = vectors
        /\ saved' = saved /\ done' = done
    BY <1>4 DEF ListProducts, MergeKeyword, Rebuild, CountProducts, client, tables
  <2> QED
    BY <2>1, <1>f DEF HasSaved, HasVector
<1>5. CASE SetGauge(w) \/ FailJob(w)
  BY <1>5, <1>k DEF SetGauge, FailJob, Reply
<1>6. CASE DeleteRow(w)
  <2>1. /\ pc[w] = "deleteRow" /\ pc'[w] = "deleteVector" /\ outcome' = outcome
        /\ catalog'[p] = 0
    BY <1>6, <1>k, <1>p DEF DeleteRow, client, Put
  <2>2. Op(w) = "delete"
    BY <2>1, <1>h DEF Position
  <2> QED
    BY <2>1, <2>2, <1>f DEF HasSaved, HasVector
<1>7. CASE DeleteVector(w)
  <2>1. /\ pc[w] = "deleteVector" /\ outcome' = outcome /\ catalog' = catalog
        /\ vectors'[p] = 0
    BY <1>7, <1>p DEF DeleteVector, client, tables, Put
  <2>2. Op(w) = "delete"
    BY <2>1, <1>h DEF Position
  <2> QED
    BY <2>1, <2>2, <1>f DEF HasSaved, HasVector
<1> QED
  BY <1>1, <1>2, <1>3, <1>4, <1>5, <1>6, <1>7 DEF Works

\* When it has come to its last step they hold all of it.
LEMMA OwnEnd ==
    ASSUME Inv, NEW w \in Workers, pc[w] = "gauge",
           NEW p \in ProductIds, Touches(cur[w], p), HasSaved(w, p), HasVector(w, p)
    PROVE  catalog[p] = Version(cur[w]) /\ vectors[p] = Version(cur[w])
<1>1. /\ Total(w) \in Nat /\ Items(w) \in Seq(ProductIds) /\ Total(w) = Len(Items(w))
      /\ Op(w) = request[cur[w]].op
      /\ saved[w] \in Nat /\ done[w] \in Nat /\ done[w] <= saved[w] /\ saved[w] <= Total(w)
      /\ Op(w) # "delete" => done[w] = Total(w)
  BY HandFacts DEF Position
<1>2. PICK i \in 1..Total(w) : Items(w)[i] = p
  BY <1>1 DEF Touches, Items
<1>3. Version(cur[w]) = IF Op(w) = "delete" THEN 0 ELSE cur[w]
  BY <1>1 DEF Version
<1>4. catalog[p] = Version(cur[w])
  BY <1>1, <1>2, <1>3 DEF HasSaved
<1>5. vectors[p] = Version(cur[w])
  BY <1>1, <1>2, <1>3 DEF HasVector
<1> QED
  BY <1>4, <1>5

\* A step of any other request leaves the product's entries.
LEMMA EntriesStay ==
    ASSUME Inv, NEW w \in Workers, Works(w) \/ Fails(w),
           NEW p \in ProductIds, ~Touches(cur[w], p)
    PROVE  catalog'[p] = catalog[p] /\ vectors'[p] = vectors[p]
BY ApartWorks, ApartFails

\* A thread at work changes neither what requests met nor the last start.
LEMMA TimingStays ==
    ASSUME Inv, NEW w \in Workers, Works(w) \/ Fails(w)
    PROVE  met' = met /\ bootedAt' = bootedAt /\ Keeps(w) /\ request' = request
<1>1. Keeps(w)
  BY WorksKeeps, FailsKeeps DEF Inv
<1>2. timing' = timing
  BY DEF Works, Fails, CreateJob, StartJob, Persist, UpsertVectors, SaveProgress, ListProducts,
         MergeKeyword, Rebuild, CompleteJob, CountProducts, SetGauge, FailJob, DeleteRow,
         DeleteVector, SaveFails, VectorFails, DeleteVectorFails, RebuildFails, RawFails
<1> QED
  BY <1>1, <1>2 DEF timing, Keeps

-----------------------------------------------------------------------------
(***************************************************************************)
(* Requests that interleave, but not over one product.  The invariant says *)
(* whom a request in hand can have met, and what the stores hold so far of *)
(* a product it has to itself.                                             *)
(***************************************************************************)

\* No other request over product p was under way when r came, or came later.
Alone(r, p) ==
    /\ Touches(r, p)
    /\ \A other \in met[r] \cup (r + 1..MaxRequests) : ~Touches(other, p)

\* A request in hand was met by every later one.
MeetsLater == \A w \in Workers : pc[w] # "idle" =>
    \A r \in Requests : cur[w] < r /\ r <= issued => cur[w] \in met[r]

AloneInHand == \A w \in Workers, p \in ProductIds :
    pc[w] \notin {"idle", "fail"} /\ Alone(cur[w], p) => HasSaved(w, p) /\ HasVector(w, p)

AloneAgree == \A r \in Requests, p \in ProductIds :
    outcome[r] = "ok" /\ Alone(r, p) =>
        /\ catalog[p] = Version(r)
        /\ ~VolatileVectors \/ r > bootedAt => vectors[p] = Version(r)

Apart == MeetsLater /\ AloneInHand /\ AloneAgree

\* A request that has a product to itself is not disturbed by another's step.
LEMMA NobodyElse ==
    ASSUME Inv, MeetsLater, NEW w \in Workers, pc[w] # "idle",
           NEW r \in Requests, r <= issued, r # cur[w],
           NEW p \in ProductIds, Alone(r, p)
    PROVE  ~Touches(cur[w], p)
<1>1. cur[w] \in Requests /\ cur[w] \in Nat /\ r \in Nat /\ cur[w] <= MaxRequests
  BY HandFacts, ConstantsAssumption DEF Requests
<1>2. CASE cur[w] < r
  BY <1>2 DEF MeetsLater, Alone
<1>3. CASE cur[w] > r
  BY <1>1, <1>3, ConstantsAssumption DEF Alone
<1> QED
  BY <1>1, <1>2, <1>3

LEMMA ApartSteps ==
    ASSUME Inv, Apart, NEW w \in Workers, Works(w) \/ Fails(w)
    PROVE  Apart'
<1>k. /\ Keeps(w) /\ pc[w] # "idle" /\ met' = met /\ bootedAt' = bootedAt
      /\ request' = request /\ issued' = issued
  BY TimingStays DEF Keeps
<1>c. cur[w] \in Requests
  BY <1>k, HandFacts
<1>a. \A r, p : Alone(r, p)' <=> Alone(r, p)
  BY <1>k DEF Alone, Touches
<1>1. MeetsLater'
  BY <1>k DEF MeetsLater, Apart, Keeps
<1>2. ASSUME NEW v \in Workers, NEW p \in ProductIds,
             pc'[v] \notin {"idle", "fail"}, Alone(cur'[v], p)
      PROVE  HasSaved(v, p)' /\ HasVector(v, p)'
  <2>1. CASE v = w
    <3>1. Works(w)
      BY <1>2, <2>1, FailsEnd
    <3>2. cur'[w] = cur[w]
      BY <1>k, <1>2, <2>1 DEF Keeps
    <3>3. pc[w] # "fail" => HasSaved(w, p) /\ HasVector(w, p)
      BY <1>k, <1>2, <2>1, <3>2 DEF Apart, AloneInHand
    <3> QED
      BY <1>2, <2>1, <3>1, <3>2, <3>3, OwnProgress DEF Alone
  <2>2. CASE v # w
    <3>1. pc'[v] = pc[v] /\ cur'[v] = cur[v] /\ saved'[v] = saved[v] /\ done'[v] = done[v]
      BY <1>k, <2>2 DEF Keeps
    <3>2. cur[v] \in Requests /\ cur[v] <= issued /\ cur[v] # cur[w]
      BY <1>k, <1>2, <2>2, <3>1, HandFacts DEF Inv, Stages, Stage, Serves, TypeInv, TypeOK, Versions
    <3>3. ~Touches(cur[w], p)
      BY <1>k, <1>2, <3>1, <3>2, NobodyElse DEF Apart
    <3>4. catalog'[p] = catalog[p] /\ vectors'[p] = vectors[p]
      BY <3>3, EntriesStay
    <3>5. HasSaved(v, p) /\ HasVector(v, p)
      BY <1>2, <3>1 DEF Apart, AloneInHand
    <3> QED
      BY <1>k, <3>1, <3>4, <3>5 DEF HasSaved, HasVector, Op, Items
  <2> QED
    BY <2>1, <2>2
<1>3. ASSUME NEW r \in Requests, NEW p \in ProductIds, outcome'[r] = "ok", Alone(r, p)
      PROVE  /\ catalog'[p] = Version(r)
             /\ ~VolatileVectors \/ r > bootedAt => vectors'[p] = Version(r)
  <2>1. CASE r = cur[w]
    <3>1. SetGauge(w)
      BY <1>3, <2>1, OkFromGauge
    <3>2. pc[w] = "gauge" /\ catalog' = catalog /\ vectors' = vectors
      BY <3>1 DEF SetGauge, tables
    <3>3. HasSaved(w, p) /\ HasVector(w, p)
      BY <1>3, <2>1, <3>2 DEF Apart, AloneInHand
    <3> QED
      BY <1>3, <2>1, <3>2, <3>3, OwnEnd DEF Alone
  <2>2. CASE r # cur[w]
    <3>1. outcome[r] = "ok"
      BY <1>3, <2>2, <1>k DEF Keeps
    <3>2. r <= issued
      BY <3>1, ConstantsAssumption
      DEF Inv, Stages, Fresh, TypeInv, TypeOK, Versions, Requests
    <3>3. ~Touches(cur[w], p)
      BY <1>k, <1>3, <2>2, <3>2, NobodyElse DEF Apart
    <3>4. catalog'[p] = catalog[p] /\ vectors'[p] = vectors[p]
      BY <3>3, EntriesStay
    <3> QED
      BY <1>3, <3>1, <3>4 DEF Apart, AloneAgree
  <2> QED
    BY <2>1, <2>2
<1>4. \A r : Version(r)' = Version(r)
  BY <1>k DEF Version
<1> QED
  BY <1>k, <1>a, <1>1, <1>2, <1>3, <1>4 DEF Apart, AloneInHand, AloneAgree

\* A request that comes meets those in hand, and has done nothing yet.
LEMMA ApartReceive ==
    ASSUME Inv, Apart, NEW w \in Workers, NEW op \in Operations, NEW list \in Lists(op),
           Receive(w, op, list)
    PROVE  Apart'
<1>1. /\ issued \in Nat /\ issued' = issued + 1 /\ issued' \in Requests
      /\ bootedAt' = bootedAt /\ catalog' = catalog /\ vectors' = vectors
      /\ saved' = saved /\ done' = done
      /\ outcome'[issued'] = "open"
      /\ \A r \in Requests \ {issued'} :
            request'[r] = request[r] /\ outcome'[r] = outcome[r] /\ met'[r] = met[r]
      /\ met'[issued'] = {r \in Requests : outcome[r] = "open"}
      /\ request'[issued'] = [op |-> op, list |-> list]
      /\ pc[w] = "idle" /\ pc'[w] = FirstStep[op] /\ cur'[w] = issued'
      /\ \A v \in Workers \ {w} : pc'[v] = pc[v] /\ cur'[v] = cur[v]
  BY ConstantsAssumption
  DEF Receive, Inv, TypeInv, TypeOK, Goto, tables, timing, Requests, Versions
<1>2. /\ op \in {"index", "upsert", "delete"}
      /\ op = "index" => pc'[w] = "create"
      /\ op = "upsert" => pc'[w] = "persist"
      /\ op = "delete" => pc'[w] = "deleteRow"
  BY <1>1 DEF Operations, FirstStep
<1>b. ASSUME NEW v \in Workers, pc[v] # "idle"
      PROVE  cur[v] \in Requests /\ cur[v] < issued' /\ outcome[cur[v]] = "open"
  BY <1>b, <1>1, HandFacts
<1>e. request[issued'].list = <<>>
  BY <1>1 DEF Inv, Stages, Fresh, NoRequest
<1>a. ASSUME NEW r \in Requests, r # issued', NEW p \in ProductIds, Alone(r, p)'
      PROVE  Alone(r, p)
  <2>1. Touches(r, p) /\ met'[r] = met[r] /\ met[r] \subseteq Requests
    BY <1>1, <1>a DEF Alone, Touches, Inv, TypeInv, TypeOK
  <2>2. ASSUME NEW other \in met[r] \cup (r + 1..MaxRequests) PROVE ~Touches(other, p)
    <3>1. other \in Requests
      BY <2>1, <2>2, ConstantsAssumption DEF Requests
    <3>2. CASE other = issued'
      BY <3>2, <1>e DEF Touches
    <3>3. CASE other # issued'
      <4>1. ~Touches(other, p)'
        BY <1>a, <2>1 DEF Alone
      <4> QED
        BY <4>1, <3>1, <3>3, <1>1 DEF Touches
    <3> QED
      BY <3>2, <3>3
  <2> QED
    BY <2>1, <2>2 DEF Alone
<1>3. MeetsLater'
  <2> SUFFICES ASSUME NEW v \in Workers, pc'[v] # "idle", NEW r \in Requests,
                      cur'[v] < r, r <= issued'
               PROVE  cur'[v] \in met'[r]
    BY DEF MeetsLater
  <2>1. v # w
    BY <1>1 DEF Requests
  <2>2. pc[v] # "idle" /\ cur'[v] = cur[v]
    BY <1>1, <2>1
  <2>3. CASE r = issued'
    BY <1>1, <1>b, <2>2, <2>3
  <2>4. CASE r # issued'
    <3>1. r <= issued
      BY <1>1, <2>4, ConstantsAssumption DEF Requests
    <3> QED
      BY <1>1, <2>2, <2>4, <3>1 DEF Apart, MeetsLater
  <2> QED
    BY <2>3, <2>4
<1>4. ASSUME NEW v \in Workers, NEW p \in ProductIds,
             pc'[v] \notin {"idle", "fail"}, Alone(cur[v], p)', v # w
      PROVE  HasSaved(v, p)' /\ HasVector(v, p)'
  <2>1. pc'[v] = pc[v] /\ cur'[v] = cur[v]
    BY <1>1, <1>4
  <2>2. cur[v] \in Requests /\ cur[v] # issued'
    BY <1>1, <1>4, <1>b, <2>1
  <2>3. HasSaved(v, p) /\ HasVector(v, p)
    BY <1>4, <1>a, <2>1, <2>2 DEF Apart, AloneInHand
  <2>4. Op(v)' = Op(v) /\ Items(v)' = Items(v)
    BY <1>1, <2>1, <2>2 DEF Op, Items
  <2> QED
    BY <1>1, <2>1, <2>3, <2>4 DEF HasSaved, HasVector
<1>5. ASSUME NEW p \in ProductIds PROVE HasSaved(w, p)' /\ HasVector(w, p)'
  <2>1. saved'[w] = 0 /\ done'[w] = 0 /\ Op(w)' = op
    BY <1>1 DEF Inv, Stages, Stage, Op
  <2> QED
    BY <1>2, <2>1 DEF HasSaved, HasVector
<1>6. AloneInHand'
  <2>1. \A v \in Workers \ {w} : pc'[v] # "idle" => cur'[v] = cur[v]
    BY <1>1
  <2> QED
    BY <1>4, <1>5, <2>1 DEF AloneInHand
<1>7. AloneAgree'
  <2> SUFFICES ASSUME NEW r \in Requests, NEW p \in ProductIds,
                      outcome'[r] = "ok", Alone(r, p)'
               PROVE  /\ catalog'[p] = Version(r)'
                      /\ ~VolatileVectors \/ r > bootedAt' => vectors'[p] = Version(r)'
    BY DEF AloneAgree
  <2>1. r # issued' /\ outcome[r] = "ok" /\ Version(r)' = Version(r)
    BY <1>1 DEF Version
  <2> QED
    BY <1>1, <1>a, <2>1 DEF Apart, AloneAgree
<1> QED
  BY <1>3, <1>6, <1>7 DEF Apart

\* Nobody is at work after a restart, and vectors of the process are gone.
LEMMA ApartRestart ==
    ASSUME Inv, Apart, Restart
    PROVE  Apart'
<1>1. /\ bootedAt' = issued /\ met' = met /\ request' = request /\ catalog' = catalog
      /\ ~VolatileVectors => vectors' = vectors
      /\ \A w \in Workers : pc'[w] = "idle"
      /\ \A r \in Requests : outcome'[r] = "ok" => outcome[r] = "ok"
  BY DEF Restart, tables
<1>2. \A r \in Requests : outcome[r] = "ok" => ~(r > issued)
  BY DEF Inv, Stages, Fresh
<1>3. \A r, p : (Alone(r, p)' <=> Alone(r, p)) /\ Version(r)' = Version(r)
  BY <1>1 DEF Alone, Touches, Version
<1>4. AloneAgree'
  BY <1>1, <1>2, <1>3 DEF Apart, AloneAgree
<1> QED
  BY <1>1, <1>4 DEF Apart, MeetsLater, AloneInHand

LEMMA ApartStep == Inv /\ Apart /\ [Next]_vars => Apart'
<1> SUFFICES ASSUME Inv, Apart, [Next]_vars PROVE Apart'
  OBVIOUS
<1>1. ASSUME UNCHANGED vars PROVE Apart'
  BY <1>1
  DEF vars, tables, client, locals, timing, Apart, MeetsLater, AloneInHand, AloneAgree, Alone,
      HasSaved, HasVector, Version, Touches, Op, Items
<1> QED
  BY <1>1, ApartSteps, ApartReceive, ApartRestart DEF Next, Quiet

\* Any number of threads run index_catalog, upsert_product and delete_product at
\* once: what a request said of a product no other request had in hand meanwhile or
\* names since is what SQLite holds, and the vectors as long as they are not lost.
THEOREM ApartStoresAgree == Spec => []ApartAgreement
<1>1. Init => Apart
  BY DEF Init, Apart, MeetsLater, AloneInHand, AloneAgree
<1>2. Spec => []Apart
  BY <1>1, Invariant, ApartStep, PTL DEF Spec
<1>3. Apart => ApartAgreement
  BY DEF Apart, AloneAgree, Alone, ApartAgreement, Version
<1> QED
  BY <1>2, <1>3, PTL

-----------------------------------------------------------------------------
(***************************************************************************)
(* Requests served one at a time, with a listing that is not cut: the      *)
(* keyword index and the gauge agree too.  The invariant says what the     *)
(* request in hand has brought about so far, of every product it names.    *)
(***************************************************************************)

\* Request r was the last to name product p since the process started, and succeeded.
Settled(r, p) ==
    /\ r > bootedAt /\ outcome[r] = "ok" /\ Touches(r, p)
    /\ \A later \in r + 1..MaxRequests : ~Touches(later, p)

\* The stores hold what settled requests said, and so does a map about to be served.
SettledAgree ==
    \A r \in Requests, p \in ProductIds : Settled(r, p) =>
        /\ catalog[p] = Version(r) /\ vectors[p] = Version(r) /\ keyword[p] = Version(r)
        /\ \A w \in Workers : pc[w] = "rebuild" => snap[w][p] = Version(r)

\* The request in hand is the last one received.
Newest(w) == pc[w] # "idle" => cur[w] = issued /\ bootedAt < issued

\* How far the keyword index has what the request in hand says of product p.
HasKeyword(w, p) ==
    /\ pc[w] = "rebuild" => snap[w][p] = Version(cur[w])
    /\ pc[w] \in {"complete", "count", "gauge"} => keyword[p] = Version(cur[w])

Brought(w, p) == HasSaved(w, p) /\ HasVector(w, p) /\ HasKeyword(w, p)

InHand(w) ==
    pc[w] \notin {"idle", "fail"} =>
        /\ \A p \in ProductIds : Touches(cur[w], p) => Brought(w, p)
        /\ pc[w] = "gauge" => counted[w] = Cardinality(Rows)

\* The gauge counts the rows after a success.
GaugeAgrees == issued > bootedAt /\ outcome[issued] = "ok" => gauge = Cardinality(Rows)

Serial ==
    /\ \A w \in Workers : Newest(w) /\ InHand(w)
    /\ SettledAgree /\ GaugeAgrees
    /\ bootedAt <= issued

\* A listing that is not cut is the table.
LEMMA ListsAll ==
    ASSUME Inv, Cardinality(ProductIds) <= ListLimit, NEW w \in Workers, ListProducts(w)
    PROVE  snap'[w] = catalog
<1>1. /\ IsFiniteSet(Rows) /\ Rows \subseteq ProductIds
      /\ Cardinality(Rows) \in Nat /\ Cardinality(Rows) <= ListLimit
  <2>1. IsFiniteSet(ProductIds) /\ Rows \subseteq ProductIds
    BY ConstantsAssumption DEF Rows
  <2>2. IsFiniteSet(Rows) /\ Cardinality(Rows) <= Cardinality(ProductIds)
    BY <2>1, FS_Subset
  <2> QED
    BY <2>1, <2>2, FS_CardinalityType, ConstantsAssumption
<1>2. PICK listed \in SUBSET Rows :
        /\ \/ listed = Rows /\ Cardinality(Rows) <= ListLimit
           \/ Cardinality(listed) = ListLimit
        /\ snap' = [snap EXCEPT ![w] = Put(catalog, ProductIds \ listed, 0)]
  BY DEF ListProducts
<1>3. listed = Rows
  <2>1. IsFiniteSet(listed) /\ Cardinality(listed) <= Cardinality(Rows)
    BY <1>1, FS_Subset
  <2>2. CASE Cardinality(listed) = ListLimit
    <3>1. Cardinality(listed) = Cardinality(Rows)
      BY <1>1, <2>1, <2>2, ConstantsAssumption
    <3> QED
      BY <1>1, <3>1, FS_Subset
  <2> QED
    BY <1>2, <2>2
<1>4. snap'[w] = Put(catalog, ProductIds \ Rows, 0)
  BY <1>2, <1>3 DEF Inv, TypeInv, TypeOK
<1>5. catalog \in [ProductIds -> Versions]
  BY DEF Inv, TypeInv, TypeOK, Contents
<1> QED
  BY <1>4, <1>5 DEF Put, Rows

\* Each step of the request in hand adds its part to what the stores hold of a
\* product it names.
LEMMA KeywordWorks ==
    ASSUME Inv, Cardinality(ProductIds) <= ListLimit, NEW w \in Workers, Works(w),
           pc'[w] # "idle", NEW p \in ProductIds, Touches(cur[w], p),
           pc[w] # "fail" => Brought(w, p)
    PROVE  HasKeyword(w, p)'
<1>k. Keeps(w) /\ pc[w] # "idle" /\ pc \in [Workers -> Steps] /\ snap \in [Workers -> Contents]
  BY WorksKeeps DEF Inv, Keeps, TypeInv, TypeOK
<1>h. /\ Items(w) \in Seq(ProductIds) /\ Total(w) = Len(Items(w)) /\ Total(w) \in Nat
      /\ cur[w] \in Requests /\ Op(w) = request[cur[w]].op
      /\ Op(w) \in {"index", "upsert", "delete"}
      /\ saved[w] \in Nat /\ done[w] \in Nat /\ done[w] <= saved[w] /\ saved[w] <= Total(w)
      /\ Position(w)
  BY <1>k, HandFacts
<1>i. PICK i \in 1..Total(w) : Items(w)[i] = p
  BY <1>h DEF Touches, Items
<1>p. p \in Slice(w, 1, Total(w))
  BY <1>i DEF Slice
<1>f. ASSUME outcome' = outcome
      PROVE  cur'[w] = cur[w] /\ Version(cur[w])' = Version(cur[w])
  BY <1>f, <1>k, HandStays
<1>d. Version(cur[w]) = IF Op(w) = "delete" THEN 0 ELSE cur[w]
  BY <1>h DEF Version
<1> USE DEF Goto
<1>1. CASE CreateJob(w) \/ StartJob(w) \/ SaveProgress(w) \/ CompleteJob(w) \/ CountProducts(w)
  <2>1. /\ pc'[w] \in {"start", "persist", "list", "count", "gauge"}
        /\ pc'[w] \in {"count", "gauge"} => pc[w] \in {"complete", "count"}
        /\ outcome' = outcome /\ keyword' = keyword
    BY <1>1, <1>k
    DEF CreateJob, StartJob, SaveProgress, CompleteJob, CountProducts, NextBatch, client
  <2> QED
    BY <2>1, <1>f DEF Brought, HasKeyword
<1>2. CASE Persist(w) \/ UpsertVectors(w) \/ DeleteRow(w) \/ DeleteVector(w)
  <2>1. pc'[w] \in {"persist", "vector", "progress", "merge", "deleteVector"}
    BY <1>2, <1>k DEF Persist, UpsertVectors, DeleteRow, DeleteVector
  <2> QED
    BY <2>1 DEF HasKeyword
<1>3. CASE ListProducts(w)
  <2>1. pc[w] = "list" /\ pc'[w] = "rebuild" /\ outcome' = outcome /\ snap'[w] = catalog
    BY <1>3, <1>k, ListsAll DEF ListProducts, client
  <2>2. Op(w) = "index" /\ saved[w] = Total(w)
    BY <2>1, <1>h DEF Position
  <2>3. catalog[p] = Version(cur[w])
    BY <2>1, <2>2, <1>i, <1>d DEF Brought, HasSaved
  <2> QED
    BY <2>1, <2>3, <1>f DEF HasKeyword
<1>4. CASE MergeKeyword(w)
  <2>1. /\ pc[w] = "merge" /\ pc'[w] = "rebuild" /\ outcome' = outcome
        /\ snap'[w][p] = IF Op(w) = "upsert" THEN cur[w] ELSE 0
    BY <1>4, <1>k, <1>p DEF MergeKeyword, client, Put
  <2>2. Op(w) # "index"
    BY <2>1, <1>h DEF Position
  <2> QED
    BY <2>1, <2>2, <1>d, <1>h, <1>f DEF HasKeyword
<1>5. CASE Rebuild(w)
  <2>1. /\ pc[w] = "rebuild" /\ pc'[w] \in {"complete", "count"} /\ outcome' = outcome
        /\ keyword' = snap[w]
    BY <1>5, <1>k DEF Rebuild, client
  <2> QED
    BY <2>1, <1>f DEF Brought, HasKeyword
<1>6. CASE SetGauge(w) \/ FailJob(w)
  BY <1>6, <1>k DEF SetGauge, FailJob, Reply
<1> QED
  BY <1>1, <1>2, <1>3, <1>4, <1>5, <1>6 DEF Works

LEMMA InHandWorks ==
    ASSUME Inv, Cardinality(ProductIds) <= ListLimit, NEW w \in Workers, InHand(w), Works(w)
    PROVE  InHand(w)'
<1> SUFFICES ASSUME pc'[w] \notin {"idle", "fail"}
             PROVE  /\ \A p \in ProductIds : Touches(cur[w], p)' => Brought(w, p)'
                    /\ pc'[w] = "gauge" => counted'[w] = Cardinality(Rows)'
  BY DEF InHand
<1>k. /\ Keeps(w) /\ pc[w] # "idle" /\ pc \in [Workers -> Steps]
      /\ counted \in [Workers -> Nat]
  BY WorksKeeps DEF Inv, Keeps, TypeInv, TypeOK
<1>1. ASSUME NEW p \in ProductIds, Touches(cur[w], p)' PROVE Brought(w, p)'
  <2>1. Touches(cur[w], p)
    BY <1>1, <1>k DEF Keeps, Touches
  <2>2. pc[w] # "fail" => Brought(w, p)
    BY <2>1, <1>k DEF InHand
  <2> QED
    BY <2>1, <2>2, OwnProgress, KeywordWorks DEF Brought
<1>2. ASSUME pc'[w] = "gauge" PROVE counted'[w] = Cardinality(Rows)'
  <2>1. CountProducts(w)
    BY <1>2, <1>k
    DEF Works, CreateJob, StartJob, Persist, UpsertVectors, SaveProgress, ListProducts,
        MergeKeyword, Rebuild, CompleteJob, SetGauge, FailJob, DeleteRow, DeleteVector,
        NextBatch, Goto, Reply
  <2> QED
    BY <2>1, <1>k DEF CountProducts, tables, Rows
<1> QED
  BY <1>1, <1>2

\* The request in hand stays the last one received.
LEMMA NewestStays ==
    ASSUME Inv, NEW w \in Workers, Newest(w), Works(w) \/ Fails(w)
    PROVE  Newest(w)' /\ bootedAt' = bootedAt
BY TimingStays DEF Newest, Keeps

\* The request in hand settles its products with its last step.
LEMMA SettlesOwn ==
    ASSUME Inv, NEW w \in Workers, InHand(w), SetGauge(w), NEW p \in ProductIds,
           Touches(cur[w], p)
    PROVE  /\ catalog'[p] = Version(cur[w]) /\ vectors'[p] = Version(cur[w])
           /\ keyword'[p] = Version(cur[w])
<1>1. /\ pc[w] = "gauge" /\ catalog' = catalog /\ vectors' = vectors /\ keyword' = keyword
  BY DEF SetGauge, tables
<1>2. Brought(w, p)
  BY <1>1 DEF InHand
<1> QED
  BY <1>1, <1>2, OwnEnd DEF Brought, HasKeyword

\* A step of the only thread keeps what settled requests said.
LEMMA SettledSteps ==
    ASSUME Inv, SettledAgree, Cardinality(ProductIds) <= ListLimit,
           \A v, u \in Workers : v = u,
           NEW w \in Workers, Newest(w), InHand(w), Works(w) \/ Fails(w)
    PROVE  SettledAgree'
<1>k. Keeps(w) /\ pc[w] # "idle" /\ bootedAt' = bootedAt /\ request' = request
  BY WorksKeeps, FailsKeeps, NewestStays DEF Inv, Keeps
<1>h. cur[w] \in Requests /\ cur[w] = issued /\ outcome[cur[w]] = "open"
  BY <1>k, HandFacts DEF Newest
<1> SUFFICES ASSUME NEW r \in Requests, NEW p \in ProductIds, Settled(r, p)'
             PROVE  /\ catalog'[p] = Version(r)' /\ vectors'[p] = Version(r)'
                    /\ keyword'[p] = Version(r)'
                    /\ \A v \in Workers : pc'[v] = "rebuild" => snap'[v][p] = Version(r)'
  BY DEF SettledAgree
<1>1. /\ Version(r)' = Version(r)
      /\ r > bootedAt /\ outcome'[r] = "ok" /\ Touches(r, p)
      /\ \A later \in r + 1..MaxRequests : ~Touches(later, p)
  BY <1>k DEF Version, Settled, Touches
<1>2. CASE r = cur[w]
  <2>1. SetGauge(w)
    BY <1>1, <1>2, OkFromGauge
  <2>2. pc'[w] = "idle"
    BY <2>1 DEF SetGauge, Reply, Goto, Inv, TypeInv, TypeOK
  <2> QED
    BY <1>1, <1>2, <2>1, <2>2, SettlesOwn
<1>3. CASE r # cur[w]
  <2>1. outcome[r] = "ok"
    BY <1>1, <1>3, <1>k DEF Keeps
  <2>2. Settled(r, p)
    BY <1>1, <2>1 DEF Settled
  <2>3. /\ catalog[p] = Version(r) /\ vectors[p] = Version(r) /\ keyword[p] = Version(r)
        /\ pc[w] = "rebuild" => snap[w][p] = Version(r)
    BY <2>2 DEF SettledAgree
  <2>4. cur[w] \in r + 1..MaxRequests
    <3>1. ~(r > issued)
      BY <2>1 DEF Inv, Stages, Fresh
    <3> QED
      BY <3>1, <1>3, <1>h, ConstantsAssumption DEF Requests
  <2>5. ~Touches(cur[w], p)
    BY <1>1, <2>4
  <2>6. /\ catalog'[p] = catalog[p] /\ vectors'[p] = vectors[p]
        /\ keyword'[p] = keyword[p] \/ (pc[w] = "rebuild" /\ keyword'[p] = snap[w][p])
        /\ pc'[w] = "rebuild" => snap'[w][p] \in {catalog[p], keyword[p]}
    <3>1. CASE Works(w)
      BY <3>1, <2>5, ApartWorks, ListsAll
    <3>2. CASE Fails(w)
      BY <3>2, <2>5, ApartFails
    <3> QED
      BY <3>1, <3>2
  <2> QED
    BY <1>1, <2>3, <2>6
<1> QED
  BY <1>2, <1>3

LEMMA SerialSteps ==
    ASSUME Inv, Serial, Cardinality(ProductIds) <= ListLimit, \A v, u \in Workers : v = u,
           NEW w \in Workers, Works(w) \/ Fails(w)
    PROVE  Serial'
<1>k. Keeps(w) /\ pc[w] # "idle" /\ Newest(w) /\ InHand(w)
  BY WorksKeeps, FailsKeeps DEF Inv, Keeps, Serial
<1>1. Newest(w)' /\ bootedAt' = bootedAt /\ issued' = issued
  BY <1>k, NewestStays DEF Keeps
<1>2. InHand(w)'
  <2>1. CASE Works(w)
    BY <2>1, <1>k, InHandWorks
  <2>2. CASE Fails(w)
    BY <2>2, FailsEnd DEF InHand
  <2> QED
    BY <2>1, <2>2
<1>3. SettledAgree'
  BY <1>k, SettledSteps DEF Serial
<1>4. GaugeAgrees'
  <2> SUFFICES ASSUME outcome'[issued] = "ok"
               PROVE  gauge' = Cardinality(Rows)'
    BY <1>1 DEF GaugeAgrees
  <2>1. SetGauge(w) /\ pc[w] = "gauge"
    <3>1. cur[w] = issued
      BY <1>k DEF Newest
    <3>2. SetGauge(w)
      BY <3>1, OkFromGauge
    <3> QED
      BY <3>2 DEF SetGauge
  <2>2. gauge' = counted[w] /\ catalog' = catalog
    BY <2>1 DEF SetGauge, tables
  <2>3. counted[w] = Cardinality(Rows)
    BY <2>1, <1>k DEF InHand
  <2> QED
    BY <2>2, <2>3 DEF Rows
<1> QED
  BY <1>1, <1>2, <1>3, <1>4 DEF Serial

\* A request that comes names products nobody has in hand.
LEMMA SerialReceive ==
    ASSUME Inv, Serial, \A v, u \in Workers : v = u,
           NEW w \in Workers, NEW op \in Operations, NEW list \in Lists(op), Receive(w, op, list)
    PROVE  Serial'
<1>1. /\ issued \in Nat /\ bootedAt \in Nat /\ issued' = issued + 1 /\ issued' \in Requests
      /\ bootedAt' = bootedAt /\ catalog' = catalog /\ vectors' = vectors /\ keyword' = keyword
      /\ gauge' = gauge /\ snap' = snap /\ saved' = saved /\ done' = done
      /\ outcome'[issued'] = "open"
      /\ \A r \in Requests \ {issued'} : request'[r] = request[r] /\ outcome'[r] = outcome[r]
      /\ request'[issued'] = [op |-> op, list |-> list]
      /\ pc[w] = "idle" /\ pc'[w] = FirstStep[op] /\ cur'[w] = issued'
  BY ConstantsAssumption
  DEF Receive, Inv, TypeInv, TypeOK, Goto, tables, timing, Requests, Versions
<1>2. /\ op \in {"index", "upsert", "delete"}
      /\ op = "index" => pc'[w] = "create"
      /\ op = "upsert" => pc'[w] = "persist"
      /\ op = "delete" => pc'[w] = "deleteRow"
  BY <1>1 DEF Operations, FirstStep
<1>3. Op(w)' = op
  BY <1>1 DEF Op
<1>4. Newest(w)'
  BY <1>1 DEF Newest, Serial
<1>5. InHand(w)'
  <2>1. saved'[w] = 0 /\ done'[w] = 0
    BY <1>1 DEF Inv, Stages, Stage
  <2> QED
    BY <2>1, <1>1, <1>2, <1>3 DEF InHand, Brought, HasSaved, HasVector, HasKeyword
<1>6. SettledAgree'
  <2> SUFFICES ASSUME NEW r \in Requests, NEW p \in ProductIds, Settled(r, p)'
               PROVE  /\ catalog[p] = Version(r)' /\ vectors[p] = Version(r)'
                      /\ keyword[p] = Version(r)'
    BY <1>1, <1>2 DEF SettledAgree
  <2>1. r # issued'
    BY <1>1 DEF Settled
  <2>2. Version(r)' = Version(r)
    BY <1>1, <2>1 DEF Version
  <2>3. r > bootedAt /\ outcome[r] = "ok" /\ Touches(r, p)
    BY <1>1, <2>1 DEF Settled, Touches
  <2>4. ASSUME NEW later \in r + 1..MaxRequests PROVE ~Touches(later, p)
    <3>1. later \in Requests
      BY <2>4, ConstantsAssumption DEF Requests
    <3>2. CASE later = issued'
      <4>1. request[later].list = <<>>
        BY <3>1, <3>2, <1>1 DEF Inv, Stages, Fresh, NoRequest
      <4> QED
        BY <4>1 DEF Touches
    <3>3. CASE later # issued'
      <4>1. ~Touches(later, p)'
        BY <2>4 DEF Settled
      <4> QED
        BY <4>1, <3>1, <3>3, <1>1 DEF Touches
    <3> QED
      BY <3>2, <3>3
  <2> QED
    BY <2>2, <2>3, <2>4 DEF Settled, Serial, SettledAgree
<1>7. GaugeAgrees' /\ bootedAt' <= issued'
  BY <1>1 DEF GaugeAgrees, Serial
<1> QED
  BY <1>4, <1>5, <1>6, <1>7 DEF Serial

LEMMA SerialStep ==
    ASSUME Cardinality(ProductIds) <= ListLimit, \A v, u \in Workers : v = u
    PROVE  Inv /\ Serial /\ [Next]_vars => Serial'
<1> SUFFICES ASSUME Inv, Serial, [Next]_vars PROVE Serial'
  OBVIOUS
<1>1. ASSUME Restart PROVE Serial'
  <2>1. /\ bootedAt' = issued /\ issued' = issued /\ issued \in Nat
        /\ \A w \in Workers : pc'[w] = "idle"
        /\ \A r \in Requests : outcome'[r] = "ok" => outcome[r] = "ok"
    BY <1>1 DEF Restart, Inv, TypeInv, TypeOK, Versions
  <2>2. \A r \in Requests, p \in ProductIds : ~Settled(r, p)'
    BY <2>1 DEF Settled, Inv, Stages, Fresh
  <2> QED
    BY <2>1, <2>2 DEF Serial, Newest, InHand, SettledAgree, GaugeAgrees
<1>2. ASSUME UNCHANGED vars PROVE Serial'
  <2>1. /\ pc' = pc /\ cur' = cur /\ saved' = saved /\ done' = done /\ snap' = snap
        /\ counted' = counted /\ catalog' = catalog /\ vectors' = vectors
        /\ keyword' = keyword /\ gauge' = gauge /\ request' = request
        /\ outcome' = outcome /\ issued' = issued /\ bootedAt' = bootedAt
    BY <1>2 DEF vars, tables, client, locals, timing
  <2>2. ASSUME NEW w \in Workers PROVE InHand(w)' /\ Newest(w)'
    <3>1. InHand(w) /\ Newest(w)
      BY DEF Serial
    <3> QED
      BY <2>1, <3>1
      DEF InHand, Newest, Brought, HasSaved, HasVector, HasKeyword, Version, Touches, Op,
          Items, Rows
  <2>3. SettledAgree'
    BY <2>1 DEF Serial, SettledAgree, Settled, Version, Touches
  <2>4. GaugeAgrees' /\ bootedAt' <= issued'
    BY <2>1 DEF Serial, GaugeAgrees, Rows
  <2> QED
    BY <2>2, <2>3, <2>4 DEF Serial
<1> QED
  BY <1>1, <1>2, SerialReceive, SerialSteps DEF Next, Quiet

\* index_catalog, upsert_product and delete_product, called one at a time over a
\* table the listing does not cut: whatever failed and restarted before, SQLite,
\* the vectors and the keyword index hold, of every product, the text of the last
\* request that named it and succeeded, and CATALOG_SIZE the number of rows.
THEOREM SerialStoresAgree ==
    ASSUME Cardinality(ProductIds) <= ListLimit, \A v, u \in Workers : v = u
    PROVE  Spec => []SerialAgreement
<1>1. Init => Serial
  BY ConstantsAssumption
  DEF Init, Serial, Newest, InHand, SettledAgree, GaugeAgrees, Settled
<1>2. Spec => [](Inv /\ Serial)
  BY <1>1, Invariant, SerialStep, PTL DEF Spec
<1>3. Inv /\ Serial => SerialAgreement
  <2> SUFFICES ASSUME Inv, Serial PROVE SerialAgreement
    OBVIOUS
  <2>1. bootedAt \in Nat
    BY ConstantsAssumption DEF Inv, TypeInv, TypeOK, Versions
  <2>2. ASSUME NEW r \in bootedAt + 1..MaxRequests, NEW p \in ProductIds,
               outcome[r] = "ok" /\ Touches(r, p),
               \A later \in r + 1..MaxRequests : ~Touches(later, p)
        PROVE  catalog[p] = Version(r) /\ vectors[p] = Version(r) /\ keyword[p] = Version(r)
    <3>1. r \in Requests /\ r > bootedAt
      BY <2>1, ConstantsAssumption DEF Requests
    <3> QED
      BY <2>2, <3>1 DEF Settled, Serial, SettledAgree
  <2> QED
    BY <2>2 DEF SerialAgreement, Serial, GaugeAgrees, Version
<1> QED
  BY <1>2, <1>3, PTL
===============================================================================
