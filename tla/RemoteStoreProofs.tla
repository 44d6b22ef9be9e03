-------------------------- MODULE RemoteStoreProofs --------------------------
(***************************************************************************)
(* For any number of threads, products, calls and restarts, whatever lists *)
(* are passed and whichever requests fail or lose their answers: the       *)
(* stores of RemoteStore implement VectorStore, open no more connections   *)
(* than there are threads, and remember a collection that is there.        *)
(*                                                                         *)
(* The refinement needs to know where a call may stand with part of its    *)
(* work done (Staged): a clear of Qdrant after the drop, an upsert of      *)
(* pgvector between two rows, and no other.                                *)
(***************************************************************************)
EXTENDS RemoteStore, FiniteSetTheorems, SequenceTheorems, TLAPS

Writing == {"upsert", "delete", "clear"}

\* The parts of TypeOK.
Numbers ==
    /\ contents \in [ProductIds -> 0..MaxCalls]
    /\ client \in Nat /\ opened \in Nat
    /\ calls \in 0..MaxCalls /\ restarts \in 0..MaxRestarts
    /\ pc \in [Threads -> Steps]
    /\ op \in [Threads -> {"none", "upsert", "delete", "clear", "read"}]
    /\ call \in [Threads -> 0..calls]
    /\ at \in [Threads -> Nat]
    /\ backend \in Backends
Flags ==
    /\ exists \in BOOLEAN /\ ensured \in BOOLEAN /\ mixed \in BOOLEAN
    /\ \A p \in ProductIds : contents[p] # 0 => exists
    /\ ensured => client # 0

\* TypeOK, and what a call of each kind carries.
Types ==
    /\ Numbers /\ Flags
    /\ list \in [Threads -> Seq(ProductIds)]
    /\ \A t \in Threads :
          /\ op[t] = "none" <=> pc[t] = "idle"
          /\ pc[t] = "idle" => at[t] = 0
          /\ op[t] = "upsert" => call[t] # 0
          /\ op[t] \in {"none", "clear", "read"} => list[t] = <<>>

\* Who is past the point where a client is had, and who drops, does so with one.
Connected ==
    \A t \in Threads :
        /\ \/ pc[t] \in {"drop", "unmark", "look", "create", "mark"}
           \/ pc[t] = "ensure" /\ Dropping(t)
           => client # 0
        /\ pc[t] \in {"drop", "unmark"} => Dropping(t)

Connecting == {t \in Threads : pc[t] = "connect"}

\* Only who came before the first connection was kept adds to their number.
Bounded ==
    /\ opened <= Cardinality(Threads)
    /\ client = 0 => opened = 0
    /\ client # 0 => opened + Cardinality(Connecting) <= Cardinality(Threads)

\* Work done in part: the steps before the request have done none.
Staged ==
    \A t \in Threads :
        /\ pc[t] \in {"client", "connect", "drop"} => at[t] = 0
        /\ pc[t] = "call" => at[t] = 0 \/ (op[t] = "upsert" /\ backend = "pgvector")
        /\ pc[t] \in {"ensure", "look", "create", "mark"} => at[t] = 0 \/ Dropping(t)
        /\ Dropping(t) => pc[t] # "call"

\* While no clear has met another call: who drops is alone, and a collection that is
\* remembered, or is about to be, is there.
Remembered ==
    ~mixed =>
        /\ \A t, u \in Threads : Dropping(t) /\ u # t => pc[u] = "idle"
        /\ \A t \in Threads : pc[t] = "mark" => exists
        /\ ensured => exists \/ \E t \in Threads : pc[t] = "unmark"

Inv == Types /\ Connected /\ Bounded /\ Staged /\ Remembered

-----------------------------------------------------------------------------
LEMMA InitInv == Init => Inv
<1> SUFFICES ASSUME Init PROVE Inv
  OBVIOUS
<1> USE RemoteAssumption DEF RemoteAssumption, Init, Idling
<1>1. Types
  <2>1. Numbers
    BY DEF Numbers, Steps
  <2>2. Flags
    BY DEF Flags
  <2>3. list \in [Threads -> Seq(ProductIds)]
    BY EmptySeq
  <2> QED BY <2>1, <2>2, <2>3 DEF Types
<1>2. Bounded
  BY FS_CardinalityType DEF Bounded
<1>3. Connected /\ Staged /\ Remembered
  BY DEF Connected, Staged, Remembered, Dropping
<1> QED BY <1>1, <1>2, <1>3 DEF Inv

LEMMA ListTypes ==
    /\ \A products \in Lists : products \in Seq(ProductIds)
    /\ \A p \in ProductIds : <<p>> \in Seq(ProductIds)
    /\ <<>> \in Seq(ProductIds)
BY RemoteAssumption, EmptySeq DEF RemoteAssumption

\* The calls a thread may start.
Startable(kind, products) ==
    \/ kind = "upsert" /\ products \in Lists
    \/ kind = "delete" /\ \E p \in ProductIds : products = <<p>>
    \/ kind \in {"clear", "read"} /\ products = <<>>

\* Every step is one of these.
LEMMA StepCases ==
    ASSUME [Next]_vars
    PROVE  \/ \E t \in Threads, kind \in Writing \cup {"read"}, products \in Seq(ProductIds) :
                 Startable(kind, products) /\ Start(t, kind, products)
           \/ \E t \in Threads :
                 \/ Ensure(t) \/ GetClient(t) \/ Connect(t) \/ Look(t) \/ Create(t) \/ Mark(t)
                 \/ Drop(t) \/ Unmark(t) \/ Serve(t)
                 \/ (pc[t] \notin {"idle", "unmark"} /\ Finish(t))
           \/ Restart
           \/ UNCHANGED vars
<1>1. ASSUME NEW t \in Threads, NEW products \in Lists, Start(t, "upsert", products)
      PROVE  \E kind \in Writing \cup {"read"}, list_1 \in Seq(ProductIds) :
                 Startable(kind, list_1) /\ Start(t, kind, list_1)
  BY <1>1, ListTypes DEF Startable, Writing
<1>2. ASSUME NEW t \in Threads, NEW p \in ProductIds, Start(t, "delete", <<p>>)
      PROVE  \E kind \in Writing \cup {"read"}, list_1 \in Seq(ProductIds) :
                 Startable(kind, list_1) /\ Start(t, kind, list_1)
  BY <1>2, ListTypes DEF Startable, Writing
<1>3. ASSUME NEW t \in Threads, NEW kind \in {"clear", "read"}, Start(t, kind, <<>>)
      PROVE  \E other \in Writing \cup {"read"}, list_1 \in Seq(ProductIds) :
                 Startable(other, list_1) /\ Start(t, other, list_1)
  BY <1>3, ListTypes DEF Startable, Writing
<1> QED BY <1>1, <1>2, <1>3 DEF Next, Return, Raise

LEMMA TypesKept ==
    ASSUME Inv, [Next]_vars
    PROVE  Types'
<1> USE RemoteAssumption DEF RemoteAssumption
<1>0. Types /\ Numbers /\ Flags /\ Connected
  BY DEF Inv, Types
<1>1. ASSUME NEW t \in Threads, NEW kind \in Writing \cup {"read"}, NEW products \in Seq(ProductIds),
             Startable(kind, products), Start(t, kind, products)
      PROVE  Types'
  <2>1. /\ calls' \in 1..MaxCalls /\ calls' = calls + 1 /\ calls \in Nat
        /\ call' \in [Threads -> 0..calls']
    BY <1>0, <1>1 DEF Start, Numbers
  <2>2. list' \in [Threads -> Seq(ProductIds)]
    BY <1>0, <1>1 DEF Start, Types
  <2>3. /\ op' \in [Threads -> {"none", "upsert", "delete", "clear", "read"}]
        /\ pc' \in [Threads -> Steps]
    BY <1>0, <1>1 DEF Start, Goto, Numbers, Writing, Steps
  <2>4. Numbers'
    BY <2>1, <2>3, <1>0, <1>1 DEF Start, Numbers, server, process
  <2>5. Flags'
    BY <1>0, <1>1 DEF Start, Flags, server, process
  <2>6. ASSUME NEW u \in Threads
        PROVE  /\ op'[u] = "none" <=> pc'[u] = "idle"
               /\ pc'[u] = "idle" => at'[u] = 0
               /\ op'[u] = "upsert" => call'[u] # 0
               /\ op'[u] \in {"none", "clear", "read"} => list'[u] = <<>>
    BY <2>1, <1>0, <1>1 DEF Start, Goto, Types, Numbers, Writing, Startable
  <2> QED BY <2>2, <2>4, <2>5, <2>6 DEF Types
<1>2. ASSUME NEW t \in Threads,
             Ensure(t) \/ GetClient(t) \/ Connect(t) \/ Look(t) \/ Create(t) \/ Mark(t) \/ Unmark(t)
      PROVE  Types'
  <2>1. /\ UNCHANGED <<request, restarts, at, mixed, backend, contents>>
        /\ pc[t] # "idle"
    BY <1>2 DEF Ensure, GetClient, Connect, Look, Create, Mark, Unmark, server
  <2>2. \E step \in Steps \ {"idle"} : pc' = [pc EXCEPT ![t] = step]
    BY <1>2 DEF Ensure, GetClient, Connect, Look, Create, Mark, Unmark, Goto, Ready, Steps
  <2>3. client' \in Nat /\ opened' \in Nat
    BY <1>0, <1>2 DEF Ensure, GetClient, Connect, Look, Create, Mark, Unmark, process, Numbers
  <2>4. Numbers'
    BY <2>1, <2>2, <2>3, <1>0 DEF Numbers, request
  <2>5. exists' \in BOOLEAN /\ (exists => exists')
    BY <1>0, <1>2 DEF Ensure, GetClient, Connect, Look, Create, Mark, Unmark, server, Flags
  <2>6. ensured' \in BOOLEAN /\ (ensured' => client' # 0)
    <3>1. CASE Connect(t)
      BY <3>1, <1>0 DEF Connect, Flags, Numbers
    <3>2. CASE Mark(t)
      BY <3>2, <1>0 DEF Mark, Connected
    <3>3. CASE Unmark(t)
      BY <3>3, <1>0 DEF Unmark, Flags
    <3>4. CASE Ensure(t) \/ GetClient(t) \/ Look(t) \/ Create(t)
      <4>1. UNCHANGED <<ensured, client>>
        BY <3>4 DEF Ensure, GetClient, Look, Create, process
      <4> QED BY <4>1, <1>0 DEF Flags
    <3> QED BY <3>1, <3>2, <3>3, <3>4, <1>2
  <2>7. Flags'
    BY <2>1, <2>5, <2>6, <1>0 DEF Flags
  <2> QED BY <2>1, <2>2, <2>4, <2>7, <1>0 DEF Types, Numbers, request
<1>3. ASSUME NEW t \in Threads, Drop(t)
      PROVE  Types'
  <2>1. pc' = [pc EXCEPT ![t] = "unmark"] /\ pc[t] # "idle"
    BY <1>3 DEF Drop, Goto
  <2>2. at' \in [Threads -> Nat] /\ \A u \in Threads \ {t} : at'[u] = at[u]
    <3>1. at' = [at EXCEPT ![t] = 1] \/ at' = at
      BY <1>3 DEF Drop
    <3>2. at \in [Threads -> Nat]
      BY <1>0 DEF Numbers
    <3> QED BY <3>1, <3>2
  <2>3. /\ contents' \in [ProductIds -> 0..MaxCalls] /\ exists' \in BOOLEAN
        /\ \A p \in ProductIds : contents'[p] # 0 => exists'
    <3>1. CASE exists' = FALSE /\ Put(ProductIds, 0)
      <4>1. 0 \in 0..MaxCalls
        OBVIOUS
      <4>2. contents' = [p \in ProductIds |-> IF p \in ProductIds THEN 0 ELSE contents[p]]
        BY <3>1 DEF Put
      <4>3. \A p \in ProductIds : contents'[p] = 0
        BY <4>2
      <4>4. contents' \in [ProductIds -> 0..MaxCalls]
        BY <4>1, <4>2
      <4> QED BY <3>1, <4>3, <4>4
    <3>2. CASE UNCHANGED <<exists, contents>>
      BY <3>2, <1>0 DEF Numbers, Flags
    <3> QED BY <3>1, <3>2, <1>3 DEF Drop
  <2>4. Numbers'
    BY <2>1, <2>2, <2>3, <1>0, <1>3 DEF Drop, Numbers, process, request, Steps
  <2>5. Flags'
    BY <2>3, <1>0, <1>3 DEF Drop, Flags, process
  <2> QED BY <2>1, <2>2, <2>4, <2>5, <1>0, <1>3 DEF Drop, Types, request, Numbers
<1>4. ASSUME NEW t \in Threads, Serve(t)
      PROVE  Types'
  <2>1. pc[t] = "call" /\ \E step \in {"end", "raise", "call"} : pc' = [pc EXCEPT ![t] = step]
    BY <1>4 DEF Serve, RowSent, Done, Goto
  <2>2. at' \in [Threads -> Nat] /\ \A u \in Threads \ {t} : at'[u] = at[u]
    <3>1. Len(list[t]) \in Nat
      BY <1>0, LenProperties DEF Types
    <3>2. at \in [Threads -> Nat]
      BY <1>0 DEF Numbers
    <3>3. \/ at' = [at EXCEPT ![t] = @ + 1]
          \/ at' = [at EXCEPT ![t] = IF op[t] = "clear" THEN 1 ELSE Len(list[t])]
          \/ at' = at
      BY <1>4 DEF Serve, RowSent, Done
    <3> QED BY <3>1, <3>2, <3>3
  <2>3. contents' \in [ProductIds -> 0..MaxCalls]
    <3>1. call[t] \in 0..MaxCalls
      BY <1>0 DEF Numbers
    <3> QED BY <3>1, <1>0, <1>4 DEF Serve, RowSent, Done, Put, Numbers
  <2>4. exists /\ UNCHANGED <<backend, exists, process, request, restarts, mixed>>
    BY <1>4 DEF Serve
  <2>5. Numbers'
    BY <2>1, <2>2, <2>3, <2>4, <1>0 DEF Numbers, process, request, Steps
  <2>6. Flags'
    BY <2>4, <1>0 DEF Flags, process
  <2> QED BY <2>1, <2>2, <2>4, <2>5, <2>6, <1>0 DEF Types, request, Numbers
<1>5. ASSUME NEW t \in Threads, pc[t] # "idle", Finish(t)
      PROVE  Types'
  <2>1. list' \in [Threads -> Seq(ProductIds)]
    BY <1>0, <1>5, EmptySeq DEF Finish, Types
  <2>2. Numbers'
    BY <1>0, <1>5 DEF Finish, Goto, Numbers, server, process, Steps
  <2>3. Flags'
    BY <1>0, <1>5 DEF Finish, Flags, server, process
  <2> QED BY <2>1, <2>2, <2>3, <1>0, <1>5 DEF Finish, Goto, Types, Numbers
<1>6. CASE Restart
  <2>1. list' \in [Threads -> Seq(ProductIds)]
    BY <1>6, EmptySeq DEF Restart
  <2>2. Numbers'
    BY <1>0, <1>6 DEF Restart, Idling, Numbers, server, Steps
  <2>3. Flags'
    BY <1>0, <1>6 DEF Restart, Flags, server
  <2> QED BY <2>1, <2>2, <2>3, <1>6 DEF Restart, Idling, Types
<1>7. CASE UNCHANGED vars
  BY <1>0, <1>7 DEF vars, server, process, request, Types, Numbers, Flags
<1> QED BY <1>1, <1>2, <1>3, <1>4, <1>5, <1>6, <1>7, StepCases

-----------------------------------------------------------------------------
\* The steps of a call between its start and its end.
Inner(t) ==
    \/ Ensure(t) \/ GetClient(t) \/ Connect(t) \/ Look(t) \/ Create(t) \/ Mark(t)
    \/ Drop(t) \/ Unmark(t) \/ Serve(t)

\* They move one thread, whose call stays what it is.
LEMMA InnerMoves ==
    ASSUME Types, NEW t \in Threads, Inner(t)
    PROVE  /\ UNCHANGED <<op, list, call, calls, backend, mixed, restarts>>
           /\ pc[t] # "idle" /\ pc'[t] # "idle"
           /\ \A u \in Threads \ {t} : pc'[u] = pc[u] /\ at'[u] = at[u]
           /\ \A u \in Threads : Dropping(u)' <=> Dropping(u)
<1>1. UNCHANGED <<op, list, call, calls, backend, mixed, restarts>>
  BY DEF Inner, Ensure, GetClient, Connect, Look, Create, Mark, Drop, Unmark, Serve, server, request
<1>2. pc[t] # "idle"
  BY DEF Inner, Ensure, GetClient, Connect, Look, Create, Mark, Drop, Unmark, Serve
<1>3. \E step \in Steps \ {"idle"} : pc' = [pc EXCEPT ![t] = step]
  BY DEF Inner, Ensure, GetClient, Connect, Look, Create, Mark, Drop, Unmark, Serve, RowSent, Done,
         Goto, Ready, Steps
<1>4. pc \in [Threads -> Steps] /\ at \in [Threads -> Nat]
  BY DEF Types, Numbers
<1>5. \E n : at' = [at EXCEPT ![t] = n]
  <2>1. CASE UNCHANGED at
    BY <2>1, <1>4
  <2>2. CASE ~UNCHANGED at
    BY <2>2 DEF Inner, Ensure, GetClient, Connect, Look, Create, Mark, Drop, Unmark, Serve, RowSent, Done
  <2> QED BY <2>1, <2>2
<1>6. \A u \in Threads \ {t} : pc'[u] = pc[u] /\ at'[u] = at[u]
  BY <1>3, <1>4, <1>5
<1>7. pc'[t] # "idle"
  BY <1>3, <1>4
<1>8. \A u \in Threads : Dropping(u)' <=> Dropping(u)
  BY <1>1 DEF Dropping
<1> QED BY <1>1, <1>2, <1>6, <1>7, <1>8

\* Returning and raising end the call of one thread.
LEMMA FinishMoves ==
    ASSUME Types, NEW t \in Threads, Finish(t)
    PROVE  /\ pc'[t] = "idle" /\ op'[t] = "none" /\ at'[t] = 0
           /\ UNCHANGED <<backend, exists, contents, client, ensured, opened, mixed>>
           /\ \A u \in Threads \ {t} : pc'[u] = pc[u] /\ at'[u] = at[u] /\ op'[u] = op[u]
BY DEF Finish, Goto, Types, Numbers, server, process

\* Starting begins the call of one thread.
LEMMA StartMoves ==
    ASSUME Types, NEW t \in Threads, NEW kind, NEW products, Start(t, kind, products)
    PROVE  /\ pc[t] = "idle" /\ at'[t] = 0 /\ op'[t] = kind
           /\ pc'[t] = IF kind = "clear" /\ backend = "qdrant" THEN "client" ELSE "ensure"
           /\ UNCHANGED <<backend, exists, contents, client, ensured, opened, at>>
           /\ \A u \in Threads \ {t} : pc'[u] = pc[u] /\ at'[u] = at[u] /\ op'[u] = op[u]
BY DEF Start, Goto, Types, Numbers, server, process

LEMMA RestartMoves ==
    ASSUME Restart
    PROVE  /\ \A u \in Threads : pc'[u] = "idle" /\ op'[u] = "none" /\ at'[u] = 0
           /\ client' = 0 /\ ensured' = FALSE /\ opened' = 0
           /\ UNCHANGED <<backend, exists, contents>>
BY DEF Restart, Idling, server

\* A client is kept until the process ends.
LEMMA ClientStays ==
    ASSUME Types, NEW t \in Threads, Inner(t), client # 0
    PROVE  client' # 0
<1>1. CASE Connect(t)
  BY <1>1 DEF Connect, Types, Numbers
<1>2. CASE ~Connect(t)
  BY <1>2 DEF Inner, Ensure, GetClient, Look, Create, Mark, Drop, Unmark, Serve, process
<1> QED BY <1>1, <1>2

LEMMA ConnectedKept ==
    ASSUME Inv, [Next]_vars
    PROVE  Connected'
<1>0. Types /\ Connected /\ pc \in [Threads -> Steps] /\ (ensured => client # 0)
  BY DEF Inv, Types, Numbers, Flags
<1> DEFINE Good(u) ==
             /\ \/ pc[u] \in {"drop", "unmark", "look", "create", "mark"}
                \/ pc[u] = "ensure" /\ Dropping(u)
                => client # 0
             /\ pc[u] \in {"drop", "unmark"} => Dropping(u)
<1>1. ASSUME NEW t \in Threads, NEW kind \in Writing \cup {"read"}, NEW products \in Seq(ProductIds),
             Startable(kind, products), Start(t, kind, products)
      PROVE  Connected'
  <2>1. Good(t)'
    BY <1>0, <1>1, StartMoves DEF Dropping
  <2>2. \A u \in Threads \ {t} : Good(u)'
    BY <1>0, <1>1, StartMoves DEF Dropping, Connected
  <2> QED BY <2>1, <2>2 DEF Connected, Dropping
<1>2. ASSUME NEW t \in Threads, Inner(t)
      PROVE  Connected'
  <2>1. \A u \in Threads \ {t} : Good(u)'
    <3>1. \A u \in Threads \ {t} : Good(u)
      BY <1>0 DEF Connected
    <3> QED BY <3>1, <1>0, <1>2, InnerMoves, ClientStays
  <2>2. Good(t) /\ (Dropping(t)' <=> Dropping(t))
    BY <1>0, <1>2, InnerMoves DEF Connected
  <2>3. Good(t)'
    <3>1. CASE Ensure(t)
      BY <3>1, <2>2, <1>0 DEF Ensure, Goto, Ready, process
    <3>2. CASE GetClient(t)
      BY <3>2, <2>2, <1>0 DEF GetClient, Goto, process
    <3>3. CASE Connect(t)
      <4>1. client' # 0 /\ pc'[t] = IF Dropping(t) THEN "drop" ELSE "look"
        BY <3>3, <1>0 DEF Connect, Goto, Types, Numbers
      <4> QED BY <4>1, <2>2
    <3>4. CASE Look(t) \/ Create(t) \/ Mark(t)
      <4>1. client # 0 /\ pc'[t] \in {"mark", "create", "raise", "end", "call"} /\ client' = client
        BY <3>4, <2>2, <1>0 DEF Look, Create, Mark, Goto, Ready, process
      <4> QED BY <4>1
    <3>5. CASE Drop(t) \/ Unmark(t)
      BY <3>5, <2>2, <1>0 DEF Drop, Unmark, Goto, process
    <3>6. CASE Serve(t)
      <4>1. pc'[t] \in {"end", "raise", "call"}
        BY <3>6, <1>0 DEF Serve, RowSent, Done, Goto
      <4> QED BY <4>1
    <3> QED BY <3>1, <3>2, <3>3, <3>4, <3>5, <3>6, <1>2 DEF Inner
  <2> QED BY <2>1, <2>3 DEF Connected, Dropping
<1>3. ASSUME NEW t \in Threads, pc[t] # "idle", Finish(t)
      PROVE  Connected'
  BY <1>0, <1>3, FinishMoves DEF Connected, Dropping
<1>4. CASE Restart
  BY <1>4, RestartMoves DEF Connected
<1>5. CASE UNCHANGED vars
  BY <1>0, <1>5 DEF vars, server, process, request, Connected, Dropping
<1> QED BY <1>1, <1>2, <1>3, <1>4, <1>5, StepCases DEF Inner

LEMMA ThreadsCounted ==
    /\ IsFiniteSet(Threads) /\ Cardinality(Threads) \in Nat
    /\ IsFiniteSet(Connecting) /\ Cardinality(Connecting) \in Nat
    /\ Cardinality(Connecting) <= Cardinality(Threads)
<1>1. IsFiniteSet(Threads) /\ Connecting \in SUBSET Threads
  BY RemoteAssumption DEF RemoteAssumption, Connecting
<1> QED BY <1>1, FS_Subset, FS_CardinalityType

\* Fewer that connect are not more in number.
LEMMA FewerConnect ==
    ASSUME Connecting' \subseteq Connecting
    PROVE  Cardinality(Connecting') <= Cardinality(Connecting) /\ Cardinality(Connecting') \in Nat
BY ThreadsCounted, FS_Subset, FS_CardinalityType

LEMMA BoundedKept ==
    ASSUME Inv, [Next]_vars
    PROVE  Bounded'
<1>0. /\ Types /\ Bounded /\ pc \in [Threads -> Steps] /\ client \in Nat /\ opened \in Nat
      /\ Cardinality(Threads) \in Nat
  BY ThreadsCounted DEF Inv, Types, Numbers
<1>1. ASSUME UNCHANGED <<client, opened>>, Connecting' \subseteq Connecting
      PROVE  Bounded'
  BY <1>0, <1>1, ThreadsCounted, FewerConnect DEF Bounded
<1>2. ASSUME NEW t \in Threads, NEW kind \in Writing \cup {"read"}, NEW products \in Seq(ProductIds),
             Startable(kind, products), Start(t, kind, products)
      PROVE  Bounded'
  <2>1. Connecting' \subseteq Connecting /\ UNCHANGED <<client, opened>>
    BY <1>0, <1>2, StartMoves DEF Connecting
  <2> QED BY <2>1, <1>1
<1>3. ASSUME NEW t \in Threads, GetClient(t)
      PROVE  Bounded'
  <2>1. UNCHANGED <<client, opened>> /\ (client # 0 => pc'[t] # "connect")
    BY <1>0, <1>3 DEF GetClient, Goto, process
  <2>2. CASE client = 0
    BY <2>1, <2>2, <1>0 DEF Bounded
  <2>3. CASE client # 0
    <3>1. Connecting' \subseteq Connecting
      BY <2>1, <2>3, <1>0, <1>3, InnerMoves DEF Connecting, Inner
    <3> QED BY <3>1, <2>1, <1>1
  <2> QED BY <2>2, <2>3
<1>4. ASSUME NEW t \in Threads, Connect(t)
      PROVE  Bounded'
  <2>1. /\ opened' = opened + 1 /\ client' = opened + 1
        /\ pc[t] = "connect" /\ pc'[t] # "connect"
    BY <1>0, <1>4 DEF Connect, Goto
  <2>2. t \in Connecting /\ Connecting' = Connecting \ {t}
    BY <2>1, <1>0, <1>4, InnerMoves DEF Connecting, Inner
  <2>3. Cardinality(Connecting') = Cardinality(Connecting) - 1
    BY <2>2, ThreadsCounted, FS_RemoveElement
  <2>4. opened + Cardinality(Connecting) <= Cardinality(Threads)
    BY <1>0, ThreadsCounted DEF Bounded
  <2>5. Cardinality(Connecting') \in Nat /\ Cardinality(Connecting) \in Nat
    BY <2>2, FewerConnect, ThreadsCounted
  <2>6. client' # 0 /\ opened' + Cardinality(Connecting') <= Cardinality(Threads)
    BY <2>1, <2>3, <2>4, <2>5, <1>0
  <2>7. opened' \in Nat /\ opened' <= Cardinality(Threads)
    BY <2>1, <2>5, <2>6, <1>0
  <2> QED BY <2>6, <2>7 DEF Bounded
<1>5. ASSUME NEW t \in Threads,
             Ensure(t) \/ Look(t) \/ Create(t) \/ Mark(t) \/ Drop(t) \/ Unmark(t) \/ Serve(t)
      PROVE  Bounded'
  <2>1. UNCHANGED <<client, opened>>
    BY <1>5 DEF Ensure, Look, Create, Mark, Drop, Unmark, Serve, process
  <2>2. pc'[t] # "connect"
    BY <1>0, <1>5 DEF Ensure, Look, Create, Mark, Drop, Unmark, Serve, RowSent, Done, Goto, Ready
  <2>3. Connecting' \subseteq Connecting
    BY <2>2, <1>0, <1>5, InnerMoves DEF Connecting, Inner
  <2> QED BY <2>1, <2>3, <1>1
<1>6. ASSUME NEW t \in Threads, pc[t] # "idle", Finish(t)
      PROVE  Bounded'
  <2>1. Connecting' \subseteq Connecting /\ UNCHANGED <<client, opened>>
    BY <1>0, <1>6, FinishMoves DEF Connecting
  <2> QED BY <2>1, <1>1
<1>7. CASE Restart
  BY <1>0, <1>7, RestartMoves DEF Bounded
<1>8. CASE UNCHANGED vars
  <2>1. UNCHANGED <<client, opened, pc>>
    BY <1>8 DEF vars, process
  <2> QED BY <2>1, <1>1 DEF Connecting
<1> QED BY <1>2, <1>3, <1>4, <1>5, <1>6, <1>7, <1>8, StepCases

LEMMA StagedKept ==
    ASSUME Inv, [Next]_vars
    PROVE  Staged'
<1>0. /\ Types /\ Staged /\ Connected /\ pc \in [Threads -> Steps] /\ at \in [Threads -> Nat]
      /\ backend \in {"qdrant", "pgvector"}
  BY RemoteAssumption DEF RemoteAssumption, Inv, Types, Numbers
<1> DEFINE Good(u) ==
             /\ pc[u] \in {"client", "connect", "drop"} => at[u] = 0
             /\ pc[u] = "call" => at[u] = 0 \/ (op[u] = "upsert" /\ backend = "pgvector")
             /\ pc[u] \in {"ensure", "look", "create", "mark"} => at[u] = 0 \/ Dropping(u)
             /\ Dropping(u) => pc[u] # "call"
<1>1. ASSUME NEW t \in Threads, NEW kind \in Writing \cup {"read"}, NEW products \in Seq(ProductIds),
             Startable(kind, products), Start(t, kind, products)
      PROVE  Staged'
  <2>1. Good(t)'
    BY <1>0, <1>1, StartMoves DEF Dropping
  <2>2. \A u \in Threads \ {t} : Good(u)'
    BY <1>0, <1>1, StartMoves DEF Dropping, Staged
  <2> QED BY <2>1, <2>2 DEF Staged, Dropping
<1>2. ASSUME NEW t \in Threads, Inner(t)
      PROVE  Staged'
  <2>1. \A u \in Threads \ {t} : Good(u)'
    <3>1. \A u \in Threads \ {t} : Good(u)
      BY <1>0 DEF Staged
    <3> QED BY <3>1, <1>0, <1>2, InnerMoves
  <2>2. /\ Good(t) /\ (Dropping(t)' <=> Dropping(t)) /\ op'[t] = op[t] /\ backend' = backend
        /\ pc[t] \in {"drop", "unmark"} => Dropping(t)
    BY <1>0, <1>2, InnerMoves DEF Staged, Connected
  <2>3. CASE Ensure(t) \/ Mark(t)
    <3>1. UNCHANGED at /\ pc[t] \in {"ensure", "mark"}
      BY <2>3 DEF Ensure, Mark
    <3>2. pc'[t] \in IF Dropping(t) THEN {"end", "look"} ELSE {"call", "client"}
      BY <2>3, <1>0 DEF Ensure, Mark, Goto, Ready
    <3>3. Good(t)'
      BY <3>1, <3>2, <2>2
    <3> QED BY <3>3, <2>1 DEF Staged, Dropping
  <2>4. CASE GetClient(t) \/ Connect(t)
    <3>1. UNCHANGED at /\ pc[t] \in {"client", "connect"}
      BY <2>4 DEF GetClient, Connect
    <3>2. pc'[t] \in {"connect", "drop", "look"}
      BY <2>4, <1>0 DEF GetClient, Connect, Goto
    <3>3. Good(t)'
      BY <3>1, <3>2, <2>2
    <3> QED BY <3>3, <2>1 DEF Staged, Dropping
  <2>5. CASE Look(t) \/ Create(t) \/ Unmark(t)
    <3>1. UNCHANGED at /\ pc[t] \in {"look", "create", "unmark"}
      BY <2>5 DEF Look, Create, Unmark
    <3>2. pc'[t] \in {"mark", "create", "raise"} \/ (pc[t] = "unmark" /\ pc'[t] = "ensure")
      BY <2>5, <1>0 DEF Look, Create, Unmark, Goto
    <3>3. Good(t)'
      BY <3>1, <3>2, <2>2
    <3> QED BY <3>3, <2>1 DEF Staged, Dropping
  <2>6. CASE Drop(t)
    <3>1. pc'[t] = "unmark"
      BY <2>6, <1>0 DEF Drop, Goto
    <3>2. Good(t)'
      BY <3>1
    <3> QED BY <3>2, <2>1 DEF Staged, Dropping
  <2>7. CASE Serve(t)
    <3>1. pc'[t] \in {"end", "raise"} \/ (pc'[t] = "call" /\ op[t] = "upsert" /\ backend = "pgvector")
      BY <2>7, <1>0 DEF Serve, RowSent, Done, Goto
    <3>2. Good(t)'
      BY <3>1, <2>2 DEF Dropping
    <3> QED BY <3>2, <2>1 DEF Staged, Dropping
  <2> QED BY <2>3, <2>4, <2>5, <2>6, <2>7, <1>2 DEF Inner
<1>3. ASSUME NEW t \in Threads, pc[t] # "idle", Finish(t)
      PROVE  Staged'
  BY <1>0, <1>3, FinishMoves DEF Staged, Dropping
<1>4. CASE Restart
  BY <1>4, RestartMoves DEF Staged, Dropping
<1>5. CASE UNCHANGED vars
  BY <1>0, <1>5 DEF vars, server, process, request, Staged, Dropping
<1> QED BY <1>1, <1>2, <1>3, <1>4, <1>5, StepCases DEF Inner

LEMMA RememberedKept ==
    ASSUME Inv, [Next]_vars
    PROVE  Remembered'
<1>0. /\ Types /\ Connected /\ Remembered
      /\ pc \in [Threads -> Steps] /\ exists \in BOOLEAN /\ ensured \in BOOLEAN
      /\ \A u \in Threads : op[u] = "none" <=> pc[u] = "idle"
  BY DEF Inv, Types, Numbers, Flags
<1>1. ASSUME NEW t \in Threads, NEW kind \in Writing \cup {"read"}, NEW products \in Seq(ProductIds),
             Startable(kind, products), Start(t, kind, products)
      PROVE  Remembered'
  <2> SUFFICES ASSUME ~mixed' PROVE Remembered'
    BY DEF Remembered
  <2>1. ~mixed /\ \A u \in Threads : pc[u] # "idle" => kind # "clear" /\ op[u] # "clear"
    BY <1>1 DEF Start
  <2>2. /\ pc[t] = "idle" /\ op'[t] = kind /\ pc'[t] \in {"client", "ensure"}
        /\ UNCHANGED <<backend, exists, ensured>>
        /\ \A u \in Threads \ {t} : pc'[u] = pc[u] /\ op'[u] = op[u]
    BY <1>0, <1>1, StartMoves
  <2>3. ASSUME NEW v \in Threads, Dropping(v)', NEW u \in Threads, u # v
        PROVE  pc'[u] = "idle"
    <3>1. op'[v] = "clear"
      BY <2>3 DEF Dropping
    <3>2. v = t
      BY <3>1, <2>1, <2>2, <1>0
    <3> QED BY <3>1, <3>2, <2>1, <2>2, <2>3
  <2>4. \A u \in Threads : pc'[u] = "mark" => exists'
    BY <2>1, <2>2, <1>0 DEF Remembered
  <2>5. ensured' => exists' \/ \E u \in Threads : pc'[u] = "unmark"
    <3>1. \A u \in Threads : pc[u] = "unmark" => pc'[u] = "unmark"
      BY <2>2
    <3> QED BY <3>1, <2>1, <2>2, <1>0 DEF Remembered
  <2> QED BY <2>3, <2>4, <2>5 DEF Remembered, Dropping
<1>2. ASSUME NEW t \in Threads, Inner(t)
      PROVE  Remembered'
  <2> SUFFICES ASSUME ~mixed' PROVE Remembered'
    BY DEF Remembered
  <2>1. /\ ~mixed /\ pc[t] # "idle" /\ \A u \in Threads \ {t} : pc'[u] = pc[u]
        /\ \A u \in Threads : Dropping(u)' <=> Dropping(u)
    BY <1>0, <1>2, InnerMoves
  <2>2. ASSUME NEW v \in Threads, Dropping(v)', NEW u \in Threads, u # v
        PROVE  pc'[u] = "idle"
    <3>1. pc[u] = "idle"
      BY <2>1, <2>2, <1>0 DEF Remembered
    <3> QED BY <3>1, <2>1
  <2>3. CASE Drop(t)
    <3>1. Dropping(t) /\ pc'[t] = "unmark"
      BY <2>3, <1>0 DEF Drop, Goto, Connected
    <3>2. \A u \in Threads \ {t} : pc'[u] = "idle"
      BY <3>1, <2>1, <1>0 DEF Remembered
    <3> QED BY <3>1, <3>2, <2>2 DEF Remembered, Dropping
  <2>4. CASE ~Drop(t)
    <3>1. exists => exists'
      BY <2>4, <1>2, <1>0 DEF Inner, Ensure, GetClient, Connect, Look, Create, Mark, Unmark, Serve, server
    <3>2. pc'[t] = "mark" => exists'
      BY <2>4, <1>2, <1>0 DEF Inner, Ensure, GetClient, Connect, Look, Create, Mark, Unmark, Serve,
             RowSent, Done, Goto, Ready
    <3>3. \A u \in Threads : pc'[u] = "mark" => exists'
      BY <3>1, <3>2, <2>1, <1>0 DEF Remembered
    <3>4. ensured' => exists' \/ \E u \in Threads : pc'[u] = "unmark"
      <4>1. CASE Mark(t)
        <5>1. exists' = exists /\ pc[t] = "mark"
          BY <4>1 DEF Mark, server
        <5> QED BY <5>1, <2>1, <1>0 DEF Remembered
      <4>2. CASE Unmark(t)
        BY <4>2 DEF Unmark
      <4>3. CASE ~Mark(t) /\ ~Unmark(t)
        <5>1. ensured' = ensured /\ pc[t] # "unmark"
          BY <4>3, <2>4, <1>2 DEF Inner, Ensure, GetClient, Connect, Look, Create, Serve, process
        <5>2. \A u \in Threads : pc[u] = "unmark" => pc'[u] = "unmark"
          BY <5>1, <2>1
        <5> QED BY <5>1, <5>2, <3>1, <2>1, <1>0 DEF Remembered
      <4> QED BY <4>1, <4>2, <4>3
    <3> QED BY <3>3, <3>4, <2>2 DEF Remembered, Dropping
  <2> QED BY <2>3, <2>4
<1>3. ASSUME NEW t \in Threads, pc[t] \notin {"idle", "unmark"}, Finish(t)
      PROVE  Remembered'
  <2> SUFFICES ASSUME ~mixed' PROVE Remembered'
    BY DEF Remembered
  <2>1. /\ ~mixed /\ pc'[t] = "idle" /\ op'[t] = "none" /\ UNCHANGED <<backend, exists, ensured>>
        /\ \A u \in Threads \ {t} : pc'[u] = pc[u] /\ op'[u] = op[u]
    BY <1>0, <1>3, FinishMoves
  <2>2. ASSUME NEW v \in Threads, Dropping(v)', NEW u \in Threads, u # v
        PROVE  pc'[u] = "idle"
    <3>1. v # t /\ Dropping(v)
      BY <2>1, <2>2 DEF Dropping
    <3> QED BY <3>1, <2>1, <2>2, <1>0 DEF Remembered
  <2>3. \A u \in Threads : pc'[u] = "mark" => exists'
    BY <2>1, <1>0 DEF Remembered
  <2>4. ensured' => exists' \/ \E u \in Threads : pc'[u] = "unmark"
    <3>1. \A u \in Threads : pc[u] = "unmark" => pc'[u] = "unmark"
      BY <2>1, <1>3
    <3> QED BY <3>1, <2>1, <1>0 DEF Remembered
  <2> QED BY <2>2, <2>3, <2>4 DEF Remembered, Dropping
<1>4. CASE Restart
  BY <1>4, RestartMoves DEF Remembered, Dropping
<1>5. CASE UNCHANGED vars
  <2>1. UNCHANGED <<backend, exists, ensured, mixed, pc, op>>
    BY <1>5 DEF vars, server, process, request
  <2> QED BY <2>1, <1>0 DEF Remembered, Dropping
<1> QED BY <1>1, <1>2, <1>3, <1>4, <1>5, StepCases DEF Inner

LEMMA SpecInv == Spec => []Inv
<1>1. Inv /\ [Next]_vars => Inv'
  BY TypesKept, ConnectedKept, BoundedKept, StagedKept, RememberedKept DEF Inv
<1> QED BY InitInv, <1>1, PTL DEF Spec

-----------------------------------------------------------------------------
\* Every variable keeps its type, rows are in a collection that is there, and who
\* ensured it has a connection.
THEOREM TypeCorrect == Spec => []TypeOK
<1>1. Inv => TypeOK
  BY DEF Inv, Types, Numbers, Flags, TypeOK
<1> QED BY <1>1, SpecInv, PTL

\* However many threads race for the first connection, a process opens no more
\* than a connection for each.
THEOREM FewConnections == Spec => []ConnectionsBounded
<1>1. Inv => ConnectionsBounded
  BY DEF Inv, Bounded, ConnectionsBounded
<1> QED BY <1>1, SpecInv, PTL

\* What _ensured says is true as long as no clear meets another call.
THEOREM StaysUsable == Spec => []Usable
<1>1. Inv => Usable
  BY DEF Inv, Connected, Remembered, Usable
<1> QED BY <1>1, SpecInv, PTL

-----------------------------------------------------------------------------
\* What the interface sees of the threads.
Doings == [t \in Threads |-> Doing(t)]

LEMMA OneMoves ==
    ASSUME NEW t \in Threads, \A u \in Threads \ {t} : Doing(u)' = Doing(u)
    PROVE  Doings' = [Doings EXCEPT ![t] = Doing(t)']
<1>1. Doings' = [u \in Threads |-> Doing(u)']
  BY DEF Doings
<1> QED BY <1>1 DEF Doings

LEMMA NoneMoves ==
    ASSUME UNCHANGED contents, \A u \in Threads : Doing(u)' = Doing(u)
    PROVE  UNCHANGED Store!vars
<1>1. Doings' = [u \in Threads |-> Doing(u)'] /\ Doings = [u \in Threads |-> Doing(u)]
  BY DEF Doings
<1>2. Doings' = Doings
  BY <1>1
<1> QED BY <1>2 DEF Store!vars, Doings

LEMMA OthersDo ==
    ASSUME Types, NEW t \in Threads,
           Inner(t) \/ Finish(t) \/ \E kind, products : Start(t, kind, products)
    PROVE  \A u \in Threads \ {t} : Doing(u)' = Doing(u)
<1>1. ASSUME NEW u \in Threads \ {t}
      PROVE  /\ pc'[u] = pc[u] /\ at'[u] = at[u] /\ op'[u] = op[u] /\ list'[u] = list[u]
             /\ call'[u] = call[u]
  <2>1. CASE Inner(t)
    BY <2>1, InnerMoves
  <2>2. CASE Finish(t)
    BY <2>2 DEF Finish, Goto, Types, Numbers
  <2>3. CASE \E kind, products : Start(t, kind, products)
    BY <2>3 DEF Start, Goto, Types, Numbers
  <2> QED BY <2>1, <2>2, <2>3
<1>2. ASSUME NEW u \in Threads \ {t}
      PROVE  Left(u)' = Left(u)
  BY <1>1 DEF Left
<1> QED BY <1>1, <1>2 DEF Doing

\* What a call has left is products, and a step that settles some of them is one of
\* the interface.
LEMMA LeftTypes ==
    ASSUME Types, NEW t \in Threads
    PROVE  /\ Left(t) \subseteq ProductIds
           /\ list[t] \in Seq(ProductIds) /\ Len(list[t]) \in Nat
           /\ \A i \in 1..Len(list[t]) : list[t][i] \in ProductIds
           /\ Named(list[t]) = {list[t][i] : i \in 1..Len(list[t])}
<1>1. /\ list[t] \in Seq(ProductIds) /\ Len(list[t]) \in Nat
      /\ DOMAIN list[t] = 1..Len(list[t])
      /\ \A i \in 1..Len(list[t]) : list[t][i] \in ProductIds
  BY LenProperties, ElementOfSeq DEF Types
<1>2. at[t] \in Nat
  BY DEF Types, Numbers
<1>3. \A i \in at[t] + 1..Len(list[t]) : i \in 1..Len(list[t])
  BY <1>1, <1>2
<1>4. Left(t) \subseteq ProductIds
  BY <1>1, <1>3 DEF Left
<1> QED BY <1>1, <1>4 DEF Named

LEMMA SettleStep ==
    ASSUME Types, NEW t \in Threads, Inner(t), op[t] \in Writing, pc[t] # "end",
           NEW products, products \subseteq Left(t), NEW settled, settled \subseteq products,
           Put(products, IF op[t] = "upsert" THEN call[t] ELSE 0),
           Left(t)' = Left(t) \ settled,
           pc'[t] = "end" => settled = Left(t) \/ op[t] = "clear"
    PROVE  Store!Settle(t)
<1>1. PICK ok \in BOOLEAN : ok = (pc'[t] = "end")
  OBVIOUS
<1>2. op'[t] = op[t] /\ call'[t] = call[t]
  BY InnerMoves
<1>3. Doings[t] = [op |-> op[t], wants |-> IF op[t] = "upsert" THEN call[t] ELSE 0,
                   left |-> Left(t), ok |-> FALSE]
  BY DEF Doings, Doing, Writing
<1>4. Doing(t)' = [op |-> op[t], wants |-> IF op[t] = "upsert" THEN call[t] ELSE 0,
                   left |-> Left(t) \ settled, ok |-> ok]
  BY <1>1, <1>2 DEF Doing, Writing
<1>5. Doing(t)' = [op |-> Doings[t].op, wants |-> Doings[t].wants,
                   left |-> Doings[t].left \ settled, ok |-> ok]
  BY <1>3, <1>4
<1>6. Doings' = [Doings EXCEPT ![t] = Doing(t)']
  BY OthersDo, OneMoves
<1>7. Store!Set(products, Doings[t].wants)
  BY <1>3 DEF Put, Store!Set
<1>8. Doings[t].op \in Store!Kinds /\ Doings[t].ok = FALSE
  BY <1>3 DEF Store!Kinds, Writing
<1>9. products \in SUBSET Doings[t].left /\ settled \in SUBSET products
  BY <1>3
<1>10. ok => settled = Doings[t].left \/ (TRUE /\ Doings[t].op = "clear")
  <2>1. CASE pc'[t] = "end"
    BY <2>1, <1>3
  <2>2. CASE pc'[t] # "end"
    BY <2>2, <1>1, Zenon
  <2> QED BY <2>1, <2>2
<1>11. Doings' = [Doings EXCEPT ![t] = [op |-> Doings[t].op, wants |-> Doings[t].wants,
                                        left |-> Doings[t].left \ settled, ok |-> ok]]
  BY <1>5, <1>6
<1>12. \E chosen \in SUBSET Doings[t].left : \E done \in SUBSET chosen, good \in BOOLEAN :
          /\ Store!Set(chosen, Doings[t].wants)
          /\ good => done = Doings[t].left \/ (TRUE /\ Doings[t].op = "clear")
          /\ Doings' = [Doings EXCEPT ![t] = [op |-> Doings[t].op, wants |-> Doings[t].wants,
                                              left |-> Doings[t].left \ done, ok |-> good]]
  BY <1>7, <1>9, <1>10, <1>11, Zenon
<1> QED BY <1>8, <1>12, Zenon DEF Store!Settle, Doings

LEMMA InitMaps == Init => Store!Init
<1> SUFFICES ASSUME Init PROVE Store!Init
  OBVIOUS
<1>1. contents \in [ProductIds -> 1..MaxCalls \cup {0}]
  BY DEF Init
<1>2. \A t \in Threads : Doing(t) = Store!Idle
  BY DEF Init, Doing, Store!Idle
<1> QED BY <1>1, <1>2 DEF Store!Init

\* A call starts: reads are nothing to the interface.
LEMMA StartMaps ==
    ASSUME Types, NEW t \in Threads, NEW kind \in Writing \cup {"read"},
           NEW products \in Seq(ProductIds), Startable(kind, products), Start(t, kind, products)
    PROVE  Store!Next \/ UNCHANGED Store!vars
<1>1. \A u \in Threads \ {t} : Doing(u)' = Doing(u)
  BY OthersDo
<1>2. /\ op[t] = "none" /\ op'[t] = kind /\ list'[t] = products /\ at'[t] = 0
      /\ call'[t] = calls + 1 /\ pc'[t] # "end" /\ UNCHANGED contents
      /\ calls \in Nat /\ calls + 1 \in 1..MaxCalls
  <2>1. /\ op[t] = "none" /\ op'[t] = kind /\ at'[t] = 0 /\ pc'[t] # "end"
        /\ UNCHANGED contents
    BY StartMoves DEF Types
  <2>2. list'[t] = products /\ call'[t] = calls' /\ calls' = calls + 1 /\ calls < MaxCalls
    BY DEF Start, Types, Numbers
  <2>3. calls \in 0..MaxCalls /\ MaxCalls \in Nat
    BY RemoteAssumption DEF RemoteAssumption, Types, Numbers
  <2>4. calls \in Nat /\ calls + 1 \in 1..MaxCalls
    BY <2>2, <2>3
  <2> QED BY <2>1, <2>2, <2>4
<1>3. Doing(t) = Store!Idle
  BY <1>2 DEF Doing, Store!Idle
<1>4. CASE kind = "read"
  <2>1. Doing(t)' = Store!Idle
    BY <1>2, <1>4 DEF Doing, Store!Idle
  <2> QED BY <2>1, <1>1, <1>2, <1>3, NoneMoves
<1>5. CASE kind \in Writing
  <2>1. PICK left : left = Left(t)'
    OBVIOUS
  <2>2. PICK wants : wants = IF kind = "upsert" THEN calls + 1 ELSE 0
    OBVIOUS
  <2>3. left \in SUBSET ProductIds /\ (kind = "clear" => left = ProductIds)
    <3>1. CASE kind = "clear"
      BY <3>1, <2>1, <1>2 DEF Left
    <3>2. CASE kind # "clear"
      <4>1. left = {products[i] : i \in 0 + 1..Len(products)}
        BY <3>2, <2>1, <1>2 DEF Left
      <4>2. \A i \in 1..Len(products) : products[i] \in ProductIds
        BY ElementOfSeq
      <4> QED BY <4>1, <4>2, <3>2
    <3> QED BY <3>1, <3>2
  <2>4. wants \in 1..MaxCalls \cup {0} /\ (kind # "upsert" <=> wants = 0)
    BY <2>2, <1>2
  <2>5. Doing(t)' = [op |-> kind, wants |-> wants, left |-> left, ok |-> FALSE]
    BY <2>1, <2>2, <1>2, <1>5 DEF Doing, Writing
  <2>6. Doings[t] = Store!Idle /\ Doings' = [Doings EXCEPT ![t] =
           [op |-> kind, wants |-> wants, left |-> left, ok |-> FALSE]]
    BY <2>5, <1>1, <1>3, OneMoves DEF Doings
  <2>7. Store!Begin(t, kind, left, wants)
    BY <2>3, <2>4, <2>6, <1>2, Zenon DEF Store!Begin, Doings
  <2> QED BY <2>3, <2>4, <2>7, <1>5 DEF Store!Next, Store!Kinds, Writing
<1> QED BY <1>4, <1>5

\* Ensuring the collection shows only when a clear of Qdrant ends: it may have left
\* products.
LEMMA EnsureMaps ==
    ASSUME Types, NEW t \in Threads,
           Ensure(t) \/ GetClient(t) \/ Connect(t) \/ Look(t) \/ Create(t) \/ Mark(t) \/ Unmark(t)
    PROVE  Store!Next \/ UNCHANGED Store!vars
<1>1. Inner(t) /\ \A u \in Threads \ {t} : Doing(u)' = Doing(u)
  BY OthersDo DEF Inner
<1>2. UNCHANGED <<contents, at>> /\ pc[t] # "end"
  BY DEF Ensure, GetClient, Connect, Look, Create, Mark, Unmark, server
<1>3. UNCHANGED <<op, list, call>>
  BY <1>1, InnerMoves
<1>4. Left(t)' = Left(t)
  BY <1>2, <1>3 DEF Left
<1>5. CASE pc'[t] # "end"
  <2>1. Doing(t)' = Doing(t)
    BY <1>2, <1>3, <1>4, <1>5 DEF Doing
  <2> QED BY <2>1, <1>1, <1>2, NoneMoves
<1>6. CASE pc'[t] = "end"
  <2>1. op[t] = "clear"
    BY <1>6 DEF Ensure, GetClient, Connect, Look, Create, Mark, Unmark, Goto, Ready, Dropping,
                Types, Numbers
  <2>2. Put({}, 0)
    <3>1. contents' = contents /\ contents \in [ProductIds -> 0..MaxCalls]
      BY <1>2 DEF Types, Numbers
    <3> QED BY <3>1 DEF Put
  <2>3. Put({}, IF op[t] = "upsert" THEN call[t] ELSE 0)
    BY <2>1, <2>2
  <2>4. Left(t)' = Left(t) \ {}
    BY <1>4
  <2>5. Store!Settle(t)
    BY <2>1, <2>3, <2>4, <1>1, <1>2, SettleStep DEF Writing
  <2> QED BY <2>5 DEF Store!Next
<1> QED BY <1>5, <1>6

LEMMA DropMaps ==
    ASSUME Inv, NEW t \in Threads, Drop(t)
    PROVE  Store!Next \/ UNCHANGED Store!vars
<1>1. Types /\ Inner(t) /\ \A u \in Threads \ {t} : Doing(u)' = Doing(u)
  BY OthersDo DEF Inner, Inv
<1>2. pc[t] = "drop" /\ pc'[t] = "unmark" /\ op[t] = "clear" /\ at[t] = 0
  BY <1>1 DEF Drop, Goto, Types, Numbers, Inv, Connected, Staged, Dropping
<1>3. UNCHANGED <<op, list, call>>
  BY <1>1, InnerMoves
<1>4. CASE UNCHANGED <<contents, at>>
  <2>1. Left(t)' = Left(t)
    BY <1>3, <1>4 DEF Left
  <2>2. Doing(t)' = Doing(t)
    BY <2>1, <1>2, <1>3 DEF Doing
  <2> QED BY <2>2, <1>1, <1>4, NoneMoves
<1>5. CASE Put(ProductIds, 0) /\ at' = [at EXCEPT ![t] = 1]
  <2>1. at'[t] = 1
    BY <1>1, <1>5 DEF Types, Numbers
  <2>2. Left(t) = ProductIds /\ Left(t)' = Left(t) \ ProductIds
    BY <2>1, <1>2, <1>3 DEF Left
  <2>3. Put(ProductIds, IF op[t] = "upsert" THEN call[t] ELSE 0)
    BY <1>2, <1>5
  <2>4. Store!Settle(t)
    BY <2>2, <2>3, <1>1, <1>2, SettleStep DEF Writing
  <2> QED BY <2>4 DEF Store!Next
<1> QED BY <1>4, <1>5 DEF Drop

LEMMA ServeMaps ==
    ASSUME Inv, NEW t \in Threads, Serve(t)
    PROVE  Store!Next \/ UNCHANGED Store!vars
<1>1. Types /\ Inner(t) /\ \A u \in Threads \ {t} : Doing(u)' = Doing(u)
  BY OthersDo DEF Inner, Inv
<1>2. /\ pc[t] = "call" /\ UNCHANGED <<op, list, call>>
      /\ at \in [Threads -> Nat] /\ Len(list[t]) \in Nat
      /\ at[t] = 0 \/ (op[t] = "upsert" /\ backend = "pgvector")
  BY <1>1, InnerMoves, LeftTypes DEF Serve, Types, Numbers, Inv, Staged
<1>3. CASE op[t] = "upsert" /\ backend = "pgvector" /\ RowSent(t)
  <2>1. PICK row : row = list[t][at[t] + 1]
    OBVIOUS
  <2>2. /\ at[t] < Len(list[t]) /\ at'[t] = at[t] + 1 /\ Put({row}, call[t])
        /\ pc'[t] = "end" => at'[t] = Len(list[t])
    BY <2>1, <1>1, <1>2, <1>3 DEF RowSent, Goto, Types, Numbers
  <2>3. /\ Left(t) = {list[t][i] : i \in at[t] + 1..Len(list[t])}
        /\ Left(t)' = {list[t][i] : i \in at[t] + 1 + 1..Len(list[t])}
    BY <2>2, <1>2, <1>3 DEF Left
  <2>4. Left(t) = {row} \cup Left(t)'
    BY <2>1, <2>2, <2>3, <1>2
  <2>5. PICK settled : settled = Left(t) \ Left(t)'
    OBVIOUS
  <2>6. {row} \subseteq Left(t) /\ settled \subseteq {row} /\ Left(t)' = Left(t) \ settled
    BY <2>4, <2>5
  <2>7. pc'[t] = "end" => settled = Left(t)
    <3>1. pc'[t] = "end" => Left(t)' = {}
      BY <2>2, <2>3, <1>2
    <3> QED BY <3>1, <2>5
  <2>8. Put({row}, IF op[t] = "upsert" THEN call[t] ELSE 0)
    BY <2>2, <1>3
  <2>9. Store!Settle(t)
    BY <2>6, <2>7, <2>8, <1>1, <1>2, <1>3, SettleStep DEF Writing
  <2> QED BY <2>9 DEF Store!Next
<1>4. ASSUME NEW products, Left(t) = products,
             Done(t, products, IF op[t] = "upsert" THEN call[t] ELSE 0), op[t] \in Writing
      PROVE  Store!Next
  <2>1. /\ at'[t] = (IF op[t] = "clear" THEN 1 ELSE Len(list[t]))
        /\ Put(products, IF op[t] = "upsert" THEN call[t] ELSE 0)
    BY <1>2, <1>4 DEF Done
  <2>2. Left(t)' = {}
    BY <2>1, <1>2 DEF Left
  <2>3. Left(t)' = Left(t) \ products /\ products \subseteq Left(t)
    BY <2>2, <1>4
  <2>4. Store!Settle(t)
    BY <2>1, <2>3, <1>1, <1>2, <1>4, SettleStep
  <2> QED BY <2>4 DEF Store!Next
<1>5. ASSUME at[t] = 0, op[t] # "clear"
      PROVE  Left(t) = Named(list[t])
  <2>1. Left(t) = {list[t][i] : i \in 0 + 1..Len(list[t])}
    BY <1>5 DEF Left
  <2>2. Named(list[t]) = {list[t][i] : i \in 1..Len(list[t])}
    BY <1>1, LeftTypes
  <2> QED BY <2>1, <2>2
<1>6. CASE op[t] = "upsert" /\ backend = "qdrant" /\ Done(t, Named(list[t]), call[t])
  BY <1>2, <1>4, <1>5, <1>6 DEF Writing
<1>7. CASE op[t] = "delete" /\ Done(t, Named(list[t]), 0)
  BY <1>2, <1>4, <1>5, <1>7 DEF Writing
<1>8. CASE op[t] = "clear" /\ Done(t, ProductIds, 0)
  <2>1. Left(t) = ProductIds
    BY <1>2, <1>8 DEF Left
  <2> QED BY <2>1, <1>4, <1>8 DEF Writing
<1>9. CASE op[t] = "read" /\ UNCHANGED <<contents, at>>
  <2>1. Doing(t)' = Doing(t)
    BY <1>2, <1>9 DEF Doing
  <2> QED BY <2>1, <1>1, <1>9, NoneMoves
<1> QED BY <1>3, <1>6, <1>7, <1>8, <1>9 DEF Serve

LEMMA FinishMaps ==
    ASSUME Types, NEW t \in Threads, Finish(t)
    PROVE  Store!Next \/ UNCHANGED Store!vars
<1>1. \A u \in Threads \ {t} : Doing(u)' = Doing(u)
  BY OthersDo
<1>2. op'[t] = "none" /\ UNCHANGED contents
  BY FinishMoves
<1>3. Doing(t)' = Store!Idle
  BY <1>2 DEF Doing, Store!Idle
<1>4. CASE op[t] \in Writing
  <2>1. Doings[t].op \in Store!Kinds
    BY <1>4 DEF Doings, Doing, Writing, Store!Kinds
  <2>2. Doings' = [Doings EXCEPT ![t] = Store!Idle]
    BY <1>1, <1>3, OneMoves
  <2>3. Store!Leave(t)
    BY <2>1, <2>2, <1>2, Zenon DEF Store!Leave, Doings
  <2> QED BY <2>3 DEF Store!Next
<1>5. CASE op[t] \notin Writing
  <2>1. Doing(t) = Store!Idle
    BY <1>5 DEF Doing, Writing, Store!Idle
  <2> QED BY <2>1, <1>1, <1>2, <1>3, NoneMoves
<1> QED BY <1>4, <1>5

LEMMA RestartMaps ==
    ASSUME Types, Restart
    PROVE  Store!Next
<1>1. UNCHANGED contents /\ contents \in [ProductIds -> 1..MaxCalls \cup {0}]
  <2>1. UNCHANGED contents /\ contents \in [ProductIds -> 0..MaxCalls] /\ MaxCalls \in Nat
    BY RestartMoves, RemoteAssumption DEF Types, Numbers, RemoteAssumption
  <2>2. 0..MaxCalls \subseteq 1..MaxCalls \cup {0}
    BY <2>1
  <2> QED BY <2>1, <2>2
<1>2. \A u \in Threads : Doing(u)' = Store!Idle
  BY RestartMoves DEF Doing, Store!Idle
<1>3. Doings' = [u \in Threads |-> Store!Idle]
  BY <1>2 DEF Doings
<1>4. Store!Restart
  BY <1>1, <1>3 DEF Store!Restart, Doings
<1> QED BY <1>4 DEF Store!Next

\* Qdrant's store and pgvector's are the vector store of the interface: every step
\* they take is one it allows, or none it sees.
THEOREM ImplementsInterface == Spec => Implements
<1>1. Inv /\ [Next]_vars => [Store!Next]_(Store!vars)
  <2> SUFFICES ASSUME Inv, [Next]_vars PROVE Store!Next \/ UNCHANGED Store!vars
    OBVIOUS
  <2>1. Types
    BY DEF Inv
  <2>2. CASE UNCHANGED vars
    <3>1. UNCHANGED <<contents, op, list, call, at, pc>>
      BY <2>2 DEF vars, server, request
    <3>2. \A u \in Threads : Doing(u)' = Doing(u)
      BY <3>1 DEF Doing, Left
    <3> QED BY <3>1, <3>2, NoneMoves
  <2> QED BY <2>1, <2>2, StartMaps, EnsureMaps, DropMaps, ServeMaps, FinishMaps, RestartMaps,
             StepCases
<1> QED BY InitMaps, <1>1, SpecInv, PTL DEF Spec, Implements, Store!Spec

=============================================================================
