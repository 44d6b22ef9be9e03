--------------------------- MODULE RateLimitProofs ---------------------------
(***************************************************************************)
(* The limiter of RateLimit keeps its promise for every limit, every       *)
(* window, every set of clients and any length of time.                    *)
(*                                                                         *)
(* The deque of a client is the tail of the record of what passed, and all *)
(* that the deque no longer holds has left the window (Mirrors).  The      *)
(* record is in the order of the clock (Ordered), so the loop that stops   *)
(* at the first live entry leaves live entries only.                       *)
(***************************************************************************)
EXTENDS RateLimit, FiniteSetTheorems, SequenceTheorems, TLAPS

\* Deque queue holds the tail of the record log; the rest of log is expired.
Mirrors(queue, log, time) ==
    /\ Len(queue) <= Len(log)
    /\ \A i \in 1..Len(queue) : queue[i] = log[Len(log) - Len(queue) + i]
    /\ \A i \in 1..Len(log) - Len(queue) : time - log[i] > Window

Ordered(log, time) ==
    \A i \in 1..Len(log) : log[i] <= time /\ \A j \in i..Len(log) : log[i] <= log[j]

\* WithinLimit, for one record.
Spread(log) == \A i \in 1..Len(log) - Limit : log[i + Limit] - log[i] > Window

Inv ==
    /\ TypeOK
    /\ \A c \in Clients :
          /\ Mirrors(requests[c], granted[c], now)
          /\ Ordered(granted[c], now)
          /\ Spread(granted[c])

-----------------------------------------------------------------------------
\* Popping expired entries off the front keeps the deque a tail of the record.
LEMMA Trim ==
    ASSUME NEW queue \in Seq(Nat), NEW log \in Seq(Nat), NEW time \in Nat,
           NEW k \in 0..Len(queue),
           Mirrors(queue, log, time),
           \A i \in 1..k : time - queue[i] > Window
    PROVE  LET window == SubSeq(queue, k + 1, Len(queue)) IN
           /\ window \in Seq(Nat)
           /\ Len(window) = Len(queue) - k
           /\ \A i \in 1..Len(window) : window[i] = queue[k + i]
           /\ Mirrors(window, log, time)
<1> DEFINE window == SubSeq(queue, k + 1, Len(queue))
<1>1. /\ window \in Seq(Nat)
      /\ Len(window) = Len(queue) - k
      /\ \A i \in 1..Len(window) : window[i] = queue[k + i]
  BY SubSeqProperties
<1> HIDE DEF window
<1>2. Len(queue) \in Nat /\ Len(log) \in Nat /\ Len(queue) <= Len(log)
  BY DEF Mirrors
<1>3. ASSUME NEW i \in 1..Len(window)
      PROVE  window[i] = log[Len(log) - Len(window) + i]
  <2>1. k + i \in 1..Len(queue) /\ window[i] = queue[k + i]
    BY <1>1, <1>2
  <2>2. queue[k + i] = log[Len(log) - Len(queue) + (k + i)]
    BY <2>1 DEF Mirrors
  <2>3. Len(log) - Len(queue) + (k + i) = Len(log) - Len(window) + i
    BY <1>1, <1>2
  <2> QED BY <2>1, <2>2, <2>3
<1>4. ASSUME NEW i \in 1..Len(log) - Len(window)
      PROVE  time - log[i] > Window
  <2>1. CASE i <= Len(log) - Len(queue)
    BY <2>1, <1>2 DEF Mirrors
  <2>2. CASE i > Len(log) - Len(queue)
    <3> DEFINE j == i - (Len(log) - Len(queue))
    <3>1. j \in 1..k /\ j \in 1..Len(queue)
      BY <2>2, <1>1, <1>2
    <3>2. queue[j] = log[Len(log) - Len(queue) + j]
      BY <3>1 DEF Mirrors
    <3>3. Len(log) - Len(queue) + j = i
      BY <1>2
    <3> QED BY <3>1, <3>2, <3>3
  <2> QED BY <2>1, <2>2, <1>1, <1>2
<1>5. Mirrors(window, log, time)
  BY <1>1, <1>2, <1>3, <1>4 DEF Mirrors
<1> QED BY <1>1, <1>5 DEF window

\* The trimmed deque holds exactly the requests of the window that ends now.
LEMMA Live ==
    ASSUME NEW queue \in Seq(Nat), NEW log \in Seq(Nat), NEW time \in Nat,
           Mirrors(queue, log, time), Ordered(log, time),
           Len(queue) > 0 => time - queue[1] <= Window
    PROVE  Cardinality({i \in DOMAIN log : time - log[i] <= Window}) = Len(queue)
<1> DEFINE first == Len(log) - Len(queue) + 1
           recent == {i \in DOMAIN log : time - log[i] <= Window}
<1> USE LimitAssumption DEF LimitAssumption
<1>1. /\ Len(queue) \in Nat /\ Len(log) \in Nat /\ Len(queue) <= Len(log)
      /\ DOMAIN log = 1..Len(log) /\ first \in 1..Len(log) + 1
      /\ \A i \in 1..Len(log) : log[i] \in Nat
  BY LenProperties, ElementOfSeq DEF Mirrors
<1>2. ASSUME NEW i \in DOMAIN log, i < first
      PROVE  i \notin recent
  <2>1. i \in 1..Len(log) - Len(queue) /\ log[i] \in Nat
    BY <1>1, <1>2
  <2>2. time - log[i] > Window
    BY <2>1 DEF Mirrors
  <2> QED BY <2>1, <2>2
<1>3. ASSUME NEW i \in DOMAIN log, i >= first
      PROVE  i \in recent
  <2>1. first \in 1..Len(log) /\ i \in first..Len(log) /\ Len(queue) > 0
    BY <1>1, <1>3
  <2>2. log[first] <= log[i]
    BY <2>1 DEF Ordered
  <2>3. queue[1] = log[first]
    BY <2>1, <1>1 DEF Mirrors
  <2> QED BY <2>1, <2>2, <2>3, <1>1
<1>4. recent = first..Len(log)
  BY <1>1, <1>2, <1>3
<1>5. Cardinality(first..Len(log)) = IF first > Len(log) THEN 0 ELSE Len(log) - first + 1
  <2>1. first \in Int /\ Len(log) \in Int
    BY <1>1
  <2> HIDE DEF first
  <2> QED BY <2>1, FS_Interval
<1>6. Cardinality(first..Len(log)) = Len(queue)
  BY <1>1, <1>5
<1> QED BY <1>4, <1>6

\* A request that passes is recorded at the end of deque and record alike.
LEMMA Extend ==
    ASSUME NEW queue \in Seq(Nat), NEW log \in Seq(Nat), NEW time \in Nat,
           Mirrors(queue, log, time), Ordered(log, time), Spread(log),
           Len(queue) < Limit
    PROVE  /\ Append(queue, time) \in Seq(Nat) /\ Append(log, time) \in Seq(Nat)
           /\ Len(Append(queue, time)) = Len(queue) + 1
           /\ Mirrors(Append(queue, time), Append(log, time), time)
           /\ Ordered(Append(log, time), time)
           /\ Spread(Append(log, time))
<1> DEFINE queue2 == Append(queue, time)  log2 == Append(log, time)
<1> USE LimitAssumption DEF LimitAssumption
<1>1. /\ Len(queue) \in Nat /\ Len(log) \in Nat /\ Len(queue) <= Len(log)
      /\ \A i \in 1..Len(log) : log[i] \in Nat
  BY LenProperties, ElementOfSeq DEF Mirrors
<1>2. /\ queue2 \in Seq(Nat) /\ Len(queue2) = Len(queue) + 1
      /\ \A i \in 1..Len(queue) : queue2[i] = queue[i]
      /\ queue2[Len(queue) + 1] = time
  BY AppendProperties
<1>3. /\ log2 \in Seq(Nat) /\ Len(log2) = Len(log) + 1
      /\ \A i \in 1..Len(log) : log2[i] = log[i]
      /\ log2[Len(log) + 1] = time
  BY AppendProperties
<1> HIDE DEF queue2, log2
<1>4. Mirrors(queue2, log2, time)
  <2>1. Len(log2) - Len(queue2) = Len(log) - Len(queue) /\ Len(queue2) <= Len(log2)
    BY <1>1, <1>2, <1>3
  <2>2. ASSUME NEW i \in 1..Len(queue2)
        PROVE  queue2[i] = log2[Len(log2) - Len(queue2) + i]
    <3>1. CASE i = Len(queue) + 1
      <4>1. Len(log2) - Len(queue2) + i = Len(log) + 1
        BY <3>1, <1>1, <2>1
      <4> QED BY <4>1, <3>1, <1>2, <1>3
    <3>2. CASE i # Len(queue) + 1
      <4> DEFINE j == Len(log) - Len(queue) + i
      <4>1. i \in 1..Len(queue) /\ j \in 1..Len(log)
        BY <3>2, <1>1, <1>2
      <4>2. queue[i] = log[j]
        BY <4>1 DEF Mirrors
      <4>3. queue2[i] = queue[i] /\ log2[j] = log[j]
        BY <4>1, <1>2, <1>3
      <4> QED BY <4>2, <4>3, <2>1
    <3> QED BY <3>1, <3>2
  <2>3. ASSUME NEW i \in 1..Len(log2) - Len(queue2)
        PROVE  time - log2[i] > Window
    <3>1. i \in 1..Len(log) - Len(queue) /\ i \in 1..Len(log)
      BY <2>1, <1>1
    <3> QED BY <3>1, <1>3 DEF Mirrors
  <2> QED BY <2>1, <2>2, <2>3 DEF Mirrors
<1>5. Ordered(log2, time)
  <2>1. ASSUME NEW i \in 1..Len(log2)
        PROVE  log2[i] <= time
    <3>1. CASE i = Len(log) + 1
      BY <3>1, <1>3
    <3>2. CASE i # Len(log) + 1
      <4>1. i \in 1..Len(log)
        BY <3>2, <1>1, <1>3
      <4> QED BY <4>1, <1>3 DEF Ordered
    <3> QED BY <3>1, <3>2
  <2>2. ASSUME NEW i \in 1..Len(log2), NEW j \in i..Len(log2)
        PROVE  log2[i] <= log2[j]
    <3>1. CASE j = Len(log) + 1
      BY <3>1, <2>1, <1>3
    <3>2. CASE j # Len(log) + 1
      <4>1. i \in 1..Len(log) /\ j \in i..Len(log) /\ j \in 1..Len(log)
        BY <3>2, <1>1, <1>3
      <4> QED BY <4>1, <1>3 DEF Ordered
    <3> QED BY <3>1, <3>2
  <2> QED BY <2>1, <2>2 DEF Ordered
<1>6. ASSUME NEW i \in 1..Len(log2) - Limit
      PROVE  log2[i + Limit] - log2[i] > Window
  <2>1. CASE i + Limit <= Len(log)
    <3>1. i \in 1..Len(log) - Limit /\ i \in 1..Len(log) /\ i + Limit \in 1..Len(log)
      BY <2>1, <1>1, <1>3
    <3> QED BY <3>1, <1>3 DEF Spread
  <2>2. CASE i + Limit > Len(log)
    <3>1. i \in Nat /\ 1 <= i /\ i + Limit <= Len(log) + 1 /\ i + Limit \in Nat
      BY <1>1, <1>3
    <3>2. i + Limit = Len(log) + 1
      <4> DEFINE last == i + Limit
      <4>1. last \in Nat /\ last <= Len(log) + 1 /\ last > Len(log)
        BY <3>1, <2>2
      <4> HIDE DEF last
      <4>2. last = Len(log) + 1
        BY <4>1, <1>1
      <4> QED BY <4>2 DEF last
    <3>3. i \in 1..Len(log) - Len(queue) /\ i \in 1..Len(log)
      BY <3>1, <3>2, <1>1
    <3>4. time - log[i] > Window
      BY <3>3 DEF Mirrors
    <3> QED BY <3>2, <3>3, <3>4, <1>3
  <2> QED BY <2>1, <2>2, <1>1, <1>3
<1>7. Spread(log2)
  BY <1>6 DEF Spread
<1> QED BY <1>2, <1>3, <1>4, <1>5, <1>7 DEF queue2, log2

\* Time only moves entries out of the window.
LEMMA Wait ==
    ASSUME NEW queue \in Seq(Nat), NEW log \in Seq(Nat), NEW time \in Nat,
           Mirrors(queue, log, time), Ordered(log, time)
    PROVE  Mirrors(queue, log, time + 1) /\ Ordered(log, time + 1)
<1>1. /\ Len(queue) \in Nat /\ Len(log) \in Nat
      /\ \A i \in 1..Len(log) : log[i] \in Nat
  BY LenProperties, ElementOfSeq
<1> USE LimitAssumption DEF LimitAssumption
<1>2. Mirrors(queue, log, time + 1)
  BY <1>1 DEF Mirrors
<1>3. Ordered(log, time + 1)
  BY <1>1 DEF Ordered
<1> QED BY <1>2, <1>3

-----------------------------------------------------------------------------
\* A request is decided on a deque that is the window's share of the record.
LEMMA Decided ==
    ASSUME Inv, NEW c \in Clients, Dispatch(c)
    PROVE  \E window \in Seq(Nat) :
              /\ Mirrors(window, granted[c], now)
              /\ Len(window) <= Limit
              /\ Cardinality(Promise!Recent(c)) = Len(window)
              /\ Refuse(c, window) \/ Pass(c, window)
<1> DEFINE queue == requests[c]  log == granted[c]
<1>1. /\ queue \in Seq(Nat) /\ log \in Seq(Nat) /\ now \in Nat
      /\ Len(queue) \in Nat /\ Len(queue) <= Limit
      /\ Mirrors(queue, log, now) /\ Ordered(log, now)
  BY DEF Inv, TypeOK
<1>2. PICK k \in 0..Len(queue) :
        /\ Pops(queue, k)
        /\ LET window == SubSeq(queue, k + 1, Len(queue)) IN
              Refuse(c, window) \/ Pass(c, window)
  BY DEF Dispatch
<1> DEFINE window == SubSeq(queue, k + 1, Len(queue))
<1>3. \A i \in 1..k : now - queue[i] > Window
  BY <1>2 DEF Pops, Expired
<1> HIDE DEF queue, log
<1>4. /\ window \in Seq(Nat)
      /\ Len(window) = Len(queue) - k
      /\ \A i \in 1..Len(window) : window[i] = queue[k + i]
      /\ Mirrors(window, log, now)
  BY <1>1, <1>3, Trim
<1>5. Refuse(c, window) \/ Pass(c, window)
  BY <1>2
<1> HIDE DEF window
<1>6. Len(window) > 0 => now - window[1] <= Window
  <2> SUFFICES ASSUME Len(window) > 0 PROVE now - window[1] <= Window
    OBVIOUS
  <2>1. k < Len(queue) /\ window[1] = queue[k + 1] /\ k + 1 \in 1..Len(queue)
    BY <1>1, <1>4
  <2>2. queue[k + 1] \in Nat
    BY <1>1, <2>1, ElementOfSeq
  <2>3. ~(now - queue[k + 1] > Window)
    BY <1>2, <2>1 DEF Pops, Expired
  <2> QED BY <1>1, <2>1, <2>2, <2>3, LimitAssumption DEF LimitAssumption
<1>7. Cardinality({i \in DOMAIN log : now - log[i] <= Window}) = Len(window)
  BY <1>1, <1>4, <1>6, Live
<1>8. Len(window) <= Limit
  BY <1>1, <1>4, LimitAssumption DEF LimitAssumption
<1> QED BY <1>4, <1>5, <1>7, <1>8 DEF log, Promise!Recent

LEMMA InitInv == Init => Inv
<1> SUFFICES ASSUME Init PROVE Inv
  OBVIOUS
<1>1. <<>> \in Seq(Nat) /\ Len(<<>>) = 0
  BY EmptySeq
<1>2. TypeOK
  BY <1>1, LimitAssumption DEF LimitAssumption, Init, TypeOK
<1>3. ASSUME NEW c \in Clients
      PROVE  /\ Mirrors(requests[c], granted[c], now)
             /\ Ordered(granted[c], now)
             /\ Spread(granted[c])
  BY <1>1, LimitAssumption DEF LimitAssumption, Init, Mirrors, Ordered, Spread
<1> QED BY <1>2, <1>3 DEF Inv

LEMMA DispatchKeepsInv ==
    ASSUME Inv, NEW c \in Clients, Dispatch(c)
    PROVE  Inv'
<1>1. PICK window \in Seq(Nat) :
        /\ Mirrors(window, granted[c], now)
        /\ Len(window) <= Limit
        /\ Refuse(c, window) \/ Pass(c, window)
  BY Decided
<1>2. now' = now /\ now \in Nat
  BY DEF Dispatch, Inv, TypeOK
<1>3. CASE Refuse(c, window)
  <2>1. /\ requests' = [requests EXCEPT ![c] = window] /\ UNCHANGED granted
        /\ answer' = [answer EXCEPT ![c] = "refused"]
    BY <1>3 DEF Refuse
  <2>2. TypeOK'
    BY <1>1, <1>2, <2>1 DEF Inv, TypeOK
  <2>3. ASSUME NEW d \in Clients
        PROVE  /\ Mirrors(requests[d], granted[d], now)'
               /\ Ordered(granted[d], now)'
               /\ Spread(granted[d])'
    BY <1>1, <1>2, <2>1 DEF Inv, TypeOK, Mirrors, Ordered, Spread
  <2> QED BY <2>2, <2>3 DEF Inv
<1>4. CASE Pass(c, window)
  <2>1. /\ requests' = [requests EXCEPT ![c] = Append(window, now)]
        /\ granted' = [granted EXCEPT ![c] = Append(granted[c], now)]
        /\ answer' = [answer EXCEPT ![c] = "passed"]
        /\ Len(window) < Limit
    BY <1>4 DEF Pass
  <2>2. granted[c] \in Seq(Nat) /\ Ordered(granted[c], now) /\ Spread(granted[c])
    BY DEF Inv, TypeOK
  <2>3. /\ Append(window, now) \in Seq(Nat) /\ Append(granted[c], now) \in Seq(Nat)
        /\ Len(Append(window, now)) = Len(window) + 1
        /\ Mirrors(Append(window, now), Append(granted[c], now), now)
        /\ Ordered(Append(granted[c], now), now)
        /\ Spread(Append(granted[c], now))
    BY <1>1, <1>2, <2>1, <2>2, Extend
  <2>4. Len(Append(window, now)) <= Limit
    BY <1>1, <2>1, <2>3, LenProperties, LimitAssumption DEF LimitAssumption
  <2>5. requests'[c] = Append(window, now) /\ granted'[c] = Append(granted[c], now)
    BY <2>1 DEF Inv, TypeOK
  <2>6. ASSUME NEW d \in Clients, d # c
        PROVE  requests'[d] = requests[d] /\ granted'[d] = granted[d]
    BY <2>1, <2>6 DEF Inv, TypeOK
  <2>7. TypeOK'
    BY <1>2, <2>1, <2>3, <2>4, <2>5, <2>6 DEF Inv, TypeOK
  <2>8. ASSUME NEW d \in Clients
        PROVE  /\ Mirrors(requests'[d], granted'[d], now')
               /\ Ordered(granted'[d], now')
               /\ Spread(granted'[d])
    BY <1>2, <2>3, <2>5, <2>6 DEF Inv
  <2> QED BY <2>7, <2>8 DEF Inv, Mirrors, Ordered, Spread
<1> QED BY <1>1, <1>3, <1>4

LEMMA NextKeepsInv == Inv /\ [Next]_vars => Inv'
<1> SUFFICES ASSUME Inv, [Next]_vars PROVE Inv'
  OBVIOUS
<1>1. CASE Tick
  <2>1. now' = now + 1 /\ now \in Nat /\ UNCHANGED <<requests, granted, answer>>
    BY <1>1 DEF Tick, Inv, TypeOK
  <2>2. TypeOK'
    BY <2>1 DEF Inv, TypeOK
  <2>3. ASSUME NEW c \in Clients
        PROVE  /\ Mirrors(requests[c], granted[c], now + 1)
               /\ Ordered(granted[c], now + 1)
               /\ Spread(granted[c])
    BY <2>1, Wait DEF Inv, TypeOK
  <2> QED BY <2>1, <2>2, <2>3 DEF Inv, Mirrors, Ordered, Spread
<1>2. CASE \E c \in Clients : Dispatch(c)
  BY <1>2, DispatchKeepsInv
<1>3. CASE UNCHANGED vars
  BY <1>3 DEF vars, Inv, TypeOK, Mirrors, Ordered, Spread
<1> QED BY <1>1, <1>2, <1>3 DEF Next

THEOREM InvHolds == Spec => []Inv
<1> QED BY InitInv, NextKeepsInv, PTL DEF Spec

\* Cardinality seen through the instance is Cardinality.
LEMMA SameCardinality == \A S : Promise!Cardinality(S) = Cardinality(S)
BY DEF Cardinality, Promise!Cardinality

\* The type of every variable; no deque ever holds more than Limit entries,
\* for any number of clients and any length of time.
THEOREM TypeCorrect == Spec => []TypeOK
<1>1. Inv => TypeOK
  BY DEF Inv
<1> QED BY <1>1, InvHolds, PTL

\* RateLimitMiddleware lets at most Limit requests of a client through in any
\* window of Window seconds, wherever the window starts.
THEOREM NeverAboveLimit == Spec => []WithinLimit
<1>1. Inv => WithinLimit
  BY DEF Inv, WithinLimit, Spread
<1> QED BY <1>1, InvHolds, PTL

\* RateLimitMiddleware decides every request as the complete record of what
\* passed demands: its deque forgets only what no later decision depends on.
THEOREM ImplementsPromise == Spec => Implements
<1>1. Init => Promise!Init
  BY DEF Init, Promise!Init
<1>2. Inv /\ [Next]_vars => [Promise!Next]_Promise!vars
  <2> SUFFICES ASSUME Inv, [Next]_vars PROVE [Promise!Next]_Promise!vars
    OBVIOUS
  <2>1. CASE Tick
    <3>1. now' = now + 1 /\ now \in Nat /\ UNCHANGED <<granted, answer>>
      BY <2>1 DEF Tick, Inv, TypeOK
    <3> QED BY <3>1 DEF Promise!Next, Promise!Elapse
  <2>2. ASSUME NEW c \in Clients, Dispatch(c)
        PROVE  Promise!Pass(c) \/ Promise!Refuse(c)
    <3>1. PICK window \in Seq(Nat) :
            /\ Cardinality(Promise!Recent(c)) = Len(window)
            /\ Refuse(c, window) \/ Pass(c, window)
      BY <2>2, Decided
    <3>2. now' = now
      BY <2>2 DEF Dispatch
    <3>3. ASSUME Refuse(c, window)
          PROVE  Promise!Refuse(c)
      BY <3>1, <3>2, <3>3, SameCardinality DEF Refuse, Promise!Refuse
    <3>4. ASSUME Pass(c, window)
          PROVE  Promise!Pass(c)
      BY <3>1, <3>2, <3>4, SameCardinality DEF Pass, Promise!Pass
    <3> QED BY <3>1, <3>3, <3>4
  <2>3. CASE UNCHANGED vars
    BY <2>3 DEF vars, Promise!vars
  <2> QED BY <2>1, <2>2, <2>3 DEF Next, Promise!Next
<1> QED BY <1>1, <1>2, InvHolds, PTL DEF Spec, Implements, Promise!Spec
=============================================================================
