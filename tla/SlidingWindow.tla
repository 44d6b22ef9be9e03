---------------------------- MODULE SlidingWindow ----------------------------
(***************************************************************************)
(* What the rate limiter of RankIQ promises a client, stated over the      *)
(* complete record of what it let through: a request passes if and only if *)
(* fewer than Limit requests of the same client passed in the last Window  *)
(* seconds.  RateLimit implements it with a bounded queue.                 *)
(***************************************************************************)
EXTENDS Integers, Sequences, FiniteSets

CONSTANTS Clients, Window, Limit

VARIABLES
    now,       \* the clock
    granted,   \* per client, the times of all requests that passed
    answer     \* per client, the last answer: "none", "passed" or "refused"

vars == <<now, granted, answer>>

Init ==
    /\ now = 0
    /\ granted = [c \in Clients |-> <<>>]
    /\ answer = [c \in Clients |-> "none"]

\* The requests of client c that passed within the window that ends now.
Recent(c) == {i \in DOMAIN granted[c] : now - granted[c][i] <= Window}

Pass(c) ==
    /\ Cardinality(Recent(c)) < Limit
    /\ granted' = [granted EXCEPT ![c] = Append(@, now)]
    /\ answer' = [answer EXCEPT ![c] = "passed"]
    /\ UNCHANGED now

Refuse(c) ==
    /\ Cardinality(Recent(c)) >= Limit
    /\ answer' = [answer EXCEPT ![c] = "refused"]
    /\ UNCHANGED <<now, granted>>

Elapse == now' \in Nat /\ now' > now /\ UNCHANGED <<granted, answer>>

Next == Elapse \/ \E c \in Clients : Pass(c) \/ Refuse(c)

Spec == Init /\ [][Next]_vars
=============================================================================
