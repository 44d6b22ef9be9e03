------------------------------ MODULE RateLimit ------------------------------
(***************************************************************************)
(* RateLimitMiddleware (api/middleware/rate_limit.py): per client address  *)
(* a deque of the times of the requests let through.  dispatch has no      *)
(* await before it answers or appends, so on the event loop of the process *)
(* all of it is one step.  The clock ticks in any unit that divides the    *)
(* differences the code compares; time.monotonic may stand still between   *)
(* two requests.                                                           *)
(***************************************************************************)
EXTENDS Integers, Sequences

CONSTANTS
    Clients,   \* client addresses; requests without one share "unknown"
    Window,    \* _WINDOW_SECONDS
    Limit,     \* rate_limit_per_minute
    MaxTime    \* bound: ticks in a behaviour

ASSUME LimitAssumption == Window \in Nat /\ Limit \in Nat /\ MaxTime \in Nat

VARIABLES
    now,        \* time.monotonic()
    requests,   \* _requests: the deque of every client
    granted,    \* history: the times of all requests that passed
    answer      \* history: the last answer given to every client

vars == <<now, requests, granted, answer>>

Init ==
    /\ now = 0
    /\ requests = [c \in Clients |-> <<>>]
    /\ granted = [c \in Clients |-> <<>>]
    /\ answer = [c \in Clients |-> "none"]

Tick == now < MaxTime /\ now' = now + 1 /\ UNCHANGED <<requests, granted, answer>>

\* Mutant: an entry that is exactly Window old leaves the deque.
ExpiredEarly(time) == now - time >= Window

Expired(time) == now - time > Window

\* Mutant: the whole deque is dropped with its oldest entry.
PopsAll(window, k) ==
    k = IF window # <<>> /\ Expired(window[1]) THEN Len(window) ELSE 0

\* The loop pops k entries from the front and stops at the first live one.
Pops(window, k) ==
    /\ \A i \in 1..k : Expired(window[i])
    /\ k < Len(window) => ~Expired(window[k + 1])

\* Mutant: refused requests are recorded as well.
RefuseRecords(c, window) ==
    /\ Len(window) >= Limit
    /\ requests' = [requests EXCEPT ![c] = Append(window, now)]
    /\ answer' = [answer EXCEPT ![c] = "refused"]
    /\ UNCHANGED granted

\* 429; the deque keeps what the loop left of it.
Refuse(c, window) ==
    /\ Len(window) >= Limit
    /\ requests' = [requests EXCEPT ![c] = window]
    /\ answer' = [answer EXCEPT ![c] = "refused"]
    /\ UNCHANGED granted

Pass(c, window) ==
    /\ Len(window) < Limit
    /\ requests' = [requests EXCEPT ![c] = Append(window, now)]
    /\ granted' = [granted EXCEPT ![c] = Append(@, now)]
    /\ answer' = [answer EXCEPT ![c] = "passed"]

Dispatch(c) ==
    /\ \E k \in 0..Len(requests[c]) :
          /\ Pops(requests[c], k)
          /\ LET window == SubSeq(requests[c], k + 1, Len(requests[c])) IN
                Refuse(c, window) \/ Pass(c, window)
    /\ UNCHANGED now

Next == Tick \/ \E c \in Clients : Dispatch(c)

Spec == Init /\ [][Next]_vars

-----------------------------------------------------------------------------
\* The type of every variable: a deque is a sequence of at most Limit times, so
\* a client that goes on being refused costs no memory.
TypeOK ==
    /\ now \in Nat
    /\ requests \in [Clients -> Seq(Nat)]
    /\ granted \in [Clients -> Seq(Nat)]
    /\ answer \in [Clients -> {"none", "passed", "refused"}]
    /\ \A c \in Clients : Len(requests[c]) <= Limit

\* "{limit} requests per minute": of any Limit + 1 requests of a client that
\* passed, the last came more than Window after the first.
WithinLimit ==
    \A c \in Clients : \A i \in 1..Len(granted[c]) - Limit :
        granted[c][i + Limit] - granted[c][i] > Window

\* The queue decides as the complete record would: nobody is let through too
\* early and nobody is refused who stayed within the limit.
Promise == INSTANCE SlidingWindow
Implements == Promise!Spec
=============================================================================
