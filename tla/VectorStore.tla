----------------------------- MODULE VectorStore -----------------------------
(***************************************************************************)
(* What the interface VectorStore (services/vectorstore/base.py) promises  *)
(* those who write to it, whatever the backend (ADR-001): a product has    *)
(* one vector or none; it changes only by a call that names the product    *)
(* and is under way, to what that call wants; a call returns when all its  *)
(* products have been settled so, and a call that raises may have settled  *)
(* any of them.  FaissStore and RemoteStore implement it.                  *)
(*                                                                         *)
(* A vector is known by the call that stored it.                           *)
(***************************************************************************)

CONSTANTS
    Callers, ProductIds,
    Versions, None,  \* what a product may have: a vector, or none
    LossyClear,  \* TRUE: clear may succeed with products left (Qdrant)
    Durable      \* TRUE: what is stored outlives the process

VARIABLES
    contents,  \* the vector of every product
    doing      \* per caller: the call it makes

vars == <<contents, doing>>

\* A caller between calls.
Idle == [op |-> "none", wants |-> None, left |-> {}, ok |-> FALSE]

Kinds == {"upsert", "delete", "clear"}

Init ==
    /\ contents \in [ProductIds -> Versions \cup {None}]
    /\ doing = [c \in Callers |-> Idle]

\* clear is for all products; it and delete want no vector.
Begin(c, kind, products, wants) ==
    /\ doing[c] = Idle
    /\ kind = "clear" => products = ProductIds
    /\ kind # "upsert" <=> wants = None
    /\ doing' = [doing EXCEPT ![c] =
          [op |-> kind, wants |-> wants, left |-> products, ok |-> FALSE]]
    /\ UNCHANGED contents

Set(products, vector) ==
    contents' = [p \in ProductIds |-> IF p \in products THEN vector ELSE contents[p]]

\* An update may take the old vectors out before it puts the new ones in.
Vacate(c) ==
    /\ doing[c].op = "upsert"
    /\ \E products \in SUBSET doing[c].left : Set(products, None)
    /\ UNCHANGED doing

\* Some products get what the call wants, and the call is done with some of them.
\* The step that settles the last one may be the one that succeeds.
Settle(c) ==
    /\ doing[c].op \in Kinds /\ ~doing[c].ok
    /\ \E products \in SUBSET doing[c].left : \E settled \in SUBSET products, ok \in BOOLEAN :
          /\ Set(products, doing[c].wants)
          /\ ok => settled = doing[c].left \/ (LossyClear /\ doing[c].op = "clear")
          /\ doing' = [doing EXCEPT ![c] =
                [op |-> @.op, wants |-> @.wants, left |-> @.left \ settled, ok |-> ok]]

\* It returns, having succeeded, or raises.
Leave(c) ==
    /\ doing[c].op \in Kinds
    /\ doing' = [doing EXCEPT ![c] = Idle]
    /\ UNCHANGED contents

\* The process starts anew.  What the backend does not keep is gone, or was
\* restored from elsewhere.
Restart ==
    /\ doing' = [c \in Callers |-> Idle]
    /\ contents' \in [ProductIds -> Versions \cup {None}]
    /\ Durable => UNCHANGED contents

Next ==
    \/ \E c \in Callers :
          \/ \E kind \in Kinds, products \in SUBSET ProductIds, wants \in Versions \cup {None} :
                Begin(c, kind, products, wants)
          \/ Vacate(c) \/ Settle(c) \/ Leave(c)
    \/ Restart

Spec == Init /\ [][Next]_vars
=============================================================================
