----------------------------- MODULE MCBm25Index -----------------------------
(* Catalogs whose scores differ in kind: a word of one product in three, of *)
(* two in three, of one in two; products without a token; and none at all.  *)
EXTENDS Bm25Index

CONSTANTS p1, p2, p3

SomeCatalogs ==
    {<<<<p1, "match">>, <<p2, "other">>, <<p3, "other">>>>,
     <<<<p3, "match">>, <<p1, "match">>, <<p2, "other">>>>,
     <<<<p2, "match">>, <<p1, "other">>>>,
     <<<<p1, "blank">>, <<p3, "blank">>>>,
     <<>>}
=============================================================================
