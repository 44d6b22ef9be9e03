----------------------------- MODULE MCFaissStore -----------------------------
(* Two products; a list of both, and one that names a product twice.        *)
EXTENDS FaissStore

CONSTANTS p1, p2

SomeLists == {<<p1, p2>>, <<p1, p1>>}

\* No property speaks of a process that loaded files which disagree, or let requests
\* in without an index: the run follows it for three calls only.
UnsoundCalls == 3
Bound == sound \/ calls <= UnsoundCalls
=============================================================================
