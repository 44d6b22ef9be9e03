---------------------------- MODULE MCRemoteStore ----------------------------
(* Lists of a product, of two, and of one named twice.                      *)
EXTENDS RemoteStore, TLC

CONSTANTS p1, p2

SomeLists == {<<p1>>, <<p1, p2>>, <<p1, p1>>}
ThreadSymmetry == Permutations(Threads)
=============================================================================
