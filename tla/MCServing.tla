------------------------------ MODULE MCServing ------------------------------
(* Threads of a pod are alike, and so are the pods.                         *)
EXTENDS Serving, TLC

PodSymmetry == Permutations(Pods) \cup Permutations(Slots)
=============================================================================
