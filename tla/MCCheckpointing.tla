-------------------------- MODULE MCCheckpointing --------------------------
(* Checkpointing for TLC: threads are interchangeable, and so are witnesses. *)
EXTENDS Checkpointing, TLC

MCSymmetry == Permutations(Threads) \cup Permutations(Witnesses)
=============================================================================
