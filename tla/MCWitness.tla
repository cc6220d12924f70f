----------------------------- MODULE MCWitness -----------------------------
(* Instances of Witness for TLC.                                           *)
EXTENDS Witness, TLC

\* The operator shows every root to everybody ...
ShowsAll == [w \in Witnesses |-> Roots]

\* ... or keeps each witness on a branch of its own.
Branch == CHOOSE f \in [Witnesses -> Roots] :
            \A v, w \in Witnesses : v # w => f[v] # f[w]

ShowsSplit == [w \in Witnesses |-> {Branch[w]}]

MCSymmetry == Permutations(Witnesses) \cup Permutations(Roots)
=============================================================================
