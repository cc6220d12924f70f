----------------------------- MODULE MCSteleLog -----------------------------
(***************************************************************************)
(* Small instances of the log for TLC, and beside it the Merkle tree with  *)
(* the caches and the proofs that SteleLog abstracts from.  The tree shares*)
(* no variable with the log, so a behaviour of this module is about one of *)
(* the two, chosen at the start, while the other stands still.             *)
(***************************************************************************)
EXTENDS SteleLog

CONSTANTS p1, k1, k2, q1, d1, d2

CONSTANTS maxInternal, maxLeaf, MaxLeaves  \* of the tree

Classical == [key |-> k1, qkey |-> NoKey]
Hybrid    == [key |-> k1, qkey |-> q1]
Rotated   == [key |-> k2, qkey |-> NoKey]

Envelope(c, d, sig) == [producer |-> p1, cred |-> c, data |-> d, sig |-> sig]

MCCredentials == {Classical, Hybrid}

\* Two distinct envelopes, one of them also as a canary.
MCRequests ==
    {[env |-> Envelope(Hybrid, d1, d1), honeypot |-> FALSE],
     [env |-> Envelope(Hybrid, d1, d1), honeypot |-> TRUE],
     [env |-> Envelope(Classical, d2, d2), honeypot |-> FALSE]}

\* With an envelope whose signature is bad and one under a foreign key.
MCRequestsAll == MCRequests \cup
    {[env |-> Envelope(Hybrid, d2, d1), honeypot |-> FALSE],
     [env |-> Envelope(Rotated, d1, d1), honeypot |-> FALSE]}

MCCredentialsAll == {Classical, Hybrid, Rotated}

-----------------------------------------------------------------------------
VARIABLES
    part,  \* the component this behaviour is about
    tRng, tSize, tLru, tLeafLRU, tStore

treeVars == <<tRng, tSize, tLru, tLeafLRU, tStore>>

Tree == INSTANCE Merkle WITH
    rng <- tRng, size <- tSize, lru <- tLru, leafLRU <- tLeafLRU,
    store <- tStore

LogInit == Init /\ Tree!Init /\ part = "log"
AllInit == Init /\ Tree!Init /\ part \in {"log", "tree"}

AllNext ==
    \/ /\ part = "log"
       /\ Next
       /\ UNCHANGED <<part, treeVars>>
    \/ /\ part = "tree"
       /\ Tree!Next
       /\ UNCHANGED <<part, vars>>

allVars == <<part, vars, treeVars>>

AllSpec == AllInit /\ [][AllNext]_allVars

\* The log alone, with its fairness.
LogSpec == LogInit /\ [][AllNext]_allVars /\ Fairness

\* Every proof of the Merkle tree verifies, of membership and of consistency,
\* at every size (module Merkle).
ProofsVerify == Tree!InclusionVerifies /\ Tree!ConsistencyVerifies

=============================================================================
