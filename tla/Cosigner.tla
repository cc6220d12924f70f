------------------------------ MODULE Cosigner ------------------------------
(***************************************************************************)
(* What a cohort of witnesses promises (pkg/witness, Server.Cosign): each  *)
(* of them keeps a record of the checkpoints it was shown that is never    *)
(* taken back and has one root per tree size, and cosigns only what is in  *)
(* its record.  A checkpoint is its size and its root.                     *)
(***************************************************************************)
CONSTANTS Witnesses, Sizes, Roots

VARIABLES
    offered,  \* the checkpoints the operator has signed
    record,   \* those each witness has on record for good
    signed    \* those each witness has cosigned

vars == <<offered, record, signed>>

OneRoot(cs) == \A c, d \in cs : c[1] = d[1] => c = d

Init ==
    /\ offered = {}
    /\ record = [w \in Witnesses |-> {}]
    /\ signed = [w \in Witnesses |-> {}]

Offer(c) ==
    /\ offered' = offered \cup {c}
    /\ UNCHANGED <<record, signed>>

\* One save may bring several checkpoints: saves before it may have failed.
Record(w, batch) ==
    /\ OneRoot(record[w] \cup batch)
    /\ record' = [record EXCEPT ![w] = @ \cup batch]
    /\ UNCHANGED <<offered, signed>>

Cosign(w, c) ==
    /\ c \in record[w]
    /\ signed' = [signed EXCEPT ![w] = @ \cup {c}]
    /\ UNCHANGED <<offered, record>>

Next ==
    \/ \E c \in Sizes \X Roots : Offer(c)
    \/ \E w \in Witnesses :
         \/ \E batch \in SUBSET offered : Record(w, batch)
         \/ \E c \in record[w] : Cosign(w, c)

Spec == Init /\ [][Next]_vars

=============================================================================
