------------------------------ MODULE KeyChain ------------------------------
(***************************************************************************)
(* What a forward-secure signer promises (fwdsec.Signer and fwdsec.Chain,  *)
(* pkg/fwdsec/fwdsec.go): a chain of keys that only grows, one key per     *)
(* epoch for ever.  The last key is there when it is needed; a key that is *)
(* gone never comes back; and what is signed in an epoch is signed by the  *)
(* key the chain has, and keeps, for that epoch.                           *)
(***************************************************************************)
EXTENDS Integers, Sequences

CONSTANTS Keys

VARIABLES
    made,    \* the keys ever generated
    kept,    \* those that can still be read
    chain,   \* the certified keys, in the order of their epochs
    signed   \* <<epoch, key>> of the signatures

vars == <<made, kept, chain, signed>>

Last == chain[Len(chain)]

Init ==
    /\ made = {}
    /\ kept = {}
    /\ chain = <<>>
    /\ signed = {}

Generate(k) ==
    /\ k \notin made
    /\ made' = made \cup {k}
    /\ kept' = kept \cup {k}
    /\ UNCHANGED <<chain, signed>>

\* The next epoch begins with a key that no epoch had before.
Certify(k) ==
    /\ k \in kept
    /\ \A i \in DOMAIN chain : chain[i] # k
    /\ chain' = Append(chain, k)
    /\ UNCHANGED <<made, kept, signed>>

Sign ==
    /\ chain # <<>>
    /\ Last \in kept
    /\ signed' = signed \cup {<<Len(chain) - 1, Last>>}
    /\ UNCHANGED <<made, kept, chain>>

\* Only a key that does not sign any more, or never did, is destroyed.
Destroy(k) ==
    /\ k \in kept
    /\ chain # <<>> => k # Last
    /\ kept' = kept \ {k}
    /\ UNCHANGED <<made, chain, signed>>

Next ==
    \/ \E k \in Keys : Generate(k) \/ Certify(k) \/ Destroy(k)
    \/ Sign

Spec == Init /\ [][Next]_vars

=============================================================================
