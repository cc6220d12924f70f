------------------------------ MODULE KeyStore ------------------------------
(***************************************************************************)
(* What fwdsec.KeyStore and fwdsec.LiveKey promise (the interfaces in      *)
(* pkg/fwdsec/keystore.go): a generated key is there until it is removed,  *)
(* a removed key is gone for good, and only a key that is there, and that  *)
(* this process generated or loaded, signs.  An operation that fails does  *)
(* nothing, except that a failed Destroy may have removed the key.         *)
(***************************************************************************)
CONSTANTS
    Keys,   \* the keys the store may come to hold
    NoKey

VARIABLES
    key,        \* per key: "none", "live", or "gone"
    held,       \* the keys the process has a LiveKey of
    destroyed,  \* the keys whose Destroy returned nil
    last        \* the key of the last signature, NoKey once it is removed

vars == <<key, held, destroyed, last>>

Init ==
    /\ key = [k \in Keys |-> "none"]
    /\ held = {}
    /\ destroyed = {}
    /\ last = NoKey

Generate(k) ==
    /\ key[k] = "none"
    /\ key' = [key EXCEPT ![k] = "live"]
    /\ held' = held \cup {k}
    /\ UNCHANGED <<destroyed, last>>

Load(k) ==
    /\ key[k] = "live"
    /\ held' = held \cup {k}
    /\ UNCHANGED <<key, destroyed, last>>

Sign(k) ==
    /\ k \in held
    /\ key[k] = "live"
    /\ last' = k
    /\ UNCHANGED <<key, held, destroyed>>

\* "After Destroy the key cannot sign anything."
Remove(k) ==
    /\ k \in held
    /\ key[k] = "live"
    /\ key' = [key EXCEPT ![k] = "gone"]
    /\ held' = held \ {k}
    /\ last' = NoKey
    /\ UNCHANGED destroyed

DestroyReturns(k) ==
    /\ key[k] = "gone"
    /\ destroyed' = destroyed \cup {k}
    /\ UNCHANGED <<key, held, last>>

\* The process lets go of the store, or ends.
Close ==
    /\ held' = {}
    /\ UNCHANGED <<key, destroyed, last>>

Next ==
    \/ \E k \in Keys :
         Generate(k) \/ Load(k) \/ Sign(k) \/ Remove(k) \/ DestroyReturns(k)
    \/ Close

Spec == Init /\ [][Next]_vars

=============================================================================
