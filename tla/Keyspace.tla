------------------------------ MODULE Keyspace ------------------------------
(***************************************************************************)
(* A BadgerDB key prefix ("entry/", "leaf/", "replay/", "producer/") as    *)
(* the code under pkg/storage uses it: a partial function from keys to     *)
(* values, written by transactions that are atomic and, with SyncWrites    *)
(* on, durable when they return.                                           *)
(***************************************************************************)

EmptySpace == [k \in {} |-> k]

\* txn.Set(key, value)
Put(space, key, value) ==
    [k \in DOMAIN space \cup {key} |-> IF k = key THEN value ELSE space[k]]

\* txn.Delete(key); deleting an absent key is not an error
Delete(space, key) == [k \in DOMAIN space \ {key} |-> space[k]]

=============================================================================
