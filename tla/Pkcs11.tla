------------------------------- MODULE Pkcs11 -------------------------------
(***************************************************************************)
(* PKCS11KeyStore (pkg/hsm/pkcs11.go): epoch keys as pairs of objects on a *)
(* token, a private and a public one under the same label.  An operation   *)
(* holds the store's mutex, but it makes several calls to the token, each  *)
(* of which may fail, and the process may end between two of them.         *)
(*                                                                         *)
(* A label is random and never met again, so a key is its label.  What the *)
(* token does is modelled from how the store uses it.                      *)
(***************************************************************************)
EXTENDS Integers

CONSTANTS
    Keys,
    NoKey,
    MaxFaults,  \* bound: calls to the token that fail
    MaxCrashes  \* bound: crashes

VARIABLES
    session,    \* Open has a session on the token and is logged in
    token,      \* the objects: pairs of label and class
    known,      \* the labels Generate has returned
    held,       \* the hsmLiveKeys of this process
    op,         \* the operation that holds mu: [kind, key, err]
    destroyed,  \* the keys whose Destroy returned nil
    last,       \* history: the key of the last signature, until it is removed
    faults, crashes

vars == <<session, token, known, held, op, destroyed, last, faults, crashes>>

Classes == {"priv", "pub"}
Free == [kind |-> "none", key |-> NoKey, err |-> FALSE]
Ops == {Free} \cup [kind: {"generate", "destroy"}, key: Keys, err: BOOLEAN]

Init ==
    /\ session = FALSE
    /\ token = {}
    /\ known = {} /\ held = {} /\ destroyed = {}
    /\ op = Free
    /\ last = NoKey
    /\ faults = 0 /\ crashes = 0

Fault == faults < MaxFaults /\ faults' = faults + 1

\* The store is open and no operation is under way.
Ready == session /\ op = Free

-----------------------------------------------------------------------------
\* Initialize, OpenSession and Login; when one fails the others are undone.
Open ==
    /\ ~session
    /\ session' = TRUE
    /\ UNCHANGED <<token, known, held, op, destroyed, last, faults, crashes>>

\* Close waits for the mutex; the handles die with the session.
Close ==
    /\ Ready
    /\ session' = FALSE
    /\ held' = {}
    /\ UNCHANGED <<token, known, op, destroyed, last, faults, crashes>>

\* Generate: the token makes the pair ...
GenerateKeyPair(k) ==
    /\ Ready
    /\ k \notin known
    /\ token \cap ({k} \X Classes) = {}
    /\ token' = token \cup ({k} \X Classes)
    /\ op' = [kind |-> "generate", key |-> k, err |-> FALSE]
    /\ UNCHANGED <<session, known, held, destroyed, last, faults, crashes>>

\* ... whose public key is read back.
ReadPublicKey ==
    /\ op.kind = "generate"
    /\ known' = known \cup {op.key}
    /\ held' = held \cup {op.key}
    /\ op' = Free
    /\ UNCHANGED <<session, token, destroyed, last, faults, crashes>>

\* It cannot be: both objects are destroyed, as far as the token lets them.
ReadPublicKeyFails ==
    /\ op.kind = "generate"
    /\ Fault
    /\ \E left \in SUBSET Classes :
          token' = token \ ({op.key} \X (Classes \ left))
    /\ op' = Free
    /\ UNCHANGED <<session, known, held, destroyed, last, crashes>>

\* Load: exactly one object of either class has the label.
Load(k) ==
    /\ Ready
    /\ k \in known
    /\ {k} \X Classes \subseteq token
    /\ held' = held \cup {k}
    /\ UNCHANGED <<session, token, known, op, destroyed, last, faults, crashes>>

Sign(k) ==
    /\ Ready
    /\ k \in held
    /\ <<k, "priv">> \in token
    /\ last' = k
    /\ UNCHANGED <<session, token, known, held, op, destroyed, faults, crashes>>

\* Destroy: first the private object ...
DestroyPrivate(k) ==
    /\ Ready
    /\ k \in held
    /\ \/ /\ <<k, "priv">> \in token
          /\ token' = token \ {<<k, "priv">>}
          /\ op' = [kind |-> "destroy", key |-> k, err |-> FALSE]
          /\ last' = NoKey
          /\ UNCHANGED faults
       \/ /\ <<k, "priv">> \notin token
          /\ op' = [kind |-> "destroy", key |-> k, err |-> TRUE]
          /\ UNCHANGED <<token, last, faults>>
       \/ /\ Fault
          /\ op' = [kind |-> "destroy", key |-> k, err |-> TRUE]
          /\ UNCHANGED <<token, last>>
    /\ UNCHANGED <<session, known, held, destroyed, crashes>>

\* mutant: only the error of the second call is returned
DestroyPublic_LastErrorOnly ==
    /\ op.kind = "destroy"
    /\ \/ /\ <<op.key, "pub">> \in token
          /\ token' = token \ {<<op.key, "pub">>}
          /\ destroyed' = destroyed \cup {op.key}
          /\ UNCHANGED faults
       \/ /\ Fault \/ (<<op.key, "pub">> \notin token /\ UNCHANGED faults)
          /\ UNCHANGED <<token, destroyed>>
    /\ op' = Free
    /\ UNCHANGED <<session, known, held, last, crashes>>

\* ... then the public one, whatever came of the first; either error is
\* returned.
DestroyPublic ==
    /\ op.kind = "destroy"
    /\ \/ /\ <<op.key, "pub">> \in token
          /\ token' = token \ {<<op.key, "pub">>}
          /\ destroyed' = IF op.err THEN destroyed ELSE destroyed \cup {op.key}
          /\ UNCHANGED faults
       \/ /\ Fault \/ (<<op.key, "pub">> \notin token /\ UNCHANGED faults)
          /\ UNCHANGED <<token, destroyed>>
    /\ op' = Free
    /\ UNCHANGED <<session, known, held, last, crashes>>

Crash ==
    /\ crashes < MaxCrashes
    /\ crashes' = crashes + 1
    /\ session' = FALSE
    /\ held' = {}
    /\ op' = Free
    /\ UNCHANGED <<token, known, destroyed, last, faults>>

Next ==
    \/ Open \/ Close
    \/ \E k \in Keys :
         GenerateKeyPair(k) \/ Load(k) \/ Sign(k) \/ DestroyPrivate(k)
    \/ ReadPublicKey \/ ReadPublicKeyFails
    \/ DestroyPublic
    \/ Crash

Spec == Init /\ [][Next]_vars

-----------------------------------------------------------------------------
(* Properties                                                              *)

\* Every variable has its type.
TypeOK ==
    /\ session \in BOOLEAN
    /\ token \subseteq Keys \X Classes
    /\ known \subseteq Keys /\ held \subseteq Keys /\ destroyed \subseteq Keys
    /\ op \in Ops
    /\ last \in Keys \cup {NoKey}

HasPrivate(k) == <<k, "priv">> \in token

Status == [k \in Keys |-> IF k \notin known THEN "none"
                          ELSE IF HasPrivate(k) THEN "live" ELSE "gone"]

Usable == {k \in held : HasPrivate(k)}

KS == INSTANCE KeyStore WITH key <- Status, held <- Usable

\* The token is a key store: what Generate returned is there until it is
\* destroyed, what Destroy said to be gone is gone although it takes two calls
\* of which one may fail, and nothing else ever signs.
ImplementsKeyStore == KS!Spec

=============================================================================
