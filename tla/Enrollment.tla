----------------------------- MODULE Enrollment -----------------------------
(***************************************************************************)
(* Producer enrollment (pkg/core/log.go, pkg/storage/producers.go and the  *)
(* handlers of pkg/api): the operator vouches for a producer on its own    *)
(* (IssueEnrollment), or the producer first proves that it holds its key   *)
(* by signing a challenge (BeginEnrollment, ConfirmEnrollment).            *)
(*                                                                         *)
(* Calls run in concurrent handlers.  The challenges are guarded by        *)
(* pendingMu, which ConfirmEnrollment holds only to look one up; the       *)
(* signer's epoch, its signature and its Dilithium signature are taken in  *)
(* separate critical sections, between which the key may be rotated; the   *)
(* record is then written over whatever the registry holds.                *)
(*                                                                         *)
(* A signature is represented by the key that made it and, for the         *)
(* producer's, by what it signs.  The operator's key of epoch e is e.      *)
(***************************************************************************)
EXTENDS Integers, Keyspace

CONSTANTS
    Threads,     \* concurrent handlers
    Ids,         \* producer ids
    Keys,        \* producer keys; each has a holder that signs with it
    NoSig,       \* an absent signature
    MaxSerial,   \* bound: calls of IssueEnrollment and BeginEnrollment
    MaxEpoch,    \* bound: rotations
    MaxRevokes,  \* bound: calls of RevokeProducer
    MaxCrashes   \* bound: restarts

ASSUME EnrollmentAssumption ==
    /\ MaxSerial \in Nat
    /\ MaxEpoch \in Nat
    /\ MaxRevokes \in Nat
    /\ MaxCrashes \in Nat
    /\ NoSig \notin 0 .. MaxEpoch

VARIABLES
    hybrid,     \* operator and producers have Dilithium keys
    epoch,      \* Chain.ActiveEpoch
    registry,   \* "producer/" keyspace: id -> record
    pending,    \* Log.pending: challenge -> [terms, expired]
    pc,         \* per thread: its next step
    work,       \* per thread: the record it builds
    responses,  \* history: challenges the holders of the keys have signed
    accepted,   \* history: challenge -> confirmations that got past its lookup
    serial,     \* calls so far: time stamp, challenge id and nonce
    revokes, crashes

call == <<pc, work>>
bounds == <<revokes, crashes>>
operator == <<hybrid, epoch>>
vars == <<operator, registry, pending, call, responses, accepted, serial,
          bounds>>

-----------------------------------------------------------------------------
(* Records (pkg/storage/producers.go)                                      *)

\* CanonicalEnrollment: what the operator signs.  The time of issue makes the
\* terms of two calls different.
Terms == [id: Ids, key: Keys, issuedAt: 1 .. MaxSerial, epoch: 0 .. MaxEpoch]

\* ChallengeBytes: the terms with a nonce of their own; NoNonce for a record of
\* IssueEnrollment.
NoNonce == 0
Challenge(rec) == [terms |-> rec.terms, nonce |-> rec.nonce]

Signatures == [key: Keys, over: [terms: Terms, nonce: 1 .. MaxSerial]]

NewRecord(terms, nonce, csig, qcsig) ==
    [terms |-> terms, nonce |-> nonce, csig |-> csig, qcsig |-> qcsig,
     sig |-> NoSig, qsig |-> NoSig, revoked |-> FALSE]

Records == [terms: Terms, nonce: 0 .. MaxSerial, csig: Signatures \cup {NoSig},
            qcsig: Signatures \cup {NoSig}, sig: 0 .. MaxEpoch \cup {NoSig},
            qsig: 0 .. MaxEpoch \cup {NoSig}, revoked: BOOLEAN]

VerifyConsent(rec) ==
    LET expected == [key |-> rec.terms.key, over |-> Challenge(rec)]
    IN rec.csig = expected /\ (hybrid => rec.qcsig = expected)

\* QuantumOperatorPubKey is the chain's at OperatorEpoch by construction.
VerifyEnrollment(rec) ==
    /\ rec.sig = rec.terms.epoch
    /\ rec.terms.epoch \in 0 .. epoch
    /\ rec.qsig \in {NoSig, rec.terms.epoch}

-----------------------------------------------------------------------------
Init ==
    /\ hybrid \in BOOLEAN
    /\ epoch = 0
    /\ registry = EmptySpace
    /\ pending = EmptySpace
    /\ pc = [t \in Threads |-> "idle"]
    /\ work = [t \in Threads |-> NoSig]
    /\ responses = {}
    /\ accepted = [c \in 1 .. MaxSerial |-> 0]
    /\ serial = 0
    /\ revokes = 0
    /\ crashes = 0

Return(t) ==
    /\ pc' = [pc EXCEPT ![t] = "idle"]
    /\ work' = [work EXCEPT ![t] = NoSig]

NewTerms(id, key) ==
    [id |-> id, key |-> key, issuedAt |-> serial + 1, epoch |-> epoch]

NextSerial ==
    /\ serial < MaxSerial
    /\ serial' = serial + 1

\* IssueEnrollment up to its signature: a copy of the chain gives the epoch.
IssueEnrollment(t, id, key) ==
    /\ pc[t] = "idle"
    /\ NextSerial
    /\ work' = [work EXCEPT ![t] = NewRecord(NewTerms(id, key), NoNonce, NoSig, NoSig)]
    /\ pc' = [pc EXCEPT ![t] = "sign"]
    /\ UNCHANGED <<operator, registry, pending, responses, accepted, bounds>>

BeginEnrollment(id, key) ==
    /\ NextSerial
    /\ pending' = Put(pending, serial', [terms |-> NewTerms(id, key), expired |-> FALSE])
    /\ UNCHANGED <<operator, registry, call, responses, accepted, bounds>>

\* The holder of the key signs the challenge it was given.
Respond(c) ==
    /\ responses' = responses \cup
         {[key |-> pending[c].terms.key,
           over |-> [terms |-> pending[c].terms, nonce |-> c]]}
    /\ UNCHANGED <<operator, registry, pending, call, accepted, serial,
                   bounds>>

\* The record of a challenge with the producer's answer to it.
ConfirmedRecord(c, sig, qsig) ==
    NewRecord(pending[c].terms, c, sig, IF hybrid THEN qsig ELSE NoSig)

\* mutant: the challenge stays until the janitor comes
ConfirmEnrollment_NotConsumed(t, c, sig, qsig) ==
    LET rec == ConfirmedRecord(c, sig, qsig)
    IN /\ pc[t] = "idle"
       /\ c \in DOMAIN pending
       /\ ~pending[c].expired
       /\ VerifyConsent(rec)
       /\ accepted' = [accepted EXCEPT ![c] = @ + 1]
       /\ work' = [work EXCEPT ![t] = rec]
       /\ pc' = [pc EXCEPT ![t] = "sign"]
       /\ UNCHANGED <<operator, registry, pending, responses, serial, bounds>>

\* ConfirmEnrollment up to the operator's signature: the challenge is consumed,
\* then its expiry and the producer's signatures are checked.
ConfirmEnrollment(t, c, sig, qsig) ==
    LET rec == ConfirmedRecord(c, sig, qsig)
    IN /\ pc[t] = "idle"
       /\ c \in DOMAIN pending
       /\ ~pending[c].expired
       /\ VerifyConsent(rec)
       /\ pending' = Delete(pending, c)
       /\ accepted' = [accepted EXCEPT ![c] = @ + 1]
       /\ work' = [work EXCEPT ![t] = rec]
       /\ pc' = [pc EXCEPT ![t] = "sign"]
       /\ UNCHANGED <<operator, registry, responses, serial, bounds>>

\* An expired challenge or a bad signature: the challenge is gone all the same.
ConfirmRefused(c, sig, qsig) ==
    LET rec == ConfirmedRecord(c, sig, qsig)
    IN /\ c \in DOMAIN pending
       /\ pending[c].expired \/ ~VerifyConsent(rec)
       /\ pending' = Delete(pending, c)
       /\ UNCHANGED <<operator, registry, call, responses, accepted, serial,
                      bounds>>

\* "unknown or expired challenge"
ConfirmUnknown(c) ==
    /\ c \in 1 .. serial \ DOMAIN pending
    /\ UNCHANGED vars

\* mutant: the epoch the signer reports is not compared
SignEnrollment_AnyEpoch(t) ==
    /\ pc[t] = "sign"
    /\ work' = [work EXCEPT ![t].sig = epoch]
    /\ pc' = [pc EXCEPT ![t] = IF hybrid THEN "qsign" ELSE "register"]
    /\ UNCHANGED <<operator, registry, pending, responses, accepted, serial,
                   bounds>>

\* fws.Sign returns the signature with its epoch, which must be the record's.
SignEnrollment(t) ==
    /\ pc[t] = "sign"
    /\ work[t].terms.epoch = epoch
    /\ work' = [work EXCEPT ![t].sig = epoch]
    /\ pc' = [pc EXCEPT ![t] = IF hybrid THEN "qsign" ELSE "register"]
    /\ UNCHANGED <<operator, registry, pending, responses, accepted, serial,
                   bounds>>

\* The key was rotated ("operator epoch drift"), or the signer or the store
\* fails.
EnrollmentFails(t) ==
    /\ pc[t] \in {"sign", "qsign", "register"}
    /\ Return(t)
    /\ UNCHANGED <<operator, registry, pending, responses, accepted, serial,
                   bounds>>

\* fws.QuantumSign: the key that is active by now, whose epoch is not returned.
QuantumSignEnrollment(t) ==
    /\ pc[t] = "qsign"
    /\ work' = [work EXCEPT ![t].qsig = epoch]
    /\ pc' = [pc EXCEPT ![t] = "register"]
    /\ UNCHANGED <<operator, registry, pending, responses, accepted, serial,
                   bounds>>

\* store.RegisterProducer: over the record that is there.
RegisterProducer(t) ==
    /\ pc[t] = "register"
    /\ registry' = Put(registry, work[t].terms.id, work[t])
    /\ Return(t)
    /\ UNCHANGED <<operator, pending, responses, accepted, serial, bounds>>

RevokeProducer(id) ==
    /\ revokes < MaxRevokes
    /\ revokes' = revokes + 1
    /\ id \in DOMAIN registry
    /\ registry' = [registry EXCEPT ![id].revoked = TRUE]
    /\ UNCHANGED <<operator, pending, call, responses, accepted, serial,
                   crashes>>

-----------------------------------------------------------------------------
(* Time, the janitor, rotations and restarts                               *)

ExpireChallenge(c) ==
    /\ ~pending[c].expired
    /\ pending' = [pending EXCEPT ![c].expired = TRUE]
    /\ UNCHANGED <<operator, registry, call, responses, accepted, serial,
                   bounds>>

EnrollmentJanitor ==
    LET live == {c \in DOMAIN pending : ~pending[c].expired}
    IN /\ live # DOMAIN pending
       /\ pending' = [c \in live |-> pending[c]]
       /\ UNCHANGED <<operator, registry, call, responses, accepted, serial,
                      bounds>>

Rotate ==
    /\ epoch < MaxEpoch
    /\ epoch' = epoch + 1
    /\ UNCHANGED <<hybrid, registry, pending, call, responses, accepted,
                   serial, bounds>>

\* The challenges are only in memory.
Crash ==
    /\ crashes < MaxCrashes
    /\ crashes' = crashes + 1
    /\ pending' = EmptySpace
    /\ pc' = [t \in Threads |-> "idle"]
    /\ work' = [t \in Threads |-> NoSig]
    /\ UNCHANGED <<operator, registry, responses, accepted, serial, revokes>>

Next ==
    \/ \E id \in Ids, key \in Keys :
         \/ BeginEnrollment(id, key)
         \/ \E t \in Threads : IssueEnrollment(t, id, key)
    \/ \E c \in DOMAIN pending :
         \/ Respond(c)
         \/ ExpireChallenge(c)
         \/ \E sig \in responses, qsig \in responses \cup {NoSig} :
              \/ ConfirmRefused(c, sig, qsig)
              \/ \E t \in Threads : ConfirmEnrollment(t, c, sig, qsig)
    \/ \E c \in 1 .. MaxSerial : ConfirmUnknown(c)
    \/ \E t \in Threads :
         \/ SignEnrollment(t)
         \/ EnrollmentFails(t)
         \/ QuantumSignEnrollment(t)
         \/ RegisterProducer(t)
    \/ \E id \in Ids : RevokeProducer(id)
    \/ EnrollmentJanitor
    \/ Rotate
    \/ Crash

Spec == Init /\ [][Next]_vars

-----------------------------------------------------------------------------
(* Properties                                                              *)

\* Every variable has its type.
TypeOK ==
    /\ hybrid \in BOOLEAN
    /\ epoch \in 0 .. MaxEpoch
    /\ DOMAIN registry \subseteq Ids
    /\ \A id \in DOMAIN registry : registry[id] \in Records
    /\ DOMAIN pending \subseteq 1 .. serial
    /\ \A c \in DOMAIN pending : pending[c] \in [terms: Terms, expired: BOOLEAN]
    /\ pc \in [Threads -> {"idle", "sign", "qsign", "register"}]
    /\ work \in [Threads -> Records \cup {NoSig}]
    /\ responses \subseteq Signatures
    /\ accepted \in [1 .. MaxSerial -> Nat]
    /\ serial \in 0 .. MaxSerial

\* "a successful confirm consumes the pending state" (ConfirmEnrollment): of
\* any number of confirmations of one challenge, concurrent ones included, one
\* is accepted.
ChallengeUsedOnce == \A c \in 1 .. MaxSerial : accepted[c] <= 1

\* Whatever the interleaving of handlers, rotations and restarts, a registered
\* enrollment stands under its own id, is signed by the key of the epoch it
\* names, and verifies against the rotation chain, unless a rotation fell between
\* its two signatures: so without Dilithium keys the check Append makes under
\* --require-enrollment never refuses a producer whose enrollment was reported a
\* success.  One that came from a challenge still carries the producer's consent
\* to these very terms, and is the only one its challenge led to.
EnrollmentVerifies ==
    \A id \in DOMAIN registry :
        LET rec == registry[id]
        IN /\ rec.terms.id = id
           /\ rec.sig = rec.terms.epoch
           /\ VerifyEnrollment(rec) <=> (hybrid => rec.qsig = rec.terms.epoch)
           /\ rec.nonce # NoNonce => VerifyConsent(rec) /\ accepted[rec.nonce] = 1

=============================================================================
