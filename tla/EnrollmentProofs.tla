-------------------------- MODULE EnrollmentProofs --------------------------
(***************************************************************************)
(* Enrollment is safe for any number of handlers, producers, calls,        *)
(* rotations and restarts: a challenge is good for one confirmation, and   *)
(* what the registry holds verifies.  The daemon that serves it releases   *)
(* what it opened, and its endpoints leave a trail of what they answered.  *)
(***************************************************************************)
EXTENDS Enrollment, ServerPart, TLAPS

-----------------------------------------------------------------------------
(* Records                                                                 *)

\* Two records of the same terms and the same consent to them.
SameConsent(r, s) ==
    /\ s.terms = r.terms /\ s.nonce = r.nonce
    /\ s.csig = r.csig /\ s.qcsig = r.qcsig

\* A fresh record is a record that nobody at the operator has signed.
LEMMA NewRecordType ==
  ASSUME NEW terms \in Terms, NEW nonce \in 0 .. MaxSerial,
         NEW s \in Signatures \cup {NoSig}, NEW q \in Signatures \cup {NoSig}
  PROVE  /\ NewRecord(terms, nonce, s, q) \in Records
         /\ NewRecord(terms, nonce, s, q).terms = terms
         /\ NewRecord(terms, nonce, s, q).qsig = NoSig
         /\ NewRecord(terms, nonce, s, q).nonce = nonce
         /\ NewRecord(terms, nonce, s, q).csig = s
         /\ NewRecord(terms, nonce, s, q).qcsig = q
BY Zenon DEF NewRecord, Records

\* To sign a record changes its signature and nothing else.
LEMMA SignedRecord ==
  ASSUME NEW r \in Records, NEW e \in 0 .. MaxEpoch
  PROVE  /\ [r EXCEPT !.sig = e] \in Records
         /\ [r EXCEPT !.sig = e].sig = e
         /\ [r EXCEPT !.sig = e].terms = r.terms
         /\ [r EXCEPT !.sig = e].qsig = r.qsig
         /\ SameConsent(r, [r EXCEPT !.sig = e])
BY DEF Records, SameConsent

\* So does the Dilithium signature.
LEMMA QuantumSignedRecord ==
  ASSUME NEW r \in Records, NEW e \in 0 .. MaxEpoch
  PROVE  /\ [r EXCEPT !.qsig = e] \in Records
         /\ [r EXCEPT !.qsig = e].qsig = e
         /\ [r EXCEPT !.qsig = e].sig = r.sig
         /\ SameConsent(r, [r EXCEPT !.qsig = e])
BY DEF Records, SameConsent

\* To revoke a record leaves what was signed.
LEMMA RevokedRecord ==
  ASSUME NEW r \in Records
  PROVE  /\ [r EXCEPT !.revoked = TRUE] \in Records
         /\ [r EXCEPT !.revoked = TRUE].sig = r.sig
         /\ [r EXCEPT !.revoked = TRUE].terms = r.terms
         /\ [r EXCEPT !.revoked = TRUE].qsig = r.qsig
         /\ SameConsent(r, [r EXCEPT !.revoked = TRUE])
BY Zenon DEF Records, SameConsent

-----------------------------------------------------------------------------
(* Types                                                                   *)

\* The types, and that a call in progress works on a record.
TypeInv ==
    /\ TypeOK
    /\ \A t \in Threads : pc[t] # "idle" => work[t] \in Records
    /\ \A c \in DOMAIN pending : pending[c].terms.epoch <= epoch

\* The first state satisfies the invariant.
LEMMA TypeInit == Init => TypeInv
<1> SUFFICES ASSUME Init PROVE TypeInv
  OBVIOUS
<1>1. DOMAIN registry = {} /\ DOMAIN pending = {}
  BY DEF Init, EmptySpace
<1>2. /\ pc \in [Threads -> {"idle"}]
      /\ work \in [Threads -> {NoSig}]
      /\ accepted \in [1 .. MaxSerial -> {0}]
  BY DEF Init
<1> QED
  BY <1>1, <1>2, EnrollmentAssumption DEF Init, TypeInv, TypeOK

\* The terms of a call are terms.
LEMMA NewTermsType ==
  ASSUME TypeOK, serial < MaxSerial, NEW id \in Ids, NEW key \in Keys
  PROVE  NewTerms(id, key) \in Terms /\ NewTerms(id, key).epoch = epoch
BY EnrollmentAssumption DEF TypeOK, NewTerms, Terms

\* Every step keeps it.
LEMMA TypeNext == TypeInv /\ [Next]_vars => TypeInv'
<1> SUFFICES ASSUME TypeInv, [Next]_vars PROVE TypeInv'
  BY Zenon
<1> USE EnrollmentAssumption DEF TypeInv, TypeOK
<1>1. ASSUME NEW id \in Ids, NEW key \in Keys, BeginEnrollment(id, key)
      PROVE  TypeInv'
  <2> DEFINE p == [terms |-> NewTerms(id, key), expired |-> FALSE]
  <2>1. NewTerms(id, key) \in Terms /\ NewTerms(id, key).epoch = epoch
    BY <1>1, NewTermsType, Zenon DEF BeginEnrollment, NextSerial
  <2>2. p \in [terms: Terms, expired: BOOLEAN] /\ p.terms.epoch = epoch
    BY <2>1
  <2>3. serial' = serial + 1 /\ serial < MaxSerial
    BY <1>1 DEF BeginEnrollment, NextSerial
  <2>4. /\ DOMAIN pending' = DOMAIN pending \cup {serial'}
        /\ \A c \in DOMAIN pending' : pending'[c] = IF c = serial' THEN p ELSE pending[c]
    BY <1>1 DEF BeginEnrollment, Put
  <2>5. \A c \in DOMAIN pending' : /\ pending'[c] \in [terms: Terms, expired: BOOLEAN]
                                    /\ pending'[c].terms.epoch <= epoch
    <3> HIDE DEF p
    <3> QED
      BY <2>2, <2>4
  <2>6. DOMAIN pending' \subseteq 1 .. serial' /\ serial' \in 0 .. MaxSerial
    BY <2>3, <2>4
  <2> QED
    BY <1>1, <2>5, <2>6, Zenon DEF BeginEnrollment, operator, call, bounds
<1>2. ASSUME NEW id \in Ids, NEW key \in Keys, NEW t \in Threads,
             IssueEnrollment(t, id, key)
      PROVE  TypeInv'
  <2> DEFINE r == NewRecord(NewTerms(id, key), NoNonce, NoSig, NoSig)
  <2>1. r \in Records
    <3>1. NewTerms(id, key) \in Terms
      BY <1>2, NewTermsType, Zenon DEF IssueEnrollment, NextSerial
    <3>2. NoNonce \in 0 .. MaxSerial
      BY DEF NoNonce
    <3> QED
      BY <3>1, <3>2, NewRecordType, Zenon
  <2>2. work' = [work EXCEPT ![t] = r] /\ pc' = [pc EXCEPT ![t] = "sign"]
    BY <1>2, Zenon DEF IssueEnrollment
  <2> HIDE DEF r
  <2>3. /\ work' \in [Threads -> Records \cup {NoSig}]
        /\ pc' \in [Threads -> {"idle", "sign", "qsign", "register"}]
        /\ \A u \in Threads : pc'[u] # "idle" => work'[u] \in Records
    BY <2>1, <2>2
  <2>4. serial' \in 0 .. MaxSerial /\ serial <= serial'
    BY <1>2 DEF IssueEnrollment, NextSerial
  <2>5. UNCHANGED <<hybrid, epoch, registry, pending, responses, accepted>>
    BY <1>2, Zenon DEF IssueEnrollment, operator
  <2>6. DOMAIN pending \subseteq 1 .. serial'
    BY <2>4
  <2> QED
    BY <2>3, <2>4, <2>5, <2>6, Zenon
<1>3. ASSUME NEW c \in DOMAIN pending, Respond(c) PROVE TypeInv'
  <2> DEFINE s == [key |-> pending[c].terms.key,
                   over |-> [terms |-> pending[c].terms, nonce |-> c]]
  <2>1. pending[c].terms \in Terms /\ c \in 1 .. MaxSerial
    OBVIOUS
  <2>2. s \in Signatures
    BY <2>1, Zenon DEF Signatures, Terms
  <2>3. responses' = responses \cup {s}
    BY <1>3, Zenon DEF Respond
  <2> HIDE DEF s
  <2> QED
    BY <1>3, <2>2, <2>3, Zenon DEF Respond, operator, call, bounds
<1>4. ASSUME NEW c \in DOMAIN pending, ExpireChallenge(c) PROVE TypeInv'
  <2>1. pending' = [pending EXCEPT ![c].expired = TRUE]
    BY <1>4 DEF ExpireChallenge
  <2>2. /\ DOMAIN pending' = DOMAIN pending
        /\ \A d \in DOMAIN pending : d # c => pending'[d] = pending[d]
        /\ pending'[c] = [pending[c] EXCEPT !.expired = TRUE]
    BY <2>1
  <2>3. /\ [pending[c] EXCEPT !.expired = TRUE] \in [terms: Terms, expired: BOOLEAN]
        /\ [pending[c] EXCEPT !.expired = TRUE].terms = pending[c].terms
    BY Zenon
  <2> QED
    BY <1>4, <2>2, <2>3, Zenon DEF ExpireChallenge, operator, call, bounds
<1>5. ASSUME NEW c \in DOMAIN pending, NEW sig \in responses,
             NEW qsig \in responses \cup {NoSig}, ConfirmRefused(c, sig, qsig)
      PROVE  TypeInv'
  <2>1. /\ DOMAIN pending' \subseteq DOMAIN pending
        /\ \A d \in DOMAIN pending' : pending'[d] = pending[d]
    BY <1>5, Zenon DEF ConfirmRefused, Delete
  <2> QED
    BY <1>5, <2>1, Zenon DEF ConfirmRefused, operator, call, bounds
<1>6. ASSUME NEW c \in DOMAIN pending, NEW sig \in responses,
             NEW qsig \in responses \cup {NoSig}, NEW t \in Threads,
             ConfirmEnrollment(t, c, sig, qsig)
      PROVE  TypeInv'
  <2> DEFINE r == ConfirmedRecord(c, sig, qsig)
  <2>1. /\ DOMAIN pending' \subseteq DOMAIN pending
        /\ \A d \in DOMAIN pending' : pending'[d] = pending[d]
    BY <1>6, Zenon DEF ConfirmEnrollment, Delete
  <2>2. r \in Records
    <3>1. pending[c].terms \in Terms /\ c \in 0 .. MaxSerial
      OBVIOUS
    <3>2. /\ sig \in Signatures \cup {NoSig}
          /\ (IF hybrid THEN qsig ELSE NoSig) \in Signatures \cup {NoSig}
      OBVIOUS
    <3> QED
      BY <3>1, <3>2, NewRecordType, Zenon DEF ConfirmedRecord
  <2>3. work' = [work EXCEPT ![t] = r] /\ pc' = [pc EXCEPT ![t] = "sign"]
    BY <1>6 DEF ConfirmEnrollment
  <2>4. accepted' \in [1 .. MaxSerial -> Nat]
    BY <1>6 DEF ConfirmEnrollment
  <2>5. UNCHANGED <<hybrid, epoch, registry, responses, serial>>
    BY <1>6, Zenon DEF ConfirmEnrollment, operator
  <2> HIDE DEF r
  <2>6. /\ work' \in [Threads -> Records \cup {NoSig}]
        /\ pc' \in [Threads -> {"idle", "sign", "qsign", "register"}]
        /\ \A u \in Threads : pc'[u] # "idle" => work'[u] \in Records
    BY <2>2, <2>3, Zenon
  <2> QED
    BY <2>1, <2>4, <2>5, <2>6, Zenon
<1>7. ASSUME NEW c \in 1 .. MaxSerial, ConfirmUnknown(c) PROVE TypeInv'
  BY <1>7, Zenon DEF ConfirmUnknown, vars, operator, call, bounds
<1>8. ASSUME NEW t \in Threads, SignEnrollment(t) PROVE TypeInv'
  <2>1. work[t] \in Records /\ epoch \in 0 .. MaxEpoch
    BY <1>8 DEF SignEnrollment
  <2>2. /\ work' = [work EXCEPT ![t] = [work[t] EXCEPT !.sig = epoch]]
        /\ [work[t] EXCEPT !.sig = epoch] \in Records
    BY <1>8, <2>1, SignedRecord DEF SignEnrollment
  <2>3. pc' = [pc EXCEPT ![t] = IF hybrid THEN "qsign" ELSE "register"]
    BY <1>8 DEF SignEnrollment
  <2>4. /\ work' \in [Threads -> Records \cup {NoSig}]
        /\ \A u \in Threads : pc'[u] # "idle" => work'[u] \in Records
    BY <2>2, <2>3, Zenon
  <2>5. pc' \in [Threads -> {"idle", "sign", "qsign", "register"}]
    BY <2>3, Zenon
  <2> QED
    BY <1>8, <2>4, <2>5, Zenon DEF SignEnrollment, operator, bounds
<1>9. ASSUME NEW t \in Threads, EnrollmentFails(t) PROVE TypeInv'
  <2>1. /\ work' \in [Threads -> Records \cup {NoSig}]
        /\ pc' \in [Threads -> {"idle", "sign", "qsign", "register"}]
        /\ \A u \in Threads : pc'[u] # "idle" => work'[u] \in Records
    BY <1>9, Zenon DEF EnrollmentFails, Return
  <2> QED
    BY <1>9, <2>1, Zenon DEF EnrollmentFails, operator, bounds
<1>10. ASSUME NEW t \in Threads, QuantumSignEnrollment(t) PROVE TypeInv'
  <2>1. work[t] \in Records /\ epoch \in 0 .. MaxEpoch
    BY <1>10 DEF QuantumSignEnrollment
  <2>2. /\ work' = [work EXCEPT ![t] = [work[t] EXCEPT !.qsig = epoch]]
        /\ [work[t] EXCEPT !.qsig = epoch] \in Records
    BY <1>10, <2>1, QuantumSignedRecord DEF QuantumSignEnrollment
  <2>3. pc' = [pc EXCEPT ![t] = "register"]
    BY <1>10 DEF QuantumSignEnrollment
  <2>4. /\ work' \in [Threads -> Records \cup {NoSig}]
        /\ pc' \in [Threads -> {"idle", "sign", "qsign", "register"}]
        /\ \A u \in Threads : pc'[u] # "idle" => work'[u] \in Records
    BY <2>2, <2>3, Zenon
  <2> QED
    BY <1>10, <2>4, Zenon DEF QuantumSignEnrollment, operator, bounds
<1>11. ASSUME NEW t \in Threads, RegisterProducer(t) PROVE TypeInv'
  <2>1. /\ work' \in [Threads -> Records \cup {NoSig}]
        /\ pc' \in [Threads -> {"idle", "sign", "qsign", "register"}]
        /\ \A u \in Threads : pc'[u] # "idle" => work'[u] \in Records
    BY <1>11, Zenon DEF RegisterProducer, Return
  <2>2. work[t] \in Records
    BY <1>11, Zenon DEF RegisterProducer
  <2>3. work[t].terms.id \in Ids
    BY <2>2, Zenon DEF Records, Terms
  <2>4. /\ DOMAIN registry' \subseteq Ids
        /\ \A id \in DOMAIN registry' : registry'[id] \in Records
    BY <1>11, <2>2, <2>3, Zenon DEF RegisterProducer, Put
  <2> QED
    BY <1>11, <2>1, <2>4, Zenon DEF RegisterProducer, operator, bounds
<1>12. ASSUME NEW id \in Ids, RevokeProducer(id) PROVE TypeInv'
  <2>1. id \in DOMAIN registry /\ registry[id] \in Records
    BY <1>12 DEF RevokeProducer
  <2>2. /\ registry' = [registry EXCEPT ![id] = [registry[id] EXCEPT !.revoked = TRUE]]
        /\ [registry[id] EXCEPT !.revoked = TRUE] \in Records
    BY <1>12, <2>1, RevokedRecord DEF RevokeProducer
  <2>3. /\ DOMAIN registry' \subseteq Ids
        /\ \A d \in DOMAIN registry' : registry'[d] \in Records
    BY <2>1, <2>2
  <2> QED
    BY <1>12, <2>3, Zenon DEF RevokeProducer, operator, call
<1>13. CASE EnrollmentJanitor
  BY <1>13, Zenon DEF EnrollmentJanitor, operator, call, bounds
<1>14. CASE Rotate
  <2>1. epoch' \in 0 .. MaxEpoch /\ epoch <= epoch'
    BY <1>14 DEF Rotate
  <2>2. \A c \in DOMAIN pending : pending[c].terms.epoch \in Nat
    BY DEF Terms
  <2>3. \A c \in DOMAIN pending : pending[c].terms.epoch <= epoch'
    BY <2>1, <2>2
  <2> QED
    BY <1>14, <2>1, <2>3, Zenon DEF Rotate, call, bounds
<1>15. CASE Crash
  <2>1. DOMAIN pending' = {}
    BY <1>15, Zenon DEF Crash, EmptySpace
  <2>2. pc' \in [Threads -> {"idle"}] /\ work' \in [Threads -> {NoSig}]
    BY <1>15, Zenon DEF Crash
  <2> QED
    BY <1>15, <2>1, <2>2, Zenon DEF Crash, operator
<1>16. CASE UNCHANGED vars
  BY <1>16, Zenon DEF vars, operator, call, bounds
<1> QED
  BY <1>1, <1>2, <1>3, <1>4, <1>5, <1>6, <1>7, <1>8, <1>9, <1>10, <1>11, <1>12,
     <1>13, <1>14, <1>15, <1>16
 , Zenon DEF Next

\* The variables keep their types.
THEOREM EnrollmentTypeCorrect == Spec => []TypeOK
<1>1. TypeInv => TypeOK
  BY DEF TypeInv
<1> QED
  BY <1>1, TypeInit, TypeNext, PTL DEF Spec

-----------------------------------------------------------------------------
(* A challenge is good for one confirmation                                *)

\* No challenge that is pending or yet to come has been accepted.
OnceInv ==
    /\ ChallengeUsedOnce
    /\ \A c \in 1 .. MaxSerial : c > serial \/ c \in DOMAIN pending => accepted[c] = 0

\* The first state satisfies the invariant.
LEMMA OnceInit == Init => OnceInv
BY DEF Init, OnceInv, ChallengeUsedOnce

\* Every step keeps it: only ConfirmEnrollment accepts, and it takes the
\* challenge away.
LEMMA OnceNext == TypeInv /\ OnceInv /\ [Next]_vars => OnceInv'
<1> SUFFICES ASSUME TypeInv, OnceInv, [Next]_vars PROVE OnceInv'
  OBVIOUS
<1>t. /\ serial \in 0 .. MaxSerial /\ accepted \in [1 .. MaxSerial -> Nat]
      /\ DOMAIN pending \subseteq 1 .. serial
  BY Zenon DEF TypeInv, TypeOK
<1> USE EnrollmentAssumption DEF OnceInv, ChallengeUsedOnce
<1>1. ASSUME NEW id \in Ids, NEW key \in Keys, BeginEnrollment(id, key)
      PROVE  OnceInv'
  <2>1. /\ serial' = serial + 1 /\ accepted' = accepted
        /\ DOMAIN pending' = DOMAIN pending \cup {serial + 1}
    BY <1>1, Zenon DEF BeginEnrollment, NextSerial, Put
  <2> QED
    BY <1>t, <2>1
<1>2. ASSUME NEW id \in Ids, NEW key \in Keys, NEW t \in Threads,
             IssueEnrollment(t, id, key)
      PROVE  OnceInv'
  BY <1>2, <1>t DEF IssueEnrollment, NextSerial
<1>3. ASSUME NEW c \in DOMAIN pending, NEW sig \in responses,
             NEW qsig \in responses \cup {NoSig}, NEW t \in Threads,
             ConfirmEnrollment(t, c, sig, qsig)
      PROVE  OnceInv'
  <2>1. /\ accepted' = [accepted EXCEPT ![c] = @ + 1]
        /\ DOMAIN pending' = DOMAIN pending \ {c}
        /\ serial' = serial
    BY <1>3, Zenon DEF ConfirmEnrollment, Delete
  <2>2. c \in 1 .. MaxSerial /\ c <= serial /\ accepted[c] = 0
    BY <1>t
  <2>3. /\ accepted'[c] = 1
        /\ \A d \in 1 .. MaxSerial : d # c => accepted'[d] = accepted[d]
    BY <1>t, <2>1, <2>2
  <2> QED
    BY <1>t, <2>1, <2>2, <2>3
<1>4. ASSUME UNCHANGED <<serial, accepted>>, DOMAIN pending' \subseteq DOMAIN pending
      PROVE  OnceInv'
  BY <1>4
<1>5. \/ \E id \in Ids, key \in Keys : BeginEnrollment(id, key)
      \/ \E id \in Ids, key \in Keys, t \in Threads : IssueEnrollment(t, id, key)
      \/ \E c \in DOMAIN pending, sig \in responses, qsig \in responses \cup {NoSig},
            t \in Threads : ConfirmEnrollment(t, c, sig, qsig)
      \/ UNCHANGED <<serial, accepted>> /\ DOMAIN pending' \subseteq DOMAIN pending
  <2>1. ASSUME NEW c \in DOMAIN pending, Respond(c) \/ ExpireChallenge(c)
        PROVE  UNCHANGED <<serial, accepted>> /\ DOMAIN pending' \subseteq DOMAIN pending
    BY <2>1 DEF Respond, ExpireChallenge
  <2>2. ASSUME NEW c \in DOMAIN pending, NEW sig \in responses,
               NEW qsig \in responses \cup {NoSig}, ConfirmRefused(c, sig, qsig)
        PROVE  UNCHANGED <<serial, accepted>> /\ DOMAIN pending' \subseteq DOMAIN pending
    BY <2>2 DEF ConfirmRefused, Delete
  <2>3. ASSUME NEW t \in Threads,
               \/ SignEnrollment(t) \/ EnrollmentFails(t)
               \/ QuantumSignEnrollment(t) \/ RegisterProducer(t)
        PROVE  UNCHANGED <<serial, accepted, pending>>
    BY <2>3 DEF SignEnrollment, EnrollmentFails, QuantumSignEnrollment, RegisterProducer
  <2>4. ASSUME \/ \E c \in 1 .. MaxSerial : ConfirmUnknown(c)
               \/ \E id \in Ids : RevokeProducer(id)
               \/ Rotate \/ UNCHANGED vars
        PROVE  UNCHANGED <<serial, accepted, pending>>
    BY <2>4 DEF ConfirmUnknown, RevokeProducer, Rotate, vars
  <2>5. ASSUME EnrollmentJanitor \/ Crash
        PROVE  UNCHANGED <<serial, accepted>> /\ DOMAIN pending' \subseteq DOMAIN pending
    BY <2>5, Zenon DEF EnrollmentJanitor, Crash, EmptySpace
  <2> QED
    BY <2>1, <2>2, <2>3, <2>4, <2>5, Zenon DEF Next
<1> QED
  BY <1>1, <1>2, <1>3, <1>4, <1>5, Zenon

\* Of any number of confirmations of a challenge one is accepted.
THEOREM ChallengeCorrect == Spec => []ChallengeUsedOnce
<1>1. OnceInv => ChallengeUsedOnce
  BY DEF OnceInv
<1> QED
  BY <1>1, TypeInit, TypeNext, OnceInit, OnceNext, PTL DEF Spec

-----------------------------------------------------------------------------
(* What is registered verifies                                             *)

\* What the producer signs.
Expected(r) == [key |-> r.terms.key, over |-> Challenge(r)]

\* A record from a challenge has the producer's consent, and is what the one
\* accepted confirmation made.  Here and below h, e and a stand for hybrid,
\* epoch and accepted.
Consented(r, h, a) ==
    r.nonce # NoNonce =>
        /\ r.csig = Expected(r) /\ (h => r.qcsig = Expected(r))
        /\ a[r.nonce] = 1

\* A record names an epoch that has begun.
Begun(r, h, e, a) == r.terms.epoch <= e /\ Consented(r, h, a)

\* A record with its signatures; the second one may be of a later epoch.
Signed(r, h, e, a) ==
    /\ Begun(r, h, e, a)
    /\ r.sig = r.terms.epoch
    /\ IF h THEN r.qsig \in 0 .. MaxEpoch ELSE r.qsig = NoSig

\* What a handler has made of its record, by its next step.
Step(p, r, h, e, a) ==
    /\ p # "idle" => Begun(r, h, e, a)
    /\ p = "sign" => r.qsig = NoSig
    /\ p = "qsign" => h /\ r.sig = r.terms.epoch
    /\ p = "register" => Signed(r, h, e, a)

VerifyInv ==
    /\ \A t \in Threads : Step(pc[t], work[t], hybrid, epoch, accepted)
    /\ \A id \in DOMAIN registry :
          /\ registry[id].terms.id = id
          /\ Signed(registry[id], hybrid, epoch, accepted)

\* The first state satisfies the invariant.
LEMMA VerifyInit == Init => VerifyInv
BY DEF Init, VerifyInv, Step, EmptySpace

\* Consent is to the terms, whatever else changes in a record.
LEMMA ConsentFacts ==
  ASSUME NEW r, NEW s, SameConsent(r, s), NEW h, NEW e, NEW a, Begun(r, h, e, a)
  PROVE  Begun(s, h, e, a)
BY Zenon DEF SameConsent, Begun, Consented, Expected, Challenge

\* A challenge that is pending is not the one of a record there is, so that
\* accepting it changes nothing for that record; and epochs only begin.
LEMMA LaterFacts ==
  ASSUME TypeInv, OnceInv, NEW r \in Records, NEW h,
         NEW f \in Nat, epoch <= f, NEW a,
         \/ a = accepted
         \/ \E c \in DOMAIN pending : a = [accepted EXCEPT ![c] = @ + 1],
         Begun(r, h, epoch, accepted)
  PROVE  Begun(r, h, f, a)
<1>1. r.terms.epoch \in Nat /\ r.nonce \in 0 .. MaxSerial /\ epoch \in Nat
  BY EnrollmentAssumption DEF Records, Terms, TypeInv, TypeOK
<1>2. r.terms.epoch <= f
  BY <1>1 DEF Begun
<1>3. ASSUME NEW c \in DOMAIN pending, r.nonce # NoNonce,
             a = [accepted EXCEPT ![c] = @ + 1]
      PROVE  a[r.nonce] = 1
  <2>1. /\ c \in 1 .. MaxSerial /\ accepted[c] = 0
        /\ accepted \in [1 .. MaxSerial -> Nat]
    BY EnrollmentAssumption DEF TypeInv, TypeOK, OnceInv
  <2>2. r.nonce \in 1 .. MaxSerial
    BY <1>1, <1>3 DEF NoNonce
  <2>3. accepted[r.nonce] = 1
    BY <1>3, Zenon DEF Begun, Consented
  <2> QED
    BY <1>3, <2>1, <2>2, <2>3
<1> QED
  BY <1>2, <1>3, Zenon DEF Begun, Consented

\* Every step keeps it.
LEMMA VerifyNext ==
    TypeInv /\ TypeInv' /\ OnceInv /\ VerifyInv /\ [Next]_vars => VerifyInv'
<1> SUFFICES ASSUME TypeInv, TypeInv', OnceInv, VerifyInv, [Next]_vars
             PROVE  VerifyInv'
  BY Zenon
<1>h. hybrid' = hybrid
  BY Zenon DEF Next, vars, operator, BeginEnrollment, IssueEnrollment, Respond,
         ExpireChallenge, ConfirmRefused, ConfirmEnrollment, ConfirmUnknown,
         SignEnrollment, EnrollmentFails, QuantumSignEnrollment, RegisterProducer,
         RevokeProducer, EnrollmentJanitor, Rotate, Crash
<1>t. /\ epoch \in Nat /\ epoch \in 0 .. MaxEpoch /\ epoch <= epoch
      /\ pc \in [Threads -> {"idle", "sign", "qsign", "register"}]
      /\ DOMAIN work = Threads
      /\ \A t \in Threads : pc[t] # "idle" => work[t] \in Records
      /\ \A id \in DOMAIN registry : registry[id] \in Records
  BY EnrollmentAssumption DEF TypeInv, TypeOK
<1>a. ASSUME UNCHANGED registry, UNCHANGED <<epoch, accepted>>,
             NEW t \in Threads, pc' = [pc EXCEPT ![t] = pc'[t]],
             \A u \in Threads \ {t} : work'[u] = work[u],
             Step(pc'[t], work'[t], hybrid, epoch, accepted)
      PROVE  VerifyInv'
  <2>1. \A u \in Threads \ {t} : pc'[u] = pc[u]
    BY <1>a, <1>t, Zenon
  <2> QED
    BY <1>a, <1>h, <2>1, Zenon DEF VerifyInv
<1>b. ASSUME UNCHANGED <<epoch, registry, pc, work, accepted>> PROVE VerifyInv'
  BY <1>b, <1>h, Zenon DEF VerifyInv
\* what holds of the records there are, holds later
<1>c. ASSUME epoch' \in Nat, epoch <= epoch',
             \/ accepted' = accepted
             \/ \E c \in DOMAIN pending : accepted' = [accepted EXCEPT ![c] = @ + 1]
      PROVE  /\ \A t \in Threads : Step(pc[t], work[t], hybrid, epoch', accepted')
             /\ \A id \in DOMAIN registry :
                   /\ registry[id].terms.id = id
                   /\ Signed(registry[id], hybrid, epoch', accepted')
  <2>1. \A r \in Records : Begun(r, hybrid, epoch, accepted)
                             => Begun(r, hybrid, epoch', accepted')
    BY <1>c, LaterFacts, Zenon
  <2>2. \A r \in Records : Signed(r, hybrid, epoch, accepted)
                             => Signed(r, hybrid, epoch', accepted')
    BY <2>1, Zenon DEF Signed
  <2>3. ASSUME NEW t \in Threads
        PROVE  Step(pc[t], work[t], hybrid, epoch', accepted')
    <3>1. Step(pc[t], work[t], hybrid, epoch, accepted)
      BY Zenon DEF VerifyInv
    <3>2. pc[t] # "idle" => work[t] \in Records
      BY <1>t, Zenon
    <3>3. pc[t] = "register" => pc[t] # "idle"
      OBVIOUS
    <3> QED
      BY <2>1, <2>2, <3>1, <3>2, <3>3, Zenon DEF Step
  <2> QED
    BY <1>t, <2>2, <2>3, Zenon DEF VerifyInv
<1>1. ASSUME NEW id \in Ids, NEW key \in Keys, NEW t \in Threads,
             IssueEnrollment(t, id, key)
      PROVE  VerifyInv'
  <2> DEFINE r == NewRecord(NewTerms(id, key), NoNonce, NoSig, NoSig)
  <2>1. r.qsig = NoSig /\ r.terms.epoch = epoch /\ r.nonce = NoNonce
    BY Zenon DEF NewRecord, NewTerms
  <2>2. /\ work' = [work EXCEPT ![t] = r] /\ pc' = [pc EXCEPT ![t] = "sign"]
        /\ UNCHANGED <<epoch, registry, accepted>>
    BY <1>1, Zenon DEF IssueEnrollment, operator
  <2> HIDE DEF r
  <2>3. pc'[t] = "sign" /\ work'[t] = r
    BY <1>t, <2>2, Zenon
  <2>4. Step("sign", r, hybrid, epoch, accepted)
    BY <1>t, <2>1 DEF Step, Begun, Consented
  <2> QED
    BY <1>a, <1>t, <2>2, <2>3, <2>4, Zenon
<1>2. ASSUME NEW c \in DOMAIN pending, NEW sig \in responses,
             NEW qsig \in responses \cup {NoSig}, NEW t \in Threads,
             ConfirmEnrollment(t, c, sig, qsig)
      PROVE  VerifyInv'
  <2> DEFINE r == ConfirmedRecord(c, sig, qsig)
  <2>1. /\ r.qsig = NoSig /\ r.terms.epoch <= epoch /\ r.nonce = c
        /\ VerifyConsent(r)
    BY <1>2, Zenon DEF ConfirmEnrollment, ConfirmedRecord, NewRecord, TypeInv
  <2>2. /\ work' = [work EXCEPT ![t] = r] /\ pc' = [pc EXCEPT ![t] = "sign"]
        /\ accepted' = [accepted EXCEPT ![c] = @ + 1]
        /\ UNCHANGED <<epoch, registry>>
    BY <1>2, Zenon DEF ConfirmEnrollment, operator
  <2> HIDE DEF r
  <2>3. accepted'[c] = 1
    <3>1. /\ c \in 1 .. MaxSerial /\ accepted[c] = 0
          /\ accepted \in [1 .. MaxSerial -> Nat]
      BY EnrollmentAssumption DEF TypeInv, TypeOK, OnceInv
    <3> QED
      BY <2>2, <3>1
  <2>4. Begun(r, hybrid, epoch, accepted')
    BY <2>1, <2>3, Zenon DEF Begun, Consented, Expected, VerifyConsent
  <2>5. Step("sign", r, hybrid, epoch, accepted')
    BY <2>1, <2>4 DEF Step
  <2>6. /\ \A u \in Threads : Step(pc[u], work[u], hybrid, epoch, accepted')
        /\ \A id \in DOMAIN registry :
              /\ registry[id].terms.id = id
              /\ Signed(registry[id], hybrid, epoch, accepted')
    BY <1>c, <1>t, <2>2, Zenon
  <2>7. ASSUME NEW u \in Threads
        PROVE  Step(pc'[u], work'[u], hybrid, epoch, accepted')
    BY <1>t, <2>2, <2>5, <2>6, Zenon
  <2> QED
    BY <1>h, <2>2, <2>6, <2>7, Zenon DEF VerifyInv
<1>3. ASSUME NEW t \in Threads, SignEnrollment(t) PROVE VerifyInv'
  <2> DEFINE r == [work[t] EXCEPT !.sig = epoch]
             p == IF hybrid THEN "qsign" ELSE "register"
  <2>1. /\ pc[t] = "sign"
        /\ work' = [work EXCEPT ![t] = r] /\ pc' = [pc EXCEPT ![t] = p]
        /\ work[t].terms.epoch = epoch
        /\ UNCHANGED <<epoch, registry, accepted>>
    BY <1>3, Zenon DEF SignEnrollment, operator
  <2>2. /\ work[t] \in Records /\ work[t].qsig = NoSig
        /\ Begun(work[t], hybrid, epoch, accepted)
    BY <1>t, <2>1, Zenon DEF VerifyInv, Step
  <2>3. /\ r.sig = epoch /\ r.terms = work[t].terms /\ r.qsig = NoSig
        /\ SameConsent(work[t], r)
    BY <1>t, <2>2, SignedRecord, Zenon
  <2>4. pc'[t] = p /\ work'[t] = r
    BY <1>t, <2>1, Zenon
  <2> HIDE DEF r
  <2>5. Begun(r, hybrid, epoch, accepted)
    BY <2>2, <2>3, ConsentFacts, Zenon
  <2>6. Step(p, r, hybrid, epoch, accepted)
    BY <2>1, <2>3, <2>5 DEF Step, Signed
  <2> HIDE DEF p
  <2> QED
    BY <1>a, <1>t, <2>1, <2>4, <2>6, Zenon
<1>4. ASSUME NEW t \in Threads, QuantumSignEnrollment(t) PROVE VerifyInv'
  <2> DEFINE r == [work[t] EXCEPT !.qsig = epoch]
  <2>1. /\ pc[t] = "qsign"
        /\ work' = [work EXCEPT ![t] = r]
        /\ pc' = [pc EXCEPT ![t] = "register"]
        /\ UNCHANGED <<epoch, registry, accepted>>
    BY <1>4, Zenon DEF QuantumSignEnrollment, operator
  <2>2. /\ work[t] \in Records /\ hybrid
        /\ work[t].sig = work[t].terms.epoch
        /\ Begun(work[t], hybrid, epoch, accepted)
    BY <1>t, <2>1, Zenon DEF VerifyInv, Step
  <2>3. /\ r.qsig = epoch /\ r.sig = work[t].sig /\ SameConsent(work[t], r)
    BY <1>t, <2>2, QuantumSignedRecord, Zenon
  <2>4. pc'[t] = "register" /\ work'[t] = r
    BY <1>t, <2>1, Zenon
  <2> HIDE DEF r
  <2>5. Begun(r, hybrid, epoch, accepted)
    BY <2>2, <2>3, ConsentFacts, Zenon
  <2>6. Signed(r, hybrid, epoch, accepted)
    BY <1>t, <2>2, <2>3, <2>5, Zenon DEF Signed, SameConsent
  <2>7. Step("register", r, hybrid, epoch, accepted)
    BY <2>5, <2>6 DEF Step
  <2> QED
    BY <1>a, <1>t, <2>1, <2>4, <2>7, Zenon
<1>5. ASSUME NEW t \in Threads, EnrollmentFails(t) PROVE VerifyInv'
  <2>1. /\ pc' = [pc EXCEPT ![t] = "idle"]
        /\ \A u \in Threads \ {t} : work'[u] = work[u]
        /\ UNCHANGED <<epoch, registry, accepted>>
    BY <1>t, <1>5, Zenon DEF EnrollmentFails, Return, operator
  <2>2. pc'[t] = "idle"
    BY <1>t, <2>1, Zenon
  <2>3. Step("idle", work'[t], hybrid, epoch, accepted)
    BY DEF Step
  <2> QED
    BY <1>a, <2>1, <2>2, <2>3, Zenon
<1>6. ASSUME NEW t \in Threads, RegisterProducer(t) PROVE VerifyInv'
  <2>1. /\ pc[t] = "register" /\ pc' = [pc EXCEPT ![t] = "idle"]
        /\ \A u \in Threads \ {t} : work'[u] = work[u]
        /\ UNCHANGED <<epoch, accepted>>
    BY <1>t, <1>6, Zenon DEF RegisterProducer, Return, operator
  <2>2. Signed(work[t], hybrid, epoch, accepted)
    BY <2>1, Zenon DEF VerifyInv, Step
  <2>3. \A id \in DOMAIN registry' :
           \/ id = work[t].terms.id /\ registry'[id] = work[t]
           \/ id \in DOMAIN registry /\ registry'[id] = registry[id]
    BY <1>6, Zenon DEF RegisterProducer, Put
  <2>4. Step("idle", work'[t], hybrid, epoch, accepted)
    BY DEF Step
  <2>5. ASSUME NEW u \in Threads
        PROVE  Step(pc'[u], work'[u], hybrid, epoch, accepted)
    BY <1>t, <2>1, <2>4, Zenon DEF VerifyInv
  <2>6. \A id \in DOMAIN registry' :
           /\ registry'[id].terms.id = id
           /\ Signed(registry'[id], hybrid, epoch, accepted)
    BY <2>2, <2>3, Zenon DEF VerifyInv
  <2> QED
    BY <1>h, <2>1, <2>5, <2>6, Zenon DEF VerifyInv
<1>7. ASSUME NEW id \in Ids, RevokeProducer(id) PROVE VerifyInv'
  <2> DEFINE r == [registry[id] EXCEPT !.revoked = TRUE]
  <2>1. /\ id \in DOMAIN registry
        /\ registry' = [registry EXCEPT ![id] = r]
        /\ UNCHANGED <<epoch, pc, work, accepted>>
    BY <1>7, Zenon DEF RevokeProducer, operator, call
  <2>2. registry[id] \in Records
    BY <1>t, <2>1, Zenon
  <2>3. /\ r.sig = registry[id].sig /\ r.terms = registry[id].terms
        /\ r.qsig = registry[id].qsig /\ SameConsent(registry[id], r)
    BY <2>2, RevokedRecord, Zenon
  <2> HIDE DEF r
  <2>4. r.terms.id = id /\ Signed(r, hybrid, epoch, accepted)
    BY <2>1, <2>3, ConsentFacts, Zenon DEF VerifyInv, Signed
  <2>5. \A i \in DOMAIN registry' :
           /\ registry'[i].terms.id = i
           /\ Signed(registry'[i], hybrid, epoch, accepted)
    BY <2>1, <2>4, Zenon DEF VerifyInv
  <2> QED
    BY <1>h, <2>1, <2>5, Zenon DEF VerifyInv
<1>8. CASE Rotate
  <2>1. epoch' = epoch + 1 /\ UNCHANGED <<registry, pc, work, accepted>>
    BY <1>8, Zenon DEF Rotate, call
  <2>2. epoch' \in Nat /\ epoch <= epoch'
    BY <1>t, <2>1
  <2> QED
    BY <1>c, <1>h, <2>1, <2>2, Zenon DEF VerifyInv
<1>9. CASE Crash
  <2>1. /\ \A t \in Threads : pc'[t] = "idle"
        /\ UNCHANGED <<epoch, registry, accepted>>
    BY <1>9, Zenon DEF Crash, operator
  <2>2. \A r, h, e, a : Step("idle", r, h, e, a)
    BY DEF Step
  <2> QED
    BY <1>h, <2>1, <2>2, Zenon DEF VerifyInv
<1>10. ASSUME NEW id \in Ids, NEW key \in Keys, BeginEnrollment(id, key)
       PROVE  VerifyInv'
  BY <1>b, <1>10, Zenon DEF BeginEnrollment, operator, call
<1>11. ASSUME NEW c \in DOMAIN pending, Respond(c) \/ ExpireChallenge(c)
       PROVE  VerifyInv'
  BY <1>b, <1>11, Zenon DEF Respond, ExpireChallenge, operator, call
<1>12. ASSUME NEW c \in DOMAIN pending, NEW sig \in responses,
              NEW qsig \in responses \cup {NoSig}, ConfirmRefused(c, sig, qsig)
       PROVE  VerifyInv'
  BY <1>b, <1>12, Zenon DEF ConfirmRefused, operator, call
<1>13. ASSUME \/ \E c \in 1 .. MaxSerial : ConfirmUnknown(c)
              \/ EnrollmentJanitor \/ UNCHANGED vars
       PROVE  VerifyInv'
  BY <1>b, <1>13, Zenon DEF ConfirmUnknown, EnrollmentJanitor, vars, operator, call
<1> QED
  BY <1>1, <1>2, <1>3, <1>4, <1>5, <1>6, <1>7, <1>8, <1>9, <1>10, <1>11, <1>12,
     <1>13, Zenon DEF Next

\* Every registered enrollment verifies but for a rotation between its two
\* signatures, and has the consent it was given.
THEOREM EnrollmentCorrect == Spec => []EnrollmentVerifies
<1>1. TypeInv /\ VerifyInv => EnrollmentVerifies
  <2> SUFFICES ASSUME TypeInv, VerifyInv, NEW id \in DOMAIN registry,
                      NEW rec, rec = registry[id]
               PROVE  /\ rec.terms.id = id
                      /\ rec.sig = rec.terms.epoch
                      /\ VerifyEnrollment(rec)
                           <=> (hybrid => rec.qsig = rec.terms.epoch)
                      /\ rec.nonce # NoNonce =>
                           VerifyConsent(rec) /\ accepted[rec.nonce] = 1
    BY Zenon DEF EnrollmentVerifies
  <2>1. rec.terms.id = id /\ Signed(rec, hybrid, epoch, accepted)
    BY Zenon DEF VerifyInv
  <2>2. rec.terms.epoch \in 0 .. epoch
    <3>1. rec.terms.epoch \in Nat /\ epoch \in Nat
      BY EnrollmentAssumption DEF TypeInv, TypeOK, Records, Terms
    <3> QED
      BY <2>1, <3>1 DEF Signed, Begun
  <2>3. hybrid => rec.qsig # NoSig
    BY <2>1, EnrollmentAssumption, Zenon DEF Signed
  <2>4. ~hybrid => rec.qsig = NoSig
    BY <2>1, Zenon DEF Signed
  <2>5. VerifyEnrollment(rec) <=> (hybrid => rec.qsig = rec.terms.epoch)
    BY <2>1, <2>2, <2>3, <2>4, Zenon DEF VerifyEnrollment, Signed
  <2>6. rec.nonce # NoNonce => VerifyConsent(rec) /\ accepted[rec.nonce] = 1
    BY <2>1, Zenon DEF Signed, Begun, Consented, Expected, VerifyConsent
  <2> QED
    BY <2>1, <2>5, <2>6, Zenon DEF Signed
<1> QED
  BY <1>1, TypeInit, TypeNext, OnceInit, OnceNext, VerifyInit, VerifyNext, PTL
     DEF Spec

-----------------------------------------------------------------------------
(* What is opened is closed                                                *)

\* loadOrInitSigner has opened the key store and not yet returned it.
Loading == dMain \in {"signer", "rootpub"}

Deferred == {dDefers[i] : i \in DOMAIN dDefers}

\* Unless the process was killed, whatever is open will be closed by run()'s
\* deferred calls or, while it loads the signer, by loadOrInitSigner.
ReleaseInv ==
    /\ dDefers \in Seq({"hsm", "store", "cancel", "tracing"})
    /\ dExit = "killed" => dMain = "exited"
    /\ dExit # "killed" =>
          /\ \A x \in dOpen : x \in Deferred \/ (x = "hsm" /\ Loading)
          /\ "hsm" \in dOpen => "hsm" \in dFlags
          /\ dMain = "exited" => dDefers = <<>>

\* The first state satisfies the invariant.
LEMMA ReleaseInit == Process!Init => ReleaseInv
BY DEF Process!Init, ReleaseInv

\* A step that neither opens nor closes anything, leaves the loading of the
\* signer or ends the process keeps it.
LEMMA ReleaseQuiet ==
  ASSUME ReleaseInv, UNCHANGED <<dOpen, dDefers, dFlags>>,
         Loading => Loading', dMain' = "exited" => dMain = "exited",
         dMain = "exited" => dMain' = "exited",
         dExit' = "killed" <=> dExit = "killed"
  PROVE  ReleaseInv'
BY DEF ReleaseInv, Deferred, Loading

\* A deferred call is added to those there are.
LEMMA DeferredAppend ==
  ASSUME ReleaseInv, NEW x \in {"hsm", "store", "cancel", "tracing"},
         dDefers' = Append(dDefers, x)
  PROVE  /\ dDefers' \in Seq({"hsm", "store", "cancel", "tracing"})
         /\ Deferred' = Deferred \cup {x}
<1>1. /\ DOMAIN dDefers' = DOMAIN dDefers \cup {Len(dDefers) + 1}
      /\ dDefers'[Len(dDefers) + 1] = x
      /\ \A i \in DOMAIN dDefers : dDefers'[i] = dDefers[i]
  BY DEF ReleaseInv
<1> QED
  BY <1>1 DEF ReleaseInv, Deferred

\* The last of them is run.
LEMMA DeferredRun ==
  ASSUME ReleaseInv, dDefers # <<>>, dDefers' = SubSeq(dDefers, 1, Len(dDefers) - 1)
  PROVE  /\ dDefers' \in Seq({"hsm", "store", "cancel", "tracing"})
         /\ Deferred \subseteq Deferred' \cup {dDefers[Len(dDefers)]}
<1>0. Len(dDefers) \in Nat \ {0} /\ DOMAIN dDefers = 1 .. Len(dDefers)
  BY DEF ReleaseInv
<1>1. /\ dDefers' \in Seq({"hsm", "store", "cancel", "tracing"})
      /\ DOMAIN dDefers' = 1 .. (Len(dDefers) - 1)
      /\ \A i \in 1 .. (Len(dDefers) - 1) : dDefers'[i] = dDefers[i]
  BY <1>0 DEF ReleaseInv
<1>2. ASSUME NEW i \in DOMAIN dDefers, i # Len(dDefers)
      PROVE  i \in DOMAIN dDefers' /\ dDefers'[i] = dDefers[i]
  BY <1>0, <1>1, <1>2
<1> QED
  BY <1>1, <1>2, Zenon DEF Deferred

\* Every step keeps it.
LEMMA ReleaseNext == ReleaseInv /\ [Process!Next]_(Process!vars) => ReleaseInv'
<1> SUFFICES ASSUME ReleaseInv, [Process!Next]_(Process!vars) PROVE ReleaseInv'
  BY Zenon
<1>1. ASSUME \/ Process!CheckFlags \/ Process!NewSignerWithStore
             \/ Process!LoadThresholdGroup \/ Process!NewSinks
             \/ Process!NewLog \/ Process!OpenJournals \/ Process!BuildTLSConfig
      PROVE  ReleaseInv'
  <2>1. UNCHANGED <<dOpen, dDefers, dFlags,
                    dExit>> /\ dMain # "exited" /\ dMain' # "exited"
    BY <1>1, Zenon DEF Process!CheckFlags, Process!NewSignerWithStore,
                Process!LoadThresholdGroup, Process!NewSinks, Process!NewLog,
                Process!OpenJournals, Process!BuildTLSConfig, Process!Passes,
                Process!Advance, Process!After, Process!boot
  <2>2. Loading => Loading'
    BY <1>1, Zenon DEF Process!CheckFlags, Process!NewSignerWithStore,
                Process!LoadThresholdGroup, Process!NewSinks, Process!NewLog,
                Process!OpenJournals, Process!BuildTLSConfig, Process!Passes,
                Process!Advance, Process!After, Loading
  <2> QED
    BY <2>1, <2>2, ReleaseQuiet
<1>2. ASSUME Process!ScheduleTasks \/ Process!StartWatchdog \/ Process!StartBackground
             \/ Process!StartCoordinator
      PROVE  ReleaseInv'
  <2>1. /\ UNCHANGED <<dOpen, dDefers, dFlags,
                       dExit>> /\ dMain # "exited" /\ dMain' # "exited"
        /\ ~Loading
    BY <1>2, Zenon DEF Process!ScheduleTasks, Process!StartWatchdog, Process!StartBackground,
                Process!StartCoordinator,
                Process!Launches, Process!Advance, Process!After, Process!boot, Loading
  <2> QED
    BY <2>1, ReleaseQuiet, Zenon
<1>3. CASE Process!ListenAndServe \/ Process!ServeReturns
  <2>1. /\ UNCHANGED <<dOpen, dDefers, dFlags>> /\ dMain # "exited" /\ dMain' # "exited"
        /\ ~Loading /\ (dExit' = dExit \/ dExit' = "ok")
    BY <1>3, Zenon DEF Process!ListenAndServe, Process!ServeReturns, Process!boot, Loading
  <2> QED
    BY <2>1, ReleaseQuiet, Zenon DEF ReleaseInv
<1>4. CASE Process!StartFails
  <2>1. /\ UNCHANGED <<dOpen, dDefers, dFlags>> /\ dMain # "exited" /\ dMain' # "exited"
        /\ ~Loading /\ dExit' = "error"
    BY <1>4, Zenon DEF Process!StartFails, Process!Fails, Process!Fallible, Process!boot, Loading
  <2> QED
    BY <2>1, ReleaseQuiet, Zenon DEF ReleaseInv
<1>5. CASE Process!OpenKeyStore
  <2>1. /\ dOpen' = dOpen \cup (dFlags \cap {"hsm"})
        /\ UNCHANGED <<dFlags, dDefers, dExit>>
        /\ dMain = "keystore" /\ dMain' = "signer"
    BY <1>5, Zenon DEF Process!OpenKeyStore, Process!Advance, Process!After
  <2> QED
    BY <2>1, Zenon DEF ReleaseInv, Deferred, Loading
<1>6. CASE Process!WriteRootPub
  <2>1. /\ dDefers' = IF "hsm" \in dFlags THEN Append(dDefers, "hsm") ELSE dDefers
        /\ UNCHANGED <<dFlags, dOpen, dExit>>
        /\ dMain = "rootpub" /\ dMain' = "threshold"
    BY <1>6, Zenon DEF Process!WriteRootPub, Process!Advance, Process!After
  <2>2. CASE "hsm" \in dFlags
    BY <2>1, <2>2, DeferredAppend, Zenon DEF ReleaseInv, Loading
  <2>3. CASE "hsm" \notin dFlags
    BY <2>1, <2>3, Zenon DEF ReleaseInv, Loading, Deferred
  <2> QED
    BY <2>2, <2>3
<1>7. CASE Process!LoadSignerFails
  <2>1. /\ dOpen' = dOpen \ {"hsm"} /\ dExit' = "error"
        /\ UNCHANGED <<dFlags, dDefers>>
        /\ dMain # "exited" /\ dMain' = "return"
    BY <1>7 DEF Process!LoadSignerFails
  <2> QED
    BY <2>1, Zenon DEF ReleaseInv, Deferred, Loading
<1>8. CASE Process!OpenStore \/ Process!InitTracing
  <2>1. PICK x \in {"store", "tracing"} :
          dOpen' = dOpen \cup {x} /\ dDefers' = Append(dDefers, x)
    BY <1>8, Zenon DEF Process!OpenStore, Process!InitTracing, Process!Opens
  <2>2. /\ UNCHANGED <<dFlags, dExit>>
        /\ ~Loading /\ dMain # "exited" /\ dMain' # "exited"
    BY <1>8, Zenon DEF Process!OpenStore, Process!InitTracing, Process!Opens, Process!Advance,
                Process!After, Loading
  <2> QED
    BY <2>1, <2>2, DeferredAppend, Zenon DEF ReleaseInv
<1>9. CASE Process!NotifyContext
  <2>1. /\ dDefers' = Append(dDefers, "cancel") /\ UNCHANGED <<dFlags, dOpen, dExit>>
        /\ ~Loading /\ dMain # "exited" /\ dMain' # "exited"
    BY <1>9, Zenon DEF Process!NotifyContext, Process!Advance, Process!After, Loading
  <2> QED
    BY <2>1, DeferredAppend, Zenon DEF ReleaseInv
<1>10. CASE Process!RunDeferred
  <2>1. /\ dDefers # <<>> /\ dDefers' = SubSeq(dDefers, 1, Len(dDefers) - 1)
        /\ dOpen' = dOpen \ {dDefers[Len(dDefers)]}
        /\ UNCHANGED <<dFlags, dExit, dMain>> /\ dMain = "return"
    BY <1>10, Zenon DEF Process!RunDeferred
  <2> QED
    BY <2>1, DeferredRun, Zenon DEF ReleaseInv, Loading
<1>11. CASE Process!Exits
  <2>1. /\ dMain = "return" /\ dDefers = <<>> /\ dMain' = "exited"
        /\ UNCHANGED <<dOpen, dDefers, dFlags, dExit>>
    BY <1>11, Zenon DEF Process!Exits, Process!boot
  <2> QED
    BY <2>1, Zenon DEF ReleaseInv, Deferred, Loading
<1>12. CASE Process!Signal
  <2>1. UNCHANGED <<dOpen, dDefers, dFlags>> /\ dMain # "exited"
    BY <1>12, Zenon DEF Process!Signal, Process!Running, Process!boot
  <2>2. UNCHANGED <<dMain, dExit>> \/ (dMain' = "exited" /\ dExit' = "killed")
    BY <1>12, Zenon DEF Process!Signal
  <2> QED
    BY <2>1, <2>2, Zenon DEF ReleaseInv, Deferred, Loading
<1>13. ASSUME \/ Process!Coordinator \/ Process!Poll \/ Process!Tick
              \/ \E r \in DaemonRequests : Process!Route(r) \/ Process!HandlerReturns(r)
              \/ \E t \in Process!Tasks : Process!TaskBegins(t) \/ Process!TaskEnds(t)
                    \/ Process!TaskReturns(t)
              \/ UNCHANGED Process!vars
       PROVE  ReleaseInv'
  <2>1. UNCHANGED <<dOpen, dDefers, dFlags, dMain, dExit>>
    BY <1>13, Zenon DEF Process!Coordinator, Process!CoordinatorWakes,
                        Process!ShutdownBegins, Process!ShutdownReturns,
                 Process!StopWatchdog, Process!Poll, Process!Tick, Process!Route,
                 Process!HandlerReturns, Process!TaskBegins, Process!TaskEnds,
                 Process!TaskReturns, Process!vars, Process!boot
  <2> QED
    BY <2>1, Zenon DEF ReleaseInv, Deferred, Loading
<1> QED
  BY <1>1, <1>2, <1>3, <1>4, <1>5, <1>6, <1>7, <1>8, <1>9, <1>10, <1>11, <1>12, <1>13, Zenon
  DEF Process!Next, Process!Main, Process!Starts

\* Whichever way run() returns, everything it opened is closed.
THEOREM ReleaseCorrect == Process!Spec => []ExitReleasesAll
<1>1. ReleaseInv => Process!ExitReleasesAll
  BY DEF ReleaseInv, Process!ExitReleasesAll, Deferred, Loading
<1> QED
  BY <1>1, ReleaseInit, ReleaseNext, PTL DEF Process!Spec, ExitReleasesAll

-----------------------------------------------------------------------------
(* What is routed is served                                                *)

\* What the sleep is for: it gives a balancer one whole health-check cycle.
DrainOutlastsPoll ==
    LbDrain \in Nat /\ LBPeriod \in Nat /\ LBPeriod < LbDrain

\* The steps of run() during which signals are caught.
Caught == {"tracing", "log", "schedule", "journals", "watchdog", "tls", "background",
           "coordinator", "serve", "serving"}

\* The process is routed to only while its listener is open, and once its probe
\* fails the coordinator sleeps past the next poll.
RouteInv ==
    /\ dNap \in Nat /\ dSincePoll \in 0..LBPeriod
    /\ dRequests \in [DaemonRequests -> {"none", "running", "answered", "cut"}]
    /\ dLb => dHttp = "listening"
    /\ dHttp = "listening" => dMain = "serving"
    /\ dMain \in Caught => dNotify
    /\ dMain \in {"serve", "serving"} => "not_draining" \in dProbes
    /\ dCoordinator \in {"napping", "shutting", "stopping", "done"} => dDraining
    /\ dCoordinator \in {"shutting", "stopping", "done"} => ~dLb
    /\ dCoordinator = "napping" /\ dLb => dNap + dSincePoll >= LbDrain

\* The first state satisfies the invariant.
LEMMA RouteInit == ASSUME DrainOutlastsPoll PROVE Process!Init => RouteInv
BY DEF Process!Init, RouteInv, Caught, DrainOutlastsPoll

\* A step of the start before the listener opens keeps it.
LEMMA RouteStarts ==
  ASSUME RouteInv, dMain \notin {"serving", "return", "exited"},
         UNCHANGED <<Process!drain, dHttp, Process!network>>, dMain' # "serving",
         dMain' \in Caught => dNotify',
         dMain' = "serve" => "not_draining" \in dProbes'
  PROVE  RouteInv'
BY Zenon DEF RouteInv, Process!drain, Process!network

\* Every step keeps it.
LEMMA RouteNext ==
  ASSUME DrainOutlastsPoll PROVE RouteInv /\ [Process!Next]_(Process!vars) => RouteInv'
<1> SUFFICES ASSUME RouteInv, [Process!Next]_(Process!vars) PROVE RouteInv'
  BY Zenon
<1>1. ASSUME \/ Process!CheckFlags \/ Process!OpenKeyStore
             \/ Process!NewSignerWithStore \/ Process!WriteRootPub
             \/ Process!LoadThresholdGroup \/ Process!OpenStore \/ Process!NewSinks
             \/ Process!NotifyContext
      PROVE  RouteInv'
  <2>1. /\ dMain \notin {"serving", "return", "exited"}
        /\ dMain' \notin {"serve", "serving"}
        /\ UNCHANGED <<Process!drain, dHttp, Process!network>>
        /\ dMain' \in Caught => dNotify'
    BY <1>1, Zenon DEF Process!CheckFlags, Process!OpenKeyStore, Process!NewSignerWithStore,
                Process!WriteRootPub,
                Process!LoadThresholdGroup, Process!OpenStore, Process!NewSinks,
                Process!NotifyContext, Process!Passes, Process!Opens,
                Process!Advance, Process!After, Caught
  <2> QED
    BY <2>1, RouteStarts, Zenon
<1>2. ASSUME \/ Process!InitTracing \/ Process!NewLog \/ Process!ScheduleTasks
             \/ Process!OpenJournals \/ Process!StartWatchdog
             \/ Process!BuildTLSConfig \/ Process!StartBackground
      PROVE  RouteInv'
  <2>1. /\ dMain \in Caught /\ dMain # "serving"
        /\ dMain' \in Caught /\ dMain' \notin {"serve", "serving"}
        /\ UNCHANGED <<Process!drain, dHttp, Process!network, dNotify>>
    BY <1>2, Zenon DEF Process!InitTracing, Process!NewLog, Process!ScheduleTasks,
                Process!OpenJournals, Process!StartWatchdog,
                Process!BuildTLSConfig, Process!StartBackground, Process!Passes,
                Process!Opens, Process!Launches, Process!Advance, Process!After,
                Caught, Process!boot
  <2>2. dMain \notin {"return", "exited"} /\ dNotify'
    BY <2>1, Zenon DEF Caught, RouteInv
  <2> QED
    BY <2>1, <2>2, RouteStarts, Zenon
<1>3. CASE Process!StartCoordinator
  <2>1. /\ dMain = "coordinator" /\ dMain' = "serve" /\ "not_draining" \in dProbes'
        /\ dCoordinator' = "waiting"
        /\ UNCHANGED <<dNap, dHttp, Process!network, dNotify>>
    BY <1>3, Zenon DEF Process!StartCoordinator, Process!Advance, Process!After, Process!boot
  <2> QED
    BY <2>1, Zenon DEF RouteInv, Caught, Process!network
<1>4. CASE Process!ListenAndServe
  <2>1. /\ dMain = "serve" /\ UNCHANGED <<dNotify, dProbes, dCoordinator, dDraining,
                                          dNap>>
        /\ UNCHANGED <<dRequests, dLb, dSincePoll>>
        /\ \/ dHttp = "shutdown" /\ dHttp' = dHttp /\ dMain' = "return"
           \/ dHttp' = "listening" /\ dMain' = "serving"
    BY <1>4, Zenon DEF Process!ListenAndServe, Process!boot, Process!drain, Process!network
  <2> QED
    BY <2>1, Zenon DEF RouteInv, Caught
<1>5. CASE Process!StartFails \/ Process!LoadSignerFails
  <2>1. /\ dMain \notin {"serving", "return", "exited"} /\ dMain' = "return"
        /\ UNCHANGED <<Process!drain, dHttp, Process!network>>
    BY <1>5, Zenon DEF Process!StartFails, Process!Fails, Process!Fallible,
                Process!LoadSignerFails
  <2> QED
    BY <2>1, RouteStarts, Zenon DEF Caught
<1>6. CASE Process!ServeReturns
  <2>1. /\ dHttp = "shutdown" /\ dMain' = "return"
        /\ UNCHANGED <<dHttp, dCoordinator, dDraining, dNap, dRequests, dLb, dSincePoll>>
    BY <1>6, Zenon DEF Process!ServeReturns, Process!drain, Process!network
  <2> QED
    BY <2>1, Zenon DEF RouteInv, Caught
<1>7. CASE Process!RunDeferred
  <2>1. /\ dMain = "return" /\ dMain' = "return"
        /\ UNCHANGED <<dHttp, dCoordinator, dDraining, dNap, dRequests, dLb, dSincePoll>>
    BY <1>7, Zenon DEF Process!RunDeferred, Process!drain, Process!network
  <2> QED
    BY <2>1, Zenon DEF RouteInv, Caught
<1>8. CASE Process!Exits
  <2>1. /\ dMain = "return" /\ dMain' = "exited" /\ dRequests' = Process!Cut
        /\ UNCHANGED <<dHttp, dCoordinator, dDraining, dNap, dLb, dSincePoll>>
    BY <1>8, Zenon DEF Process!Exits, Process!drain
  <2> QED
    BY <2>1, Zenon DEF RouteInv, Caught, Process!Cut
<1>9. CASE Process!Signal
  <2>1. UNCHANGED <<dNotify, dHttp, dProbes, dCoordinator, dDraining, dNap, dLb,
                    dSincePoll>>
    BY <1>9, Zenon DEF Process!Signal, Process!boot, Process!drain
  <2>2. CASE dNotify
    BY <1>9, <2>1, <2>2 DEF Process!Signal, RouteInv
  <2>3. CASE ~dNotify
    <3>1. dMain' = "exited" /\ dRequests' = Process!Cut /\ dMain # "serving"
      BY <1>9, <2>3, Zenon DEF Process!Signal, RouteInv, Caught
    <3> QED
      BY <2>1, <3>1, Zenon DEF RouteInv, Caught, Process!Cut
  <2> QED
    BY <2>2, <2>3
<1>10. CASE Process!Coordinator
  <2>1. UNCHANGED <<dMain, dNotify, dProbes, dRequests, dLb, dSincePoll>>
    BY <1>10, Zenon DEF Process!Coordinator, Process!CoordinatorWakes,
                        Process!ShutdownBegins, Process!ShutdownReturns,
                 Process!StopWatchdog, Process!boot, Process!network
  <2>2. CASE Process!CoordinatorWakes
    BY <2>1, <2>2 DEF Process!CoordinatorWakes, RouteInv, DrainOutlastsPoll
  <2>3. CASE Process!ShutdownBegins
    <3>1. ~dLb
      BY <2>3 DEF Process!ShutdownBegins, RouteInv, DrainOutlastsPoll
    <3> QED
      BY <2>1, <2>3, <3>1, Zenon DEF Process!ShutdownBegins, RouteInv
  <2>4. CASE Process!ShutdownReturns \/ Process!StopWatchdog
    BY <2>1, <2>4, Zenon DEF Process!ShutdownReturns, Process!StopWatchdog, RouteInv
  <2> QED
    BY <1>10, <2>2, <2>3, <2>4, Zenon DEF Process!Coordinator
<1>11. CASE Process!Poll
  <2>1. /\ UNCHANGED <<dMain, dNotify, dHttp, dProbes, dCoordinator, dDraining, dNap,
                       dRequests>>
        /\ dSincePoll' = 0
        /\ dLb' = (Process!Running /\ dHttp = "listening" /\ Process!Ready)
    BY <1>11, Zenon DEF Process!Poll, Process!boot, Process!drain
  <2>2. dLb' => dHttp = "listening" /\ ~dDraining
    BY <2>1, Zenon DEF Process!Ready, RouteInv
  <2> QED
    BY <2>1, <2>2 DEF RouteInv, DrainOutlastsPoll
<1>12. CASE Process!Tick
  <2>1. /\ UNCHANGED <<dMain, dNotify, dHttp, dProbes, dCoordinator, dDraining,
                       dRequests, dLb>>
        /\ dSincePoll < LBPeriod /\ dSincePoll' = dSincePoll + 1
        /\ dNap' = IF dNap > 0 THEN dNap - 1 ELSE 0
    BY <1>12, Zenon DEF Process!Tick, Process!boot
  <2> QED
    BY <2>1 DEF RouteInv, DrainOutlastsPoll
<1>13. ASSUME NEW r \in DaemonRequests, Process!Route(r) \/ Process!HandlerReturns(r)
       PROVE  RouteInv'
  <2>1. UNCHANGED <<dMain, dNotify, dHttp, dProbes, dCoordinator, dDraining, dNap, dLb,
                    dSincePoll>>
    BY <1>13, Zenon DEF Process!Route, Process!HandlerReturns, Process!boot, Process!drain
  <2>2. \E a \in {"running", "answered"} : dRequests' = [dRequests EXCEPT ![r] = a]
    BY <1>13, Zenon DEF Process!Route, Process!HandlerReturns, RouteInv, Process!Running
  <2> QED
    BY <2>1, <2>2, Zenon DEF RouteInv
<1>14. ASSUME \/ \E t \in Process!Tasks : Process!TaskBegins(t) \/ Process!TaskEnds(t)
                    \/ Process!TaskReturns(t)
              \/ UNCHANGED Process!vars
       PROVE  RouteInv'
  <2>1. UNCHANGED <<dMain, dNotify, dHttp, dProbes, dCoordinator, dDraining, dNap,
  dRequests, dLb,
                    dSincePoll>>
    BY <1>14, Zenon DEF Process!TaskBegins, Process!TaskEnds, Process!TaskReturns,
                 Process!vars, Process!boot, Process!drain, Process!network
  <2> QED
    BY <2>1, Zenon DEF RouteInv
<1> QED
  BY <1>1, <1>2, <1>3, <1>4, <1>5, <1>6, <1>7, <1>8, <1>9, <1>10, <1>11, <1>12, <1>13,
     <1>14
  DEF Process!Next, Process!Main, Process!Starts

\* With a sleep longer than the balancer's period, no request it routes meets a
\* closed port.
THEOREM RoutedCorrect ==
  ASSUME DrainOutlastsPoll PROVE Process!Spec => []RoutedIsServed
<1>1. RouteInv => Process!RoutedIsServed
  BY Zenon DEF RouteInv, Process!RoutedIsServed
<1> QED
  BY <1>1, RouteInit, RouteNext, PTL DEF Process!Spec, RoutedIsServed

-----------------------------------------------------------------------------
(* An answer leaves its trail                                              *)

\* The indexes of q's answer that must be in the read journal.
Owed(q) == IF ePc[q] = "record" THEN eLoc[q].got \ {eLoc[q].from} ELSE eLoc[q].got

\* The event of a rotation that began epoch m.
Between(l, m, last) == l.pre < m /\ m <= last

\* What a read has handed out is in the journal but for the entry it is about
\* to record; a rotation lies between the epochs that were read around it.
RequestInv(q) ==
    /\ ePc[q] \in {"get", "record"} => eLoc[q].kind \in {"get", "range", "proof"}
    /\ q \notin eMissing /\ eLoc[q].kind \in {"get", "range"} =>
         \A i \in Owed(q) : <<q, i>> \in eReadLog
    /\ ePc[q] \in {"rotate", "post", "admin"} => eLoc[q].kind = "rotate"
          /\ eLoc[q].pre <= eEpoch
    /\ ePc[q] = "rotate" => ~eLoc[q].ok
    /\ ePc[q] = "post" /\ eLoc[q].ok => Between(eLoc[q], eMade[q], eEpoch)
    /\ ePc[q] = "admin" /\ eLoc[q].ok => Between(eLoc[q], eMade[q], eLoc[q].post)
    /\ ePc[q] = "answered" /\ eLoc[q].kind = "rotate" /\ q \notin eMissing =>
         \E e \in eAdminLog : e.req = q /\ e.ok /\ e.from < eMade[q] /\ eMade[q] <= e.to

LocalsType == [kind: API!Kinds \cup {"none"}, from: Int, to: Int, got: SUBSET Int,
pre: Nat,
           post: Nat, ok: BOOLEAN]

Steps == {"new", "get", "record", "rotate", "post", "admin", "answered", "refused"}

TrailInv ==
    /\ eEpoch \in Nat
    /\ ePc \in [ApiRequests -> Steps]
    /\ eLoc \in [ApiRequests -> LocalsType]
    /\ eMade \in [ApiRequests -> Nat]
    /\ \A q \in ApiRequests : RequestInv(q)

\* The first state satisfies the invariant.
LEMMA TrailInit == API!Init => TrailInv
<1> SUFFICES ASSUME API!Init PROVE TrailInv
  OBVIOUS
<1>1. API!Locals("none", 0, 0, 0) \in LocalsType
  BY DEF API!Locals, LocalsType
<1>2. \A q \in ApiRequests : eLoc[q].kind = "none" /\ ePc[q] = "new"
  BY Zenon DEF API!Init, API!Locals
<1>3. \A q \in ApiRequests : RequestInv(q)
  BY <1>2, Zenon DEF RequestInv
<1> QED
  BY <1>1, <1>3, Zenon DEF API!Init, TrailInv, Steps

\* A step of other requests, of the log or of the sinks keeps what holds of q.
LEMMA OtherKeeps ==
  ASSUME NEW q \in ApiRequests, RequestInv(q), eEpoch \in Nat, eEpoch' \in Nat,
         eLoc \in [ApiRequests -> LocalsType], eMade \in [ApiRequests -> Nat],
         ePc'[q] = ePc[q], eLoc'[q] = eLoc[q], eMade'[q] = eMade[q], eEpoch <= eEpoch',
         eMissing \subseteq eMissing', eReadLog \subseteq eReadLog',
         eAdminLog \subseteq eAdminLog'
  PROVE  RequestInv(q)'
<1>1. eLoc[q].pre \in Nat /\ eLoc[q].post \in Nat /\ eMade[q] \in Nat
  BY Zenon DEF LocalsType
<1>2. Owed(q)' = Owed(q)
  BY Zenon DEF Owed
<1> QED
  BY <1>1, <1>2 DEF RequestInv, Between

\* One request takes a step.
LEMMA OneMoves ==
  ASSUME TrailInv, NEW q \in ApiRequests, ePc' \in [ApiRequests -> Steps],
         eLoc' \in [ApiRequests -> LocalsType], eMade' \in [ApiRequests -> Nat],
         \A p \in ApiRequests \ {q} : ePc'[p] = ePc[p] /\ eLoc'[p] = eLoc[p]
         /\ eMade'[p] = eMade[p],
         eEpoch' \in Nat, eEpoch <= eEpoch', eMissing \subseteq eMissing',
         eReadLog \subseteq eReadLog', eAdminLog \subseteq eAdminLog', RequestInv(q)'
  PROVE  TrailInv'
<1>1. ASSUME NEW p \in ApiRequests, p # q PROVE RequestInv(p)'
  BY <1>1, OtherKeeps, Zenon DEF TrailInv
<1> QED
  BY <1>1, Zenon DEF TrailInv

\* Every step keeps it.
LEMMA TrailNext == TrailInv /\ [API!Next]_(API!vars) => TrailInv'
<1> SUFFICES ASSUME TrailInv, [API!Next]_(API!vars) PROVE TrailInv'
  BY Zenon
<1>0. /\ eEpoch \in Nat /\ ePc \in [ApiRequests -> Steps]
      /\ eLoc \in [ApiRequests -> LocalsType] /\ eMade \in [ApiRequests -> Nat]
  BY Zenon DEF TrailInv
<1> USE <1>0
<1>1. ASSUME \/ API!AppendEntry \/ API!WatchdogRotates
             \/ \E a \in ApiRequests \X Honeypots : API!Fire(a)
             \/ UNCHANGED API!vars
      PROVE  TrailInv'
  <2>1. /\ UNCHANGED <<ePc, eLoc, eMade, eMissing, eReadLog, eAdminLog>>
        /\ eEpoch' \in Nat /\ eEpoch <= eEpoch'
    BY <1>1 DEF API!AppendEntry, API!WatchdogRotates, API!Fire, API!vars, API!log,
                API!trail, TrailInv
  <2> QED
    BY <2>1, OtherKeeps, Zenon DEF TrailInv
<1>3. ASSUME NEW q \in ApiRequests, NEW kind \in API!Kinds \ {"rotate"},
             NEW from \in API!Indexes, NEW to \in API!Indexes, API!BeginRead(q, kind,
             from, to)
      PROVE  TrailInv'
  <2> DEFINE l == API!Locals(kind, from, to, 0)
  <2>1. l \in LocalsType /\ l.kind = kind /\ l.got = {}
    BY ApiAssumption DEF API!Locals, LocalsType, API!Indexes
  <2>2. PICK to2 \in {"get", "refused"} : ePc' = [ePc EXCEPT ![q] = to2]
    BY <1>3, Zenon DEF API!BeginRead, API!Goto
  <2>3. /\ eLoc' = [eLoc EXCEPT ![q] = l]
        /\ UNCHANGED <<eEpoch, eMade, eMissing, eReadLog, eAdminLog>>
    BY <1>3, <2>1, Zenon DEF API!BeginRead, API!log, API!trail
  <2>4. eLoc'[q] = l /\ ePc'[q] = to2
    BY <2>2, <2>3, Zenon
  <2> HIDE DEF l
  <2>5. RequestInv(q)'
    BY <2>1, <2>2, <2>4, Zenon DEF RequestInv, Owed, API!Kinds
  <2> QED
    BY <2>1, <2>2, <2>3, <2>5, OneMoves DEF Steps
<1>4. ASSUME NEW q \in ApiRequests, API!GetEntry(q) PROVE TrailInv'
  <2> DEFINE l == [eLoc[q] EXCEPT !.got = @ \cup {eLoc[q].from}]
  <2>1. PICK to \in {"answered", "record"} :
          /\ ePc[q] = "get" /\ ePc' = [ePc EXCEPT ![q] = to]
          /\ to = "answered" <=> eLoc[q].kind = "proof"
    BY <1>4, Zenon DEF API!GetEntry, API!Goto
  <2>2. /\ eLoc' = [eLoc EXCEPT ![q] = l]
        /\ UNCHANGED <<eEpoch, eMade, eMissing, eReadLog, eAdminLog>>
    BY <1>4 DEF API!GetEntry, API!log
  <2>3. /\ l \in LocalsType /\ l.kind = eLoc[q].kind /\ l.from = eLoc[q].from
        /\ l.got = eLoc[q].got \cup {eLoc[q].from}
    BY DEF LocalsType
  <2>4. eLoc'[q] = l /\ ePc'[q] = to /\ eMade'[q] = eMade[q]
    BY <2>1, <2>2
  <2>5. RequestInv(q)'
    BY <2>1, <2>2, <2>3, <2>4 DEF TrailInv, RequestInv, Owed
  <2> QED
    BY <2>1, <2>2, <2>3, <2>5, OneMoves DEF Steps
<1>5. ASSUME NEW q \in ApiRequests, API!NoEntry(q) PROVE TrailInv'
  <2>1. PICK to \in {"answered", "refused"} : ePc[q] = "get"
        /\ ePc' = [ePc EXCEPT ![q] = to]
    BY <1>5, Zenon DEF API!NoEntry, API!Goto
  <2>2. UNCHANGED <<eEpoch, eLoc, eMade, eMissing, eReadLog, eAdminLog>>
    BY <1>5, Zenon DEF API!NoEntry, API!log, API!trail
  <2>3. RequestInv(q)'
    BY <2>1, <2>2, Zenon DEF TrailInv, RequestInv, Owed
  <2> QED
    BY <2>1, <2>2, <2>3, OneMoves DEF Steps
<1>6. ASSUME NEW q \in ApiRequests, API!RecordRead(q) PROVE TrailInv'
  <2> DEFINE l == [eLoc[q] EXCEPT !.from = @ + 1]
  <2>1. PICK to \in {"get", "answered"} : ePc[q] = "record"
        /\ ePc' = [ePc EXCEPT ![q] = to]
    BY <1>6, Zenon DEF API!RecordRead, API!Goto
  <2>2. /\ eLoc' = [eLoc EXCEPT ![q] = l]
        /\ UNCHANGED <<eEpoch, eMade, eAdminLog>>
        /\ \/ eReadLog' = eReadLog \cup {<<q, eLoc[q].from>>} /\ eMissing' = eMissing
           \/ eReadLog' = eReadLog /\ eMissing' = eMissing \cup {q}
    BY <1>6 DEF API!RecordRead, API!log
  <2>3. l \in LocalsType /\ l.kind = eLoc[q].kind /\ l.got = eLoc[q].got
    BY DEF LocalsType
  <2>4. eLoc'[q] = l /\ ePc'[q] = to /\ eMade'[q] = eMade[q]
    BY <2>1, <2>2
  <2>5. RequestInv(q)'
    BY <2>1, <2>2, <2>3, <2>4, Zenon DEF TrailInv, RequestInv, Owed
  <2> QED
    BY <2>1, <2>2, <2>3, <2>5, OneMoves DEF Steps
<1>7. ASSUME NEW q \in ApiRequests, API!BeginRotate(q) PROVE TrailInv'
  <2> DEFINE l == API!Locals("rotate", 0, 0, eEpoch)
  <2>1. l \in LocalsType /\ l.kind = "rotate" /\ l.got = {} /\ l.pre = eEpoch /\ ~l.ok
    BY DEF API!Locals, LocalsType, API!Kinds
  <2>2. PICK to \in {"rotate", "refused"} : ePc' = [ePc EXCEPT ![q] = to]
    BY <1>7, Zenon DEF API!BeginRotate, API!Goto
  <2>3. /\ eLoc' = [eLoc EXCEPT ![q] = l]
        /\ UNCHANGED <<eEpoch, eMade, eMissing, eReadLog, eAdminLog>>
    BY <1>7, <2>1, Zenon DEF API!BeginRotate, API!log, API!trail
  <2>4. eLoc'[q] = l /\ ePc'[q] = to
    BY <2>2, <2>3, Zenon
  <2> HIDE DEF l
  <2>5. RequestInv(q)'
    BY <2>1, <2>2, <2>3, <2>4 DEF RequestInv, Owed
  <2> QED
    BY <2>1, <2>2, <2>3, <2>5, OneMoves DEF Steps
<1>8. ASSUME NEW q \in ApiRequests, API!Rotate(q) PROVE TrailInv'
  <2>1. /\ ePc[q] = "rotate" /\ ePc' = [ePc EXCEPT ![q] = "post"]
        /\ UNCHANGED <<eMissing, eReadLog, eAdminLog>>
    BY <1>8 DEF API!Rotate, API!Goto, API!trail
  <2>2. CASE UNCHANGED <<eEpoch, eMade, eLoc>>
    <3>1. RequestInv(q)'
      BY <2>1, <2>2 DEF TrailInv, RequestInv, Owed
    <3> QED
      BY <2>1, <2>2, <3>1, OneMoves DEF Steps
  <2>3. CASE /\ eEpoch' = eEpoch + 1 /\ eMade' = [eMade EXCEPT ![q] = eEpoch']
             /\ eLoc' = [eLoc EXCEPT ![q].ok = TRUE]
    <3> DEFINE l == [eLoc[q] EXCEPT !.ok = TRUE]
    <3>1. /\ l \in LocalsType /\ l.kind = eLoc[q].kind /\ l.pre = eLoc[q].pre
          /\ l.got = eLoc[q].got /\ l.from = eLoc[q].from /\ l.pre \in Nat
      BY Zenon DEF LocalsType
    <3>2. eLoc' = [eLoc EXCEPT ![q] = l] /\ eLoc'[q] = l /\ ePc'[q] = "post"
          /\ eMade'[q] = eEpoch'
      BY <2>1, <2>3
    <3>3. RequestInv(q)'
      BY <2>1, <2>3, <3>1, <3>2 DEF TrailInv, RequestInv, Owed, Between
    <3>0. eEpoch' \in Nat /\ eEpoch < eEpoch'
      BY <2>3
    <3>4. ePc' \in [ApiRequests -> Steps] /\ eMade' \in [ApiRequests -> Nat]
      BY <2>1, <2>3, <3>0 DEF Steps
    <3>5. eLoc' \in [ApiRequests -> LocalsType]
      BY <3>1, <3>2
    <3>6. \A p \in ApiRequests \ {q} :
            ePc'[p] = ePc[p] /\ eLoc'[p] = eLoc[p] /\ eMade'[p] = eMade[p]
      BY <2>1, <2>3, <3>2
    <3> QED
      BY <2>1, <3>0, <3>3, <3>4, <3>5, <3>6, OneMoves
  <2> QED
    BY <1>8, <2>2, <2>3, Zenon DEF API!Rotate
<1>9. ASSUME NEW q \in ApiRequests, API!ReadPostEpoch(q) PROVE TrailInv'
  <2> DEFINE l == [eLoc[q] EXCEPT !.post = eEpoch]
  <2>1. /\ ePc[q] = "post" /\ ePc' = [ePc EXCEPT ![q] = "admin"]
        /\ eLoc' = [eLoc EXCEPT ![q] = l]
        /\ UNCHANGED <<eEpoch, eMade, eMissing, eReadLog, eAdminLog>>
    BY <1>9 DEF API!ReadPostEpoch, API!Goto, API!log, API!trail
  <2>2. /\ l \in LocalsType /\ l.kind = eLoc[q].kind /\ l.pre = eLoc[q].pre
        /\ l.got = eLoc[q].got /\ l.from = eLoc[q].from /\ l.ok = eLoc[q].ok
        /\ l.post = eEpoch
    BY DEF LocalsType
  <2>3. eLoc'[q] = l /\ ePc'[q] = "admin" /\ eMade'[q] = eMade[q]
    BY <2>1
  <2>4. RequestInv(q)'
    BY <2>1, <2>2, <2>3 DEF TrailInv, RequestInv, Owed, Between
  <2> QED
    BY <2>1, <2>2, <2>4, OneMoves DEF Steps
<1>10. ASSUME NEW q \in ApiRequests, API!RecordAdmin(q) PROVE TrailInv'
  <2> DEFINE e == [req |-> q, from |-> eLoc[q].pre, to |-> eLoc[q].post,
      ok |-> eLoc[q].ok]
  <2>1. PICK to \in {"answered", "refused"} :
          /\ ePc[q] = "admin" /\ ePc' = [ePc EXCEPT ![q] = to]
          /\ to = "answered" => eLoc[q].ok
    BY <1>10, Zenon DEF API!RecordAdmin, API!Goto
  <2>2. /\ UNCHANGED <<eEpoch, eLoc, eMade, eReadLog>>
        /\ \/ eAdminLog' = eAdminLog \cup {e} /\ eMissing' = eMissing
           \/ eAdminLog' = eAdminLog /\ eMissing' = eMissing \cup {q}
    BY <1>10, Zenon DEF API!RecordAdmin, API!log
  <2>3. ePc'[q] = to
    BY <2>1, Zenon
  <2>4. RequestInv(q)'
    <3>1. CASE q \in eMissing'
      BY <2>1, <2>2, <2>3, <3>1, Zenon DEF TrailInv, RequestInv, Owed
    <3>2. CASE q \notin eMissing'
      <4>1. e \in eAdminLog' /\ eMissing' = eMissing
        BY <2>2, <3>2, Zenon
      <4>2. /\ e.req = q /\ e.from = eLoc[q].pre /\ e.to = eLoc[q].post
            /\ to = "answered" => e.ok
        BY <2>1, Zenon
      <4> QED
        BY <2>1, <2>2, <2>3, <4>1, <4>2, Zenon DEF TrailInv, RequestInv, Owed, Between
    <3> QED
      BY <3>1, <3>2, Zenon
  <2> QED
    BY <2>1, <2>2, <2>4, OneMoves DEF Steps
<1> QED
  BY <1>1, <1>3, <1>4, <1>5, <1>6, <1>7, <1>8, <1>9, <1>10, Zenon DEF API!Next, API!Handle

\* Every entry handed out by /entries and every rotation that was answered is
\* in its journal.
THEOREM TrailCorrect == API!Spec => []TrailCoversAnswers
<1>1. TrailInv => API!TrailCoversAnswers
  BY DEF TrailInv, RequestInv, Owed, API!TrailCoversAnswers
<1> QED
  BY <1>1, TrailInit, TrailNext, PTL DEF API!Spec, TrailCoversAnswers

=============================================================================
