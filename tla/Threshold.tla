----------------------------- MODULE Threshold -----------------------------
(***************************************************************************)
(* t-of-N signing (pkg/threshold): the coordinator asks every cosigner of  *)
(* the group for a signature on one message, collects the answers from a   *)
(* channel, cancels what is outstanding once the threshold is met, and     *)
(* returns when every request has ended.  VerifyMulti is what a verifier   *)
(* later makes of the signatures.                                          *)
(*                                                                         *)
(* A signature is the record of who signed what: member, message, and      *)
(* whether a Dilithium3 signature came with it.  A faulty cosigner answers *)
(* with any signature that was ever produced.                              *)
(***************************************************************************)
EXTENDS Integers, Sequences, FiniteSets

CONSTANTS
    Members,      \* Group.Members, by ID
    GroupThreshold,  \* Group.Threshold
    Registered,   \* members with a QuantumPublicKey in the group file
    Hybrid,       \* cosigners that hold a Dilithium3 key
    Routes,       \* possible Endpoint columns: whose cosigner answers for a member
    Faulty,       \* cosigners that answer with anything
    Messages,     \* canonical bytes to be signed
    NoSig,        \* the error result of signOne
    MaxCalls,     \* bound: calls of Coordinator.Sign
    MaxFaults     \* bound: requests that time out or are refused

\* Group.Validate, and what a route is.
ASSUME ThresholdAssumption ==
    /\ IsFiniteSet(Members)
    /\ GroupThreshold \in 1 .. Cardinality(Members)
    /\ Registered \subseteq Members
    /\ Hybrid \subseteq Members
    /\ Faulty \subseteq Members
    /\ \A r \in Routes : DOMAIN r \subseteq Members /\ \A k \in DOMAIN r : r[k] \in Members
    /\ NoSig \notin [member: Members, msg: Messages, quantum: BOOLEAN]
    /\ MaxCalls \in Nat
    /\ MaxFaults \in Nat

VARIABLES
    route,      \* the endpoints of the group file
    msg,        \* the message of the call in progress
    call,       \* per member: the state of the request to its endpoint
    reply,      \* per member: the answer on its way back
    channel,    \* resCh
    gathered,   \* the signatures that were counted
    cancelled,  \* cancel() was called
    outcome,    \* what Sign returned: "none", "signed" or "refused"
    produced,   \* history: every signature a cosigner made
    lost,       \* history: members whose request failed before the cancel
    calls, faults

vars == <<route, msg, call, reply, channel, gathered, cancelled, outcome,
          produced, lost, calls, faults>>

Sigs == [member: Members, msg: Messages, quantum: BOOLEAN]

-----------------------------------------------------------------------------
(* Verification                                                            *)

\* MemberSig.Verify and the comparison with the group's key
Valid(s, m) == s.member \in Members /\ s.msg = m

\* mutant: the same member is counted every time it appears
VerifyMulti_NoDedupe(sigs, m) ==
    Cardinality({i \in DOMAIN sigs :
                    /\ Valid(sigs[i], m)
                    /\ sigs[i].member \in Registered => sigs[i].quantum})
        >= GroupThreshold

\* VerifyMulti: distinct members, each with a valid signature and, where the
\* group registered a quantum key, a quantum signature as well.
VerifyMulti(sigs, m) ==
    Cardinality({k \in Members :
                    \E i \in DOMAIN sigs :
                        /\ sigs[i].member = k
                        /\ Valid(sigs[i], m)
                        /\ k \in Registered => sigs[i].quantum})
        >= GroupThreshold

-----------------------------------------------------------------------------
Init ==
    /\ route \in Routes
    /\ msg \in Messages
    /\ call = [k \in Members |-> "idle"]
    /\ reply = [k \in Members |-> NoSig]
    /\ channel = <<>>
    /\ gathered = <<>>
    /\ cancelled = FALSE
    /\ outcome = "none"
    /\ produced = {}
    /\ lost = {}
    /\ calls = 0
    /\ faults = 0

\* Coordinator.Sign starts one goroutine per member that has an endpoint.
Sign(m) ==
    /\ calls < MaxCalls
    /\ \A k \in Members : call[k] = "idle"
    /\ calls' = calls + 1
    /\ msg' = m
    /\ call' = [k \in Members |-> IF k \in DOMAIN route THEN "sent" ELSE "done"]
    /\ gathered' = <<>>
    /\ cancelled' = FALSE
    /\ outcome' = "none"
    /\ lost' = {}
    /\ UNCHANGED <<route, reply, channel, produced, faults>>

\* Cosigner.Sign, behind the endpoint of k
CosignerSigns(k) ==
    LET own == [member |-> route[k], msg |-> msg, quantum |-> route[k] \in Hybrid]
    IN  /\ call[k] = "sent"
        /\ \E s \in IF route[k] \in Faulty THEN produced \cup {own} ELSE {own} :
              /\ produced' = produced \cup {s}
              /\ reply' = [reply EXCEPT ![k] = s]
        /\ call' = [call EXCEPT ![k] = "answered"]
        /\ UNCHANGED <<route, msg, channel, gathered, cancelled, outcome, lost,
                       calls, faults>>

\* signOne returns the signature.
SignOne(k) ==
    /\ call[k] = "answered"
    /\ channel' = Append(channel, reply[k])
    /\ reply' = [reply EXCEPT ![k] = NoSig]
    /\ call' = [call EXCEPT ![k] = "done"]
    /\ UNCHANGED <<route, msg, gathered, cancelled, outcome, produced, lost,
                   calls, faults>>

\* mutant: a request that fails leaves nothing in the channel
SignOneFails_Silent(k) ==
    /\ call[k] \in {"sent", "answered"}
    /\ faults < MaxFaults
    /\ faults' = faults + 1
    /\ lost' = lost \cup {k}
    /\ reply' = [reply EXCEPT ![k] = NoSig]
    /\ call' = [call EXCEPT ![k] = "dropped"]
    /\ UNCHANGED <<route, msg, channel, gathered, cancelled, outcome, produced,
                   calls>>

\* signOne returns an error: the timeout, a refusal (authoriseRequest) or a
\* broken connection ...
SignOneFails(k) ==
    /\ call[k] \in {"sent", "answered"}
    /\ faults < MaxFaults
    /\ faults' = faults + 1
    /\ lost' = lost \cup {k}
    /\ channel' = Append(channel, NoSig)
    /\ reply' = [reply EXCEPT ![k] = NoSig]
    /\ call' = [call EXCEPT ![k] = "done"]
    /\ UNCHANGED <<route, msg, gathered, cancelled, outcome, produced, calls>>

\* ... or the cancelled context.
SignOneCancelled(k) ==
    /\ call[k] \in {"sent", "answered"}
    /\ cancelled
    /\ channel' = Append(channel, NoSig)
    /\ reply' = [reply EXCEPT ![k] = NoSig]
    /\ call' = [call EXCEPT ![k] = "done"]
    /\ UNCHANGED <<route, msg, gathered, cancelled, outcome, produced, lost,
                   calls, faults>>

\* What the loop over resCh counts: no error, the signature verifies, the key
\* is the member's.  Neither duplicates nor the quantum signature are looked
\* at.
Counts(s) == s # NoSig /\ Valid(s, msg)

\* mutant: the others are cancelled one signature too early
Collect_CancelsEarly ==
    /\ channel # <<>>
    /\ channel' = Tail(channel)
    /\ gathered' = IF Counts(Head(channel)) THEN Append(gathered, Head(channel))
                   ELSE gathered
    /\ cancelled' = (cancelled \/ Len(gathered') + 1 >= GroupThreshold)
    /\ UNCHANGED <<route, msg, call, reply, outcome, produced, lost, calls,
                   faults>>

Collect ==
    /\ channel # <<>>
    /\ channel' = Tail(channel)
    /\ gathered' = IF Counts(Head(channel)) THEN Append(gathered, Head(channel))
                   ELSE gathered
    /\ cancelled' = (cancelled \/ Len(gathered') >= GroupThreshold)
    /\ UNCHANGED <<route, msg, call, reply, outcome, produced, lost, calls,
                   faults>>

\* The channel is closed and drained: Sign returns.
SignReturns ==
    /\ \A k \in Members : call[k] = "done"
    /\ channel = <<>>
    /\ outcome' = IF Len(gathered) >= GroupThreshold THEN "signed" ELSE "refused"
    /\ call' = [k \in Members |-> "idle"]
    /\ UNCHANGED <<route, msg, reply, channel, gathered, cancelled, produced,
                   lost, calls, faults>>

Next ==
    \/ \E m \in Messages : Sign(m)
    \/ \E k \in Members :
         \/ CosignerSigns(k)
         \/ SignOne(k)
         \/ SignOneFails(k)
         \/ SignOneCancelled(k)
    \/ Collect
    \/ SignReturns

Spec == Init /\ [][Next]_vars

\* A cosigner answers or the request times out; the collecting loop runs.
Fairness ==
    /\ \A k \in Members : WF_vars(CosignerSigns(k)) /\ WF_vars(SignOne(k))
    /\ WF_vars(Collect)
    /\ WF_vars(SignReturns)

FairSpec == Spec /\ Fairness

-----------------------------------------------------------------------------
(* Properties                                                              *)

\* What VerifyMulti accepts as signed by t members, t members did sign,
\* whatever mixture of old, duplicate and foreign signatures the coordinator
\* was given.
QuorumSigned ==
    VerifyMulti(gathered, msg) =>
        Cardinality({k \in Members : \E s \in produced : s.member = k /\ s.msg = msg})
            >= GroupThreshold

\* The members whose request goes to a sound cosigner and was not lost.
HeardOut == {k \in DOMAIN route : k \notin lost /\ route[k] \notin Faulty}

\* Cancelling what is outstanding never costs the threshold: Sign refuses only
\* if fewer than t sound cosigners were heard out.
CancelIsSafe == outcome = "refused" => Cardinality(HeardOut) < GroupThreshold

\* Sign returns, whoever answers, fails or is cancelled.
SignTerminates ==
    (\E k \in Members : call[k] # "idle") ~> (\A k \in Members : call[k] = "idle")

=============================================================================
