------------------------------- MODULE FwdSec -------------------------------
(***************************************************************************)
(* The forward-secure signer: fwdsec.Signer (pkg/fwdsec/fwdsec.go) over a  *)
(* FileKeyStore (pkg/fwdsec/keystore.go).                                  *)
(*                                                                         *)
(* Rotate holds Signer.mu throughout, so no other call of the process sees *)
(* it half done; but it leaves files behind at every step: a new key file, *)
(* chain.json, a destroyed key file.  Any of the file operations may fail, *)
(* and the process may die between any two.  A key is identified with the  *)
(* path of its file, which is its locator.  The clock may step back, over  *)
(* a restart or in between: Rotate stores what time.Now() says and does    *)
(* not compare it with the last certificate's reading.                     *)
(***************************************************************************)
EXTENDS Integers, Sequences

CONSTANTS
    HybridModes,     \* values --pq-mode=hybrid takes over the restarts
    ThresholdModes,  \* values of "threshold rotation" over the restarts
    MaxKeys,         \* bound: keys ever generated
    MaxClock,        \* bound: clock readings
    MaxFaults,       \* bound: failing signatures and file operations
    MaxCrashes       \* bound: process crashes

ASSUME FwdSecAssumption ==
    /\ HybridModes \subseteq BOOLEAN /\ HybridModes # {}
    /\ ThresholdModes \subseteq BOOLEAN /\ ThresholdModes # {}
    /\ MaxKeys \in Nat
    /\ MaxClock \in Nat
    /\ MaxFaults \in Nat
    /\ MaxCrashes \in Nat

NoKey == 0
Keys  == 1 .. MaxKeys

VARIABLES
    chainFile,  \* chain.json: [certs, locator]; no certs = no such file
    keyFiles,   \* keys whose file holds usable key material
    pc,         \* "off", "genesis", "idle", "generated", "signed", "written"
    chain,      \* Signer.chain
    active,     \* Signer.active: [key, live]; live is FALSE once Destroy ran
    newKey,     \* newActive of the rotation in progress
    hybrid,     \* FileKeyStore.Hybrid of the running process
    threshold,  \* UseThresholdRotation was called in the running process
    quantum,    \* history: the keys that carry a Dilithium half
    nextKey,    \* history: every generated key is new
    signed,     \* history: <<epoch, key>> of signatures Sign returned
    faults, crashes

disk   == <<chainFile, keyFiles>>
memory == <<chain, active, newKey, hybrid, threshold>>
ghosts == <<quantum, nextKey, signed>>
vars   == <<disk, pc, memory, ghosts, faults, crashes>>

EmptyChain == [certs |-> <<>>, locator |-> NoKey]
NoActive   == [key |-> NoKey, live |-> FALSE]

Certs == [epoch: Nat, key: Keys, startedAt: 0 .. MaxClock, signedBy: Keys,
          qkey: Keys \cup {NoKey}, qSignedBy: Keys \cup {NoKey},
          sig: Keys \cup {NoKey}, qsig: Keys \cup {NoKey}, members: BOOLEAN]

-----------------------------------------------------------------------------
(* Certificates and chains                                                 *)

\* RotationCert.Verify / VerifyWithGroup.  A signature is represented by the
\* key that made it; a quorum of the group signed when members is TRUE.
CertVerify(cert, group) ==
    IF cert.members
      THEN group
      ELSE /\ cert.sig = cert.signedBy
           /\ ({cert.qkey, cert.qSignedBy, cert.qsig} # {NoKey}) =>
                /\ cert.qkey # NoKey
                /\ cert.qSignedBy # NoKey
                /\ cert.qsig = cert.qSignedBy

\* The link between neighbouring certs that verifyChain checks.
LinkVerify(prev, cert) ==
    /\ cert.epoch = prev.epoch + 1
    /\ cert.startedAt >= prev.startedAt
    /\ ~cert.members =>
         /\ cert.signedBy = prev.key
         /\ cert.qkey # NoKey \/ cert.qSignedBy # NoKey =>
              cert.qSignedBy = prev.qkey

\* Chain.verifyChain against the trusted root key.
ChainVerify(certs, root, group) ==
    /\ certs # <<>>
    /\ certs[1].epoch = 0
    /\ certs[1].key = root
    /\ certs[1].signedBy = root
    /\ certs[1].qkey # NoKey => certs[1].qkey = certs[1].qSignedBy
    /\ \A i \in 1 .. Len(certs) : CertVerify(certs[i], group)
    /\ \A i \in 2 .. Len(certs) : LinkVerify(certs[i - 1], certs[i])

\* The clock has not stepped back between two rotations of the chain.
Ascending(certs) ==
    \A i \in 2 .. Len(certs) : certs[i].startedAt >= certs[i - 1].startedAt

\* Hybrid mode was turned on over a classical key: the old key cannot sign
\* the quantum half of its successor, and no quorum stood in for it.
Upgraded(certs) ==
    \E i \in 2 .. Len(certs) :
        ~certs[i].members /\ certs[i].qkey # NoKey /\ certs[i - 1].qkey = NoKey

\* The cert ActivePublicKey and ActiveEpoch read.
ActiveCert(certs) == certs[Len(certs)]

QuantumPublic(k) == IF k \in quantum THEN k ELSE NoKey

-----------------------------------------------------------------------------
(* Start-up: NewSignerWithStore                                            *)

Init ==
    /\ chainFile = EmptyChain
    /\ keyFiles = {}
    /\ pc = "off"
    /\ chain = EmptyChain
    /\ active = NoActive
    /\ newKey = NoKey
    /\ hybrid \in HybridModes
    /\ threshold \in ThresholdModes
    /\ quantum = {}
    /\ nextKey = 1
    /\ signed = {}
    /\ faults = 0
    /\ crashes = 0

\* KeyStore.Generate writes a fresh key to a file of its own.
Generate ==
    /\ nextKey <= MaxKeys
    /\ newKey' = nextKey
    /\ nextKey' = nextKey + 1
    /\ keyFiles' = keyFiles \cup {nextKey}

\* createGenesis up to the key file; the process runs in modes h and t.
GenesisGenerate(h, t) ==
    /\ pc = "off"
    /\ chainFile = EmptyChain
    /\ Generate
    /\ hybrid' = h
    /\ threshold' = t
    /\ quantum' = IF h THEN quantum \cup {nextKey} ELSE quantum
    /\ pc' = "genesis"
    /\ UNCHANGED <<chainFile, chain, active, signed, faults, crashes>>

\* Self-sign, build the chain, write chain.json.
GenesisWrite(now) ==
    LET q    == QuantumPublic(newKey)
        cert == [epoch |-> 0, key |-> newKey, startedAt |-> now,
                 signedBy |-> newKey, qkey |-> q, qSignedBy |-> q,
                 sig |-> newKey, qsig |-> q, members |-> FALSE]
    IN  /\ pc = "genesis"
        /\ chain' = [certs |-> <<cert>>, locator |-> newKey]
        /\ chainFile' = chain'
        /\ active' = [key |-> newKey, live |-> TRUE]
        /\ newKey' = NoKey
        /\ pc' = "idle"
        /\ UNCHANGED <<keyFiles, hybrid, threshold, ghosts, faults, crashes>>

\* chain.json cannot be written: start-up fails and the key is an orphan.
GenesisFails ==
    /\ pc = "genesis"
    /\ faults < MaxFaults
    /\ faults' = faults + 1
    /\ newKey' = NoKey
    /\ pc' = "off"
    /\ UNCHANGED <<disk, chain, active, hybrid, threshold, ghosts, crashes>>

\* loadActive's conditions on what it finds on disk.
Loadable ==
    /\ chainFile.locator \in keyFiles
    /\ chainFile.locator = ActiveCert(chainFile.certs).key

LoadActive(h, t) ==
    /\ pc = "off"
    /\ chainFile # EmptyChain
    /\ Loadable
    /\ chain' = chainFile
    /\ active' = [key |-> chainFile.locator, live |-> TRUE]
    /\ hybrid' = h
    /\ threshold' = t
    /\ pc' = "idle"
    /\ UNCHANGED <<disk, newKey, ghosts, faults, crashes>>

-----------------------------------------------------------------------------
(* Sign and Rotate                                                         *)

Sign ==
    /\ pc = "idle"
    /\ active.live
    /\ signed' = signed \cup {<<ActiveCert(chain.certs).epoch, active.key>>}
    /\ UNCHANGED <<disk, pc, memory, quantum, nextKey, faults, crashes>>

\* "file livekey: destroyed": after a failed Destroy, until a restart.
SignRefused ==
    /\ pc = "idle"
    /\ ~active.live
    /\ UNCHANGED vars

RotateGenerate ==
    /\ pc = "idle"
    /\ Generate
    /\ quantum' = IF hybrid THEN quantum \cup {nextKey} ELSE quantum
    /\ pc' = "generated"
    /\ UNCHANGED <<chainFile, chain, active, hybrid, threshold, signed, faults,
                   crashes>>

\* The cert Rotate builds for newKey, signed by the quorum or the active key.
NewCert(now) ==
    LET prev == ActiveCert(chain.certs)
        q    == QuantumPublic(newKey)
        dual == q # NoKey /\ prev.qkey # NoKey
    IN  [epoch     |-> prev.epoch + 1,
         key       |-> newKey,
         startedAt |-> now,
         signedBy  |-> prev.key,
         qkey      |-> q,
         qSignedBy |-> IF q # NoKey THEN prev.qkey ELSE NoKey,
         sig       |-> IF threshold THEN NoKey ELSE active.key,
         qsig      |-> IF ~threshold /\ dual THEN QuantumPublic(active.key)
                                            ELSE NoKey,
         members   |-> threshold]

\* mutant: the old key is destroyed before the new chain is written
RotateSign_DestroysFirst(now) ==
    /\ pc = "generated"
    /\ threshold \/ active.live
    /\ chain' = [certs |-> Append(chain.certs, NewCert(now)), locator |-> newKey]
    /\ keyFiles' = keyFiles \ {active.key}
    /\ pc' = "signed"
    /\ UNCHANGED <<chainFile, active, newKey, hybrid, threshold, ghosts,
                   faults, crashes>>

\* Sign the cert and append it to the chain in memory.
RotateSign(now) ==
    /\ pc = "generated"
    /\ threshold \/ active.live
    /\ chain' = [certs |-> Append(chain.certs, NewCert(now)), locator |-> newKey]
    /\ pc' = "signed"
    /\ UNCHANGED <<disk, active, newKey, hybrid, threshold, ghosts, faults,
                   crashes>>

\* Rotate gives the new key up; errors of its Destroy are ignored.
Abandon ==
    /\ keyFiles' \in {keyFiles, keyFiles \ {newKey}}
    /\ newKey' = NoKey
    /\ pc' = "idle"

\* No quorum, or the active key was destroyed or cannot sign.
RotateSignFails ==
    /\ pc = "generated"
    /\ threshold \/ active.live => faults < MaxFaults
    /\ faults' = IF threshold \/ active.live THEN faults + 1 ELSE faults
    /\ Abandon
    /\ UNCHANGED <<chainFile, chain, active, hybrid, threshold, ghosts,
                   crashes>>

\* mutant: the rename is lost
WriteChain_Lost ==
    /\ pc = "signed"
    /\ pc' = "written"
    /\ UNCHANGED <<disk, memory, ghosts, faults, crashes>>

\* writeChain: temporary file, then rename.
WriteChain ==
    /\ pc = "signed"
    /\ chainFile' = chain
    /\ pc' = "written"
    /\ UNCHANGED <<keyFiles, memory, ghosts, faults, crashes>>

\* mutant: the cert stays in the in-memory chain
WriteChainFails_NoRevert ==
    /\ pc = "signed"
    /\ faults < MaxFaults
    /\ faults' = faults + 1
    /\ Abandon
    /\ UNCHANGED <<chainFile, chain, active, hybrid, threshold, ghosts,
                   crashes>>

\* The chain in memory is reverted, its locator to the active key's.
WriteChainFails ==
    /\ pc = "signed"
    /\ faults < MaxFaults
    /\ faults' = faults + 1
    /\ chain' = [certs   |-> SubSeq(chain.certs, 1, Len(chain.certs) - 1),
                 locator |-> active.key]
    /\ Abandon
    /\ UNCHANGED <<chainFile, active, hybrid, threshold, ghosts, crashes>>

\* mutant: the new key is swapped in and the old one left on disk
DestroyPrevious_Skipped ==
    /\ pc = "written"
    /\ active' = [key |-> newKey, live |-> TRUE]
    /\ newKey' = NoKey
    /\ pc' = "idle"
    /\ UNCHANGED <<disk, chain, hybrid, threshold, ghosts, faults, crashes>>

\* prevActive.Destroy succeeds and the new key is swapped in.
DestroyPrevious ==
    /\ pc = "written"
    /\ keyFiles' = keyFiles \ {active.key}
    /\ active' = [key |-> newKey, live |-> TRUE]
    /\ newKey' = NoKey
    /\ pc' = "idle"
    /\ UNCHANGED <<chainFile, chain, hybrid, threshold, ghosts, faults,
                   crashes>>

\* Overwriting or removing the file fails: the key is gone from memory and
\* maybe from disk, and stays Signer.active.
DestroyPreviousFails ==
    /\ pc = "written"
    /\ faults < MaxFaults
    /\ faults' = faults + 1
    /\ keyFiles' \in {keyFiles, keyFiles \ {active.key}}
    /\ active' = [active EXCEPT !.live = FALSE]
    /\ newKey' = NoKey
    /\ pc' = "idle"
    /\ UNCHANGED <<chainFile, chain, hybrid, threshold, ghosts, crashes>>

Crash ==
    /\ pc # "off"
    /\ crashes < MaxCrashes
    /\ crashes' = crashes + 1
    /\ pc' = "off"
    /\ chain' = EmptyChain
    /\ active' = NoActive
    /\ newKey' = NoKey
    /\ UNCHANGED <<disk, hybrid, threshold, ghosts, faults>>

Rotation ==
    \/ RotateGenerate
    \/ \E now \in 0 .. MaxClock : RotateSign(now)
    \/ RotateSignFails
    \/ WriteChain
    \/ WriteChainFails
    \/ DestroyPrevious
    \/ DestroyPreviousFails

Next ==
    \/ \E h \in HybridModes, t \in ThresholdModes :
          GenesisGenerate(h, t) \/ LoadActive(h, t)
    \/ \E now \in 0 .. MaxClock : GenesisWrite(now)
    \/ GenesisFails
    \/ Sign
    \/ SignRefused
    \/ Rotation
    \/ Crash

Spec == Init /\ [][Next]_vars

-----------------------------------------------------------------------------
(* Properties                                                              *)

\* Every variable holds a value of its Go type.
TypeOK ==
    /\ chainFile \in [certs: Seq(Certs), locator: Keys \cup {NoKey}]
    /\ keyFiles \subseteq Keys
    /\ pc \in {"off", "genesis", "idle", "generated", "signed", "written"}
    /\ chain \in [certs: Seq(Certs), locator: Keys \cup {NoKey}]
    /\ active \in [key: Keys \cup {NoKey}, live: BOOLEAN]
    /\ newKey \in Keys \cup {NoKey}
    /\ hybrid \in BOOLEAN /\ threshold \in BOOLEAN
    /\ quantum \subseteq Keys
    /\ nextKey \in 1 .. MaxKeys + 1
    /\ signed \subseteq Nat \X Keys
    /\ faults \in Nat /\ crashes \in Nat

\* Whatever failed and wherever the process died, chain.json names a key whose
\* file is intact and whose public key is the chain's active one: a restart
\* always finds its signing key.
KeyRecoverable == chainFile # EmptyChain => Loadable

\* The chain on disk, and the one Chain() publishes between rotations, verify
\* against the genesis key after any mix of rotations, failures, restarts and
\* changes of --pq-mode, except exactly when the clock stepped back between two
\* of its rotations or hybrid mode was turned on over a classical key.
ChainVerdict ==
    /\ chainFile # EmptyChain =>
         (ChainVerify(chainFile.certs, chainFile.certs[1].key, TRUE)
            <=> Ascending(chainFile.certs) /\ ~Upgraded(chainFile.certs))
    /\ pc = "idle" => chain.certs = chainFile.certs

\* The same without the second exception: "For any sequence of 0..N rotations,
\* the resulting chain must verify" (pkg/fwdsec/property_test.go:23).
ChainVerifies ==
    /\ chainFile # EmptyChain =>
         (ChainVerify(chainFile.certs, chainFile.certs[1].key, TRUE)
            <=> Ascending(chainFile.certs))
    /\ pc = "idle" => chain.certs = chainFile.certs

\* A signature Sign ever returned verifies for good under the key the chain on
\* disk lists for its epoch: no failed or interrupted rotation signs under an
\* epoch that is later given to another key.
SignaturesStayValid ==
    \A s \in signed : /\ s[1] + 1 \in DOMAIN chainFile.certs
                      /\ chainFile.certs[s[1] + 1].key = s[2]

\* A Rotate that returns success "irrevocably destroys the previous epoch's
\* key" (Rotate's comment): it is no longer recoverable from disk.  With
\* threshold rotation it may be: the quorum signs also after a Destroy that
\* failed, and the next Rotate then destroys that older key again.
PreviousKeyDestroyed ==
    [][pc = "written" /\ active'.live /\ ~threshold =>
         chain.certs[Len(chain.certs) - 1].key \notin keyFiles']_vars

\* The keys a chain certifies, in the order of their epochs.
KeysOf(certs) == [i \in DOMAIN certs |-> certs[i].key]

\* The signer implements KeyChain: the keys certified on disk are its chain, the
\* keys with an intact file its keys; failures, crashes and restarts are silent,
\* or lose a key that is not the last of the chain.
Abstract == INSTANCE KeyChain WITH
    made <- 1 .. (nextKey - 1),
    kept <- keyFiles,
    chain <- KeysOf(chainFile.certs)

ImplementsKeyChain == Abstract!Spec

=============================================================================
