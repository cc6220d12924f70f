---------------------------- MODULE FwdSecProofs ----------------------------
(***************************************************************************)
(* Proofs about FwdSec for any number of rotations, failures and crashes,  *)
(* with and without hybrid keys and threshold rotation.                    *)
(* Keys on a token keep the promises of a key store.                       *)
(***************************************************************************)
EXTENDS FwdSec, TokenPart, TLAPS

-----------------------------------------------------------------------------
(* Facts about chains                                                      *)

\* The last certificate of a chain is a certificate.
LEMMA ActiveCertType ==
    ASSUME NEW s \in Seq(Certs), s # <<>>
    PROVE  Len(s) \in Nat \ {0} /\ ActiveCert(s) \in Certs
BY DEF ActiveCert

\* What appending a certificate does to a chain.
LEMMA AppendFacts ==
    ASSUME NEW s \in Seq(Certs), NEW c \in Certs
    PROVE  /\ Append(s, c) \in Seq(Certs)
           /\ Append(s, c) # <<>>
           /\ Len(Append(s, c)) = Len(s) + 1
           /\ \A i \in 1 .. Len(s) : Append(s, c)[i] = s[i]
           /\ Append(s, c)[Len(s) + 1] = c
           /\ ActiveCert(Append(s, c)) = c
BY DEF ActiveCert

\* Cutting off the certificate that was appended gives the chain back.
LEMMA RevertFacts ==
    ASSUME NEW s \in Seq(Certs), NEW c \in Certs
    PROVE  SubSeq(Append(s, c), 1, Len(Append(s, c)) - 1) = s
<1> DEFINE t == Append(s, c)
           u == SubSeq(t, 1, Len(s))
<1>1. /\ t \in Seq(Certs) /\ Len(s) \in Nat /\ Len(t) - 1 = Len(s)
      /\ \A i \in 1 .. Len(s) : t[i] = s[i] /\ t[i] \in Certs
  BY AppendFacts
<1> HIDE DEF t
<1>2. /\ u \in Seq(Certs) /\ Len(u) = Len(s)
      /\ \A i \in 1 .. Len(s) : u[i] = s[i]
  BY <1>1
<1> HIDE DEF u
<1>3. u = s
  BY <1>2
<1> QED
  BY <1>1, <1>3 DEF t, u

-----------------------------------------------------------------------------
(* Keys and files                                                          *)

Started == {"idle", "generated", "signed", "written"}
Rotating == {"generated", "signed", "written"}

\* A key being made has its file and is not the key in use, which is why
\* neither giving it up nor destroying the old one loses the key chain.json
\* names.
KeyInv ==
    /\ pc \in Started => chain.certs # <<>> /\ chainFile.certs # <<>>
    /\ pc \in Rotating \cup {"genesis"} =>
         newKey \in keyFiles /\ newKey \in Keys /\ newKey < nextKey
    /\ pc = "genesis" => chainFile = EmptyChain
    /\ active.key < nextKey /\ chainFile.locator < nextKey
    /\ active.live => active.key \in Keys
    /\ pc \in Rotating => newKey # active.key
    /\ pc \in {"generated", "signed"} => newKey # chainFile.locator
    /\ pc \in {"idle", "generated"} => chain.certs = chainFile.certs
    /\ pc = "signed" =>
         /\ chain.locator = newKey
         /\ \E c \in Certs : /\ chain.certs = Append(chainFile.certs, c)
                             /\ c.key = newKey
    /\ pc = "written" => chainFile = chain /\ chainFile.locator = newKey
    /\ chainFile # EmptyChain => chainFile.certs # <<>> /\ Loadable

Typed == TypeOK /\ KeyInv

\* At first there is neither a key nor a chain.
LEMMA TypedInit == Init => Typed
<1> SUFFICES ASSUME Init PROVE Typed
  OBVIOUS
<1>1. EmptyChain \in [certs: Seq(Certs), locator: Keys \cup {NoKey}]
  BY DEF EmptyChain
<1> QED
  BY <1>1, FwdSecAssumption
     DEF Init, Typed, TypeOK, KeyInv, EmptyChain, NoActive, NoKey, Keys,
         Started, Rotating

\* The certificate Rotate builds.
LEMMA NewCertType ==
    ASSUME Typed, pc = "generated", NEW now \in 0 .. MaxClock
    PROVE  /\ NewCert(now) \in Certs
           /\ NewCert(now).key = newKey
           /\ NewCert(now).epoch = ActiveCert(chain.certs).epoch + 1
<1>1. ActiveCert(chain.certs) \in Certs
  BY ActiveCertType DEF Typed, TypeOK, KeyInv, Started
<1>2. /\ ActiveCert(chain.certs).epoch \in Nat
      /\ ActiveCert(chain.certs).key \in Keys
      /\ ActiveCert(chain.certs).qkey \in Keys \cup {NoKey}
  BY <1>1 DEF Certs
<1>3. /\ newKey \in Keys /\ active.key \in Keys \cup {NoKey}
      /\ threshold \in BOOLEAN
  BY DEF Typed, TypeOK, KeyInv, Rotating
<1>4. /\ QuantumPublic(newKey) \in Keys \cup {NoKey}
      /\ QuantumPublic(active.key) \in Keys \cup {NoKey}
  BY <1>3 DEF QuantumPublic
<1> QED
  BY <1>2, <1>3, <1>4 DEF NewCert, Certs

\* A generated key is new: no file names it, and no key in use is it.
LEMMA GenerateTyped ==
    ASSUME Typed, Generate, hybrid' \in BOOLEAN, threshold' \in BOOLEAN,
           quantum' \in {quantum, quantum \cup {nextKey}},
           \/ pc' = "genesis" /\ chainFile = EmptyChain
           \/ pc' = "generated" /\ pc = "idle",
           UNCHANGED <<chainFile, chain, active, signed, faults, crashes>>
    PROVE  Typed'
<1>1. nextKey \in Keys /\ nextKey' \in 1 .. MaxKeys + 1
  BY FwdSecAssumption DEF Generate, Typed, TypeOK, Keys
<1>2. /\ newKey' = nextKey /\ nextKey' = nextKey + 1
      /\ keyFiles' = keyFiles \cup {nextKey}
  BY DEF Generate
<1>3. TypeOK'
  BY <1>1, <1>2 DEF Typed, TypeOK
<1>4. /\ nextKey \in Nat /\ active.key \in Nat /\ chainFile.locator \in Nat
      /\ active.key < nextKey /\ chainFile.locator < nextKey
  BY FwdSecAssumption DEF Typed, TypeOK, KeyInv, Keys, NoKey
<1>5. /\ newKey' # active.key /\ newKey' # chainFile.locator
      /\ newKey' < nextKey'
      /\ active.key < nextKey' /\ chainFile.locator < nextKey'
  BY <1>2, <1>4
<1>6. pc' = "generated" =>
        /\ chain.certs # <<>> /\ chainFile.certs # <<>>
        /\ chain.certs = chainFile.certs
  BY DEF Typed, KeyInv, Started
<1>7. /\ active.live => active.key \in Keys
      /\ chainFile # EmptyChain =>
           /\ chainFile.certs # <<>>
           /\ chainFile.locator \in keyFiles'
           /\ chainFile.locator = ActiveCert(chainFile.certs).key
  BY <1>2 DEF Typed, KeyInv, Loadable
<1>8. KeyInv'
  BY <1>1, <1>2, <1>5, <1>6, <1>7 DEF KeyInv, Loadable, Started, Rotating
<1> QED
  BY <1>3, <1>8 DEF Typed

\* Every step keeps the types and the keys the files name.
LEMMA TypedNext == Typed /\ [Next]_vars => Typed'
<1> SUFFICES ASSUME Typed, [Next]_vars PROVE Typed'
  OBVIOUS
<1> USE DEF Typed
<1>a. /\ MaxKeys \in Nat /\ MaxFaults \in Nat /\ MaxCrashes \in Nat
      /\ HybridModes \subseteq BOOLEAN /\ ThresholdModes \subseteq BOOLEAN
      /\ NoKey = 0 /\ NoKey \notin Keys
      /\ Keys \subseteq Nat
      /\ active.key \in Nat /\ chainFile.locator \in Nat /\ newKey \in Nat
      /\ nextKey \in Nat /\ 1 <= nextKey
  BY FwdSecAssumption DEF NoKey, Keys, TypeOK
<1>b. EmptyChain \in [certs: Seq(Certs), locator: Keys \cup {NoKey}]
  BY DEF EmptyChain
<1>c. chainFile.certs # <<>> => chainFile # EmptyChain
  BY DEF EmptyChain
<1>1. ASSUME NEW h \in HybridModes, NEW t \in ThresholdModes,
             GenesisGenerate(h, t)
      PROVE  Typed'
  <2>1. /\ Generate /\ hybrid' = h /\ threshold' = t
        /\ quantum' \in {quantum, quantum \cup {nextKey}}
        /\ pc' = "genesis" /\ chainFile = EmptyChain
        /\ UNCHANGED <<chainFile, chain, active, signed, faults, crashes>>
    BY <1>1, Zenon DEF GenesisGenerate
  <2>2. hybrid' \in BOOLEAN /\ threshold' \in BOOLEAN
    BY <1>a, <2>1
  <2> QED
    BY <2>1, <2>2, GenerateTyped
<1>2. ASSUME NEW h \in HybridModes, NEW t \in ThresholdModes, LoadActive(h, t)
      PROVE  Typed'
  <2>1. TypeOK'
    BY <1>a, <1>2 DEF LoadActive, disk, ghosts, TypeOK
  <2>2. chainFile.locator \in Keys
    BY <1>2 DEF LoadActive, Loadable, TypeOK
  <2>3. KeyInv'
    BY <1>a, <1>2, <2>2 DEF LoadActive, Loadable, disk, ghosts, TypeOK, KeyInv,
                            Started, Rotating
  <2> QED
    BY <2>1, <2>3
<1>3. ASSUME NEW now \in 0 .. MaxClock, GenesisWrite(now)
      PROVE  Typed'
  <2> DEFINE q    == QuantumPublic(newKey)
             cert == [epoch |-> 0, key |-> newKey, startedAt |-> now,
                      signedBy |-> newKey, qkey |-> q, qSignedBy |-> q,
                      sig |-> newKey, qsig |-> q, members |-> FALSE]
  <2>1. newKey \in Keys /\ newKey \in keyFiles /\ newKey < nextKey
    BY <1>3, Zenon DEF GenesisWrite, KeyInv
  <2>2. cert \in Certs /\ cert.key = newKey
    BY <2>1 DEF Certs, QuantumPublic
  <2>3. /\ chain' = [certs |-> <<cert>>, locator |-> newKey]
        /\ chainFile' = chain'
        /\ active' = [key |-> newKey, live |-> TRUE]
        /\ newKey' = NoKey
        /\ pc' = "idle"
        /\ UNCHANGED <<keyFiles, hybrid, threshold, quantum, nextKey, signed,
                       faults, crashes>>
    BY <1>3 DEF GenesisWrite, ghosts
  <2> HIDE DEF cert
  <2>4. /\ <<cert>> \in Seq(Certs) /\ <<cert>> # <<>>
        /\ ActiveCert(<<cert>>) = cert
    BY <2>2 DEF ActiveCert
  <2>5. TypeOK'
    BY <1>a, <2>1, <2>3, <2>4, Zenon DEF TypeOK
  <2>6. KeyInv'
    BY <1>a, <2>1, <2>2, <2>3, <2>4, Zenon
       DEF TypeOK, KeyInv, Loadable, Started, Rotating
  <2> QED
    BY <2>5, <2>6
<1>4. ASSUME NEW now \in 0 .. MaxClock, RotateSign(now)
      PROVE  Typed'
  <2>1. /\ pc = "generated" /\ pc' = "signed"
        /\ chain' = [certs   |-> Append(chain.certs, NewCert(now)),
                     locator |-> newKey]
        /\ UNCHANGED <<chainFile, keyFiles, active, newKey, hybrid, threshold,
                       quantum, nextKey, signed, faults, crashes>>
    BY <1>4, Zenon DEF RotateSign, disk, ghosts
  <2>2. NewCert(now) \in Certs /\ NewCert(now).key = newKey
    BY <2>1, NewCertType
  <2>3. PICK c \in Certs : c = NewCert(now) /\ c.key = newKey
    BY <2>2
  <2>4. /\ chain.certs \in Seq(Certs) /\ chain.certs = chainFile.certs
        /\ newKey \in Keys
    BY <2>1 DEF TypeOK, KeyInv, Rotating
  <2>5. Append(chain.certs, c) \in Seq(Certs) /\ Append(chain.certs, c) # <<>>
    BY <2>4, AppendFacts
  <2>6. /\ chain'.certs = Append(chainFile.certs, c)
        /\ chain'.certs \in Seq(Certs) /\ chain'.certs # <<>>
        /\ chain'.locator = newKey
        /\ chain' \in [certs: Seq(Certs), locator: Keys \cup {NoKey}]
    BY <2>1, <2>3, <2>4, <2>5, Zenon
  <2>7. TypeOK'
    BY <2>1, <2>6, Zenon DEF TypeOK
  <2>8. KeyInv'
    BY <2>1, <2>3, <2>6, Zenon DEF KeyInv, Started, Rotating, Loadable
  <2> QED
    BY <2>7, <2>8
<1>5. ASSUME WriteChain
      PROVE  Typed'
  <2>1. /\ pc = "signed" /\ pc' = "written" /\ chainFile' = chain
        /\ UNCHANGED <<keyFiles, chain, active, newKey, hybrid, threshold,
                       quantum, nextKey, signed, faults, crashes>>
    BY <1>5 DEF WriteChain, memory, ghosts
  <2>2. PICK c \in Certs : /\ chain.certs = Append(chainFile.certs, c)
                           /\ c.key = newKey
    BY <2>1 DEF KeyInv
  <2>3. chain.certs # <<>> /\ ActiveCert(chain.certs).key = newKey
    BY <2>2, AppendFacts DEF TypeOK
  <2>4. TypeOK'
    BY <2>1 DEF TypeOK
  <2>5. KeyInv'
    BY <2>1, <2>3, Zenon DEF KeyInv, Started, Rotating, Loadable
  <2> QED
    BY <2>4, <2>5
<1>6. ASSUME WriteChainFails
      PROVE  Typed'
  <2>1. /\ pc = "signed" /\ pc' = "idle" /\ newKey' = NoKey
        /\ keyFiles' \in {keyFiles, keyFiles \ {newKey}}
        /\ chain' = [certs   |-> SubSeq(chain.certs, 1, Len(chain.certs) - 1),
                     locator |-> active.key]
        /\ faults' = faults + 1
        /\ UNCHANGED <<chainFile, active, hybrid, threshold, quantum, nextKey,
                       signed, crashes>>
    BY <1>6, Zenon DEF WriteChainFails, Abandon, ghosts
  <2>2. PICK c \in Certs : chain.certs = Append(chainFile.certs, c)
    BY <2>1, Zenon DEF KeyInv
  <2>3. chain' = [certs |-> chainFile.certs, locator |-> active.key]
    BY <2>1, <2>2, RevertFacts, Zenon DEF TypeOK
  <2>4. TypeOK'
    BY <1>a, <2>1, <2>3, SMTT(30) DEF TypeOK
  <2>5. KeyInv'
    BY <2>1, <2>3, SMTT(30) DEF KeyInv, Started, Rotating, Loadable
  <2> QED
    BY <2>4, <2>5
<1>7. ASSUME GenesisFails
      PROVE  Typed'
  <2>1. TypeOK'
    BY <1>a, <1>b, <1>7 DEF TypeOK, GenesisFails, disk, ghosts
  <2>2. KeyInv'
    BY <1>a, <1>c, <1>7, Zenon DEF TypeOK, KeyInv, Started, Rotating, Loadable,
       GenesisFails, disk, ghosts
  <2> QED
    BY <2>1, <2>2
<1>8. ASSUME RotateGenerate
      PROVE  Typed'
  <2>1. /\ Generate /\ UNCHANGED <<hybrid, threshold>>
        /\ quantum' \in {quantum, quantum \cup {nextKey}}
        /\ pc' = "generated" /\ pc = "idle"
        /\ UNCHANGED <<chainFile, chain, active, signed, faults, crashes>>
    BY <1>8, Zenon DEF RotateGenerate
  <2>2. hybrid' \in BOOLEAN /\ threshold' \in BOOLEAN
    BY <2>1 DEF TypeOK
  <2> QED
    BY <2>1, <2>2, GenerateTyped
<1>9. ASSUME RotateSignFails
      PROVE  Typed'
  <2>1. TypeOK'
    BY <1>a, <1>b, <1>9 DEF TypeOK, RotateSignFails, Abandon, ghosts
  <2>2. KeyInv'
    BY <1>a, <1>c, <1>9, Zenon DEF TypeOK, KeyInv, Started, Rotating, Loadable,
       RotateSignFails, Abandon, ghosts
  <2> QED
    BY <2>1, <2>2
<1>10. ASSUME DestroyPrevious
      PROVE  Typed'
  <2>1. TypeOK'
    BY <1>a, <1>b, <1>10, Zenon DEF TypeOK, DestroyPrevious, ghosts
  <2>2. /\ chainFile = chain /\ chainFile.locator = newKey
        /\ chainFile.certs # <<>> /\ Loadable
        /\ newKey # active.key /\ newKey \in Keys /\ newKey < nextKey
        /\ active.key < nextKey
    BY <1>c, <1>10, Zenon DEF DestroyPrevious, KeyInv, Started, Rotating
  <2>3. KeyInv'
    BY <1>10, <2>2, Zenon DEF DestroyPrevious, ghosts, TypeOK, KeyInv, Loadable,
                       Started, Rotating
  <2> QED
    BY <2>1, <2>3
<1>11. ASSUME DestroyPreviousFails
      PROVE  Typed'
  <2>0. active' \in [key: Keys \cup {NoKey}, live: BOOLEAN]
    BY <1>11, Zenon DEF TypeOK, DestroyPreviousFails
  <2>a. /\ keyFiles' \subseteq Keys /\ faults' \in Nat
        /\ newKey' = NoKey /\ pc' = "idle"
        /\ UNCHANGED <<chainFile, chain, hybrid, threshold, quantum, nextKey,
                       signed, crashes>>
    BY <1>11 DEF TypeOK, DestroyPreviousFails, ghosts
  <2>1. TypeOK'
    BY <2>0, <2>a, Zenon DEF TypeOK
  <2>2. /\ chainFile = chain /\ chainFile.locator = newKey
        /\ chainFile.certs # <<>> /\ Loadable
        /\ newKey # active.key /\ newKey \in Keys /\ newKey < nextKey
        /\ active.key < nextKey
    BY <1>c, <1>11 DEF DestroyPreviousFails, KeyInv, Started, Rotating
  <2>3. /\ active'.key = active.key /\ active'.live = FALSE
        /\ newKey \in keyFiles' /\ pc' = "idle"
        /\ UNCHANGED <<chainFile, chain, nextKey>>
    BY <1>11, <2>2 DEF DestroyPreviousFails, ghosts, TypeOK, Loadable
  <2>4. KeyInv'
    BY <2>2, <2>3, Zenon DEF KeyInv, Loadable, Started, Rotating
  <2> QED
    BY <2>1, <2>4
<1>12. ASSUME Crash
      PROVE  Typed'
  <2>1. TypeOK'
    BY <1>a, <1>b, <1>12 DEF TypeOK, Crash, disk, ghosts, NoActive
  <2>2. KeyInv'
    BY <1>a, <1>c, <1>12 DEF TypeOK, KeyInv, Started, Rotating, Loadable,
       Crash, disk, ghosts, NoActive
  <2> QED
    BY <2>1, <2>2
<1>13. ASSUME SignRefused \/ UNCHANGED vars
      PROVE  Typed'
  <2>1. TypeOK'
    BY <1>a, <1>b, <1>13, Zenon DEF TypeOK, SignRefused, vars, disk, memory, ghosts
  <2>2. KeyInv'
    BY <1>a, <1>c, <1>13, Zenon DEF TypeOK, KeyInv, Started, Rotating, Loadable,
       SignRefused, vars, disk, memory, ghosts
  <2> QED
    BY <2>1, <2>2
<1>14. ASSUME Sign
      PROVE  Typed'
  <2>1. ActiveCert(chain.certs).epoch \in Nat
    BY <1>14, ActiveCertType, Zenon DEF Sign, TypeOK, KeyInv, Started, Certs
  <2>2. active.key \in Keys
    BY <1>14, Zenon DEF Sign, KeyInv
  <2>3. TypeOK'
    BY <1>14, <2>1, <2>2 DEF Sign, disk, memory, TypeOK
  <2>4. KeyInv'
    BY <1>14, Zenon DEF Sign, disk, memory, TypeOK, KeyInv, Loadable
  <2> QED
    BY <2>3, <2>4
<1> QED
  BY <1>1, <1>2, <1>3, <1>4, <1>5, <1>6, <1>7, <1>8, <1>9, <1>10, <1>11, <1>12, <1>13, <1>14
     DEF Next, Rotation

-----------------------------------------------------------------------------
(* Types, and a key to start with                                          *)

\* Types and key files are always as Typed says.
THEOREM AlwaysTyped == Spec => []Typed
  BY TypedInit, TypedNext, PTL DEF Spec

\* Every variable of the signer keeps its type through every rotation,
\* failure and restart.
THEOREM TypeCorrect == Spec => []TypeOK
<1>1. Typed => TypeOK
  BY DEF Typed
<1> QED
  BY <1>1, AlwaysTyped, PTL

\* Wherever Rotate fails or the process dies, loadActive finds the file of
\* the key that chain.json names, and it is the chain's active key.
THEOREM RecoverCorrect == Spec => []KeyRecoverable
<1>1. Typed => KeyRecoverable
  BY Zenon DEF Typed, KeyInv, KeyRecoverable
<1> QED
  BY <1>1, AlwaysTyped, PTL

-----------------------------------------------------------------------------
(* Epochs and the keys that sign in them                                   *)

\* Certificates are numbered by their place in the chain.
Numbered(certs) == \A i \in 1 .. Len(certs) : certs[i].epoch = i - 1

\* Every signature has the certificate of its epoch in a chain.
Covered(sigs, certs) ==
    \A g \in sigs : /\ g[1] + 1 \in 1 .. Len(certs)
                    /\ certs[g[1] + 1].key = g[2]

\* A live key is the active key of the chain on disk until that is replaced,
\* and then the key of the certificate before the last.
EpochInv ==
    /\ Numbered(chainFile.certs)
    /\ pc = "signed" => Numbered(chain.certs)
    /\ Covered(signed, chainFile.certs)
    /\ pc \in {"idle", "generated", "signed"} /\ active.live =>
         active.key = ActiveCert(chainFile.certs).key
    /\ pc \in {"signed", "written"} /\ ~threshold => active.live
    /\ pc = "written" /\ active.live =>
         active.key = chain.certs[Len(chain.certs) - 1].key

\* A chain that grows stays numbered and covers what it covered.
LEMMA GrowFacts ==
    ASSUME NEW s \in Seq(Certs), NEW c \in Certs, NEW sigs,
           sigs \subseteq Nat \X Keys
    PROVE  /\ Numbered(s) /\ c.epoch = Len(s) => Numbered(Append(s, c))
           /\ Covered(sigs, s) => Covered(sigs, Append(s, c))
           /\ s # <<>> => Append(s, c)[Len(Append(s, c)) - 1] = ActiveCert(s)
<1> DEFINE t == Append(s, c)
<1>1. /\ Len(s) \in Nat /\ Len(t) = Len(s) + 1
      /\ \A i \in 1 .. Len(s) : t[i] = s[i]
      /\ t[Len(s) + 1] = c
  BY AppendFacts
<1>2. s # <<>> => Len(s) \in Nat \ {0}
  BY ActiveCertType
<1> HIDE DEF t
<1>3. Numbered(s) /\ c.epoch = Len(s) => Numbered(t)
  BY <1>1 DEF Numbered
<1>4. Covered(sigs, s) => Covered(sigs, t)
  <2> SUFFICES ASSUME Covered(sigs, s), NEW g \in sigs
               PROVE  g[1] + 1 \in 1 .. Len(t) /\ t[g[1] + 1].key = g[2]
    BY DEF Covered
  <2>1. /\ g[1] \in Nat /\ g[1] + 1 \in 1 .. Len(s)
        /\ s[g[1] + 1].key = g[2]
    BY DEF Covered
  <2> QED
    BY <1>1, <2>1
<1>5. s # <<>> => t[Len(t) - 1] = ActiveCert(s)
  BY <1>1, <1>2 DEF ActiveCert
<1> QED
  BY <1>3, <1>4, <1>5 DEF t

\* At first nothing is signed and no certificate exists.
LEMMA EpochInit == Init => EpochInv
  BY DEF Init, EpochInv, Numbered, Covered, EmptyChain, NoActive

\* Every step keeps epochs and signing keys together.
LEMMA EpochNext == Typed /\ EpochInv /\ [Next]_vars => EpochInv'
<1> SUFFICES ASSUME Typed, EpochInv, [Next]_vars PROVE EpochInv'
  OBVIOUS
<1>t. /\ chain.certs \in Seq(Certs) /\ chainFile.certs \in Seq(Certs)
      /\ signed \subseteq Nat \X Keys
      /\ chainFile.certs # <<>> => chainFile # EmptyChain
  BY DEF Typed, TypeOK, EmptyChain
<1>1. ASSUME NEW now \in 0 .. MaxClock, GenesisWrite(now)
      PROVE  EpochInv'
  <2> DEFINE q    == QuantumPublic(newKey)
             cert == [epoch |-> 0, key |-> newKey, startedAt |-> now,
                      signedBy |-> newKey, qkey |-> q, qSignedBy |-> q,
                      sig |-> newKey, qsig |-> q, members |-> FALSE]
  <2>1. /\ cert.epoch = 0 /\ cert.key = newKey
        /\ chainFile'.certs = <<cert>>
        /\ active' = [key |-> newKey, live |-> TRUE]
        /\ pc' = "idle" /\ signed' = signed
        /\ pc = "genesis"
    BY <1>1, Zenon DEF GenesisWrite, ghosts
  <2> HIDE DEF cert
  <2>2. chainFile.certs = <<>>
    BY <2>1 DEF Typed, KeyInv, EmptyChain
  <2>3. signed = {}
    BY <2>2 DEF EpochInv, Covered
  <2>4. Len(<<cert>>) = 1 /\ <<cert>>[1] = cert
    OBVIOUS
  <2> QED
    BY <2>1, <2>3, <2>4 DEF EpochInv, Numbered, Covered, ActiveCert
<1>2. ASSUME NEW h \in HybridModes, NEW t \in ThresholdModes, LoadActive(h, t)
      PROVE  EpochInv'
  BY <1>2, Zenon DEF LoadActive, Loadable, disk, ghosts, EpochInv
<1>3. ASSUME Sign
      PROVE  EpochInv'
  <2>1. /\ pc = "idle" /\ active.live
        /\ signed' = signed \cup {<<ActiveCert(chain.certs).epoch, active.key>>}
        /\ UNCHANGED <<chainFile, pc, chain, active, threshold>>
    BY <1>3 DEF Sign, disk, memory
  <2>2. chain.certs = chainFile.certs /\ chainFile.certs # <<>>
    BY <2>1, Zenon DEF Typed, KeyInv, Started
  <2>3. Len(chainFile.certs) \in Nat \ {0}
    BY <1>t, <2>2, ActiveCertType
  <2>4. ActiveCert(chain.certs).epoch + 1 = Len(chainFile.certs)
    BY <2>2, <2>3 DEF EpochInv, Numbered, ActiveCert
  <2>5. active.key = chainFile.certs[Len(chainFile.certs)].key
    BY <2>1, Zenon DEF EpochInv, ActiveCert
  <2>6. Covered(signed', chainFile.certs)
    BY <2>1, <2>3, <2>4, <2>5 DEF EpochInv, Covered
  <2> QED
    BY <2>1, <2>6, Zenon DEF EpochInv
<1>4. ASSUME NEW now \in 0 .. MaxClock, RotateSign(now)
      PROVE  EpochInv'
  <2>1. /\ pc = "generated" /\ pc' = "signed" /\ (threshold \/ active.live)
        /\ chain' = [certs   |-> Append(chain.certs, NewCert(now)),
                     locator |-> newKey]
        /\ UNCHANGED <<chainFile, active, threshold, signed>>
    BY <1>4, Zenon DEF RotateSign, disk, ghosts
  <2>2. /\ NewCert(now) \in Certs
        /\ NewCert(now).epoch = ActiveCert(chain.certs).epoch + 1
    BY <2>1, NewCertType, Zenon
  <2>3. chain.certs = chainFile.certs /\ chainFile.certs # <<>>
    BY <2>1, Zenon DEF Typed, KeyInv, Started
  <2>4. Len(chainFile.certs) \in Nat \ {0}
    BY <1>t, <2>3, ActiveCertType
  <2>5. NewCert(now).epoch = Len(chain.certs)
    BY <2>2, <2>3, <2>4 DEF EpochInv, Numbered, ActiveCert
  <2>6. Numbered(chain'.certs)
    BY <1>t, <2>1, <2>2, <2>3, <2>5, GrowFacts, SMTT(30) DEF EpochInv
  <2> QED
    BY <2>1, <2>6, Zenon DEF EpochInv
<1>5. ASSUME WriteChain
      PROVE  EpochInv'
  <2>1. /\ pc = "signed" /\ pc' = "written" /\ chainFile' = chain
        /\ UNCHANGED <<chain, active, threshold, signed>>
    BY <1>5 DEF WriteChain, memory, ghosts
  <2>2. PICK c \in Certs : chain.certs = Append(chainFile.certs, c)
    BY <2>1, Zenon DEF Typed, KeyInv
  <2>3. chainFile.certs # <<>>
    BY <2>1, Zenon DEF Typed, KeyInv, Started
  <2>4. /\ Covered(signed, chain.certs)
        /\ chain.certs[Len(chain.certs) - 1] = ActiveCert(chainFile.certs)
    BY <1>t, <2>2, <2>3, GrowFacts, Zenon DEF EpochInv
  <2> QED
    BY <2>1, <2>4, Zenon DEF EpochInv
<1>6. ASSUME DestroyPrevious
      PROVE  EpochInv'
  <2>1. ActiveCert(chainFile.certs).key = newKey
    BY <1>t, <1>6, Zenon DEF DestroyPrevious, Typed, KeyInv, Started, Loadable
  <2> QED
    BY <1>6, <2>1, Zenon DEF DestroyPrevious, ghosts, EpochInv
<1>7. ASSUME DestroyPreviousFails
      PROVE  EpochInv'
  <2>1. active'.live = FALSE
    BY <1>7 DEF DestroyPreviousFails, Typed, TypeOK
  <2> QED
    BY <1>7, <2>1 DEF DestroyPreviousFails, ghosts, EpochInv
<1>8. ASSUME NEW h \in HybridModes, NEW t \in ThresholdModes,
             GenesisGenerate(h, t)
      PROVE  EpochInv'
  BY <1>8, Zenon DEF GenesisGenerate, EpochInv
<1>9. ASSUME \/ GenesisFails \/ RotateGenerate \/ RotateSignFails
             \/ WriteChainFails \/ Crash
      PROVE  EpochInv'
  <2>1. /\ \/ pc' = "off"
           \/ /\ pc' \in {"idle", "generated"}
              /\ pc \in {"idle", "generated", "signed"}
              /\ active' = active
        /\ UNCHANGED <<chainFile, signed>>
    BY <1>9, Zenon DEF GenesisFails, RotateGenerate, RotateSignFails,
                WriteChainFails, Abandon, Crash, disk, ghosts
  <2> QED
    BY <2>1, Zenon DEF EpochInv
<1>10. ASSUME SignRefused \/ UNCHANGED vars
       PROVE  EpochInv'
  BY <1>10, Zenon DEF SignRefused, vars, disk, memory, ghosts, EpochInv
<1> QED
  BY <1>1, <1>2, <1>3, <1>4, <1>5, <1>6, <1>7, <1>8, <1>9, <1>10
     DEF Next, Rotation

\* Epochs and signing keys always belong together.
THEOREM AlwaysEpoch == Spec => [](Typed /\ EpochInv)
<1>1. Init => Typed /\ EpochInv
  BY TypedInit, EpochInit
<1>2. Typed /\ EpochInv /\ [Next]_vars => (Typed /\ EpochInv)'
  BY TypedNext, EpochNext
<1> QED
  BY <1>1, <1>2, PTL DEF Spec

\* What Sign returned in an epoch verifies for good under the key that the
\* chain on disk lists for the epoch.
THEOREM SignaturesCorrect == Spec => []SignaturesStayValid
<1>1. Typed /\ EpochInv => SignaturesStayValid
  BY SMTT(30) DEF Typed, TypeOK, EpochInv, Covered, SignaturesStayValid
<1> QED
  BY <1>1, AlwaysEpoch, PTL

\* A Rotate that succeeds without a quorum leaves no file of the previous
\* epoch's key.
THEOREM DestroyCorrect == Spec => PreviousKeyDestroyed
<1>1. Typed /\ EpochInv /\ [Next]_vars =>
        [pc = "written" /\ active'.live /\ ~threshold =>
           chain.certs[Len(chain.certs) - 1].key \notin keyFiles']_vars
  <2> SUFFICES ASSUME Typed, EpochInv, Next, pc = "written", active'.live,
                      ~threshold
               PROVE  chain.certs[Len(chain.certs) - 1].key \notin keyFiles'
    BY ZenonT(60)
  <2>1. CASE DestroyPrevious
    BY <2>1, Zenon DEF DestroyPrevious, EpochInv
  <2>2. CASE DestroyPreviousFails
    BY <2>2 DEF DestroyPreviousFails, Typed, TypeOK
  <2>3. CASE Crash
    BY <2>3 DEF Crash, NoActive
  <2> QED
    BY <2>1, <2>2, <2>3, Zenon
       DEF Next, Rotation, GenesisGenerate, LoadActive, GenesisWrite,
           GenesisFails, Sign, SignRefused, RotateGenerate, RotateSign,
           RotateSignFails, WriteChain, WriteChainFails
<1> QED
  BY <1>1, AlwaysEpoch, PTL DEF Spec, PreviousKeyDestroyed

-----------------------------------------------------------------------------
(* Which chains verify                                                     *)

\* The certificates show the quantum half that their keys have.
Halves(certs, q, n) ==
    \A i \in 1 .. Len(certs) :
      /\ certs[i].key < n
      /\ certs[i].qkey = IF certs[i].key \in q THEN certs[i].key ELSE NoKey

\* A certificate after p verifies but for an upgrade, and is linked to p but
\* for its date.
Made(p, c) ==
    /\ CertVerify(c, TRUE) <=> c.members \/ c.qkey = NoKey \/ p.qkey # NoKey
    /\ LinkVerify(p, c) <=> c.startedAt >= p.startedAt

\* A genesis certificate verifies, and every later one is as Rotate makes it.
WellMade(certs) ==
    /\ certs # <<>> =>
         /\ certs[1].epoch = 0 /\ certs[1].signedBy = certs[1].key
         /\ certs[1].qkey = certs[1].qSignedBy
         /\ CertVerify(certs[1], TRUE)
    /\ \A i \in 2 .. Len(certs) : Made(certs[i - 1], certs[i])

VerifyInv ==
    /\ Halves(chainFile.certs, quantum, nextKey)
    /\ WellMade(chainFile.certs)
    /\ pc = "signed" => /\ Halves(chain.certs, quantum, nextKey)
                        /\ WellMade(chain.certs)

\* A chain so made verifies exactly if no certificate is dated back and none
\* is an upgrade.
LEMMA WellMadeVerdict ==
    ASSUME NEW s \in Seq(Certs), s # <<>>, WellMade(s)
    PROVE  ChainVerify(s, s[1].key, TRUE) <=> Ascending(s) /\ ~Upgraded(s)
<1>1. Len(s) \in Nat \ {0}
  BY ActiveCertType
<1>2. \A i \in 1 .. Len(s) : i = 1 \/ i \in 2 .. Len(s)
  BY <1>1
<1>3. \A i \in 2 .. Len(s) : i \in 1 .. Len(s) /\ i - 1 \in 1 .. Len(s)
  BY <1>1
<1>4. (\A i \in 2 .. Len(s) : LinkVerify(s[i - 1], s[i])) <=> Ascending(s)
  BY Zenon DEF WellMade, Made, Ascending
<1>5. (\A i \in 1 .. Len(s) : CertVerify(s[i], TRUE)) <=> ~Upgraded(s)
  <2>1. (\A i \in 1 .. Len(s) : CertVerify(s[i], TRUE))
          <=> \A i \in 2 .. Len(s) : CertVerify(s[i], TRUE)
    BY <1>2, <1>3, Zenon DEF WellMade
  <2>2. (\A i \in 2 .. Len(s) : CertVerify(s[i], TRUE)) <=> ~Upgraded(s)
    BY <1>3, Zenon DEF WellMade, Made, Upgraded
  <2> QED
    BY <2>1, <2>2, Zenon
<1> QED
  BY <1>4, <1>5, Zenon DEF ChainVerify, WellMade

\* One more certificate.
LEMMA ExtendFacts ==
    ASSUME NEW s \in Seq(Certs), NEW c \in Certs, s # <<>>, WellMade(s),
           Made(ActiveCert(s), c)
    PROVE  WellMade(Append(s, c))
<1> DEFINE t == Append(s, c)
<1>1. /\ Len(s) \in Nat \ {0} /\ Len(t) = Len(s) + 1
      /\ \A i \in 1 .. Len(s) : t[i] = s[i]
      /\ t[Len(s) + 1] = c
  BY AppendFacts, ActiveCertType, Zenon
<1> HIDE DEF t
<1>2. t[1] = s[1]
  BY <1>1
<1>3. ASSUME NEW i \in 2 .. Len(t) PROVE Made(t[i - 1], t[i])
  <2>1. t[i - 1] = s[i - 1]
    BY <1>1
  <2>2. CASE i = Len(s) + 1
    BY <1>1, <2>1, <2>2 DEF ActiveCert
  <2>3. CASE i # Len(s) + 1
    <3>1. i \in 2 .. Len(s) /\ t[i] = s[i]
      BY <1>1, <2>3
    <3> QED
      BY <2>1, <3>1, Zenon DEF WellMade
  <2> QED
    BY <2>2, <2>3, Zenon
<1> QED
  BY <1>2, <1>3, Zenon DEF WellMade, t

\* A later key changes nothing for the certificates before it.
LEMMA HalvesStay ==
    ASSUME NEW s \in Seq(Certs), NEW q, NEW n \in Nat, Halves(s, q, n)
    PROVE  /\ Halves(s, q, n + 1)
           /\ Halves(s, q \cup {n}, n + 1)
<1> SUFFICES ASSUME NEW i \in 1 .. Len(s)
             PROVE  /\ s[i].key < n + 1
                    /\ s[i].qkey = IF s[i].key \in q THEN s[i].key ELSE NoKey
                    /\ s[i].key \in q \cup {n} <=> s[i].key \in q
  BY Zenon DEF Halves
<1>1. s[i] \in Certs
  OBVIOUS
<1>2. s[i].key \in Nat
  BY <1>1, FwdSecAssumption DEF Certs, Keys
<1> QED
  BY <1>2 DEF Halves

\* The certificate Rotate signs is well made, in whichever mode and whoever
\* signs it.
LEMMA NewCertMade ==
    ASSUME Typed, EpochInv, VerifyInv, NEW now \in 0 .. MaxClock,
           RotateSign(now)
    PROVE  /\ Made(ActiveCert(chain.certs), NewCert(now))
           /\ NewCert(now).qkey = QuantumPublic(newKey)
<1> DEFINE prev == ActiveCert(chain.certs)
           q    == QuantumPublic(newKey)
           c    == NewCert(now)
<1>1. /\ pc = "generated" /\ threshold \in BOOLEAN
      /\ ~threshold => active.live
  BY Zenon DEF RotateSign, Typed, TypeOK
<1>2. /\ chain.certs = chainFile.certs /\ chain.certs # <<>>
      /\ chain.certs \in Seq(Certs)
  BY <1>1, Zenon DEF Typed, TypeOK, KeyInv, Started
<1>3. prev \in Certs /\ Len(chain.certs) \in 1 .. Len(chain.certs)
  BY <1>2, ActiveCertType
<1>4. prev.key \in Keys /\ prev.qkey = QuantumPublic(prev.key)
  <2>1. Halves(chain.certs, quantum, nextKey)
    BY <1>2, Zenon DEF VerifyInv
  <2> QED
    BY <1>3, <2>1, Zenon DEF Halves, ActiveCert, QuantumPublic, Certs
<1>5. ~threshold => active.key = prev.key
  BY <1>1, <1>2, Zenon DEF EpochInv
<1>6. /\ c.epoch = prev.epoch + 1 /\ c.startedAt = now
      /\ c.members = threshold
      /\ c.signedBy = prev.key /\ c.qkey = q
      /\ c.qSignedBy = IF q # NoKey THEN prev.qkey ELSE NoKey
      /\ ~threshold => c.sig = active.key
      /\ ~threshold => c.qsig = IF q # NoKey /\ prev.qkey # NoKey
                                  THEN QuantumPublic(active.key) ELSE NoKey
  BY <1>1, Zenon DEF NewCert
<1> HIDE DEF c, prev, q
<1>7. LinkVerify(prev, c) <=> c.startedAt >= prev.startedAt
  BY <1>6, Zenon DEF LinkVerify
<1>8. CASE threshold
  BY <1>6, <1>7, <1>8, Zenon DEF Made, CertVerify, c, prev, q
<1>9. CASE ~threshold
  <2>1. c.sig = c.signedBy /\ ~c.members
    BY <1>5, <1>6, <1>9, Zenon
  <2>2. c.qsig = c.qSignedBy
    BY <1>4, <1>5, <1>6, <1>9, Zenon
  <2>3. c.qSignedBy = NoKey <=> c.qkey = NoKey \/ prev.qkey = NoKey
    BY <1>6, Zenon
  <2>4. c.qkey = NoKey => {c.qkey, c.qSignedBy, c.qsig} = {NoKey}
    BY <2>2, <2>3, Zenon
  <2>5. {c.qkey, c.qSignedBy, c.qsig} = {NoKey} => c.qkey = NoKey
    BY Zenon
  <2>6. CertVerify(c, TRUE) <=> c.qkey = NoKey \/ prev.qkey # NoKey
    BY <2>1, <2>2, <2>3, <2>4, <2>5, Zenon DEF CertVerify
  <2> QED
    BY <1>6, <1>7, <2>1, <2>6, Zenon DEF Made, c, prev, q
<1> QED
  BY <1>1, <1>8, <1>9, Zenon

\* At first there is no chain to verify.
LEMMA VerifyInit == Init => VerifyInv
  BY DEF Init, VerifyInv, EmptyChain, WellMade, Halves

\* A new key, of either kind, changes nothing for the chain there is.
LEMMA GenerateHalves ==
    ASSUME Typed, VerifyInv, Generate, pc' # "signed", UNCHANGED chainFile,
           quantum' = quantum \/ quantum' = quantum \cup {nextKey}
    PROVE  VerifyInv'
<1>1. /\ nextKey \in Nat /\ nextKey' = nextKey + 1
      /\ chainFile.certs \in Seq(Certs)
  BY FwdSecAssumption DEF Generate, Typed, TypeOK
<1>2. /\ Halves(chainFile.certs, quantum, nextKey + 1)
      /\ Halves(chainFile.certs, quantum \cup {nextKey}, nextKey + 1)
  BY <1>1, HalvesStay, Zenon DEF VerifyInv
<1> QED
  BY <1>1, <1>2, Zenon DEF VerifyInv

\* Every step keeps the chains well made.
LEMMA VerifyNext ==
    ASSUME Typed, EpochInv, VerifyInv, [Next]_vars
    PROVE  VerifyInv'
<1>1. ASSUME NEW h \in HybridModes, NEW t \in ThresholdModes,
             GenesisGenerate(h, t)
      PROVE  VerifyInv'
  <2>1. /\ Generate /\ pc' = "genesis" /\ chainFile' = chainFile
        /\ quantum' = quantum \/ quantum' = quantum \cup {nextKey}
    BY <1>1, Zenon DEF GenesisGenerate
  <2> QED
    BY <2>1, GenerateHalves, Zenon
<1>2. ASSUME NEW h \in HybridModes, NEW t \in ThresholdModes, LoadActive(h, t)
      PROVE  VerifyInv'
  <2>1. pc' = "idle" /\ UNCHANGED <<chainFile, quantum, nextKey>>
    BY <1>2, Zenon DEF LoadActive, disk, ghosts
  <2> QED
    BY <2>1, Zenon DEF VerifyInv
<1>3. ASSUME NEW now \in 0 .. MaxClock, GenesisWrite(now)
      PROVE  VerifyInv'
  <2> DEFINE q    == QuantumPublic(newKey)
             cert == [epoch |-> 0, key |-> newKey, startedAt |-> now,
                      signedBy |-> newKey, qkey |-> q, qSignedBy |-> q,
                      sig |-> newKey, qsig |-> q, members |-> FALSE]
  <2>1. /\ cert.epoch = 0 /\ cert.key = newKey /\ cert.signedBy = newKey
        /\ cert.qkey = q /\ cert.qSignedBy = q /\ cert.qsig = q
        /\ cert.sig = newKey /\ cert.members = FALSE
        /\ chainFile'.certs = <<cert>>
        /\ pc' = "idle" /\ pc = "genesis"
        /\ UNCHANGED <<quantum, nextKey>>
    BY <1>3, Zenon DEF GenesisWrite, ghosts
  <2>2. newKey < nextKey
    BY <2>1, Zenon DEF Typed, KeyInv
  <2> HIDE DEF cert
  <2>3. Len(<<cert>>) = 1 /\ <<cert>>[1] = cert /\ <<cert>> # <<>>
    OBVIOUS
  <2>4. Halves(<<cert>>, quantum, nextKey)
    BY <2>1, <2>2, <2>3 DEF Halves, QuantumPublic
  <2>5. CertVerify(cert, TRUE)
    BY <2>1, Zenon DEF CertVerify
  <2>6. WellMade(<<cert>>)
    <3> DEFINE s == <<cert>>
    <3>1. /\ Len(s) = 1
          /\ s[1].epoch = 0 /\ s[1].signedBy = s[1].key
          /\ s[1].qkey = s[1].qSignedBy
          /\ CertVerify(s[1], TRUE)
      BY <2>1, <2>3, <2>5, Zenon
    <3> HIDE DEF s
    <3>2. 2 .. Len(s) = {}
      BY <3>1
    <3>3. WellMade(s)
      BY <3>1, <3>2, Zenon DEF WellMade
    <3> QED
      BY <3>3, Zenon DEF s
  <2> QED
    BY <2>1, <2>4, <2>6, SMTT(30) DEF VerifyInv
<1>4. ASSUME RotateGenerate
      PROVE  VerifyInv'
  <2>1. /\ Generate /\ pc' = "generated" /\ chainFile' = chainFile
        /\ quantum' = quantum \/ quantum' = quantum \cup {nextKey}
    BY <1>4, Zenon DEF RotateGenerate
  <2> QED
    BY <2>1, GenerateHalves
<1>5. ASSUME NEW now \in 0 .. MaxClock, RotateSign(now)
      PROVE  VerifyInv'
  <2>1. /\ pc = "generated" /\ pc' = "signed"
        /\ chain' = [certs   |-> Append(chain.certs, NewCert(now)),
                     locator |-> newKey]
        /\ UNCHANGED <<chainFile, quantum, nextKey>>
    BY <1>5, Zenon DEF RotateSign, disk, ghosts
  <2>2. /\ NewCert(now) \in Certs /\ NewCert(now).key = newKey
        /\ Made(ActiveCert(chain.certs), NewCert(now))
        /\ NewCert(now).qkey = QuantumPublic(newKey)
    BY <1>5, <2>1, NewCertType, NewCertMade, Zenon
  <2>3. PICK c \in Certs : /\ c = NewCert(now) /\ c.key = newKey
                           /\ Made(ActiveCert(chain.certs), c)
                           /\ c.qkey = QuantumPublic(newKey)
    BY <2>2, Zenon
  <2>4. /\ chain.certs \in Seq(Certs) /\ chain.certs # <<>>
        /\ chain.certs = chainFile.certs /\ newKey < nextKey
    BY <2>1, Zenon DEF Typed, TypeOK, KeyInv, Started, Rotating
  <2>5. WellMade(Append(chain.certs, c))
    BY <2>3, <2>4, ExtendFacts, Zenon DEF VerifyInv
  <2>6. Halves(Append(chain.certs, c), quantum, nextKey)
    <3>1. /\ Len(chain.certs) \in Nat
          /\ Len(Append(chain.certs, c)) = Len(chain.certs) + 1
          /\ \A i \in 1 .. Len(chain.certs) :
                Append(chain.certs, c)[i] = chain.certs[i]
          /\ Append(chain.certs, c)[Len(chain.certs) + 1] = c
      BY <2>4, AppendFacts
    <3>2. Halves(chain.certs, quantum, nextKey)
      BY <2>4, Zenon DEF VerifyInv
    <3> QED
      BY <2>3, <2>4, <3>1, <3>2 DEF Halves, QuantumPublic
  <2>7. chain'.certs = Append(chain.certs, c)
    BY <2>1, <2>3, Zenon
  <2> QED
    BY <2>1, <2>5, <2>6, <2>7, Zenon DEF VerifyInv
<1>6. ASSUME WriteChain
      PROVE  VerifyInv'
  BY <1>6, Zenon DEF WriteChain, memory, ghosts, VerifyInv
<1>7. ASSUME \/ GenesisFails \/ Sign \/ RotateSignFails \/ WriteChainFails
             \/ DestroyPrevious \/ DestroyPreviousFails \/ Crash
      PROVE  VerifyInv'
  <2>1. /\ pc' # "signed" /\ UNCHANGED <<chainFile, quantum, nextKey>>
    BY <1>7 DEF GenesisFails, Sign, RotateSignFails, WriteChainFails, Abandon,
                DestroyPrevious, DestroyPreviousFails, Crash, disk, memory,
                ghosts
  <2> QED
    BY <2>1, Zenon DEF VerifyInv
<1>8. ASSUME SignRefused \/ UNCHANGED vars
      PROVE  VerifyInv'
  BY <1>8 DEF SignRefused, vars, disk, memory, ghosts, VerifyInv
<1> QED
  BY <1>1, <1>2, <1>3, <1>4, <1>5, <1>6, <1>7, <1>8, Zenon DEF Next, Rotation

\* What the proofs below rest on.
LEMMA AlwaysVerify == Spec => [](Typed /\ EpochInv /\ VerifyInv)
<1> DEFINE I == Typed /\ EpochInv /\ VerifyInv
<1>1. Init => I
  BY TypedInit, EpochInit, VerifyInit
<1>2. I /\ [Next]_vars => I'
  BY TypedNext, EpochNext, VerifyNext, SMTT(30)
<1> QED
  BY <1>1, <1>2, PTL DEF Spec

\* Whatever modes the process was started in, the chain on disk and the
\* published one verify exactly unless the clock stepped back between two
\* rotations or hybrid mode was turned on over a classical key.
THEOREM VerdictCorrect == Spec => []ChainVerdict
<1>1. Typed /\ EpochInv /\ VerifyInv => ChainVerdict
  <2> SUFFICES ASSUME Typed, VerifyInv PROVE ChainVerdict
    OBVIOUS
  <2>1. chainFile # EmptyChain => chainFile.certs # <<>>
    BY Zenon DEF Typed, KeyInv
  <2>2. chainFile.certs \in Seq(Certs)
    BY DEF Typed, TypeOK
  <2>3. pc = "idle" => chain.certs = chainFile.certs
    BY Zenon DEF Typed, KeyInv
  <2> QED
    BY <2>1, <2>2, <2>3, WellMadeVerdict, Zenon DEF VerifyInv, ChainVerdict
<1> QED
  BY <1>1, AlwaysVerify, PTL

-----------------------------------------------------------------------------
(* One mode                                                                *)

\* Every start of the process has the same --pq-mode.
OneMode == \A h, k \in HybridModes : h = k

\* All keys have a quantum half or none has.
ModeInv ==
    /\ hybrid \in HybridModes
    /\ hybrid => \A k \in Keys : k < nextKey => k \in quantum
    /\ ~hybrid => quantum = {}

\* In one mode the keys stay of one kind.
LEMMA ModeNext ==
    ASSUME OneMode, Typed, ModeInv, [Next]_vars
    PROVE  ModeInv'
<1>1. ASSUME Generate, UNCHANGED hybrid,
             quantum' = IF hybrid THEN quantum \cup {nextKey} ELSE quantum
      PROVE  ModeInv'
  <2>1. nextKey \in Nat /\ nextKey' = nextKey + 1
    BY <1>1, FwdSecAssumption DEF Generate, Typed, TypeOK
  <2>2. \A k \in Keys : k < nextKey + 1 => k < nextKey \/ k = nextKey
    BY <2>1, FwdSecAssumption DEF Keys
  <2>3. CASE hybrid
    BY <1>1, <2>1, <2>2, <2>3, Zenon DEF ModeInv
  <2>4. CASE ~hybrid
    BY <1>1, <2>4, Zenon DEF ModeInv
  <2> QED
    BY <2>3, <2>4, Zenon
<1>2. ASSUME NEW h \in HybridModes, NEW t \in ThresholdModes,
             GenesisGenerate(h, t)
      PROVE  ModeInv'
  <2>1. h = hybrid
    BY Zenon DEF OneMode, ModeInv
  <2> QED
    BY <1>1, <1>2, <2>1, Zenon DEF GenesisGenerate
<1>3. ASSUME NEW h \in HybridModes, NEW t \in ThresholdModes, LoadActive(h, t)
      PROVE  ModeInv'
  <2>1. h = hybrid
    BY Zenon DEF OneMode, ModeInv
  <2> QED
    BY <1>3, <2>1, Zenon DEF LoadActive, ghosts, ModeInv
<1>4. CASE RotateGenerate
  BY <1>1, <1>4, Zenon DEF RotateGenerate
<1>5. ASSUME \/ \E now \in 0 .. MaxClock : GenesisWrite(now) \/ RotateSign(now)
             \/ GenesisFails \/ Sign \/ SignRefused \/ RotateSignFails
             \/ WriteChain \/ WriteChainFails \/ DestroyPrevious
             \/ DestroyPreviousFails \/ Crash \/ UNCHANGED vars
      PROVE  ModeInv'
  <2>1. UNCHANGED <<hybrid, quantum, nextKey>>
    BY <1>5 DEF GenesisWrite, RotateSign, GenesisFails, Sign, SignRefused,
                RotateSignFails, WriteChain, WriteChainFails, DestroyPrevious,
                DestroyPreviousFails, Crash, vars, disk, memory, ghosts
  <2> QED
    BY <2>1, Zenon DEF ModeInv
<1> QED
  BY <1>2, <1>3, <1>4, <1>5, Zenon DEF Next, Rotation

\* As long as every start has the same --pq-mode, only a clock that stepped
\* back keeps a chain from verifying.
THEOREM ChainCorrect ==
    ASSUME OneMode
    PROVE  Spec => []ChainVerifies
<1>1. Init => ModeInv
  <2>1. Init => \A k \in Keys : ~ k < nextKey
    BY FwdSecAssumption DEF Init, Keys
  <2> QED
    BY <2>1, Zenon DEF Init, ModeInv
<1>2. Typed /\ ModeInv /\ [Next]_vars => ModeInv'
  BY ModeNext, Zenon
<1>3. Typed /\ VerifyInv /\ ModeInv /\ ChainVerdict => ChainVerifies
  <2> SUFFICES ASSUME Typed, VerifyInv, ModeInv
               PROVE  ~Upgraded(chainFile.certs)
    BY Zenon DEF ChainVerdict, ChainVerifies
  <2> SUFFICES ASSUME NEW i \in 2 .. Len(chainFile.certs),
                      chainFile.certs[i].qkey # NoKey,
                      chainFile.certs[i - 1].qkey = NoKey
               PROVE  FALSE
    BY Zenon DEF Upgraded
  <2>1. chainFile.certs \in Seq(Certs)
    BY DEF Typed, TypeOK
  <2>2. i \in 1 .. Len(chainFile.certs) /\ i - 1 \in 1 .. Len(chainFile.certs)
    BY <2>1
  <2>3. chainFile.certs[i - 1] \in Certs
    BY <2>1, <2>2
  <2>4. /\ chainFile.certs[i - 1].key \in Keys
        /\ chainFile.certs[i - 1].key # NoKey
    BY <2>3, FwdSecAssumption DEF Certs, Keys, NoKey
  <2>5. chainFile.certs[i].key \in quantum
    BY <2>2, Zenon DEF VerifyInv, Halves
  <2>6. chainFile.certs[i - 1].key \in quantum
    BY <2>2, <2>4, <2>5, Zenon DEF VerifyInv, Halves, ModeInv
  <2> QED
    BY <2>2, <2>4, <2>6, Zenon DEF VerifyInv, Halves
<1> QED
  BY <1>1, <1>2, <1>3, AlwaysVerify, VerdictCorrect, PTL DEF Spec

-----------------------------------------------------------------------------
(* The signer implements KeyChain                                          *)

\* The key of a rotation is not yet in the chain on disk.
FreshInv ==
    pc \in {"generated", "signed"} =>
      \A i \in DOMAIN chainFile.certs : chainFile.certs[i].key # newKey

\* The keys of a chain: as many as certificates, the last one the active key.
LEMMA KeysOfFacts ==
    ASSUME NEW s \in Seq(Certs)
    PROVE  /\ KeysOf(s) \in Seq(Keys) /\ Len(KeysOf(s)) = Len(s)
           /\ DOMAIN KeysOf(s) = DOMAIN s
           /\ \A i \in DOMAIN s : KeysOf(s)[i] = s[i].key
           /\ KeysOf(s) = <<>> <=> s = <<>>
           /\ s # <<>> => KeysOf(s)[Len(KeysOf(s))] = ActiveCert(s).key
<1>0. \A i \in DOMAIN s : s[i] \in Certs
  OBVIOUS
<1>1. \A i \in DOMAIN s : s[i].key \in Keys
  BY <1>0, Zenon DEF Certs
<1>2. /\ KeysOf(s) \in Seq(Keys) /\ Len(KeysOf(s)) = Len(s)
      /\ DOMAIN KeysOf(s) = DOMAIN s
      /\ \A i \in DOMAIN s : KeysOf(s)[i] = s[i].key
  BY <1>1 DEF KeysOf
<1>3. s # <<>> => Len(s) \in DOMAIN s
  BY ActiveCertType
<1> QED
  BY <1>2, <1>3 DEF ActiveCert

\* One more certificate is one more key.
LEMMA KeysOfAppend ==
    ASSUME NEW s \in Seq(Certs), NEW c \in Certs
    PROVE  KeysOf(Append(s, c)) = Append(KeysOf(s), c.key)
<1> DEFINE t == Append(s, c)
           u == KeysOf(t)
           v == Append(KeysOf(s), c.key)
<1>1. /\ t \in Seq(Certs) /\ Len(t) = Len(s) + 1 /\ Len(s) \in Nat
      /\ \A i \in 1 .. Len(s) : t[i] = s[i]
      /\ t[Len(s) + 1] = c
  BY AppendFacts
<1>2. /\ u \in Seq(Keys) /\ Len(u) = Len(s) + 1
      /\ \A i \in 1 .. Len(s) + 1 : u[i] = t[i].key
  <2>1. /\ u \in Seq(Keys) /\ Len(u) = Len(t) /\ DOMAIN u = DOMAIN t
        /\ \A i \in DOMAIN t : u[i] = t[i].key
    BY <1>1, KeysOfFacts, Zenon
  <2>2. DOMAIN t = 1 .. Len(s) + 1
    BY <1>1
  <2> QED
    BY <1>1, <2>1, <2>2, Zenon
<1>3. /\ KeysOf(s) \in Seq(Keys) /\ Len(KeysOf(s)) = Len(s)
      /\ \A i \in 1 .. Len(s) : KeysOf(s)[i] = s[i].key
      /\ c.key \in Keys
  <2>1. DOMAIN s = 1 .. Len(s) /\ c.key \in Keys
    BY DEF Certs
  <2> QED
    BY <2>1, KeysOfFacts, Zenon
<1>4. /\ v \in Seq(Keys) /\ Len(v) = Len(s) + 1
      /\ \A i \in 1 .. Len(s) : v[i] = s[i].key
      /\ v[Len(s) + 1] = c.key
  BY <1>1, <1>3
<1> HIDE DEF t, u, v
<1>5. \A i \in 1 .. Len(s) + 1 : i \in 1 .. Len(s) \/ i = Len(s) + 1
  BY <1>1
<1>6. \A i \in 1 .. Len(s) + 1 : u[i] = v[i]
  BY <1>1, <1>2, <1>4, <1>5, Zenon
<1>7. u = v
  BY <1>2, <1>4, <1>6
<1> QED
  BY <1>7, Zenon DEF t, u, v

\* No step of a rotation before the chain is written certifies its key.
LEMMA FreshNext == Typed /\ VerifyInv /\ FreshInv /\ [Next]_vars => FreshInv'
<1> SUFFICES ASSUME Typed, VerifyInv, FreshInv, [Next]_vars,
                    pc' \in {"generated", "signed"}
             PROVE  \A i \in DOMAIN chainFile'.certs :
                        chainFile'.certs[i].key # newKey'
  BY Zenon DEF FreshInv
<1>1. CASE RotateGenerate
  <2>1. newKey' = nextKey /\ chainFile' = chainFile /\ nextKey \in Nat
    BY <1>1, FwdSecAssumption DEF RotateGenerate, Generate, Typed, TypeOK
  <2>2. DOMAIN chainFile.certs = 1 .. Len(chainFile.certs)
    BY DEF Typed, TypeOK
  <2>3. \A i \in DOMAIN chainFile.certs : chainFile.certs[i].key < nextKey
    BY <2>2, Zenon DEF VerifyInv, Halves
  <2>4. ~ nextKey < nextKey
    BY <2>1
  <2> QED
    BY <2>1, <2>3, <2>4, Zenon
<1>2. CASE \E now \in 0 .. MaxClock : RotateSign(now)
  <2>1. pc = "generated" /\ UNCHANGED <<chainFile, newKey>>
    BY <1>2, Zenon DEF RotateSign, disk
  <2> QED
    BY <2>1, Zenon DEF FreshInv
<1>3. CASE UNCHANGED <<pc, chainFile, newKey>>
  BY <1>3, Zenon DEF FreshInv
<1>4. Sign \/ SignRefused \/ UNCHANGED vars => UNCHANGED <<pc, chainFile, newKey>>
  BY Zenon DEF Sign, SignRefused, vars, disk, memory
<1>5. /\ \A h \in HybridModes, t \in ThresholdModes :
           ~GenesisGenerate(h, t) /\ ~LoadActive(h, t)
      /\ \A now \in 0 .. MaxClock : ~GenesisWrite(now)
      /\ ~GenesisFails /\ ~RotateSignFails /\ ~WriteChain /\ ~WriteChainFails
      /\ ~DestroyPrevious /\ ~DestroyPreviousFails /\ ~Crash
  BY DEF GenesisGenerate, LoadActive, GenesisWrite, GenesisFails,
         RotateSignFails, WriteChain, WriteChainFails, Abandon,
         DestroyPrevious, DestroyPreviousFails, Crash
<1> QED
  BY <1>1, <1>2, <1>3, <1>4, <1>5, Zenon DEF Next, Rotation

\* The first states are first states of the key chain.
LEMMA ChainMapsInit == Init => Abstract!Init /\ FreshInv
<1> SUFFICES ASSUME Init PROVE Abstract!Init /\ FreshInv
  OBVIOUS
<1>1. chainFile.certs = <<>> /\ nextKey = 1 /\ keyFiles = {} /\ signed = {}
      /\ pc = "off"
  BY DEF Init, EmptyChain
<1>2. KeysOf(<<>>) = <<>> /\ 1 .. (1 - 1) = {}
  BY DEF KeysOf
<1> QED
  BY <1>1, <1>2, Zenon DEF Abstract!Init, FreshInv

\* Every step of the signer is a step of the key chain or leaves it alone.
LEMMA ChainMapsNext ==
    Typed /\ EpochInv /\ FreshInv /\ [Next]_vars
      => [Abstract!Next]_(Abstract!vars)
<1> SUFFICES ASSUME Typed, EpochInv, FreshInv, [Next]_vars
             PROVE  Abstract!Next \/ UNCHANGED Abstract!vars
  BY Zenon
<1>a. /\ chainFile.certs \in Seq(Certs) /\ keyFiles \subseteq Keys
      /\ nextKey \in Nat \ {0}
  BY FwdSecAssumption DEF Typed, TypeOK
<1>b. chainFile.certs # <<>> =>
        /\ KeysOf(chainFile.certs) # <<>>
        /\ Abstract!Last = ActiveCert(chainFile.certs).key
        /\ Abstract!Last = chainFile.locator
        /\ Abstract!Last \in keyFiles
  <2>1. chainFile.certs # <<>> => chainFile # EmptyChain
    BY DEF EmptyChain
  <2>2. chainFile.certs # <<>> => Loadable
    BY <2>1, Zenon DEF Typed, KeyInv
  <2> QED
    BY <1>a, <2>2, KeysOfFacts, Zenon DEF Loadable, Abstract!Last
<1>c. ASSUME NEW k, UNCHANGED <<chainFile, nextKey, signed>>,
             keyFiles' \in {keyFiles, keyFiles \ {k}},
             chainFile.certs # <<>> => k # Abstract!Last
      PROVE  Abstract!Next \/ UNCHANGED Abstract!vars
  <2>1. CASE keyFiles' = keyFiles
    BY <1>c, <2>1, Zenon DEF Abstract!vars
  <2>2. CASE keyFiles' = keyFiles \ {k} /\ k \notin keyFiles
    <3>1. keyFiles' = keyFiles
      BY <2>2, Zenon
    <3> QED
      BY <2>1, <3>1, Zenon
  <2>3. CASE keyFiles' = keyFiles \ {k} /\ k \in keyFiles
    <3>1. k \in Keys
      BY <1>a, <2>3, Zenon
    <3>2. KeysOf(chainFile.certs) # <<>> => k # Abstract!Last
      BY <1>a, <1>c, KeysOfFacts, Zenon
    <3>3. Abstract!Destroy(k)
      BY <1>c, <2>3, <3>2, Zenon DEF Abstract!Destroy
    <3> QED
      BY <3>1, <3>3, Zenon DEF Abstract!Next
  <2> QED
    BY <1>c, <2>1, <2>2, <2>3, Zenon
<1>d. ASSUME Generate, UNCHANGED <<chainFile, signed>> PROVE Abstract!Next
  <2>1. /\ nextKey \in Keys /\ nextKey \notin 1 .. (nextKey - 1)
        /\ 1 .. (nextKey' - 1) = (1 .. (nextKey - 1)) \cup {nextKey}
        /\ keyFiles' = keyFiles \cup {nextKey}
    BY <1>a, <1>d, FwdSecAssumption DEF Generate, Keys
  <2>2. Abstract!Generate(nextKey)
    BY <1>d, <2>1, Zenon DEF Abstract!Generate
  <2> QED
    BY <2>1, <2>2, Zenon DEF Abstract!Next
<1>e. ASSUME NEW c \in Certs, c.key \in keyFiles,
             \A i \in DOMAIN chainFile.certs : chainFile.certs[i].key # c.key,
             chainFile'.certs = Append(chainFile.certs, c),
             UNCHANGED <<keyFiles, nextKey, signed>>
      PROVE  Abstract!Next
  <2>1. /\ KeysOf(chainFile'.certs) = Append(KeysOf(chainFile.certs), c.key)
        /\ \A i \in DOMAIN KeysOf(chainFile.certs) :
              KeysOf(chainFile.certs)[i] # c.key
    BY <1>a, <1>e, KeysOfAppend, KeysOfFacts, Zenon
  <2>2. KeysOf(chainFile.certs)' = KeysOf(chainFile'.certs)
    BY DEF KeysOf
  <2>3. Abstract!Certify(c.key)
    BY <1>e, <2>1, <2>2, Zenon DEF Abstract!Certify
  <2> QED
    BY <1>a, <1>e, <2>3, Zenon DEF Abstract!Next
<1>1. ASSUME NEW now \in 0 .. MaxClock, GenesisWrite(now)
      PROVE  Abstract!Next
  <2> DEFINE q    == QuantumPublic(newKey)
             cert == [epoch |-> 0, key |-> newKey, startedAt |-> now,
                      signedBy |-> newKey, qkey |-> q, qSignedBy |-> q,
                      sig |-> newKey, qsig |-> q, members |-> FALSE]
  <2>1. newKey \in Keys /\ newKey \in keyFiles /\ chainFile.certs = <<>>
    BY <1>1 DEF GenesisWrite, Typed, KeyInv, EmptyChain
  <2>2. cert \in Certs /\ cert.key = newKey
    BY <2>1 DEF Certs, QuantumPublic
  <2>3. /\ chainFile'.certs = <<cert>>
        /\ UNCHANGED <<keyFiles, nextKey, signed>>
    BY <1>1, Zenon DEF GenesisWrite, ghosts
  <2> HIDE DEF cert
  <2>4. <<cert>> = Append(<<>>, cert) /\ DOMAIN <<>> = {}
    BY <2>2
  <2>5. PICK c \in Certs : c = cert
    BY <2>2, Zenon
  <2> QED
    BY <1>e, <2>1, <2>2, <2>3, <2>4, <2>5, Zenon
<1>2. CASE WriteChain
  <2>1. /\ pc = "signed" /\ chainFile' = chain /\ newKey \in keyFiles
        /\ UNCHANGED <<keyFiles, nextKey, signed>>
    BY <1>2, Zenon DEF WriteChain, ghosts, Typed, KeyInv, Rotating
  <2>2. PICK c \in Certs : /\ chain.certs = Append(chainFile.certs, c)
                           /\ c.key = newKey
    BY <2>1, Zenon DEF Typed, KeyInv
  <2> QED
    BY <1>e, <2>1, <2>2, Zenon DEF FreshInv
<1>3. CASE Sign
  <2>1. /\ pc = "idle" /\ active.live
        /\ signed' = signed \cup {<<ActiveCert(chain.certs).epoch, active.key>>}
        /\ UNCHANGED <<chainFile, keyFiles, nextKey>>
    BY <1>3, Zenon DEF Sign, disk
  <2>2. /\ chain.certs = chainFile.certs /\ chainFile.certs # <<>>
        /\ active.key = ActiveCert(chainFile.certs).key
    BY <2>1, Zenon DEF Typed, KeyInv, Started, EpochInv
  <2>3. ActiveCert(chainFile.certs).epoch = Len(KeysOf(chainFile.certs)) - 1
    <3>1. /\ Len(chainFile.certs) \in 1 .. Len(chainFile.certs)
          /\ Len(KeysOf(chainFile.certs)) = Len(chainFile.certs)
      BY <1>a, <2>2, KeysOfFacts, ActiveCertType
    <3> QED
      BY <3>1, Zenon DEF EpochInv, Numbered, ActiveCert
  <2>4. Abstract!Sign
    BY <1>b, <2>1, <2>2, <2>3, Zenon DEF Abstract!Sign
  <2> QED
    BY <2>4, Zenon DEF Abstract!Next
<1>4. CASE RotateSignFails \/ WriteChainFails
  <2>1. /\ pc \in {"generated", "signed"}
        /\ keyFiles' \in {keyFiles, keyFiles \ {newKey}}
        /\ UNCHANGED <<chainFile, nextKey, signed>>
    BY <1>4, Zenon DEF RotateSignFails, WriteChainFails, Abandon, ghosts
  <2>2. newKey # chainFile.locator
    BY <2>1, Zenon DEF Typed, KeyInv
  <2> QED
    BY <1>b, <1>c, <2>1, <2>2, Zenon
<1>5. CASE DestroyPrevious \/ DestroyPreviousFails
  <2>1. /\ pc = "written"
        /\ keyFiles' \in {keyFiles, keyFiles \ {active.key}}
        /\ UNCHANGED <<chainFile, nextKey, signed>>
    BY <1>5, Zenon DEF DestroyPrevious, DestroyPreviousFails, ghosts
  <2>2. active.key # chainFile.locator
    BY <2>1, Zenon DEF Typed, KeyInv, Rotating
  <2> QED
    BY <1>b, <1>c, <2>1, <2>2, Zenon
<1>6. ASSUME \/ \E h \in HybridModes, t \in ThresholdModes : LoadActive(h, t)
             \/ \E now \in 0 .. MaxClock : RotateSign(now)
             \/ GenesisFails \/ SignRefused \/ Crash \/ UNCHANGED vars
      PROVE  UNCHANGED Abstract!vars
  <2>1. UNCHANGED <<chainFile, keyFiles, nextKey, signed>>
    BY <1>6, Zenon DEF LoadActive, RotateSign, GenesisFails, SignRefused, Crash,
                       vars, disk, ghosts
  <2> QED
    BY <2>1, Zenon DEF Abstract!vars
<1>7. ASSUME \/ \E h \in HybridModes, t \in ThresholdModes : GenesisGenerate(h, t)
             \/ RotateGenerate
      PROVE  Abstract!Next
  BY <1>d, <1>7, Zenon DEF GenesisGenerate, RotateGenerate
<1> QED
  BY <1>1, <1>2, <1>3, <1>4, <1>5, <1>6, <1>7, Zenon DEF Next, Rotation

\* The signer implements the key chain: whatever fails and wherever the process
\* dies, the chain only grows, by a new key each time; the last key stays
\* readable and alone signs, under its own epoch; and a destroyed key is gone.
THEOREM ChainRefines == Spec => ImplementsKeyChain
<1>1. Typed /\ EpochInv /\ VerifyInv /\ FreshInv /\ [Next]_vars => FreshInv'
  BY FreshNext, Zenon
<1> QED
  BY <1>1, AlwaysVerify, ChainMapsInit, ChainMapsNext, PTL
     DEF Spec, ImplementsKeyChain, Abstract!Spec

\* What KeyChain promises is enough for its users, however it is implemented: a
\* signature stays valid under the key the chain lists for its epoch.
THEOREM KeyChainSafe == Abstract!Spec => []SignaturesStayValid
<1> DEFINE C == KeysOf(chainFile.certs)
           I == /\ C \in Seq(Keys)
                /\ \A g \in signed : g[1] + 1 \in 1 .. Len(C) /\ C[g[1] + 1] = g[2]
<1>1. Abstract!Init => I
  BY DEF Abstract!Init
<1>2. I /\ [Abstract!Next]_(Abstract!vars) => I'
  <2> SUFFICES ASSUME I, [Abstract!Next]_(Abstract!vars) PROVE I'
    BY Zenon
  <2> HIDE DEF C
  <2>1. ASSUME C' = C, signed' = signed PROVE I'
    BY <2>1, Zenon
  <2>2. ASSUME NEW k \in Keys, Abstract!Certify(k) PROVE I'
    <3>1. C' = Append(C, k) /\ signed' = signed
      BY <2>2, Zenon DEF Abstract!Certify, C
    <3>2. /\ Append(C, k) \in Seq(Keys) /\ Len(Append(C, k)) = Len(C) + 1
          /\ Len(C) \in Nat
          /\ \A j \in 1 .. Len(C) : Append(C, k)[j] = C[j]
      OBVIOUS
    <3>3. \A j \in 1 .. Len(C) : j \in 1 .. Len(C) + 1
      BY <3>2
    <3> QED
      BY <3>1, <3>2, <3>3, Zenon
  <2>3. CASE Abstract!Sign
    <3>1. /\ C # <<>> /\ C' = C
          /\ signed' = signed \cup {<<Len(C) - 1, C[Len(C)]>>}
      BY <2>3, Zenon DEF Abstract!Sign, Abstract!Last, Abstract!vars, C
    <3>2. Len(C) \in Nat \ {0}
      BY <3>1
    <3>3. (Len(C) - 1) + 1 = Len(C) /\ Len(C) \in 1 .. Len(C)
      BY <3>2
    <3>4. \A g \in signed' : g \in signed \/ g = <<Len(C) - 1, C[Len(C)]>>
      BY <3>1, Zenon
    <3>5. \A g \in signed' : g[1] + 1 \in 1 .. Len(C) /\ C[g[1] + 1] = g[2]
      <4> DEFINE n == <<Len(C) - 1, C[Len(C)]>>
      <4>1. n[1] + 1 = Len(C) /\ n[2] = C[Len(C)]
        BY <3>3
      <4> HIDE DEF n
      <4>2. n[1] + 1 \in 1 .. Len(C) /\ C[n[1] + 1] = n[2]
        BY <3>3, <4>1, Zenon
      <4> QED
        BY <3>4, <4>2, Zenon DEF n
    <3> QED
      BY <3>1, <3>5, Zenon
  <2>4. ASSUME NEW k \in Keys, Abstract!Generate(k) \/ Abstract!Destroy(k)
        PROVE  C' = C /\ signed' = signed
    BY <2>4, Zenon DEF Abstract!Generate, Abstract!Destroy, C
  <2>5. UNCHANGED Abstract!vars => C' = C /\ signed' = signed
    BY Zenon DEF Abstract!vars, C
  <2> QED
    BY <2>1, <2>2, <2>3, <2>4, <2>5, Zenon DEF Abstract!Next
<1>3. I => SignaturesStayValid
  <2> SUFFICES ASSUME I, NEW g \in signed
               PROVE  /\ g[1] + 1 \in DOMAIN chainFile.certs
                      /\ chainFile.certs[g[1] + 1].key = g[2]
    BY Zenon DEF SignaturesStayValid
  <2>1. DOMAIN C = 1 .. Len(C) /\ DOMAIN C = DOMAIN chainFile.certs
    BY DEF KeysOf
  <2>2. \A j \in DOMAIN C : C[j] = chainFile.certs[j].key
    BY DEF KeysOf
  <2> HIDE DEF C
  <2> QED
    BY <2>1, <2>2, Zenon
<1> HIDE DEF I
<1> QED
  BY <1>1, <1>2, <1>3, PTL DEF Abstract!Spec

-----------------------------------------------------------------------------
(* Keys on a token                                                         *)

\* Only keys that Generate returned are held, the key of a running Generate is
\* not yet one of them, and a Destroy that has met no error is past the
\* private object.
StoreInv ==
    /\ Hsm!TypeOK
    /\ hHeld \subseteq hKnown
    /\ hOp.kind = "generate" =>
          hOp.key \notin hKnown /\ {hOp.key} \X Hsm!Classes \subseteq hToken
    /\ hOp.kind = "destroy" =>
          hOp.key \in hKnown /\ (~hOp.err => ~Hsm!HasPrivate(hOp.key))

\* The first state satisfies the invariant.
LEMMA StoreInit == Hsm!Init => StoreInv
<1> SUFFICES ASSUME Hsm!Init PROVE StoreInv
  OBVIOUS
<1>1. hOp \in Hsm!Ops /\ hOp.kind = "none"
  BY Zenon DEF Hsm!Init, Hsm!Ops, Hsm!Free
<1> QED
  BY <1>1, Zenon DEF Hsm!Init, StoreInv, Hsm!TypeOK

\* Every step keeps it.
LEMMA StoreNext == StoreInv /\ [Hsm!Next]_(Hsm!vars) => StoreInv'
<1> SUFFICES ASSUME StoreInv, [Hsm!Next]_(Hsm!vars) PROVE StoreInv'
  OBVIOUS
<1> USE DEF StoreInv, Hsm!TypeOK, Hsm!Ops, Hsm!Free, Hsm!Classes, Hsm!HasPrivate
<1>1. CASE Hsm!Open
  BY <1>1, Zenon DEF Hsm!Open
<1>2. CASE Hsm!Close
  BY <1>2, Zenon DEF Hsm!Close, Hsm!Ready
<1>3. ASSUME NEW k \in TokenKeys, Hsm!GenerateKeyPair(k) PROVE StoreInv'
  BY <1>3, Zenon DEF Hsm!GenerateKeyPair, Hsm!Ready
<1>4. ASSUME NEW k \in TokenKeys, Hsm!Load(k) PROVE StoreInv'
  BY <1>4, Zenon DEF Hsm!Load, Hsm!Ready
<1>5. ASSUME NEW k \in TokenKeys, Hsm!Sign(k) PROVE StoreInv'
  BY <1>5, Zenon DEF Hsm!Sign, Hsm!Ready
<1>6. ASSUME NEW k \in TokenKeys, Hsm!DestroyPrivate(k) PROVE StoreInv'
  <2>1. hOp' \in Hsm!Ops
    <3>1. PICK e \in BOOLEAN : hOp' = [kind |-> "destroy", key |-> k, err |-> e]
      BY <1>6, Zenon DEF Hsm!DestroyPrivate
    <3> QED
      BY <3>1, Zenon
  <2>2. hOp'.key = k /\ hOp'.kind = "destroy"
    BY <1>6 DEF Hsm!DestroyPrivate
  <2>3. ~hOp'.err => <<k, "priv">> \notin hToken'
    BY <1>6 DEF Hsm!DestroyPrivate
  <2>4. /\ hToken' \subseteq hToken
        /\ hLast' \in {hLast, NoTokenKey}
        /\ k \in hHeld
        /\ UNCHANGED <<hSession, hKnown, hHeld, hDestroyed>>
    BY <1>6, Zenon DEF Hsm!DestroyPrivate
  <2> QED
    BY <2>1, <2>2, <2>3, <2>4, Zenon
<1>7. CASE Hsm!ReadPublicKey
  BY <1>7 DEF Hsm!ReadPublicKey
<1>8. CASE Hsm!ReadPublicKeyFails
  BY <1>8, Zenon DEF Hsm!ReadPublicKeyFails, Hsm!Fault
<1>9. CASE Hsm!DestroyPublic
  BY <1>9, Zenon DEF Hsm!DestroyPublic, Hsm!Fault
<1>10. CASE Hsm!Crash
  BY <1>10, Zenon DEF Hsm!Crash
<1>11. CASE UNCHANGED Hsm!vars
  BY <1>11, Zenon DEF Hsm!vars
<1> QED
  BY <1>1, <1>2, <1>3, <1>4, <1>5, <1>6, <1>7, <1>8, <1>9, <1>10, <1>11
 , Zenon DEF Hsm!Next

\* The variables keep their types, however many calls fail.
THEOREM StoreTypeCorrect == Hsm!Spec => []Hsm!TypeOK
<1>1. StoreInv => Hsm!TypeOK
  BY DEF StoreInv
<1> QED
  BY <1>1, StoreInit, StoreNext, PTL DEF Hsm!Spec

\* The first state of the token is the first state of the store.
LEMMA MapsInit == Hsm!Init => Hsm!KS!Init
BY DEF Hsm!Init, Hsm!KS!Init, Hsm!Status, Hsm!Usable, Hsm!HasPrivate

\* Every step of the token is a step of the store or leaves it alone.
LEMMA MapsNext == StoreInv /\ StoreInv' /\ [Hsm!Next]_(Hsm!vars)
   => [Hsm!KS!Next]_(Hsm!KS!vars)
<1> SUFFICES ASSUME StoreInv, StoreInv', [Hsm!Next]_(Hsm!vars)
             PROVE  [Hsm!KS!Next]_(Hsm!KS!vars)
  BY Zenon
<1> USE DEF StoreInv, Hsm!TypeOK, Hsm!Ops, Hsm!Free, Hsm!Classes, Hsm!HasPrivate,
            Hsm!Status, Hsm!Usable,
            Hsm!KS!vars
<1>1. CASE Hsm!Open
  BY <1>1, Zenon DEF Hsm!Open
<1>2. CASE Hsm!Close
  BY <1>2, Zenon DEF Hsm!Close, Hsm!KS!Next, Hsm!KS!Close
<1>3. ASSUME NEW k \in TokenKeys, Hsm!GenerateKeyPair(k) PROVE UNCHANGED Hsm!KS!vars
  BY <1>3 DEF Hsm!GenerateKeyPair, Hsm!Ready
<1>4. ASSUME NEW k \in TokenKeys, Hsm!Load(k) PROVE Hsm!KS!Load(k)
  BY <1>4, Zenon DEF Hsm!Load, Hsm!Ready, Hsm!KS!Load
<1>5. ASSUME NEW k \in TokenKeys, Hsm!Sign(k) PROVE Hsm!KS!Sign(k)
  BY <1>5, Zenon DEF Hsm!Sign, Hsm!Ready, Hsm!KS!Sign
<1>6. ASSUME NEW k \in TokenKeys, Hsm!DestroyPrivate(k)
      PROVE  Hsm!KS!Remove(k) \/ UNCHANGED Hsm!KS!vars
  BY <1>6, Zenon DEF Hsm!DestroyPrivate, Hsm!Ready, Hsm!Fault, Hsm!KS!Remove
<1>7. CASE Hsm!ReadPublicKey
  BY <1>7, Zenon DEF Hsm!ReadPublicKey, Hsm!KS!Next, Hsm!KS!Generate
<1>8. CASE Hsm!ReadPublicKeyFails
  BY <1>8 DEF Hsm!ReadPublicKeyFails, Hsm!Fault
<1>9. CASE Hsm!DestroyPublic
  BY <1>9, Zenon DEF Hsm!DestroyPublic, Hsm!Fault, Hsm!KS!Next, Hsm!KS!DestroyReturns
<1>10. CASE Hsm!Crash
  BY <1>10, Zenon DEF Hsm!Crash, Hsm!KS!Next, Hsm!KS!Close
<1>11. CASE UNCHANGED Hsm!vars
  BY <1>11, Zenon DEF Hsm!vars
<1> QED
  BY <1>1, <1>2, <1>3, <1>4, <1>5, <1>6, <1>7, <1>8, <1>9, <1>10, <1>11, Zenon
  DEF Hsm!Next, Hsm!KS!Next

\* The token implements the store: a key is there until it is destroyed, is
\* gone once Destroy says so, and nothing else signs.
THEOREM StoreRefines == Hsm!Spec => ImplementsKeyStore
BY StoreInit, StoreNext, MapsInit, MapsNext, PTL
DEF Hsm!Spec, ImplementsKeyStore, Hsm!ImplementsKeyStore, Hsm!KS!Spec

\* What KeyStore promises is enough for the signer, however it is implemented: a
\* key whose Destroy returned nil is gone and no longer held, and the key of the
\* last signature is there.
THEOREM KeyStoreSafe ==
    Hsm!KS!Spec =>
      [](/\ \A k \in TokenKeys \cap hDestroyed : Hsm!Status[k] = "gone"
         /\ \A k \in TokenKeys \cap Hsm!Usable : Hsm!Status[k] = "live"
         /\ hLast \in TokenKeys \ {NoTokenKey} => Hsm!Status[hLast] = "live")
<1> DEFINE K == Hsm!Status
           U == Hsm!Usable
           I == /\ DOMAIN K = TokenKeys
                /\ \A k \in TokenKeys \cap hDestroyed : K[k] = "gone"
                /\ \A k \in TokenKeys \cap U : K[k] = "live"
                /\ hLast \in TokenKeys \ {NoTokenKey} => K[hLast] = "live"
<1>1. Hsm!KS!Init => I
  BY DEF Hsm!KS!Init
<1>2. I /\ [Hsm!KS!Next]_(Hsm!KS!vars) => I'
  <2> SUFFICES ASSUME I, [Hsm!KS!Next]_(Hsm!KS!vars) PROVE I'
    BY Zenon
  <2> HIDE DEF K, U
  <2>1. ASSUME NEW k \in TokenKeys, Hsm!KS!Generate(k) PROVE I'
    BY <2>1 DEF Hsm!KS!Generate, K, U
  <2>2. ASSUME NEW k \in TokenKeys, Hsm!KS!Load(k) PROVE I'
    BY <2>2, Zenon DEF Hsm!KS!Load, K, U
  <2>3. ASSUME NEW k \in TokenKeys, Hsm!KS!Sign(k) PROVE I'
    BY <2>3, Zenon DEF Hsm!KS!Sign, K, U
  <2>4. ASSUME NEW k \in TokenKeys, Hsm!KS!Remove(k) PROVE I'
    BY <2>4 DEF Hsm!KS!Remove, K, U
  <2>5. ASSUME NEW k \in TokenKeys, Hsm!KS!DestroyReturns(k) PROVE I'
    BY <2>5, Zenon DEF Hsm!KS!DestroyReturns, K, U
  <2>6. ASSUME Hsm!KS!Close \/ UNCHANGED Hsm!KS!vars PROVE I'
    BY <2>6, Zenon DEF Hsm!KS!Close, Hsm!KS!vars, K, U
  <2> QED
    BY <2>1, <2>2, <2>3, <2>4, <2>5, <2>6, Zenon DEF Hsm!KS!Next
<1>3. I => /\ \A k \in TokenKeys \cap hDestroyed : Hsm!Status[k] = "gone"
           /\ \A k \in TokenKeys \cap Hsm!Usable : Hsm!Status[k] = "live"
           /\ hLast \in TokenKeys \ {NoTokenKey} => Hsm!Status[hLast] = "live"
  BY Zenon
<1> HIDE DEF I
<1> QED
  BY <1>1, <1>2, <1>3, PTL DEF Hsm!KS!Spec

=============================================================================
