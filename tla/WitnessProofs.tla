--------------------------- MODULE WitnessProofs ----------------------------
(***************************************************************************)
(* Proofs about Witness for every cohort, every set of sizes and roots and *)
(* any number of crashes, failed saves and cleared forks.  A journal that  *)
(* opens is the journal that was written.                                  *)
(***************************************************************************)
EXTENDS Witness, JournalPart, TLAPS

-----------------------------------------------------------------------------
(* Seen maps and statements                                                *)

\* A seen map is a function from some of the sizes to roots.
LEMMA SpaceFacts ==
    ASSUME NEW s
    PROVE  s \in Spaces <=> /\ s \in [DOMAIN s -> Roots]
                            /\ DOMAIN s \subseteq Sizes
BY Zenon DEF Spaces

\* No statement, and a map nothing was recorded in, is the empty map.
LEMMA EmptyFacts == EmptySpace \in Spaces /\ EmptySpace \in Statements
<1>1. EmptySpace \in [{} -> Roots] /\ EmptySpace \in [{} -> Spaces]
  BY DEF EmptySpace
<1> QED
  BY <1>1, Zenon DEF Spaces, Statements

\* What Cosign makes of its seen map.
LEMMA PutSpace ==
    ASSUME NEW s \in Spaces, NEW n \in Sizes, NEW r \in Roots
    PROVE  Put(s, n, r) \in Spaces
<1>1. s \in [DOMAIN s -> Roots] /\ DOMAIN s \subseteq Sizes
  BY SpaceFacts
<1>2. Put(s, n, r) \in [DOMAIN s \cup {n} -> Roots]
  BY <1>1 DEF Put
<1> QED
  BY <1>1, <1>2 DEF Spaces

\* What recordAttestationLocked makes of the statements on file.
LEMMA PutStatement ==
    ASSUME NEW l \in Statements, NEW p \in Witnesses, NEW s \in Spaces
    PROVE  Put(l, p, s) \in Statements
<1>1. l \in [DOMAIN l -> Spaces] /\ DOMAIN l \subseteq Witnesses
  BY DEF Statements
<1>2. Put(l, p, s) \in [DOMAIN l \cup {p} -> Spaces]
  BY <1>1 DEF Put
<1> QED
  BY <1>1, <1>2 DEF Statements

-----------------------------------------------------------------------------
(* Types                                                                   *)

\* A Cosign call that holds the mutex has a checkpoint, an exchange that goes
\* on has a peer.
CallInv ==
    \A w \in Witnesses :
        /\ pc[w] # "free" => request[w] \in Sizes \X Roots
        /\ round[w] # "idle" => peer[w] \in Witnesses

Typed == TypeOK /\ CallInv

\* A fresh cohort is well typed.
LEMMA TypedInit == Init => Typed
BY EmptyFacts DEF Init, Typed, TypeOK, CallInv, Rounds

\* Every step of Cosign, of a gossip exchange, of an administrator and every
\* crash keeps the types.
LEMMA TypedNext == Typed /\ [Next]_vars => Typed'
<1> SUFFICES ASSUME Typed, [Next]_vars PROVE Typed'
  OBVIOUS
<1> USE DEF Typed, Rounds
<1>1. ASSUME NEW w \in Witnesses, NEW n \in Sizes, NEW r \in Roots,
             CosignRefused(w, n, r)
      PROVE  Typed'
  BY <1>1 DEF CosignRefused, TypeOK, CallInv, memory, files, cosign, gossip,
              bounds
<1>2. ASSUME NEW w \in Witnesses, NEW n \in Sizes, NEW r \in Roots,
             CosignFork(w, n, r)
      PROVE  Typed'
  BY <1>2 DEF CosignFork, RecordFork, Saved, SaveFailed, Evidence, TypeOK,
              CallInv, cross, cosign, gossip
<1>3. ASSUME NEW w \in Witnesses, NEW n \in Sizes, NEW r \in Roots,
             CosignRecord(w, n, r)
      PROVE  Typed'
  <2>1. Put(seen[w], n, r) \in Spaces
    BY PutSpace DEF TypeOK
  <2> QED
    BY <1>3, <2>1
       DEF CosignRecord, TypeOK, CallInv, files, gossip, bounds
<1>4. ASSUME NEW w \in Witnesses, SaveSeen(w) PROVE Typed'
  BY <1>4, SMTT(30)
     DEF SaveSeen, Saved, SaveFailed, Unlock, TypeOK, CallInv, memory,
              gossip, history
<1>5. ASSUME NEW w \in Witnesses, SaveCheckpoints(w) PROVE Typed'
  BY <1>5, SMTT(30)
     DEF SaveCheckpoints, Saved, SaveFailed, Unlock, TypeOK, CallInv,
              memory, gossip, history
<1>6. ASSUME NEW w \in Witnesses, SignCheckpoint(w) PROVE Typed'
  BY <1>6 DEF SignCheckpoint, Unlock, TypeOK, CallInv, memory, files, gossip,
              bounds
<1>7. ASSUME NEW w \in Witnesses, NEW p \in Witnesses, FetchSignedSeen(w, p)
      PROVE  Typed'
  BY <1>7, Zenon DEF FetchSignedSeen, Goto, TypeOK, CallInv, memory, files, cosign,
              bounds
<1>8. ASSUME NEW w \in Witnesses, RecordAttestation(w) PROVE Typed'
  <2>1. /\ peer[w] \in Witnesses /\ statement[w] \in Spaces
        /\ latest[w] \in Statements
    BY <1>8 DEF RecordAttestation, TypeOK, CallInv
  <2>2. latest' \in [Witnesses -> Statements]
    BY <1>8, <2>1, PutStatement DEF RecordAttestation, TypeOK
  <2>3. latest'[w] \in Statements
    BY <2>2
  <2>4. CASE Contradictions(w) = {}
    BY <1>8, <2>2, <2>3, <2>4
       DEF RecordAttestation, Saved, SaveFailed, Goto, TypeOK, CallInv, cross,
           cosign, history
  <2>5. CASE Contradictions(w) # {}
    <3>1. PICK n \in Contradictions(w) : RecordFork(w, n, peer[w])
      BY <1>8, <2>5, Zenon DEF RecordAttestation
    <3>2. n \in Sizes
      <4>1. n \in DOMAIN statement[w]
        BY DEF Contradictions, Disagree
      <4>2. DOMAIN statement[w] \subseteq Sizes
        BY <2>1, Zenon DEF Spaces
      <4> QED
        BY <4>1, <4>2
    <3>3. latestFile' \in [Witnesses -> Statements]
      BY <1>8, <2>3, <2>5, Zenon DEF RecordAttestation, TypeOK
    <3>4. /\ forks' \in [Witnesses -> Evidence \cup {NoFork}]
          /\ forksFile' \in [Witnesses -> Evidence \cup {NoFork}]
          /\ faults' \in Nat
      BY <2>1, <3>1, <3>2
         DEF RecordFork, Saved, SaveFailed, TypeOK, Evidence
    <3> QED
      BY <1>8, <2>2, <3>3, <3>4
         DEF RecordAttestation, Goto, TypeOK, CallInv, cross, cosign, history
  <2> QED
    BY <2>4, <2>5
<1>9. ASSUME NEW w \in Witnesses, CompareAgrees(w) PROVE Typed'
  BY <1>9, Zenon DEF CompareAgrees, Goto, TypeOK, CallInv, memory, files, cosign,
              history, bounds
<1>10. ASSUME NEW w \in Witnesses, CompareDisagrees(w) PROVE Typed'
  <2>1. peer[w] \in Witnesses /\ statement[w] \in Spaces
    BY <1>10, Zenon DEF CompareDisagrees, TypeOK, CallInv
  <2>2. PICK n \in Disagree(seen[w], statement[w]) :
          RecordFork(w, n, peer[w])
    BY <1>10 DEF CompareDisagrees
  <2>3. n \in Sizes
    <3>1. n \in DOMAIN statement[w]
      BY DEF Disagree
    <3>2. DOMAIN statement[w] \subseteq Sizes
      BY <2>1 DEF Spaces
    <3> QED
      BY <3>1, <3>2
  <2>4. /\ forks' \in [Witnesses -> Evidence \cup {NoFork}]
        /\ forksFile' \in [Witnesses -> Evidence \cup {NoFork}]
        /\ faults' \in Nat
    BY <2>1, <2>2, <2>3 DEF RecordFork, Saved, SaveFailed, TypeOK, Evidence
  <2> QED
    BY <1>10, <2>4
      , Zenon DEF CompareDisagrees, Goto, TypeOK, CallInv, cross, cosign, history
<1>11. ASSUME NEW w \in Witnesses, Alert(w) PROVE Typed'
  BY <1>11, EmptyFacts, SMTT(30)
     DEF Alert, EndExchange, Goto, TypeOK, CallInv, memory, files, cosign,
         history, bounds
<1>12. ASSUME NEW w \in Witnesses, ClearFork(w) PROVE Typed'
  BY <1>12 DEF ClearFork, Saved, SaveFailed, TypeOK, CallInv, cross, cosign,
               gossip, history
<1>13. ASSUME NEW w \in Witnesses, Crash(w) PROVE Typed'
  BY <1>13, EmptyFacts DEF Crash, Unlock, EndExchange, Goto, TypeOK, CallInv,
     files, history
<1>14. CASE UNCHANGED vars
  BY <1>14, Zenon DEF TypeOK, CallInv, vars, memory, files, cosign, gossip, history,
               bounds
<1>15. ASSUME NEW w \in Witnesses, IssueCrossAttestation(w) PROVE Typed'
  <2> DEFINE overlap == {n \in DOMAIN seen[w] \cap DOMAIN statement[w] :
                           seen[w][n] = statement[w][n]}
  <2>1. CASE overlap = {} /\ EndExchange(w)
    BY <1>15, <2>1, EmptyFacts, SMTT(30)
       DEF IssueCrossAttestation, EndExchange, Goto, TypeOK, CallInv, memory,
           files, cosign, history, bounds
  <2>2. CASE /\ statement' = [statement EXCEPT ![w] =
                                 [n \in overlap |-> seen[w][n]]]
             /\ Goto(w, "confirm")
             /\ UNCHANGED peer
    <3>1. seen[w] \in [DOMAIN seen[w] -> Roots] /\ DOMAIN seen[w] \subseteq Sizes
      BY SpaceFacts, Zenon DEF TypeOK
    <3>2. [n \in overlap |-> seen[w][n]] \in [overlap -> Roots]
      BY <3>1, Zenon
    <3>3. [n \in overlap |-> seen[w][n]] \in Spaces
      BY <3>1, <3>2, Zenon DEF Spaces
    <3> HIDE DEF overlap
    <3> QED
      BY <1>15, <2>2, <3>3, SMTT(30)
         DEF IssueCrossAttestation, Goto, TypeOK, CallInv, memory, files,
             cosign, history, bounds
  <2> QED
    BY <1>15, <2>1, <2>2, Zenon DEF IssueCrossAttestation
<1>16. ASSUME NEW w \in Witnesses, RecordCrossAttestation(w) PROVE Typed'
  <2>1. Confirmed(w) \subseteq Sizes \X Roots
    <3>1. /\ statement[w] \in [DOMAIN statement[w] -> Roots]
          /\ DOMAIN statement[w] \subseteq Sizes
      BY SpaceFacts, Zenon DEF TypeOK
    <3> QED
      BY <3>1 DEF Confirmed, TypeOK
  <2> QED
    BY <1>16, <2>1, EmptyFacts, SMTT(30)
       DEF RecordCrossAttestation, Saved, SaveFailed, EndExchange, Goto,
           TypeOK, CallInv, cosign, history
<1>17. ASSUME NEW w \in Witnesses PROVE Shows[w] \subseteq Roots
  BY WitnessAssumption
<1> QED
  BY <1>1, <1>2, <1>3, <1>4, <1>5, <1>6, <1>7, <1>8, <1>9, <1>10, <1>11,
     <1>12, <1>13, <1>14, <1>15, <1>16, <1>17 DEF Next, Cosign, GossipStep

\* Every variable of the witnesses keeps its type.
THEOREM TypeCorrect == Spec => []TypeOK
<1>1. Typed => TypeOK
  BY DEF Typed
<1> QED
  BY TypedInit, TypedNext, <1>1, PTL DEF Spec

\* The types and the calls in progress hold throughout.
LEMMA AlwaysTyped == Spec => []Typed
BY TypedInit, TypedNext, PTL DEF Spec

-----------------------------------------------------------------------------
(* One root per size                                                       *)

\* Map t has what map s has.
Extends(t, s) == \A n \in DOMAIN s : n \in DOMAIN t /\ t[n] = s[n]

Holds(s, c) == c[1] \in DOMAIN s /\ s[c[1]] = c[2]

\* The map in memory has what the file has, the file has all that was cosigned,
\* and the call that holds the mutex has its root in memory, and in the file
\* once it was saved.  A crash sets memory back to the file, so the order save,
\* then sign is what keeps a second root from being cosigned.
SeenInv ==
    \A w \in Witnesses :
        /\ Extends(seen[w], seenFile[w])
        /\ \A c \in signed[w] : Holds(seenFile[w], c)
        /\ pc[w] # "free" => Holds(seen[w], request[w])
        /\ pc[w] \in {"saveCheckpoints", "sign"} =>
             Holds(seenFile[w], request[w])

\* At first nothing was seen and nothing signed.
LEMMA SeenInit == Init => SeenInv
BY SMTT(30) DEF Init, SeenInv, Extends, EmptySpace

\* Of all steps only those of Cosign and a crash touch the seen map.
LEMMA SeenNext == Typed /\ SeenInv /\ [Next]_vars => SeenInv'
<1> SUFFICES ASSUME Typed, SeenInv, [Next]_vars PROVE SeenInv'
  BY Zenon
<1> USE DEF Typed
<1>1. CASE UNCHANGED <<seen, seenFile, signed, pc, request>>
  BY <1>1, Zenon DEF SeenInv, Extends, Holds
<1>2. ASSUME NEW w \in Witnesses, NEW n \in Sizes, NEW r \in Roots,
             CosignRecord(w, n, r)
      PROVE  SeenInv'
  <2>1. /\ seen' = [seen EXCEPT ![w] = Put(@, n, r)]
        /\ UNCHANGED <<seenFile, signed>>
        /\ pc' = [pc EXCEPT ![w] = "saveSeen"]
        /\ request' = [request EXCEPT ![w] = <<n, r>>]
        /\ n \in DOMAIN seen[w] => seen[w][n] = r
    BY <1>2, Zenon DEF CosignRecord, Contradicts, files
  <2>2. Extends(Put(seen[w], n, r), seen[w])
    BY <2>1, Zenon DEF Extends, Put
  <2>3. Holds(Put(seen[w], n, r), <<n, r>>)
    BY DEF Holds, Put
  <2>4. Extends(Put(seen[w], n, r), seenFile[w])
    BY <2>2, Zenon DEF Extends, SeenInv
  <2> QED
    BY <2>1, <2>3, <2>4, Zenon DEF SeenInv, TypeOK
<1>3. ASSUME NEW w \in Witnesses, SaveSeen(w) PROVE SeenInv'
  <2>1. CASE Saved(seenFile, w, seen[w])
    <3>1. /\ seenFile' = [seenFile EXCEPT ![w] = seen[w]]
          /\ UNCHANGED <<seen, signed>>
          /\ UNCHANGED request \/ Unlock(w)
      BY <1>3, <2>1, Zenon DEF SaveSeen, Saved, memory, history
    <3>2. Extends(seen[w], seen[w])
      BY DEF Extends
    <3>3. \A c \in signed[w] : Holds(seen[w], c)
      BY DEF SeenInv, Extends, Holds
    <3>4. Holds(seen[w], request[w])
      BY <1>3, Zenon DEF SaveSeen, SeenInv
    <3> QED
      BY <1>3, <3>1, <3>2, <3>3, <3>4 DEF SaveSeen, SeenInv, TypeOK, Unlock
  <2>2. CASE UNCHANGED seenFile /\ Unlock(w)
    BY <1>3, <2>2, Zenon DEF SaveSeen, SeenInv, TypeOK, Unlock, memory, history
  <2> QED
    BY <1>3, <2>1, <2>2 DEF SaveSeen, SaveFailed
<1>4. ASSUME NEW w \in Witnesses, SaveCheckpoints(w) PROVE SeenInv'
  BY <1>4 DEF SaveCheckpoints, Unlock, SeenInv, TypeOK, memory, history
<1>5. ASSUME NEW w \in Witnesses, SignCheckpoint(w) PROVE SeenInv'
  BY <1>5, Zenon DEF SignCheckpoint, Unlock, SeenInv, TypeOK, memory, files
<1>6. ASSUME NEW w \in Witnesses, Crash(w) PROVE SeenInv'
  <2>1. Extends(seenFile[w], seenFile[w])
    BY DEF Extends
  <2> QED
    BY <1>6, <2>1, Zenon DEF Crash, Unlock, SeenInv, TypeOK, files, history
<1>7. ASSUME NEW w \in Witnesses PROVE Shows[w] \subseteq Roots
  BY WitnessAssumption
<1> QED
  BY <1>1, <1>2, <1>3, <1>4, <1>5, <1>6, <1>7, ZenonT(40)
     DEF Next, Cosign, GossipStep, CosignRefused, CosignFork, FetchSignedSeen,
         RecordAttestation, CompareAgrees, CompareDisagrees, Alert,
         IssueCrossAttestation, RecordCrossAttestation, ClearFork, vars, memory,
         files, cosign, history

\* No witness cosigns two roots at one size, however often a save fails, the
\* process crashes or an administrator clears a fork (Server.Cosign).
THEOREM CosignCorrect == Spec => []NoDoubleCosign
<1>1. Typed /\ SeenInv => NoDoubleCosign
  <2> SUFFICES ASSUME Typed, SeenInv, NEW w \in Witnesses,
                      NEW c1 \in signed[w], NEW c2 \in signed[w],
                      c1[1] = c2[1]
               PROVE  c1 = c2
    BY DEF NoDoubleCosign
  <2>1. c1[2] = c2[2]
    BY DEF SeenInv, Holds
  <2>2. c1 \in Sizes \X Roots /\ c2 \in Sizes \X Roots
    BY Zenon DEF Typed, TypeOK
  <2> QED
    BY <2>1, <2>2
<1> QED
  BY AlwaysTyped, SeenInit, SeenNext, <1>1, PTL DEF Spec

-----------------------------------------------------------------------------
(* No false accusation                                                     *)

\* Every root of the map s is one the operator signed, o being what it signed.
Shown(s, o) == \A n \in DOMAIN s : <<n, s[n]>> \in o

\* The operator signed two roots at the size of the evidence f.
Proven(f, o) ==
    f # NoFork =>
        \E c1, c2 \in o : c1[1] = f.size /\ c2[1] = f.size /\ c1 # c2

\* Whatever a witness holds in memory, in a file or in a statement it fetched,
\* the operator signed; so two maps that disagree are evidence whenever they
\* were read.
ShownInv ==
    \A w \in Witnesses :
        /\ Shown(seen[w], offered) /\ Shown(seenFile[w], offered)
        /\ Shown(statement[w], offered)
        /\ \A p \in DOMAIN latest[w] : Shown(latest[w][p], offered)
        /\ \A p \in DOMAIN latestFile[w] : Shown(latestFile[w][p], offered)
        /\ Proven(forks[w], offered) /\ Proven(forksFile[w], offered)

\* At first nobody holds anything.
LEMMA ShownInit == Init => ShownInv
BY DEF Init, ShownInv, Shown, Proven, EmptySpace

\* What the operator signed it has signed.
LEMMA Monotone ==
    ASSUME NEW o, NEW o2, o \subseteq o2
    PROVE  /\ \A s : Shown(s, o) => Shown(s, o2)
           /\ \A f : Proven(f, o) => Proven(f, o2)
BY Zenon DEF Shown, Proven

\* Two roots signed at one size prove a fork.
LEMMA TwoRootsProve ==
    ASSUME NEW o, NEW n, NEW r, NEW q, <<n, r>> \in o, <<n, q>> \in o, r # q,
           NEW p
    PROVE  Proven([size |-> n, peer |-> p], o)
<1>1. <<n, r>> # <<n, q>>
  OBVIOUS
<1> QED
  BY <1>1 DEF Proven

\* Two maps of signed roots that disagree at a size prove a fork.
LEMMA DisagreeProves ==
    ASSUME NEW s, NEW t, NEW o, Shown(s, o), Shown(t, o),
           NEW n \in Disagree(s, t), NEW p
    PROVE  Proven([size |-> n, peer |-> p], o)
BY TwoRootsProve, Zenon DEF Disagree, Shown

\* Every record of a root or of a fork comes from what the operator signed.
LEMMA ShownNext == Typed /\ ShownInv /\ [Next]_vars => ShownInv'
<1> SUFFICES ASSUME Typed, ShownInv, [Next]_vars PROVE ShownInv'
  OBVIOUS
<1> USE DEF Typed
<1>1. ASSUME NEW w \in Witnesses, NEW n \in Sizes, NEW r \in Roots,
             CosignRefused(w, n, r)
      PROVE  ShownInv'
  <2>1. offered \subseteq offered' /\ UNCHANGED <<memory, files, statement>>
    BY <1>1 DEF CosignRefused, gossip
  <2> QED
    BY <2>1, Monotone, Zenon DEF ShownInv, memory, files
<1>2. ASSUME NEW w \in Witnesses, NEW n \in Sizes, NEW r \in Roots,
             CosignFork(w, n, r)
      PROVE  ShownInv'
  <2> DEFINE f == [size |-> n, peer |-> NoPeer]
  <2>1. /\ offered' = offered \cup {<<n, r>>}
        /\ UNCHANGED <<seen, seenFile, statement, latest, latestFile>>
        /\ forks' = [forks EXCEPT ![w] = f]
        /\ forksFile' = [forksFile EXCEPT ![w] = f] \/ UNCHANGED forksFile
    BY <1>2, Zenon DEF CosignFork, RecordFork, Saved, SaveFailed, gossip
  <2>2. Proven(f, offered')
    <3>1. <<n, seen[w][n]>> \in offered /\ seen[w][n] # r
      BY <1>2, Zenon DEF CosignFork, Contradicts, ShownInv, Shown
    <3>2. <<n, seen[w][n]>> \in offered' /\ <<n, r>> \in offered'
      BY <2>1, <3>1, Zenon
    <3> QED
      BY <3>1, <3>2, TwoRootsProve, Zenon
  <2>3. offered \subseteq offered'
    BY <2>1, Zenon
  <2> HIDE DEF f
  <2>4. \A v \in Witnesses : Proven(forks[v], offered')
                             /\ Proven(forksFile[v], offered')
    BY <2>3, Monotone, Zenon DEF ShownInv
  <2>5. \A v \in Witnesses : Proven(forks'[v], offered')
                             /\ Proven(forksFile'[v], offered')
    BY <2>1, <2>2, <2>4, Zenon DEF TypeOK
  <2> QED
    BY <2>1, <2>3, <2>5, Monotone, Zenon DEF ShownInv
<1>3. ASSUME NEW w \in Witnesses, NEW n \in Sizes, NEW r \in Roots,
             CosignRecord(w, n, r)
      PROVE  ShownInv'
  <2>1. /\ offered' = offered \cup {<<n, r>>}
        /\ seen' = [seen EXCEPT ![w] = Put(@, n, r)]
        /\ UNCHANGED <<seenFile, statement, latest, latestFile, forks,
                       forksFile>>
    BY <1>3, Zenon DEF CosignRecord, files, gossip
  <2>2. offered \subseteq offered'
    BY <2>1
  <2>3. Shown(Put(seen[w], n, r), offered')
    BY <2>1, Zenon DEF Shown, Put, ShownInv
  <2>4. \A v \in Witnesses : Shown(seen'[v], offered')
    BY <2>1, <2>2, <2>3, Monotone, ZenonT(40) DEF ShownInv, TypeOK
  <2> QED
    BY <2>1, <2>2, <2>4, Monotone, SMTT(30) DEF ShownInv
<1>4. ASSUME NEW w \in Witnesses,
             SaveSeen(w) \/ SaveCheckpoints(w) \/ SignCheckpoint(w)
      PROVE  ShownInv'
  <2>1. /\ UNCHANGED <<memory, forksFile, latestFile, statement, offered>>
        /\ \/ UNCHANGED seenFile
           \/ seenFile' = [seenFile EXCEPT ![w] = seen[w]]
    BY <1>4, Zenon DEF SaveSeen, SaveCheckpoints, SignCheckpoint, Saved, SaveFailed,
                files, gossip, history
  <2> QED
    BY <2>1, Zenon DEF ShownInv, TypeOK, memory
<1>5. ASSUME NEW w \in Witnesses, NEW p \in Witnesses, FetchSignedSeen(w, p)
      PROVE  ShownInv'
  BY <1>5, SMTT(30) DEF FetchSignedSeen, ShownInv, TypeOK, memory, files
<1>6. ASSUME NEW w \in Witnesses, RecordAttestation(w) PROVE ShownInv'
  <2>1. /\ UNCHANGED <<seen, seenFile, statement, offered>>
        /\ latest' = [latest EXCEPT ![w] = Put(@, peer[w], statement[w])]
        /\ \/ latestFile' = [latestFile EXCEPT ![w] = latest'[w]]
           \/ UNCHANGED latestFile
    BY <1>6, Zenon DEF RecordAttestation, Saved, SaveFailed, history
  <2>2. \A p \in DOMAIN Put(latest[w], peer[w], statement[w]) :
          Shown(Put(latest[w], peer[w], statement[w])[p], offered)
    BY Zenon DEF Put, ShownInv
  <2>3. \A v \in Witnesses : \A p \in DOMAIN latest'[v] :
          Shown(latest'[v][p], offered)
    BY <2>1, <2>2, SMTT(30) DEF ShownInv, TypeOK
  <2>4. \A v \in Witnesses : \A p \in DOMAIN latestFile'[v] :
          Shown(latestFile'[v][p], offered)
    BY <2>1, <2>3, Zenon DEF ShownInv, TypeOK
  <2>5. \A v \in Witnesses : Proven(forks'[v], offered)
                             /\ Proven(forksFile'[v], offered)
    <3>1. CASE UNCHANGED <<forks, forksFile>>
      BY <3>1, Zenon DEF ShownInv
    <3>2. ASSUME NEW n \in Contradictions(w), RecordFork(w, n, peer[w])
          PROVE  \A v \in Witnesses : Proven(forks'[v], offered)
                                      /\ Proven(forksFile'[v], offered)
      <4> DEFINE f == [size |-> n, peer |-> peer[w]]
      <4>1. Proven(f, offered)
        <5>1. /\ peer[w] \in DOMAIN latest[w]
              /\ n \in Disagree(latest[w][peer[w]], statement[w])
          BY <3>2, Zenon DEF Contradictions
        <5> QED
          BY <5>1, DisagreeProves, Zenon DEF ShownInv
      <4>2. /\ forks' = [forks EXCEPT ![w] = f]
            /\ forksFile' = [forksFile EXCEPT ![w] = f] \/ UNCHANGED forksFile
        BY <3>2, Zenon DEF RecordFork, Saved, SaveFailed
      <4> HIDE DEF f
      <4> QED
        BY <4>1, <4>2, Zenon DEF ShownInv, TypeOK
    <3> QED
      BY <1>6, <3>1, <3>2, Zenon DEF RecordAttestation
  <2> QED
    BY <2>1, <2>3, <2>4, <2>5, SMTT(30) DEF ShownInv
<1>7. ASSUME NEW w \in Witnesses, CompareDisagrees(w) PROVE ShownInv'
  <2>1. PICK n \in Disagree(seen[w], statement[w]) :
          RecordFork(w, n, peer[w])
    BY <1>7, SMTT(30) DEF CompareDisagrees
  <2> DEFINE f == [size |-> n, peer |-> peer[w]]
  <2>2. Proven(f, offered)
    BY DisagreeProves, Zenon DEF ShownInv
  <2>3. /\ forks' = [forks EXCEPT ![w] = f]
        /\ forksFile' = [forksFile EXCEPT ![w] = f] \/ UNCHANGED forksFile
        /\ UNCHANGED <<seen, seenFile, statement, latest, latestFile, offered>>
    BY <1>7, <2>1, Zenon DEF CompareDisagrees, RecordFork, Saved, SaveFailed, history
  <2> HIDE DEF f
  <2> QED
    BY <2>2, <2>3, SMTT(30) DEF ShownInv, TypeOK
<1>8. ASSUME NEW w \in Witnesses,
             CompareAgrees(w) \/ Alert(w) \/ RecordCrossAttestation(w)
      PROVE  ShownInv'
  <2>1. /\ UNCHANGED <<seen, forks, latest, seenFile, forksFile, latestFile,
                       offered>>
        /\ \/ UNCHANGED statement
           \/ statement' = [statement EXCEPT ![w] = EmptySpace]
    BY <1>8, Zenon DEF CompareAgrees, Alert, RecordCrossAttestation, EndExchange,
                memory, files, history
  <2>2. Shown(EmptySpace, offered)
    BY DEF Shown, EmptySpace
  <2> QED
    BY <2>1, <2>2, Zenon DEF ShownInv, TypeOK
<1>12. ASSUME NEW w \in Witnesses, IssueCrossAttestation(w) PROVE ShownInv'
  <2> DEFINE overlap == {n \in DOMAIN seen[w] \cap DOMAIN statement[w] :
                           seen[w][n] = statement[w][n]}
  <2>1. /\ UNCHANGED <<seen, forks, latest, seenFile, forksFile, latestFile,
                       offered>>
        /\ \/ statement' = [statement EXCEPT ![w] = EmptySpace]
           \/ statement' = [statement EXCEPT ![w] =
                              [n \in overlap |-> seen[w][n]]]
    BY <1>12, Zenon DEF IssueCrossAttestation, EndExchange, memory, files, history
  <2>2. Shown(EmptySpace, offered)
    BY DEF Shown, EmptySpace
  <2>3. Shown([n \in overlap |-> seen[w][n]], offered)
    BY Zenon DEF Shown, ShownInv
  <2> HIDE DEF overlap
  <2> QED
    BY <2>1, <2>2, <2>3, Zenon DEF ShownInv, TypeOK
<1>9. ASSUME NEW w \in Witnesses, ClearFork(w) PROVE ShownInv'
  <2>1. Proven(NoFork, offered)
    BY Zenon DEF Proven
  <2> QED
    BY <1>9, <2>1, Zenon DEF ClearFork, Saved, SaveFailed, ShownInv, TypeOK, gossip,
                      history
<1>10. ASSUME NEW w \in Witnesses, Crash(w) PROVE ShownInv'
  <2>1. Shown(EmptySpace, offered)
    BY DEF Shown, EmptySpace
  <2> QED
    BY <1>10, <2>1, SMTT(30)
       DEF Crash, EndExchange, ShownInv, TypeOK, files, history
<1>11. CASE UNCHANGED vars
  BY <1>11, Zenon DEF ShownInv, vars, memory, files, gossip, history
<1>13. ASSUME NEW w \in Witnesses PROVE Shows[w] \subseteq Roots
  BY WitnessAssumption
<1> QED
  BY <1>1, <1>2, <1>3, <1>4, <1>5, <1>6, <1>7, <1>8, <1>9, <1>10, <1>11,
     <1>12, <1>13, Zenon
     DEF Next, Cosign, GossipStep

\* A witness flags an operator only for a fork the operator signed, however old
\* the statement it compares with is (CompareWithPeer, recordForkLocked).
THEOREM ForkCorrect == Spec => []NoFalseFork
<1>1. ShownInv => NoFalseFork
  BY Zenon DEF ShownInv, Proven, NoFalseFork
<1> QED
  BY AlwaysTyped, ShownInit, ShownNext, <1>1, PTL DEF Spec

-----------------------------------------------------------------------------
(* What a witness confirms                                                 *)

\* The overlap that is about to be recorded is in the seen map in memory.  As
\* long as no save failed, file and memory differ only while a Cosign call is
\* about to save, and what was confirmed is in the file: the overlap was read
\* without the mutex, but it is recorded under it, so its roots are saved.
ConfirmInv ==
    \A w \in Witnesses :
        /\ round[w] = "confirm" =>
             \A n \in DOMAIN statement[w] :
                 Holds(seen[w], <<n, statement[w][n]>>)
        /\ faults = 0 =>
             /\ pc[w] # "saveSeen" => seenFile[w] = seen[w]
             /\ \A c \in crossAtts[w] \cup crossFile[w] : Holds(seenFile[w], c)

\* At first nothing was seen and nothing confirmed.
LEMMA ConfirmInit == Init => ConfirmInv
BY Zenon DEF Init, ConfirmInv

\* A map that extends another one holds what that one holds.
LEMMA ExtendsHolds ==
    ASSUME NEW s, NEW t, Extends(t, s), NEW c, Holds(s, c)
    PROVE  Holds(t, c)
BY Zenon DEF Extends, Holds

\* No step confirms a root that is not in the file, and none removes a root from
\* the file.
LEMMA ConfirmNext ==
    Typed /\ SeenInv /\ ConfirmInv /\ [Next]_vars => ConfirmInv'
<1> SUFFICES ASSUME Typed, SeenInv, ConfirmInv, [Next]_vars PROVE ConfirmInv'
  BY Zenon
<1> USE DEF Typed
<1>0. ASSUME faults' = 0, faults' = faults \/ faults' = faults + 1
      PROVE  faults = 0
  BY <1>0 DEF TypeOK
<1>1. CASE UNCHANGED <<seen, seenFile, cross, pc, round, statement, faults>>
  BY <1>1, Zenon DEF ConfirmInv, cross
<1>2. ASSUME NEW w \in Witnesses, NEW n \in Sizes, NEW r \in Roots,
             CosignFork(w, n, r)
      PROVE  ConfirmInv'
  <2>1. /\ UNCHANGED <<seen, seenFile, crossAtts, crossFile, pc, round, statement>>
        /\ faults' = faults \/ faults' = faults + 1
    BY <1>2, Zenon DEF CosignFork, RecordFork, Saved, SaveFailed, cross, cosign,
                gossip
  <2> QED
    BY <1>0, <2>1, Zenon DEF ConfirmInv
<1>3. ASSUME NEW w \in Witnesses, NEW n \in Sizes, NEW r \in Roots,
             CosignRecord(w, n, r)
      PROVE  ConfirmInv'
  <2>1. /\ seen' = [seen EXCEPT ![w] = Put(@, n, r)]
        /\ pc' = [pc EXCEPT ![w] = "saveSeen"]
        /\ UNCHANGED <<seenFile, crossAtts, crossFile, round, statement, faults>>
        /\ n \in DOMAIN seen[w] => seen[w][n] = r
    BY <1>3, Zenon DEF CosignRecord, Contradicts, files, gossip, bounds
  <2>2. Extends(Put(seen[w], n, r), seen[w])
    BY <2>1, Zenon DEF Extends, Put
  <2>3. ASSUME NEW v \in Witnesses, round[v] = "confirm",
               NEW m \in DOMAIN statement[v]
        PROVE  Holds(seen'[v], <<m, statement[v][m]>>)
    <3>1. Holds(seen[v], <<m, statement[v][m]>>)
      BY <2>3, Zenon DEF ConfirmInv
    <3>2. seen'[v] = IF v = w THEN Put(seen[w], n, r) ELSE seen[v]
      BY <2>1, Zenon DEF TypeOK
    <3> QED
      BY <2>2, <3>1, <3>2, ExtendsHolds
  <2>4. ASSUME NEW v \in Witnesses, pc'[v] # "saveSeen"
        PROVE  pc[v] # "saveSeen" /\ seen'[v] = seen[v]
    BY <2>1, <2>4, Zenon DEF TypeOK
  <2> QED
    BY <2>1, <2>3, <2>4, Zenon DEF ConfirmInv
<1>4. ASSUME NEW w \in Witnesses, SaveSeen(w) PROVE ConfirmInv'
  <2>1. UNCHANGED <<seen, crossAtts, crossFile, round, statement>>
    BY <1>4, Zenon DEF SaveSeen, memory, gossip
  <2>2. CASE Saved(seenFile, w, seen[w])
    <3>1. /\ seenFile' = [seenFile EXCEPT ![w] = seen[w]]
          /\ UNCHANGED faults
      BY <2>2 DEF Saved
    <3>2. \A v \in Witnesses : v # w => pc'[v] = pc[v]
      BY <1>4, Zenon DEF SaveSeen, Unlock, TypeOK
    <3>3. ASSUME NEW v \in Witnesses
          PROVE  Extends(seenFile'[v], seenFile[v])
      BY <3>1, Zenon DEF Extends, SeenInv, TypeOK
    <3>4. ASSUME NEW v \in Witnesses, faults = 0,
                 NEW c \in crossAtts[v] \cup crossFile[v]
          PROVE  Holds(seenFile'[v], c)
      BY <3>3, <3>4, ExtendsHolds, Zenon DEF ConfirmInv
    <3>5. ASSUME NEW v \in Witnesses, faults = 0, pc'[v] # "saveSeen"
          PROVE  seenFile'[v] = seen[v]
      BY <3>1, <3>2, <3>5, Zenon DEF ConfirmInv, TypeOK
    <3> QED
      BY <2>1, <3>1, <3>4, <3>5, Zenon DEF ConfirmInv
  <2>3. CASE SaveFailed(seenFile)
    <3>1. faults' # 0
      BY <2>3 DEF SaveFailed, TypeOK
    <3> QED
      BY <2>1, <3>1, Zenon DEF ConfirmInv
  <2> QED
    BY <1>4, <2>2, <2>3, Zenon DEF SaveSeen
<1>5. ASSUME NEW w \in Witnesses, SaveCheckpoints(w) \/ SignCheckpoint(w)
      PROVE  ConfirmInv'
  <2>1. /\ UNCHANGED <<seen, seenFile, crossAtts, crossFile, round, statement>>
        /\ faults' = faults \/ faults' = faults + 1
        /\ \A v \in Witnesses : pc'[v] = pc[v] \/ pc[v] # "saveSeen"
    BY <1>5 DEF SaveCheckpoints, SignCheckpoint, Saved, SaveFailed, Unlock,
                memory, files, gossip, bounds, TypeOK
  <2> QED
    BY <1>0, <2>1, Zenon DEF ConfirmInv
<1>6. ASSUME NEW w \in Witnesses, NEW p \in Witnesses, FetchSignedSeen(w, p)
      PROVE  ConfirmInv'
  <2>1. /\ UNCHANGED <<seen, seenFile, crossAtts, crossFile, pc, faults>>
        /\ \A v \in Witnesses :
             round'[v] = "confirm" =>
                 round[v] = "confirm" /\ statement'[v] = statement[v]
    BY <1>6, Zenon DEF FetchSignedSeen, Goto, memory, files, cosign, bounds, TypeOK
  <2> QED
    BY <2>1, Zenon DEF ConfirmInv
<1>7. ASSUME NEW w \in Witnesses,
             \/ RecordAttestation(w) \/ CompareAgrees(w)
             \/ CompareDisagrees(w) \/ Alert(w)
      PROVE  ConfirmInv'
  <2>1. UNCHANGED <<seen, seenFile, crossAtts, crossFile, pc>>
    BY <1>7, Zenon DEF RecordAttestation, CompareAgrees, CompareDisagrees, Alert,
                memory, files, cosign, cross
  <2>2. faults' = faults \/ faults' = faults + 1
    BY <1>7, Zenon DEF RecordAttestation, RecordFork, CompareAgrees, CompareDisagrees,
                Alert, Saved, SaveFailed, bounds
  <2>3. \A v \in Witnesses :
          round'[v] = "confirm" =>
              round[v] = "confirm" /\ statement'[v] = statement[v]
    BY <1>7 DEF RecordAttestation, CompareAgrees, CompareDisagrees, Alert,
                EndExchange, Goto, TypeOK
  <2> QED
    BY <1>0, <2>1, <2>2, <2>3, Zenon DEF ConfirmInv
<1>8. ASSUME NEW w \in Witnesses, IssueCrossAttestation(w) PROVE ConfirmInv'
  <2> DEFINE overlap == {n \in DOMAIN seen[w] \cap DOMAIN statement[w] :
                           seen[w][n] = statement[w][n]}
             view == [n \in overlap |-> seen[w][n]]
  <2>1. UNCHANGED <<seen, seenFile, crossAtts, crossFile, pc, faults>>
    BY <1>8, Zenon DEF IssueCrossAttestation, memory, files, cosign, bounds
  <2>2. \A n \in DOMAIN view : Holds(seen[w], <<n, view[n]>>)
    BY Zenon DEF Holds
  <2>3. \/ EndExchange(w)
        \/ /\ statement' = [statement EXCEPT ![w] = view]
           /\ Goto(w, "confirm")
    BY <1>8, Zenon DEF IssueCrossAttestation
  <2> HIDE DEF view
  <2>4. \A v \in Witnesses : round'[v] = "confirm" =>
          \A n \in DOMAIN statement'[v] :
              Holds(seen[v], <<n, statement'[v][n]>>)
    <3>1. CASE EndExchange(w)
      BY <3>1, Zenon DEF EndExchange, Goto, TypeOK, ConfirmInv
    <3>2. CASE /\ statement' = [statement EXCEPT ![w] = view]
               /\ Goto(w, "confirm")
      BY <2>2, <3>2, Zenon DEF Goto, TypeOK, ConfirmInv
    <3> QED
      BY <2>3, <3>1, <3>2, Zenon
  <2> QED
    BY <2>1, <2>4, Zenon DEF ConfirmInv
<1>9. ASSUME NEW w \in Witnesses, RecordCrossAttestation(w) PROVE ConfirmInv'
  <2>1. /\ UNCHANGED <<seen, seenFile, pc>>
        /\ crossAtts' = [crossAtts EXCEPT ![w] = Confirmed(w)]
        /\ \/ crossFile' = [crossFile EXCEPT ![w] = Confirmed(w)]
           \/ UNCHANGED crossFile
        /\ faults' = faults \/ faults' = faults + 1
        /\ EndExchange(w)
        /\ round[w] = "confirm" /\ pc[w] = "free"
    BY <1>9, Zenon DEF RecordCrossAttestation, Saved, SaveFailed, MuFree, cosign
  <2>2. \A v \in Witnesses :
          round'[v] = "confirm" =>
              round[v] = "confirm" /\ statement'[v] = statement[v]
    BY <2>1, Zenon DEF EndExchange, Goto, TypeOK
  <2>3. ASSUME faults = 0
        PROVE  \A c \in Confirmed(w) : Holds(seenFile[w], c)
    <3>1. seenFile[w] = seen[w]
      BY <2>1, <2>3, Zenon DEF ConfirmInv
    <3>2. \A n \in DOMAIN statement[w] :
            Holds(seen[w], <<n, statement[w][n]>>)
      BY <2>1, Zenon DEF ConfirmInv
    <3>3. \A c \in crossAtts[w] : Holds(seenFile[w], c)
      BY <2>3, Zenon DEF ConfirmInv
    <3> QED
      BY <3>1, <3>2, <3>3, Zenon DEF Confirmed
  <2>4. ASSUME faults = 0, NEW v \in Witnesses
        PROVE  \A c \in crossAtts'[v] \cup crossFile'[v] :
                   Holds(seenFile[v], c)
    BY <2>1, <2>3, <2>4 DEF ConfirmInv, TypeOK
  <2> QED
    BY <1>0, <2>1, <2>2, <2>4, Zenon DEF ConfirmInv
<1>10. ASSUME NEW w \in Witnesses, ClearFork(w) PROVE ConfirmInv'
  <2>1. /\ UNCHANGED <<seen, seenFile, crossAtts, crossFile, pc, round, statement>>
        /\ faults' = faults \/ faults' = faults + 1
    BY <1>10, Zenon DEF ClearFork, Saved, SaveFailed, cross, cosign, gossip
  <2> QED
    BY <1>0, <2>1, Zenon DEF ConfirmInv
<1>11. ASSUME NEW w \in Witnesses, Crash(w) PROVE ConfirmInv'
  <2>1. /\ seen' = [seen EXCEPT ![w] = seenFile[w]]
        /\ crossAtts' = [crossAtts EXCEPT ![w] = crossFile[w]]
        /\ UNCHANGED <<seenFile, crossFile, faults>>
        /\ Unlock(w) /\ EndExchange(w)
    BY <1>11, Zenon DEF Crash, files
  <2>2. \A v \in Witnesses : round'[v] = "confirm" =>
          /\ round[v] = "confirm" /\ statement'[v] = statement[v]
          /\ seen'[v] = seen[v]
    BY <2>1, Zenon DEF EndExchange, Goto, TypeOK
  <2>3. ASSUME faults = 0, NEW v \in Witnesses
        PROVE  /\ pc'[v] # "saveSeen" => seenFile[v] = seen'[v]
               /\ \A c \in crossAtts'[v] \cup crossFile[v] :
                    Holds(seenFile[v], c)
    BY <2>1, <2>3, Zenon DEF Unlock, ConfirmInv, TypeOK
  <2> QED
    BY <2>1, <2>2, <2>3, Zenon DEF ConfirmInv
<1>12. ASSUME NEW w \in Witnesses PROVE Shows[w] \subseteq Roots
  BY WitnessAssumption, Zenon
<1>13. ASSUME NEW w \in Witnesses, NEW n \in Sizes, NEW r \in Roots,
              CosignRefused(w, n, r)
       PROVE  UNCHANGED <<seen, seenFile, cross, pc, round, statement, faults>>
  BY <1>13, Zenon DEF CosignRefused, memory, files, cosign, gossip, bounds, cross
<1>14. CASE UNCHANGED vars
  BY <1>1, <1>14, Zenon DEF vars, memory, files, cosign, gossip, bounds, cross
<1> QED
  BY <1>1, <1>2, <1>3, <1>4, <1>5, <1>6, <1>7, <1>8, <1>9, <1>10, <1>11,
     <1>12, <1>13, <1>14
     DEF Next, Cosign, GossipStep

\* As long as its saves succeed, a witness confirms only roots that its own seen
\* map holds and keeps holding, however gossip, Cosign and crashes interleave
\* (issueCrossAttestation, recordCrossAttestationLocked).
THEOREM ConfirmCorrect == Spec => []ConfirmsWhatItSaw
<1>1. SeenInv /\ ConfirmInv => ConfirmsWhatItSaw
  <2> SUFFICES ASSUME SeenInv, ConfirmInv, faults = 0, NEW w \in Witnesses,
                      NEW c \in crossAtts[w]
               PROVE  Holds(seen[w], c)
    BY Zenon DEF ConfirmsWhatItSaw, Holds
  <2>1. Holds(seenFile[w], c)
    BY Zenon DEF ConfirmInv
  <2> QED
    BY <2>1, ExtendsHolds, Zenon DEF SeenInv
<1> QED
  BY AlwaysTyped, SeenInit, SeenNext, ConfirmInit, ConfirmNext, <1>1, PTL
     DEF Spec

-----------------------------------------------------------------------------
(* The witnesses implement Cosigner                                        *)

\* A map has one root per size.
LEMMA PairsOneRoot == \A s : Promise!OneRoot(Pairs(s))
<1> SUFFICES ASSUME NEW s, NEW c \in Pairs(s), NEW d \in Pairs(s), c[1] = d[1]
             PROVE  c = d
  BY Zenon DEF Promise!OneRoot
<1>1. PICK n \in DOMAIN s : c = <<n, s[n]>>
  BY Zenon DEF Pairs
<1>2. PICK m \in DOMAIN s : d = <<m, s[m]>>
  BY Zenon DEF Pairs
<1>3. n = m
  BY <1>1, <1>2
<1> QED
  BY <1>1, <1>2, <1>3, Zenon

\* A map that has what another one has, and nothing but signed roots, has its
\* checkpoints and more that the operator signed.
LEMMA PairsGrow ==
    ASSUME NEW s, NEW t, NEW o, Extends(t, s), Shown(t, o)
    PROVE  Pairs(t) \subseteq o /\ Pairs(t) = Pairs(s) \cup Pairs(t)
BY Zenon DEF Pairs, Extends, Shown

\* A fresh cohort has nothing on record.
LEMMA CosignerInit == Init => Promise!Init
<1> SUFFICES ASSUME Init PROVE Promise!Init
  OBVIOUS
<1>1. Pairs(EmptySpace) = {}
  BY DEF Pairs, EmptySpace
<1>2. \A w \in Witnesses : Pairs(seenFile[w]) = {}
  BY <1>1 DEF Init
<1> QED
  BY <1>2 DEF Init, Promise!Init

\* Every step of a witness is a step of the cosigners or leaves them alone: a
\* save of the seen map records, and only then is there a signature.
LEMMA CosignerNext ==
    Typed /\ SeenInv /\ ShownInv /\ [Next]_vars
      => [Promise!Next]_(Promise!vars)
<1> SUFFICES ASSUME Typed, SeenInv, ShownInv, [Next]_vars
             PROVE  Promise!Next \/ UNCHANGED Promise!vars
  BY Zenon
<1> DEFINE R == [w \in Witnesses |-> Pairs(seenFile[w])]
<1>1. ASSUME NEW n \in Sizes, NEW r \in Roots,
             offered' = offered \cup {<<n, r>>}, UNCHANGED <<seenFile, signed>>
      PROVE  Promise!Next
  <2>1. Promise!Offer(<<n, r>>)
    BY <1>1, Zenon DEF Promise!Offer
  <2> QED
    BY <2>1, Zenon DEF Promise!Next
<1>2. ASSUME UNCHANGED <<seenFile, signed, offered>>
      PROVE  UNCHANGED Promise!vars
  BY <1>2, Zenon DEF Promise!vars
<1>3. ASSUME NEW w \in Witnesses, NEW n \in Sizes, NEW r \in Shows[w],
             CosignRefused(w, n, r) \/ CosignFork(w, n, r) \/ CosignRecord(w, n, r)
      PROVE  Promise!Next
  <2>1. r \in Roots
    BY WitnessAssumption
  <2>2. offered' = offered \cup {<<n, r>>} /\ UNCHANGED <<seenFile, signed>>
    BY <1>3, Zenon DEF CosignRefused, CosignFork, CosignRecord, files
  <2> QED
    BY <1>1, <2>1, <2>2, Zenon
<1>4. ASSUME NEW w \in Witnesses, SaveSeen(w)
      PROVE  Promise!Next \/ UNCHANGED Promise!vars
  <2>1. UNCHANGED <<signed, offered>>
    BY <1>4, Zenon DEF SaveSeen, history
  <2>2. CASE UNCHANGED seenFile
    BY <1>2, <2>1, <2>2, Zenon
  <2>3. CASE seenFile' = [seenFile EXCEPT ![w] = seen[w]]
    <3>1. /\ Pairs(seen[w]) \subseteq offered
          /\ Pairs(seen[w]) = R[w] \cup Pairs(seen[w])
      BY PairsGrow, Zenon DEF SeenInv, ShownInv
    <3>2. Promise!OneRoot(R[w] \cup Pairs(seen[w]))
      BY <3>1, PairsOneRoot, Zenon
    <3>3. R' = [R EXCEPT ![w] = R[w] \cup Pairs(seen[w])]
      <4>1. \A v \in Witnesses :
              seenFile'[v] = IF v = w THEN seen[w] ELSE seenFile[v]
        BY <2>3, Zenon DEF Typed, TypeOK
      <4>2. \A v \in Witnesses :
              Pairs(seenFile'[v]) = IF v = w THEN R[w] \cup Pairs(seen[w]) ELSE R[v]
        BY <3>1, <4>1, Zenon
      <4>3. R' = [v \in Witnesses |-> Pairs(seenFile'[v])]
        BY DEF Pairs
      <4> HIDE DEF R
      <4>4. R' = [v \in Witnesses |->
                    IF v = w THEN R[w] \cup Pairs(seen[w]) ELSE R[v]]
        BY <4>2, <4>3, Zenon
      <4>5. R \in [Witnesses -> {Pairs(seenFile[v]) : v \in Witnesses}]
        BY DEF R
      <4> QED
        BY <4>4, <4>5, Zenon
    <3>4. Promise!Record(w, Pairs(seen[w]))
      BY <2>1, <3>2, <3>3, Zenon DEF Promise!Record
    <3> QED
      BY <3>1, <3>4, Zenon DEF Promise!Next
  <2> QED
    BY <1>4, <2>2, <2>3, Zenon DEF SaveSeen, Saved, SaveFailed
<1>5. ASSUME NEW w \in Witnesses, SignCheckpoint(w) PROVE Promise!Next
  <2>1. /\ Holds(seenFile[w], request[w]) /\ request[w] \in Sizes \X Roots
        /\ signed' = [signed EXCEPT ![w] = @ \cup {request[w]}]
        /\ UNCHANGED <<seenFile, offered>>
    BY <1>5, Zenon DEF SignCheckpoint, files, SeenInv, Typed, CallInv
  <2>2. request[w] = <<request[w][1], request[w][2]>>
    BY <2>1
  <2>3. request[w] \in Pairs(seenFile[w])
    BY <2>1, <2>2, Zenon DEF Holds, Pairs
  <2>4. request[w] \in R[w]
    BY <2>3, Zenon
  <2>5. Promise!Cosign(w, request[w])
    BY <2>1, <2>4, Zenon DEF Promise!Cosign
  <2> QED
    BY <2>4, <2>5, Zenon DEF Promise!Next
<1>6. ASSUME NEW w \in Witnesses,
             \/ SaveCheckpoints(w) \/ GossipStep(w) \/ ClearFork(w) \/ Crash(w)
             \/ \E p \in Witnesses : FetchSignedSeen(w, p)
      PROVE  UNCHANGED <<seenFile, signed, offered>>
  BY <1>6, Zenon
     DEF SaveCheckpoints, GossipStep, FetchSignedSeen, RecordAttestation,
         CompareAgrees, CompareDisagrees, Alert, IssueCrossAttestation,
         RecordCrossAttestation, ClearFork, Crash, files, history
<1>7. UNCHANGED vars => UNCHANGED <<seenFile, signed, offered>>
  BY Zenon DEF vars, files, history
<1> QED
  BY <1>2, <1>3, <1>4, <1>5, <1>6, <1>7, Zenon DEF Next, Cosign

\* The witnesses implement the cosigners: across any number of crashes, failed
\* saves and cleared forks a witness keeps one root per size on record, takes
\* none back, and cosigns nothing else (Server.Cosign).
THEOREM CosignerRefines == Spec => ImplementsCosigner
BY AlwaysTyped, SeenInit, SeenNext, ShownInit, ShownNext, CosignerInit,
   CosignerNext, PTL DEF Spec, ImplementsCosigner, Promise!Spec

\* What Cosigner promises is enough for those who count cosignatures, however it
\* is implemented: nobody cosigns two roots at one size.
THEOREM CosignerSafe == Promise!Spec => []NoDoubleCosign
<1> DEFINE R == [w \in Witnesses |-> Pairs(seenFile[w])]
           I == /\ DOMAIN signed = Witnesses
                /\ \A w \in Witnesses : /\ Promise!OneRoot(R[w])
                                        /\ signed[w] \subseteq R[w]
<1>1. Promise!Init => I
  <2> SUFFICES ASSUME Promise!Init PROVE I
    OBVIOUS
  <2>1. R = [w \in Witnesses |-> {}] /\ signed = [w \in Witnesses |-> {}]
    BY Zenon DEF Promise!Init
  <2> HIDE DEF R
  <2> QED
    BY <2>1, Zenon DEF Promise!OneRoot
<1>2. I /\ [Promise!Next]_(Promise!vars) => I'
  <2> SUFFICES ASSUME I, [Promise!Next]_(Promise!vars) PROVE I'
    BY Zenon
  <2>1. DOMAIN R = Witnesses
    BY Zenon
  <2> HIDE DEF R
  <2>2. ASSUME R' = R, signed' = signed PROVE I'
    BY <2>2, Zenon DEF Promise!OneRoot
  <2>3. ASSUME NEW c, Promise!Offer(c) PROVE R' = R /\ signed' = signed
    BY <2>3, Zenon DEF Promise!Offer, R
  <2>4. ASSUME NEW w \in Witnesses, NEW batch, Promise!Record(w, batch) PROVE I'
    <3>1. /\ Promise!OneRoot(R[w] \cup batch)
          /\ R' = [R EXCEPT ![w] = R[w] \cup batch] /\ signed' = signed
      BY <2>4, Zenon DEF Promise!Record, R
    <3>2. \A v \in Witnesses : R'[v] = IF v = w THEN R[w] \cup batch ELSE R[v]
      BY <2>1, <3>1, Zenon
    <3>3. ASSUME NEW v \in Witnesses
          PROVE  Promise!OneRoot(R'[v]) /\ signed[v] \subseteq R'[v]
      <4>1. CASE v = w
        <5>1. R'[v] = R[w] \cup batch
          BY <3>2, <4>1, Zenon
        <5>2. signed[v] \subseteq R[w]
          BY <4>1, Zenon
        <5> QED
          BY <3>1, <5>1, <5>2, Zenon
      <4>2. CASE v # w
        BY <3>2, <4>2, Zenon
      <4> QED
        BY <4>1, <4>2, Zenon
    <3> QED
      BY <3>1, <3>3, Zenon DEF Promise!OneRoot
  <2>5. ASSUME NEW w \in Witnesses, NEW c \in R[w], Promise!Cosign(w, c) PROVE I'
    <3>1. R' = R /\ signed' = [signed EXCEPT ![w] = signed[w] \cup {c}]
      BY <2>5, Zenon DEF Promise!Cosign, R
    <3> QED
      BY <2>5, <3>1, Zenon DEF Promise!OneRoot
  <2>6. UNCHANGED Promise!vars => R' = R /\ signed' = signed
    BY Zenon DEF Promise!vars, R
  <2> QED
    BY <2>2, <2>3, <2>4, <2>5, <2>6, Zenon DEF Promise!Next, R
<1>3. I => NoDoubleCosign
  BY Zenon DEF NoDoubleCosign, Promise!OneRoot
<1> HIDE DEF I
<1> QED
  BY <1>1, <1>2, <1>3, PTL DEF Promise!Spec

-----------------------------------------------------------------------------
(* The journal that opens is the journal that was written                  *)

\* A sequence, of whatever it holds.
IsSequence(f) == f \in Seq({f[i] : i \in DOMAIN f})

\* A line is a record of the journal.
IsALine(l) ==
    l = [index |-> l.index, prev |-> l.prev, id |-> l.id, text |-> l.text,
    hash |-> l.hash]

JournalType ==
    /\ IsSequence(jFile)
    /\ \A i \in DOMAIN jFile : IsALine(jFile[i])
    /\ jUp \in BOOLEAN /\ jTampered \in BOOLEAN
    /\ jSize \in Nat /\ jSerial \in 0 .. MaxEvents /\ jFaults \in Nat
    /\ jPc \in [JournalThreads -> {"idle", "served", "written"}]
    /\ jEvent \in [JournalThreads -> [id: 0 .. MaxEvents, text: {"utf8", "bytes"}]]

\* The lines have ids of their own, and those of what was recorded are there.
LinesInv ==
    /\ \A i \in DOMAIN jFile : jFile[i] # Journals!Torn => jFile[i].id \in 1 .. jSerial
    /\ \A i, j \in DOMAIN jFile :
         jFile[i] # Journals!Torn /\ jFile[j] # Journals!Torn
         /\ jFile[i].id = jFile[j].id => i = j
    /\ \A id \in jRecorded : \E i \in DOMAIN jFile : jFile[i] # Journals!Torn
          /\ jFile[i].id = id

\* No two handlers have the same event.
HandlersInv ==
    /\ \A t \in JournalThreads : jPc[t] # "idle" => jEvent[t].id \in 1 .. jSerial
    /\ \A t, u \in JournalThreads :
         jPc[t] # "idle" /\ jPc[u] # "idle" /\ jEvent[t].id = jEvent[u].id => t = u

\* What a handler has yet to write is not in the file, and what it has written
\* is the file's last line.
PlacesInv ==
    /\ \A t \in JournalThreads : jPc[t] = "served" =>
         \A i \in DOMAIN jFile : jFile[i] # Journals!Torn => jFile[i].id # jEvent[t].id
    /\ \A t \in JournalThreads : jPc[t] = "written" =>
         jFile # <<>> /\ jFile[Len(jFile)] # Journals!Torn
         /\ jFile[Len(jFile)].id = jEvent[t].id

\* An event is written once.
OnceInv == LinesInv /\ HandlersInv /\ PlacesInv

LastHash(f) == IF f = <<>> THEN Journals!ZeroHash ELSE f[Len(f)].hash

\* While no write fails the file is a chain, and the memory of an open journal
\* is at its end, or one line before it while that line is being written.
ChainInv ==
    /\ \A i \in DOMAIN jFile :
         /\ jFile[i] # Journals!Torn
         /\ jFile[i].text = "utf8" => Journals!Verify(jFile[i])
         /\ jFile[i].index = i - 1
         /\ jFile[i].prev = IF i = 1 THEN Journals!ZeroHash ELSE jFile[i - 1].hash
    /\ jUp =>
          \/ /\ \A t \in JournalThreads : jPc[t] # "written"
             /\ jSize = Len(jFile) /\ jPrev = LastHash(jFile)
          \/ /\ \E t \in JournalThreads : jPc[t] = "written"
             /\ jSize = Len(jFile) - 1

JournalInv ==
    /\ JournalType
    /\ ~jUp => \A t \in JournalThreads : jPc[t] = "idle"
    /\ \A t, u \in JournalThreads : jPc[t] = "written" /\ jPc[u] = "written" => t = u
    /\ jTampered => ~jUp /\ ~Journals!ReplayAccepts
    /\ ~jTampered => OnceInv
    /\ ~jTampered /\ jFaults = 0 => ChainInv

\* The first state satisfies the invariant.
LEMMA JournalInit == Journals!Init => JournalInv
<1> SUFFICES ASSUME Journals!Init PROVE JournalInv
  OBVIOUS
<1> USE DEF Journals!Init
<1>1. IsSequence(jFile)
  BY DEF IsSequence
<1>2. JournalType
  <2>1. jEvent \in [JournalThreads -> [id: 0 .. MaxEvents, text: {"utf8", "bytes"}]]
    BY JournalAssumption DEF Journals!NoEvent
  <2>2. jPc \in [JournalThreads -> {"idle", "served", "written"}]
    OBVIOUS
  <2>3. \A i \in DOMAIN jFile : IsALine(jFile[i])
    OBVIOUS
  <2>4. jUp \in BOOLEAN /\ jTampered \in BOOLEAN
    BY Zenon
  <2>5. jSize \in Nat /\ jSerial \in 0 .. MaxEvents /\ jFaults \in Nat
    BY JournalAssumption
  <2> QED
    BY <1>1, <2>1, <2>2, <2>3, <2>4, <2>5, Zenon DEF JournalType
<1>3. OnceInv
  BY DEF OnceInv, LinesInv, HandlersInv, PlacesInv
<1>4. ChainInv
  BY DEF ChainInv, LastHash
<1> QED
  BY <1>2, <1>3, <1>4, Zenon DEF JournalInv

\* What an append does to a file.
LEMMA AppendedFacts ==
  ASSUME NEW f, IsSequence(f), NEW x
  PROVE  /\ IsSequence(Append(f, x))
         /\ DOMAIN f = 1 .. Len(f) /\ Len(f) \in Nat
         /\ Len(Append(f, x)) = Len(f) + 1
         /\ DOMAIN Append(f, x) = 1 .. (Len(f) + 1)
         /\ Append(f, x)[Len(f) + 1] = x
         /\ \A i \in 1 .. Len(f) : Append(f, x)[i] = f[i]
         /\ Append(f, x) # <<>>
<1> DEFINE S == {f[i] : i \in DOMAIN f}
           g == Append(f, x)
<1>1. f \in Seq(S)
  BY DEF IsSequence
<1>2. f \in Seq(S \cup {x})
  BY <1>1
<1>3. /\ g \in Seq(S \cup {x}) /\ Len(g) = Len(f) + 1
      /\ DOMAIN f = 1 .. Len(f) /\ Len(f) \in Nat
      /\ DOMAIN g = 1 .. (Len(f) + 1)
      /\ g[Len(f) + 1] = x
      /\ \A i \in 1 .. Len(f) : g[i] = f[i]
  BY <1>2
<1>4. S \cup {x} = {g[i] : i \in DOMAIN g}
  BY <1>3
<1>5. g # <<>>
  BY <1>3
<1> HIDE DEF g
<1> QED
  BY <1>3, <1>4, <1>5, Zenon DEF IsSequence, g

\* A line that is written is an event's, and not torn.
LEMMA LineFacts ==
  ASSUME JournalType, NEW t \in JournalThreads
  PROVE  LET l == Journals!Line(jEvent[t]) IN
         /\ IsALine(l) /\ l # Journals!Torn
         /\ l.index = jSize /\ l.prev = jPrev /\ l.id = jEvent[t].id
         /\ l.text = "utf8" => Journals!Verify(l)
<1> DEFINE l == Journals!Line(jEvent[t])
<1>1. jEvent[t] \in [id: 0 .. MaxEvents, text: {"utf8", "bytes"}]
  BY Zenon DEF JournalType
<1>2. /\ l.index = jSize /\ l.prev = jPrev /\ l.id = jEvent[t].id
      /\ l.text = Journals!Marshal(jEvent[t].text)
      /\ l.hash = Journals!EventHash(jSize, jPrev, jEvent[t])
      /\ IsALine(l)
  BY Zenon DEF Journals!Line, IsALine
<1>3. l # Journals!Torn
  BY <1>2 DEF Journals!Torn, JournalType
<1>4. ASSUME l.text = "utf8" PROVE Journals!Verify(l)
  <2>1. jEvent[t].text = "utf8"
    BY <1>1, <1>2, <1>4, Zenon DEF Journals!Marshal
  <2>2. jEvent[t] = [id |-> l.id, text |-> l.text]
    BY <1>1, <1>2, <1>4, <2>1, Zenon
  <2> QED
    BY <1>2, <2>2, Zenon DEF Journals!Verify
<1> QED
  BY <1>2, <1>3, <1>4, Zenon

\* What a concatenation holds.
LEMMA ConcatFacts ==
  ASSUME NEW S, NEW s \in Seq(S), NEW t \in Seq(S)
  PROVE  /\ s \o t \in Seq(S) /\ Len(s \o t) = Len(s) + Len(t)
         /\ \A i \in 1 .. (Len(s) + Len(t)) :
               (s \o t)[i] = IF i <= Len(s) THEN s[i] ELSE t[i - Len(s)]
  OBVIOUS

\* What is left of a file when line i, not the last, is removed.
LEMMA RemoveFacts ==
  ASSUME NEW f, IsSequence(f), NEW i \in 1 .. Len(f), i < Len(f)
  PROVE  LET g == SubSeq(f, 1, i - 1) \o SubSeq(f, i + 1, Len(f)) IN
         /\ IsSequence(g)
         /\ DOMAIN g = 1 .. (Len(f) - 1)
         /\ \A j \in 1 .. (Len(f) - 1) : g[j] = IF j < i THEN f[j] ELSE f[j + 1]
<1> DEFINE S == {f[j] : j \in DOMAIN f}
           a == SubSeq(f, 1, i - 1)
           b == SubSeq(f, i + 1, Len(f))
           g == a \o b
           T == {g[j] : j \in DOMAIN g}
<1>0. f \in Seq(S) /\ Len(f) \in Nat /\ \A j \in 1 .. Len(f) : f[j] \in S
  BY DEF IsSequence
<1> HIDE DEF S
<1>1. /\ a \in Seq(S) /\ Len(a) = i - 1
      /\ \A j \in 1 .. (i - 1) : a[j] = f[j]
  <2>1. \A j \in 1 .. (i - 1) : f[j] \in S
    BY <1>0
  <2>2. /\ a \in Seq(S)
        /\ Len(a) = IF 1 <= i - 1 THEN (i - 1) - 1 + 1 ELSE 0
        /\ \A j \in 1 .. ((i - 1) - 1 + 1) : a[j] = f[1 + j - 1]
    <3> HIDE DEF a
    <3>1. 1 \in Int /\ i - 1 \in Int
      OBVIOUS
    <3> QED
      BY <2>1, <3>1 DEF a
  <2> HIDE DEF a
  <2>3. \A j \in 1 .. (i - 1) : 1 + j - 1 = j
    OBVIOUS
  <2> QED
    BY <2>2, <2>3
<1>2. /\ b \in Seq(S) /\ Len(b) = Len(f) - i
      /\ \A j \in 1 .. (Len(f) - i) : b[j] = f[i + j]
  <2>1. \A j \in (i + 1) .. Len(f) : f[j] \in S
    BY <1>0
  <2>2. /\ b \in Seq(S)
        /\ Len(b) = IF i + 1 <= Len(f) THEN Len(f) - (i + 1) + 1 ELSE 0
        /\ \A j \in 1 .. (Len(f) - (i + 1) + 1) : b[j] = f[(i + 1) + j - 1]
    <3>1. i + 1 \in Int /\ Len(f) \in Int
      BY <1>0
    <3> QED
      BY <2>1, <3>1
  <2> HIDE DEF b
  <2>3. \A j \in 1 .. (Len(f) - i) : (i + 1) + j - 1 = i + j
    BY <1>0
  <2> QED
    BY <1>0, <2>2, <2>3
<1> HIDE DEF a, b
<1>3. /\ g \in Seq(S) /\ Len(g) = Len(a) + Len(b)
      /\ \A j \in 1 .. (Len(a) + Len(b)) :
            g[j] = IF j <= Len(a) THEN a[j] ELSE b[j - Len(a)]
  BY <1>1, <1>2, ConcatFacts, Zenon
<1> HIDE DEF g
<1>4. DOMAIN g = 1 .. (Len(f) - 1)
  BY <1>0, <1>1, <1>2, <1>3
<1>5. ASSUME NEW j \in 1 .. (Len(f) - 1)
      PROVE  g[j] = IF j < i THEN f[j] ELSE f[j + 1]
  <2>1. CASE j < i
    <3>1. j \in 1 .. (Len(a) + Len(b)) /\ j <= Len(a) /\ j \in 1 .. (i - 1)
      BY <1>0, <1>1, <1>2, <2>1
    <3>2. g[j] = a[j]
      BY <1>3, <3>1, Zenon
    <3> QED
      BY <1>1, <2>1, <3>1, <3>2, Zenon
  <2>2. CASE ~(j < i)
    <3>1. j - Len(a) \in 1 .. (Len(f) - i) /\ i + (j - Len(a)) = j + 1
      BY <1>0, <1>1, <2>2
    <3>2. j \in 1 .. (Len(a) + Len(b)) /\ ~(j <= Len(a))
      BY <1>0, <1>1, <1>2, <2>2
    <3>3. g[j] = b[j - Len(a)]
      BY <1>3, <3>2, Zenon
    <3> QED
      BY <1>2, <2>2, <3>1, <3>3, Zenon
  <2> QED
    BY <2>1, <2>2, Zenon
<1>6. \A j \in DOMAIN g : g[j] \in T
  BY Zenon
<1> HIDE DEF T
<1>7. g \in Seq(T)
  BY <1>3, <1>6
<1> QED
  BY <1>4, <1>5, <1>7, Zenon DEF IsSequence, T, g, a, b

\* A file that was accepted and then edited, or lost a line that is not the
\* last, is not accepted.
LEMMA EditRefused ==
  ASSUME JournalInv, ~jTampered, Journals!ReplayAccepts, NEW i \in DOMAIN jFile,
              Journals!Tamper(i)
  PROVE  ~Journals!ReplayAccepts' /\ IsSequence(jFile')
         /\ \A j \in DOMAIN jFile' : IsALine(jFile'[j])
<1>0. IsSequence(jFile) /\ \A j \in DOMAIN jFile : IsALine(jFile[j])
  BY Zenon DEF JournalInv, JournalType
<1>1. DOMAIN jFile = 1 .. Len(jFile) /\ Len(jFile) \in Nat
  BY <1>0 DEF IsSequence
<1>2. CASE jFile' = [jFile EXCEPT ![i].id = MaxEvents + 1]
  <2> DEFINE l == jFile[i]
             m == [l EXCEPT !.id = MaxEvents + 1]
  <2>1. /\ jFile' = [jFile EXCEPT ![i] = m]
        /\ DOMAIN jFile' = DOMAIN jFile /\ jFile'[i] = m
        /\ \A j \in DOMAIN jFile \ {i} : jFile'[j] = jFile[j]
    BY <1>2
  <2>2. IsALine(l)
    BY <1>0
  <2>3. /\ m = [index |-> l.index, prev |-> l.prev, id |-> MaxEvents + 1, text |-> l.text,
                hash |-> l.hash]
    BY <2>2 DEF IsALine
  <2>4. /\ m.id = MaxEvents + 1 /\ m.hash = l.hash /\ m.index = l.index
        /\ m.prev = l.prev /\ m.text = l.text /\ IsALine(m)
    BY <2>3 DEF IsALine
  <2>5. l # Journals!Torn /\ l.id \in 1 .. jSerial /\ Journals!Verify(l)
    BY Zenon DEF JournalInv, OnceInv, LinesInv, Journals!ReplayAccepts
  <2>6. l.id # MaxEvents + 1
    BY <2>5, JournalAssumption DEF JournalInv, JournalType
  <2>7. ~Journals!Verify(m)
    <3>1. [id |-> l.id, text |-> l.text] # [id |-> m.id, text |-> m.text]
      BY <2>4, <2>6
    <3> QED
      BY <2>4, <2>5, <3>1 DEF Journals!Verify, Journals!EventHash
  <2>8. ~Journals!ReplayAccepts'
    BY <2>1, <2>7, Zenon DEF Journals!ReplayAccepts, Journals!Verify, Journals!EventHash
  <2>9. IsSequence(jFile')
    <3> DEFINE S == {jFile[j] : j \in DOMAIN jFile} \cup {m}
               T == {jFile'[j] : j \in DOMAIN jFile'}
    <3>1. jFile \in Seq(S)
      BY <1>0 DEF IsSequence
    <3>2. jFile' \in Seq(S) /\ DOMAIN jFile' = 1 .. Len(jFile)
      BY <2>1, <1>1, <3>1
    <3>3. \A j \in 1 .. Len(jFile) : jFile'[j] \in T
      BY <3>2, Zenon
    <3>4. jFile' \in Seq(T)
      BY <3>2, <3>3, <1>1
    <3> QED
      BY <3>4 DEF IsSequence
  <2> QED
    BY <1>0, <2>1, <2>4, <2>8, <2>9
<1>3. CASE i < Len(jFile)
           /\ jFile' = SubSeq(jFile, 1, i - 1) \o SubSeq(jFile, i + 1, Len(jFile))
  <2>1. i \in 1 .. Len(jFile) /\ i < Len(jFile)
    BY <1>1, <1>3, Zenon
  <2>2. /\ IsSequence(jFile')
        /\ DOMAIN jFile' = 1 .. (Len(jFile) - 1)
        /\ \A j \in 1 .. (Len(jFile) - 1) :
             jFile'[j] = IF j < i THEN jFile[j] ELSE jFile[j + 1]
    BY <1>0, <1>3, <2>1, RemoveFacts, Zenon
  <2>3. i \in DOMAIN jFile' /\ jFile'[i] = jFile[i + 1] /\ i + 1 \in DOMAIN jFile
    BY <1>1, <2>1, <2>2
  <2>4. jFile'[i].index = i
    BY <2>1, <2>3, <1>1 DEF Journals!ReplayAccepts
  <2>5. ~Journals!ReplayAccepts'
    BY <2>1, <2>3, <2>4 DEF Journals!ReplayAccepts
  <2>6. \A j \in DOMAIN jFile' : IsALine(jFile'[j])
    BY <1>0, <1>1, <2>1, <2>2
  <2> QED
    BY <2>2, <2>5, <2>6, Zenon
<1> QED
  BY <1>2, <1>3, Zenon DEF Journals!Tamper

\* Every step preserves the invariant.
LEMMA JournalNext == JournalInv /\ [Journals!Next]_(Journals!vars) => JournalInv'
<1> SUFFICES ASSUME JournalInv, [Journals!Next]_(Journals!vars) PROVE JournalInv'
  OBVIOUS
<1>0. /\ JournalType
      /\ ~jUp => \A t \in JournalThreads : jPc[t] = "idle"
      /\ \A t, u \in JournalThreads : jPc[t] = "written" /\ jPc[u] = "written" => t = u
      /\ jTampered => ~jUp /\ ~Journals!ReplayAccepts
      /\ ~jTampered => OnceInv
      /\ ~jTampered /\ jFaults = 0 => ChainInv
  BY Zenon DEF JournalInv
<1>f. IsSequence(jFile) /\ DOMAIN jFile = 1 .. Len(jFile) /\ Len(jFile) \in Nat
  BY <1>0 DEF JournalType, IsSequence
<1>1. CASE Journals!Open
  <2>1. JournalType'
    BY <1>0, <1>1, <1>f DEF Journals!Open, JournalType, IsSequence
  <2>2. ~jTampered
    BY <1>0, <1>1, Zenon DEF Journals!Open
  <2>3. OnceInv'
    BY <1>0, <1>1, <2>2 DEF Journals!Open, OnceInv, LinesInv, HandlersInv, PlacesInv
  <2>4. ASSUME jFaults = 0 PROVE ChainInv'
    <3>1. ChainInv /\ \A t \in JournalThreads : jPc'[t] = "idle"
      BY <1>0, <1>1, <2>2, <2>4, Zenon DEF Journals!Open
    <3>2. jSize' = Len(jFile') /\ jPrev' = LastHash(jFile')
      BY <1>1, Zenon DEF Journals!Open, LastHash
    <3> QED
      BY <1>1, <3>1, <3>2, Zenon DEF Journals!Open, ChainInv, Journals!Verify, Journals!EventHash
  <2> QED
    BY <1>0, <1>1, <2>1, <2>2, <2>3, <2>4, Zenon DEF Journals!Open, JournalInv
<1>2. CASE Journals!OpenRefused \/ Journals!Range \/ UNCHANGED Journals!vars
  <2>1. UNCHANGED Journals!vars
    BY <1>2, Zenon DEF Journals!OpenRefused, Journals!Range
  <2>2. JournalType' /\ OnceInv' = OnceInv
        /\ Journals!ReplayAccepts' = Journals!ReplayAccepts
    <3>1. UNCHANGED <<jFile, jUp, jSize, jPrev, jPc, jEvent, jRecorded, jTampered, jSerial,
                      jFaults>>
      BY <2>1, Zenon DEF Journals!vars
    <3>2. JournalType'
      BY <1>0, <3>1 DEF JournalType, IsSequence
    <3>3. OnceInv' = OnceInv
      BY <3>1 DEF OnceInv, LinesInv, HandlersInv, PlacesInv
    <3> QED
      BY <3>1, <3>2, <3>3, Zenon DEF Journals!ReplayAccepts, Journals!Verify
  <2>3. ChainInv' = ChainInv
    BY <2>1, Zenon DEF Journals!vars, ChainInv, LastHash, Journals!Verify
  <2> QED
    BY <2>1, <2>2, <2>3, <1>0, Zenon DEF Journals!vars, JournalInv
<1>3. ASSUME NEW t \in JournalThreads, NEW text \in Texts, Journals!Serve(t, text)
      PROVE  JournalInv'
  <2>0. /\ jUp /\ ~jTampered /\ jPc[t] = "idle" /\ jSerial' = jSerial + 1
        /\ jSerial' \in 1 .. MaxEvents
        /\ jPc' = [jPc EXCEPT ![t] = "served"]
        /\ jEvent' = [jEvent EXCEPT ![t] = [id |-> jSerial', text |-> text]]
        /\ UNCHANGED <<jFile, jUp, jSize, jPrev, jRecorded, jTampered, jFaults>>
    BY <1>0, <1>3, JournalAssumption DEF Journals!Serve, JournalType
  <2>1. /\ jPc'[t] = "served" /\ jEvent'[t].id = jSerial + 1
        /\ \A u \in JournalThreads \ {t} : jPc'[u] = jPc[u] /\ jEvent'[u] = jEvent[u]
    BY <1>0, <2>0, Zenon DEF JournalType
  <2>2. JournalType'
    <3>1. [id |-> jSerial', text |-> text] \in [id: 0 .. MaxEvents, text: {"utf8",
          "bytes"}]
      BY <2>0, JournalAssumption
    <3>2. jEvent' \in [JournalThreads -> [id: 0 .. MaxEvents, text: {"utf8", "bytes"}]]
      BY <1>0, <2>0, <3>1, Zenon DEF JournalType
    <3>3. jPc' \in [JournalThreads -> {"idle", "served", "written"}]
      BY <1>0, <2>0, Zenon DEF JournalType
    <3> QED
      BY <1>0, <2>0, <3>2, <3>3, JournalAssumption DEF JournalType, IsSequence
  <2>3. OnceInv'
    <3>1. /\ jSerial + 1 \in 1 .. jSerial' /\ jSerial + 1 \notin 1 .. jSerial
          /\ \A i \in 1 .. jSerial : i \in 1 .. jSerial'
      <4>1. jSerial \in Nat
        BY <1>0, JournalAssumption DEF JournalType
      <4> QED
        BY <2>0, <4>1
    <3>o. LinesInv /\ HandlersInv /\ PlacesInv
      BY <1>0, <2>0, Zenon DEF OnceInv
    <3>l. LinesInv'
      BY <2>0, <3>1, <3>o, Zenon DEF LinesInv
    <3>h. HandlersInv'
      BY <2>0, <2>1, <3>1, <3>o DEF HandlersInv
    <3>p. PlacesInv'
      BY <2>0, <2>1, <3>1, <3>o DEF LinesInv, PlacesInv
    <3> QED
      BY <3>l, <3>h, <3>p, Zenon DEF OnceInv
  <2>4. jFaults' = 0 => ChainInv'
    BY <1>0, <2>0, <2>1 DEF ChainInv, LastHash, Journals!Verify, Journals!EventHash
  <2> QED
    BY <1>0, <2>0, <2>1, <2>2, <2>3, <2>4 DEF JournalInv
<1>4. ASSUME NEW t \in JournalThreads, Journals!WriteLine(t) PROVE JournalInv'
  <2> DEFINE l == Journals!Line(jEvent[t])
  <2>0. /\ jUp /\ ~jTampered /\ jPc[t] = "served" /\ jFile' = Append(jFile, l)
        /\ jPc' = [jPc EXCEPT ![t] = "written"]
        /\ \A u \in JournalThreads : jPc[u] # "written"
        /\ UNCHANGED <<jUp, jSize, jPrev, jEvent, jRecorded, jTampered, jSerial, jFaults>>
    BY <1>0, <1>4, Zenon DEF Journals!WriteLine, Journals!MuFree
  <2>1. /\ jPc'[t] = "written"
        /\ \A u \in JournalThreads \ {t} : jPc'[u] = jPc[u] /\ jPc'[u] # "written"
        /\ jPc' \in [JournalThreads -> {"idle", "served", "written"}]
    BY <1>0, <2>0, Zenon DEF JournalType
  <2>2. /\ IsALine(l) /\ l # Journals!Torn
        /\ l.index = jSize /\ l.prev = jPrev /\ l.id = jEvent[t].id
        /\ l.text = "utf8" => Journals!Verify(l)
    BY <1>0, LineFacts, Zenon
  <2> HIDE DEF l
  <2>3. /\ IsSequence(jFile')
        /\ Len(jFile') = Len(jFile) + 1
        /\ DOMAIN jFile' = 1 .. (Len(jFile) + 1)
        /\ jFile'[Len(jFile) + 1] = l
        /\ \A i \in 1 .. Len(jFile) : jFile'[i] = jFile[i]
        /\ jFile' # <<>>
    BY <1>f, <2>0, AppendedFacts
  <2>n. /\ \A i \in DOMAIN jFile : i \in DOMAIN jFile' /\ jFile'[i] = jFile[i]
        /\ \A i \in DOMAIN jFile' : i \in DOMAIN jFile \/ i = Len(jFile')
        /\ jFile'[Len(jFile')] = l
    BY <1>f, <2>3
  <2>4. JournalType'
    BY <1>0, <2>0, <2>1, <2>2, <2>3, <2>n, Zenon DEF JournalType
  <2>5. OnceInv'
    <3>o. LinesInv /\ HandlersInv /\ PlacesInv
      BY <1>0, <2>0, Zenon DEF OnceInv
    <3>l. LinesInv'
      BY <2>0, <2>2, <2>n, <3>o DEF LinesInv, HandlersInv, PlacesInv
    <3>h. HandlersInv'
      BY <2>0, <2>1, <3>o DEF HandlersInv
    <3>p. PlacesInv'
      BY <2>0, <2>1, <2>2, <2>3, <2>n, <3>o DEF HandlersInv, PlacesInv
    <3> QED
      BY <3>l, <3>h, <3>p, Zenon DEF OnceInv
  <2>6. ASSUME jFaults' = 0 PROVE ChainInv'
    <3>1. ChainInv /\ jSize = Len(jFile) /\ jPrev = LastHash(jFile)
      BY <1>0, <2>0, <2>6, Zenon DEF ChainInv
    <3>2. ASSUME NEW i \in DOMAIN jFile'
          PROVE  /\ jFile'[i] # Journals!Torn
                 /\ jFile'[i].text = "utf8" => Journals!Verify(jFile'[i])
                 /\ jFile'[i].index = i - 1
                 /\ jFile'[i].prev = IF i = 1 THEN Journals!ZeroHash ELSE jFile'[i - 1].hash
      <4>1. CASE i \in 1 .. Len(jFile)
        <5>1. jFile'[i] = jFile[i] /\ (i # 1 => jFile'[i - 1] = jFile[i - 1])
          BY <1>f, <2>3, <4>1
        <5>2. /\ jFile[i] # Journals!Torn
              /\ (jFile[i].text = "utf8" => Journals!Verify(jFile[i]))
              /\ jFile[i].index = i - 1
              /\ jFile[i].prev = IF i = 1 THEN Journals!ZeroHash ELSE jFile[i - 1].hash
          BY <1>f, <3>1, <4>1, Zenon DEF ChainInv
        <5> QED
          BY <5>1, <5>2, Zenon
      <4>2. CASE i = Len(jFile) + 1
        <5>1. l.prev = IF i = 1 THEN Journals!ZeroHash ELSE jFile[i - 1].hash
          BY <1>f, <2>2, <3>1, <4>2 DEF LastHash, IsSequence
        <5> QED
          BY <1>f, <2>2, <2>3, <3>1, <4>2, <5>1
      <4>3. i \in 1 .. Len(jFile) \/ i = Len(jFile) + 1
        <5>1. \A k \in 1 .. (Len(jFile) + 1) : k \in 1 .. Len(jFile) \/ k = Len(jFile) + 1
          BY <1>f
        <5> QED
          BY <2>3, <5>1, Zenon
      <4> QED
        BY <4>1, <4>2, <4>3, Zenon
    <3>3. jSize' = Len(jFile') - 1 /\ \E u \in JournalThreads : jPc'[u] = "written"
      BY <1>f, <2>0, <2>1, <2>3, <3>1
    <3> QED
      BY <3>2, <3>3, Zenon DEF ChainInv, Journals!Verify, Journals!EventHash
  <2> QED
    BY <1>0, <2>0, <2>1, <2>4, <2>5, <2>6, Zenon DEF JournalInv
<1>5. ASSUME NEW t \in JournalThreads, Journals!WriteFails(t) PROVE JournalInv'
  <2>0. /\ jUp /\ ~jTampered /\ jPc[t] = "served" /\ jFaults' = jFaults + 1
        /\ jFaults' # 0
        /\ jPc' = [jPc EXCEPT ![t] = "idle"]
        /\ jEvent' = [jEvent EXCEPT ![t] = Journals!NoEvent]
        /\ \A u \in JournalThreads : jPc[u] # "written"
        /\ UNCHANGED <<jUp, jSize, jPrev, jRecorded, jTampered, jSerial>>
    BY <1>0, <1>5 DEF Journals!WriteFails, Journals!MuFree, Journals!Return, JournalType
  <2>1. /\ jPc'[t] = "idle"
        /\ \A u \in JournalThreads \ {t} : jPc'[u] = jPc[u] /\ jEvent'[u] = jEvent[u]
        /\ \A u \in JournalThreads : jPc'[u] # "written"
        /\ jPc' \in [JournalThreads -> {"idle", "served", "written"}]
    BY <1>0, <2>0, Zenon DEF JournalType
  <2>2. jEvent' \in [JournalThreads -> [id: 0 .. MaxEvents, text: {"utf8", "bytes"}]]
    <3>1. Journals!NoEvent \in [id: 0 .. MaxEvents, text: {"utf8", "bytes"}]
      BY JournalAssumption DEF Journals!NoEvent
    <3> QED
      BY <1>0, <2>0, <3>1, Zenon DEF JournalType
  <2>3. CASE jFile' = jFile
    <3>1. JournalType'
      BY <1>0, <2>0, <2>1, <2>2, <2>3 DEF JournalType, IsSequence
    <3>2. OnceInv'
      BY <1>0, <2>0, <2>1, <2>3 DEF OnceInv, LinesInv, HandlersInv, PlacesInv
    <3> QED
      BY <1>0, <2>0, <2>1, <3>1, <3>2, Zenon DEF JournalInv
  <2>4. ASSUME NEW l, jFile' = Append(jFile, l), IsALine(l),
               l = Journals!Torn \/ l.id = jEvent[t].id
        PROVE  JournalInv'
    <3>1. /\ IsSequence(jFile')
          /\ DOMAIN jFile' = 1 .. (Len(jFile) + 1)
          /\ jFile'[Len(jFile) + 1] = l
          /\ \A i \in 1 .. Len(jFile) : jFile'[i] = jFile[i]
      BY <1>f, <2>4, AppendedFacts
    <3>n. /\ \A i \in DOMAIN jFile : i \in DOMAIN jFile' /\ jFile'[i] = jFile[i]
          /\ \A i \in DOMAIN jFile' : i \in DOMAIN jFile \/ jFile'[i] = l
          /\ \A i, j \in DOMAIN jFile' : i \in DOMAIN jFile \/ j \in DOMAIN jFile \/ i = j
      BY <1>f, <3>1
    <3>2. JournalType'
      <4>1. jFaults' \in Nat
        BY <1>0, <2>0 DEF JournalType
      <4> QED
        BY <1>0, <2>0, <2>1, <2>2, <2>4, <3>1, <3>n, <4>1, Zenon DEF JournalType
    <3>3. OnceInv'
      <4>o. LinesInv /\ HandlersInv /\ PlacesInv
        BY <1>0, <2>0, Zenon DEF OnceInv
      <4>l. LinesInv'
        BY <2>0, <2>4, <3>n, <4>o DEF LinesInv, HandlersInv, PlacesInv
      <4>h. HandlersInv'
        BY <2>0, <2>1, <4>o DEF HandlersInv
      <4>p. PlacesInv'
        BY <2>0, <2>1, <2>4, <3>n, <4>o DEF HandlersInv, PlacesInv
      <4> QED
        BY <4>l, <4>h, <4>p, Zenon DEF OnceInv
    <3> QED
      BY <1>0, <2>0, <2>1, <3>2, <3>3 DEF JournalInv
  <2>5. CASE jFile' = Append(jFile, Journals!Torn)
    BY <2>4, <2>5, Zenon DEF Journals!Torn, IsALine
  <2>6. CASE jFile' = Append(jFile, Journals!Line(jEvent[t]))
    BY <1>0, <2>4, <2>6, LineFacts, Zenon
  <2> QED
    BY <1>5, <2>3, <2>5, <2>6, Zenon DEF Journals!WriteFails
<1>6. ASSUME NEW t \in JournalThreads, Journals!Advance(t) PROVE JournalInv'
  <2>0. /\ jUp /\ ~jTampered /\ jPc[t] = "written" /\ jSize' = jSize + 1
        /\ jPrev' = jFile[Len(jFile)].hash
        /\ jRecorded' = jRecorded \cup {jEvent[t].id}
        /\ jPc' = [jPc EXCEPT ![t] = "idle"]
        /\ jEvent' = [jEvent EXCEPT ![t] = Journals!NoEvent]
        /\ UNCHANGED <<jFile, jUp, jTampered, jSerial, jFaults>>
    BY <1>0, <1>6, Zenon DEF Journals!Advance, Journals!Return
  <2>1. /\ jPc'[t] = "idle"
        /\ \A u \in JournalThreads \ {t} : jPc'[u] = jPc[u] /\ jEvent'[u] = jEvent[u]
        /\ \A u \in JournalThreads : jPc'[u] # "written"
        /\ jPc' \in [JournalThreads -> {"idle", "served", "written"}]
    BY <1>0, <2>0, Zenon DEF JournalType
  <2>2. jEvent' \in [JournalThreads -> [id: 0 .. MaxEvents, text: {"utf8", "bytes"}]]
    <3>1. Journals!NoEvent \in [id: 0 .. MaxEvents, text: {"utf8", "bytes"}]
      BY JournalAssumption DEF Journals!NoEvent
    <3> QED
      BY <1>0, <2>0, <3>1, Zenon DEF JournalType
  <2>3. JournalType'
    BY <1>0, <2>0, <2>1, <2>2 DEF JournalType, IsSequence
  <2>4. jFile # <<>> /\ jFile[Len(jFile)] # Journals!Torn
        /\ jFile[Len(jFile)].id = jEvent[t].id
    BY <1>0, <2>0, Zenon DEF OnceInv, PlacesInv
  <2>5. Len(jFile) \in DOMAIN jFile
    BY <1>f, <2>4 DEF IsSequence
  <2>6. OnceInv'
    <3>o. LinesInv /\ HandlersInv /\ PlacesInv
      BY <1>0, <2>0, Zenon DEF OnceInv
    <3>l. LinesInv'
      BY <2>0, <2>4, <2>5, <3>o DEF LinesInv
    <3>h. HandlersInv'
      BY <2>0, <2>1, <3>o DEF HandlersInv
    <3>p. PlacesInv'
      BY <2>0, <2>1, <3>o DEF PlacesInv
    <3> QED
      BY <3>l, <3>h, <3>p, Zenon DEF OnceInv
  <2>7. ASSUME jFaults' = 0 PROVE ChainInv'
    <3>1. ChainInv /\ jSize = Len(jFile) - 1
      BY <1>0, <2>0, <2>7, Zenon DEF ChainInv
    <3>2. jSize' = Len(jFile') /\ jPrev' = LastHash(jFile')
      BY <1>f, <2>0, <2>4, <3>1 DEF LastHash
    <3> QED
      BY <2>0, <2>1, <3>1, <3>2, Zenon DEF ChainInv, Journals!Verify, Journals!EventHash
  <2> QED
    BY <1>0, <2>0, <2>1, <2>3, <2>6, <2>7, Zenon DEF JournalInv
<1>7. CASE Journals!Crash
  <2>0. /\ ~jUp' /\ ~jTampered /\ jUp' \in BOOLEAN /\ jSize' = 0
        /\ jPc' = [t \in JournalThreads |-> "idle"]
        /\ jEvent' = [t \in JournalThreads |-> Journals!NoEvent]
        /\ UNCHANGED <<jFile, jRecorded, jTampered, jSerial, jFaults>>
    BY <1>0, <1>7, Zenon DEF Journals!Crash
  <2>1. jPc' \in [JournalThreads -> {"idle", "served", "written"}]
        /\ \A t \in JournalThreads : jPc'[t] = "idle"
    BY <2>0, Zenon
  <2>2. jEvent' \in [JournalThreads -> [id: 0 .. MaxEvents, text: {"utf8", "bytes"}]]
    BY <2>0, JournalAssumption DEF Journals!NoEvent
  <2>3. JournalType'
    BY <1>0, <2>0, <2>1, <2>2 DEF JournalType, IsSequence
  <2>4. OnceInv'
    BY <1>0, <2>0, <2>1 DEF OnceInv, LinesInv, HandlersInv, PlacesInv
  <2>5. jFaults' = 0 => ChainInv'
    BY <1>0, <2>0, Zenon DEF ChainInv, Journals!Verify, Journals!EventHash
  <2> QED
    BY <2>0, <2>1, <2>3, <2>4, <2>5, Zenon DEF JournalInv
<1>8. ASSUME NEW i \in DOMAIN jFile, Journals!Tamper(i) PROVE JournalInv'
  <2>1. ~jUp /\ ~jTampered /\ Journals!ReplayAccepts /\ jTampered' = TRUE
        /\ UNCHANGED <<jUp, jSize, jPrev, jPc, jEvent, jRecorded, jSerial, jFaults>>
    BY <1>8, Zenon DEF Journals!Tamper
  <2>2. ~Journals!ReplayAccepts' /\ IsSequence(jFile')
        /\ \A j \in DOMAIN jFile' : IsALine(jFile'[j])
    BY <1>8, <2>1, EditRefused, Zenon
  <2>3. JournalType'
    BY <1>0, <2>1, <2>2, Zenon DEF JournalType
  <2> QED
    BY <1>0, <2>1, <2>2, <2>3, Zenon DEF JournalInv
<1> QED
  BY <1>1, <1>2, <1>3, <1>4, <1>5, <1>6, <1>7, <1>8, Zenon DEF Journals!Next

\* The journal that opens is the journal that was written, for every number of
\* handlers, of events, of failed writes and of crashes (adminlog, readlog).
THEOREM JournalCorrect == Journals!Spec => []JournalIsSound
<1>1. ASSUME JournalInv PROVE Journals!JournalIsSound
  <2>1. Journals!UntamperedReplays
    BY <1>1, Zenon DEF Journals!UntamperedReplays, JournalInv, ChainInv, Journals!ReplayAccepts
  <2>2. Journals!TamperedRefused
    BY <1>1, Zenon DEF Journals!TamperedRefused, JournalInv
  <2>3. Journals!RecordedOnce
    <3> SUFFICES ASSUME ~jTampered, NEW id \in jRecorded
                 PROVE  \E i \in DOMAIN jFile :
                            {j \in DOMAIN jFile : jFile[j] # Journals!Torn /\ jFile[j].id = id} = {i}
      BY Zenon DEF Journals!RecordedOnce
    <3>1. PICK i \in DOMAIN jFile : jFile[i] # Journals!Torn /\ jFile[i].id = id
      BY <1>1, Zenon DEF JournalInv, OnceInv, LinesInv
    <3>2. {j \in DOMAIN jFile : jFile[j] # Journals!Torn /\ jFile[j].id = id} = {i}
      BY <1>1, <3>1 DEF JournalInv, OnceInv, LinesInv
    <3> QED
      BY <3>1, <3>2, Zenon
  <2> QED
    BY <2>1, <2>2, <2>3 DEF Journals!JournalIsSound
<1> QED
  BY <1>1, JournalInit, JournalNext, PTL DEF Journals!Spec, JournalIsSound

=============================================================================
