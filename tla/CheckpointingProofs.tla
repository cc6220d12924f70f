------------------------ MODULE CheckpointingProofs -------------------------
(***************************************************************************)
(* Proofs about Checkpointing for any number of callers and witnesses, any *)
(* number of appends, rotations and calls, and each way to sign; about the *)
(* anchors of its checkpoints; and about the watcher, which holds them     *)
(* against what any list of witnesses has seen.                            *)
(***************************************************************************)
EXTENDS Checkpointing, AnchoringPart, WatcherPart, TLAPS

-----------------------------------------------------------------------------
(* Types                                                                   *)

\* A draft in its initial state is a checkpoint without signatures.
LEMMA NoDraftType == NoDraft \in Checkpoints
BY DEF NoDraft, Checkpoints, NoKey

\* The drafts the steps of CheckpointCtx make of a draft.
LEMMA DraftTypes ==
    ASSUME NEW c \in Checkpoints, NEW k \in Nat, NEW W \in SUBSET Witnesses
    PROVE  /\ [c EXCEPT !.keyID = k] \in Checkpoints
           /\ [c EXCEPT !.epoch = k] \in Checkpoints
           /\ [c EXCEPT !.sig = k] \in Checkpoints
           /\ [c EXCEPT !.qsig = k] \in Checkpoints
           /\ [c EXCEPT !.members = TRUE] \in Checkpoints
           /\ [c EXCEPT !.cosigs = W] \in Checkpoints
BY Zenon DEF Checkpoints

\* The draft that records the state of the log.
LEMMA SnapshotType ==
    ASSUME NEW n \in Nat, NEW h \in Nat
    PROVE  [NoDraft EXCEPT !.size = n, !.root = n, !.head = h] \in Checkpoints
BY Zenon DEF NoDraft, Checkpoints, NoKey

\* At first there are no checkpoints and nobody makes one.
LEMMA TypeInit == Init => TypeOK
BY NoDraftType DEF Init, TypeOK, Labels, EmptySpace

\* Appends, rotations and the steps of CheckpointCtx and Anchor keep the types.
LEMMA TypeNext == TypeOK /\ [Next]_vars => TypeOK'
<1> SUFFICES ASSUME TypeOK, [Next]_vars PROVE TypeOK'
  OBVIOUS
<1> USE DEF TypeOK, Labels
<1>1. CASE AppendEntry \/ UpdateTree \/ Rotate
  <2>1. /\ UNCHANGED <<mode, ckpts, anchors, records, pc, draft, andAnchor,
                       calls>>
        /\ head' \in {head, head + 1} /\ tree' \in {tree, tree + 1}
        /\ epoch' \in {epoch, epoch + 1}
    BY <1>1 DEF AppendEntry, UpdateTree, Rotate, stored, call
  <2>2. head' \in Nat /\ tree' \in Nat /\ epoch' \in Nat
    BY <2>1
  <2> QED
    BY <2>1, <2>2
<1>2. ASSUME NEW t \in Threads, NEW both \in BOOLEAN, ReadTree(t, both)
      PROVE  TypeOK'
  <2>1. [NoDraft EXCEPT !.size = tree, !.root = tree, !.head = head]
          \in Checkpoints
    BY SnapshotType, Zenon
  <2>2. draft' \in [Threads -> Checkpoints]
    BY <1>2, <2>1 DEF ReadTree
  <2>3. pc' \in [Threads -> Labels] /\ calls' \in Nat
    BY <1>2 DEF ReadTree, BeginCall, Goto
  <2>4. andAnchor' \in [Threads -> BOOLEAN] /\ UNCHANGED <<log, stored>>
    BY <1>2 DEF ReadTree, BeginCall
  <2> QED
    BY <2>2, <2>3, <2>4, SMTT(30) DEF log, stored
<1>3. ASSUME NEW t \in Threads, CheckpointFails(t) \/ NoCheckpointYet(t)
      PROVE  TypeOK'
  BY <1>3, NoDraftType, ZenonT(40)
     DEF CheckpointFails, NoCheckpointYet, Return, Goto, log,
                           stored
<1>4. ASSUME NEW t \in Threads,
             \/ ReadPublic(t) \/ ReadEpoch(t) \/ SignDraft(t) \/ QuantumSign(t)
             \/ \E answering \in SUBSET Witnesses :
                  GatherWitnessSignatures(t, answering)
      PROVE  TypeOK'
  <2>1. draft' \in [Threads -> Checkpoints]
    <3>1. PICK W \in SUBSET Witnesses :
            \/ draft' = [draft EXCEPT ![t] = [@ EXCEPT !.keyID = epoch]]
            \/ draft' = [draft EXCEPT ![t] = [@ EXCEPT !.epoch = epoch]]
            \/ draft' = [draft EXCEPT ![t] = [@ EXCEPT !.sig = epoch]]
            \/ draft' = [draft EXCEPT ![t] = [@ EXCEPT !.qsig = epoch]]
            \/ draft' = [draft EXCEPT ![t] = [@ EXCEPT !.members = TRUE]]
            \/ draft' = [draft EXCEPT ![t] = [@ EXCEPT !.cosigs = W]]
      BY <1>4, Zenon DEF ReadPublic, ReadEpoch, SignDraft, QuantumSign,
                  GatherWitnessSignatures
    <3>2. /\ [draft[t] EXCEPT !.keyID = epoch] \in Checkpoints
          /\ [draft[t] EXCEPT !.epoch = epoch] \in Checkpoints
          /\ [draft[t] EXCEPT !.sig = epoch] \in Checkpoints
          /\ [draft[t] EXCEPT !.qsig = epoch] \in Checkpoints
          /\ [draft[t] EXCEPT !.members = TRUE] \in Checkpoints
          /\ [draft[t] EXCEPT !.cosigs = W] \in Checkpoints
      BY DraftTypes, Zenon
    <3> QED
      BY <3>1, <3>2, Zenon
  <2>2. /\ pc' \in [Threads -> Labels]
        /\ UNCHANGED <<log, stored, andAnchor, calls>>
    BY <1>4 DEF ReadPublic, ReadEpoch, SignDraft, QuantumSign,
                GatherWitnessSignatures, Goto
  <2> QED
    BY <2>1, <2>2 DEF log, stored
<1>5. ASSUME NEW t \in Threads, SaveCheckpoint(t) PROVE TypeOK'
  <2>1. draft[t] \in Checkpoints /\ draft[t].size \in Nat
    BY DEF Checkpoints
  <2>2. \A n \in DOMAIN ckpts' :
          ckpts'[n] \in Checkpoints /\ ckpts'[n].size = n
    BY <1>5, <2>1 DEF SaveCheckpoint, Put
  <2>3. /\ UNCHANGED <<log, anchors, records, calls>>
        /\ pc' \in [Threads -> Labels] /\ draft' \in [Threads -> Checkpoints]
        /\ andAnchor' \in [Threads -> BOOLEAN]
    BY <1>5, NoDraftType, ZenonT(40) DEF SaveCheckpoint, Return, Goto
  <2> QED
    BY <2>2, <2>3 DEF log
<1>6. ASSUME NEW t \in Threads, Anchor(t) PROVE TypeOK'
  BY <1>6 DEF Anchor, BeginCall, Goto, log, stored
<1>7. ASSUME NEW t \in Threads, LatestCheckpoint(t) PROVE TypeOK'
  <2>1. PICK n \in DOMAIN ckpts : draft' = [draft EXCEPT ![t] = ckpts[n]]
    BY <1>7, Zenon DEF LatestCheckpoint, LatestSizes
  <2>2. /\ draft' \in [Threads -> Checkpoints] /\ pc' \in [Threads -> Labels]
        /\ UNCHANGED <<log, stored, andAnchor, calls>>
    BY <1>7, <2>1 DEF LatestCheckpoint, Goto
  <2> QED
    BY <2>2 DEF log, stored
<1>8. ASSUME NEW t \in Threads, Publish(t) \/ PublishFails(t) PROVE TypeOK'
  <2>1. draft[t].size \in Nat
    BY DEF Checkpoints
  <2>2. anchors' \in {anchors, Append(anchors, draft[t])}
        /\ records' \in {records, records \cup {draft[t].size}}
        /\ UNCHANGED <<log, ckpts, calls>> /\ Return(t)
    BY <1>8 DEF Publish, PublishFails
  <2>3. anchors' \in Seq(Checkpoints)
    <3>1. anchors \in Seq(Checkpoints) /\ draft[t] \in Checkpoints
      OBVIOUS
    <3>2. Append(anchors, draft[t]) \in Seq(Checkpoints)
      BY <3>1
    <3> QED
      BY <2>2, <3>1, <3>2, SMTT(30)
  <2>4. records' \subseteq Nat
    BY <2>1, <2>2
  <2>5. /\ draft' \in [Threads -> Checkpoints] /\ pc' \in [Threads -> Labels]
        /\ andAnchor' \in [Threads -> BOOLEAN]
    BY <2>2, NoDraftType DEF Return, Goto
  <2> QED
    BY <2>2, <2>3, <2>4, <2>5 DEF log
<1>9. CASE UNCHANGED vars
  BY <1>9 DEF vars
<1> QED
  BY <1>1, <1>2, <1>3, <1>4, <1>5, <1>6, <1>7, <1>8, <1>9 DEF Next

\* Every variable keeps its type, and a checkpoint is stored under its size.
THEOREM TypeCorrect == Spec => []TypeOK
BY TypeInit, TypeNext, PTL DEF Spec

-----------------------------------------------------------------------------
(* What every checkpoint satisfies                                         *)

\* The checkpoint c covers one state of a log of h entries.
Snapshot(c, h) == c.root = c.size /\ c.head = c.size /\ c.size <= h

\* checkpoint.Verify with its two inputs made explicit.
Verifies(c, m, e) ==
    \/ c.members
    \/ /\ c.epoch \in 0 .. e
       /\ c.keyID = c.epoch
       /\ c.sig = c.epoch
       /\ c.qsig = IF m = "hybrid" THEN c.epoch ELSE NoKey

\* What holds of drafts in progress, of stored and of published checkpoints.
Sound(c, h, m, e) ==
    Snapshot(c, h) /\ (c.cosigs # {} => Verifies(c, m, e))

Unsigned == {"public", "epoch", "sign", "qsign", "gather"}

\* Drafts are sound from the moment the log is read, and no witness has signed
\* one whose key, epoch or signature may still change.  The store and the tree
\* differ only while an append holds Log.mu.
SoundInv ==
    /\ tree <= head
    /\ \A t \in Threads :
         /\ Sound(draft[t], head, mode, epoch)
         /\ pc[t] \in Unsigned => draft[t].cosigs = {}
    /\ \A n \in DOMAIN ckpts : Sound(ckpts[n], head, mode, epoch)
    /\ \A i \in DOMAIN anchors : Sound(anchors[i], head, mode, epoch)

\* The empty draft is sound.
LEMMA NoDraftSound ==
    ASSUME NEW h \in Nat, NEW m, NEW e
    PROVE  Sound(NoDraft, h, m, e) /\ NoDraft.cosigs = {}
BY DEF Sound, Snapshot, NoDraft

\* Neither an append nor a rotation makes a checkpoint unsound: the log only
\* grows and an epoch stays in the chain.
LEMMA SoundStays ==
    ASSUME NEW h \in Nat, NEW g \in Nat, h <= g, NEW m, NEW e \in Nat,
           NEW f \in Nat, e <= f, NEW c \in Checkpoints, Sound(c, h, m, e)
    PROVE  Sound(c, g, m, f)
<1>1. c.size \in Nat /\ Snapshot(c, g)
  BY DEF Sound, Snapshot, Checkpoints
<1>2. Verifies(c, m, e) => Verifies(c, m, f)
  BY DEF Verifies
<1> QED
  BY <1>1, <1>2 DEF Sound

\* A witness signs a checkpoint that verifies.
LEMMA CosignedSound ==
    ASSUME NEW c \in Checkpoints, NEW h, NEW m, NEW e, NEW W,
           Sound(c, h, m, e), W # {} => Verifies(c, m, e)
    PROVE  Sound([c EXCEPT !.cosigs = W], h, m, e)
BY DEF Sound, Snapshot, Verifies, Checkpoints

\* At first there are no checkpoints and only empty drafts.
LEMMA SoundInit == Init => SoundInv
BY NoDraftSound DEF Init, SoundInv, EmptySpace

\* Every step of the log, the signer and the callers keeps checkpoints sound.
LEMMA SoundNext == TypeOK /\ SoundInv /\ [Next]_vars => SoundInv'
<1> SUFFICES ASSUME TypeOK, SoundInv, [Next]_vars PROVE SoundInv'
  OBVIOUS
<1>0. /\ head \in Nat /\ tree \in Nat /\ epoch \in Nat
      /\ draft \in [Threads -> Checkpoints] /\ pc \in [Threads -> Labels]
      /\ \A n \in DOMAIN ckpts : ckpts[n] \in Checkpoints
      /\ anchors \in Seq(Checkpoints)
  BY DEF TypeOK
<1>a. Sound(NoDraft, head, mode, epoch) /\ NoDraft.cosigs = {}
  BY <1>0, NoDraftSound
<1>1. CASE AppendEntry \/ UpdateTree \/ Rotate
  <2>1. /\ UNCHANGED <<mode, ckpts, anchors, pc, draft>>
        /\ head' \in Nat /\ head <= head' /\ epoch' \in Nat /\ epoch <= epoch'
    BY <1>0, <1>1 DEF AppendEntry, UpdateTree, Rotate, stored, call
  <2>2. tree' <= head'
    BY <1>0, <1>1
       DEF AppendEntry, UpdateTree, Rotate, MuFree, SoundInv
  <2>3. \A c \in Checkpoints : Sound(c, head, mode, epoch) =>
                               Sound(c, head', mode, epoch')
    BY <1>0, <2>1, SoundStays
  <2>4. \A i \in DOMAIN anchors : anchors[i] \in Checkpoints
    BY <1>0
  <2> QED
    BY <1>0, <2>1, <2>2, <2>3, <2>4 DEF SoundInv
<1>2. ASSUME NEW t \in Threads, NEW both \in BOOLEAN, ReadTree(t, both)
      PROVE  SoundInv'
  <2> DEFINE d == [NoDraft EXCEPT !.size = tree, !.root = tree, !.head = head]
  <2>1. /\ draft' = [draft EXCEPT ![t] = d] /\ head = tree
        /\ UNCHANGED <<mode, head, tree, epoch, ckpts, anchors>>
        /\ pc' = [pc EXCEPT ![t] = "public"]
    BY <1>2 DEF ReadTree, MuFree, Goto, log, stored
  <2>2. Sound(d, head, mode, epoch) /\ d.cosigs = {}
    BY <1>0, <2>1 DEF Sound, Snapshot, NoDraft
  <2> HIDE DEF d
  <2> QED
    BY <1>0, <2>1, <2>2 DEF SoundInv
<1>3. ASSUME NEW t \in Threads, CheckpointFails(t) \/ NoCheckpointYet(t)
      PROVE  SoundInv'
  BY <1>0, <1>a, <1>3
     DEF CheckpointFails, NoCheckpointYet, Return, Goto, SoundInv, log, stored
<1>4. ASSUME NEW t \in Threads,
             ReadPublic(t) \/ ReadEpoch(t) \/ SignDraft(t) \/ QuantumSign(t)
      PROVE  SoundInv'
  <2>1. PICK d \in {[draft[t] EXCEPT !.keyID = epoch],
                    [draft[t] EXCEPT !.epoch = epoch],
                    [draft[t] EXCEPT !.sig = epoch],
                    [draft[t] EXCEPT !.qsig = epoch],
                    [draft[t] EXCEPT !.members = TRUE]} :
          draft' = [draft EXCEPT ![t] = d]
    BY <1>4 DEF ReadPublic, ReadEpoch, SignDraft, QuantumSign
  <2>2. draft[t].cosigs = {}
    BY <1>4 DEF ReadPublic, ReadEpoch, SignDraft, QuantumSign, SoundInv,
                Unsigned
  <2>3. Sound(d, head, mode, epoch) /\ d.cosigs = {}
    <3>1. draft[t] \in Checkpoints /\ Sound(draft[t], head, mode, epoch)
      BY <1>0 DEF SoundInv
    <3>2. /\ d.size = draft[t].size /\ d.root = draft[t].root
          /\ d.head = draft[t].head /\ d.cosigs = draft[t].cosigs
      BY <2>1, <3>1 DEF Checkpoints
    <3> QED
      BY <2>2, <3>1, <3>2 DEF Sound, Snapshot
  <2>4. /\ UNCHANGED <<mode, head, tree, epoch, ckpts, anchors>>
        /\ \E l : pc' = [pc EXCEPT ![t] = l]
    BY <1>4 DEF ReadPublic, ReadEpoch, SignDraft, QuantumSign, Goto, log,
                stored
  <2> QED
    BY <1>0, <2>1, <2>3, <2>4 DEF SoundInv
<1>5. ASSUME NEW t \in Threads, NEW answering \in SUBSET Witnesses,
             GatherWitnessSignatures(t, answering)
      PROVE  SoundInv'
  <2>1. PICK W : /\ W # {} => Verifies(draft[t], mode, epoch)
                 /\ draft' = [draft EXCEPT ![t] = [@ EXCEPT !.cosigs = W]]
    BY <1>5, Zenon DEF GatherWitnessSignatures, Verify, Verifies
  <2>2. Sound([draft[t] EXCEPT !.cosigs = W], head, mode, epoch)
    BY <1>0, <2>1, CosignedSound, Zenon DEF SoundInv
  <2>3. /\ UNCHANGED <<mode, head, tree, epoch, ckpts, anchors>>
        /\ pc' = [pc EXCEPT ![t] = "save"]
    BY <1>5 DEF GatherWitnessSignatures, Goto, log, stored
  <2> QED
    BY <1>0, <2>1, <2>2, <2>3 DEF SoundInv, Unsigned
<1>6. ASSUME NEW t \in Threads, SaveCheckpoint(t) PROVE SoundInv'
  <2>1. /\ ckpts' = Put(ckpts, draft[t].size, draft[t])
        /\ UNCHANGED <<mode, head, tree, epoch, anchors>>
        /\ \/ UNCHANGED draft /\ pc' = [pc EXCEPT ![t] = "latest"]
           \/ /\ draft' = [draft EXCEPT ![t] = NoDraft]
              /\ pc' = [pc EXCEPT ![t] = "idle"]
    BY <1>6 DEF SaveCheckpoint, Return, Goto, log
  <2>2. \A n \in DOMAIN ckpts' : Sound(ckpts'[n], head, mode, epoch)
    BY <2>1 DEF SoundInv, Put
  <2> QED
    BY <1>0, <1>a, <2>1, <2>2 DEF SoundInv, Unsigned
<1>7. ASSUME NEW t \in Threads, Anchor(t) PROVE SoundInv'
  BY <1>0, <1>7 DEF Anchor, Goto, SoundInv, Unsigned, log, stored
<1>8. ASSUME NEW t \in Threads, LatestCheckpoint(t) PROVE SoundInv'
  <2>1. PICK n \in DOMAIN ckpts : draft' = [draft EXCEPT ![t] = ckpts[n]]
    BY <1>8, Zenon DEF LatestCheckpoint, LatestSizes
  <2>2. /\ UNCHANGED <<mode, head, tree, epoch, ckpts, anchors>>
        /\ pc' = [pc EXCEPT ![t] = "publish"]
    BY <1>8 DEF LatestCheckpoint, Goto, log, stored
  <2> QED
    BY <1>0, <2>1, <2>2 DEF SoundInv, Unsigned
<1>9. ASSUME NEW t \in Threads, Publish(t) \/ PublishFails(t) PROVE SoundInv'
  <2>1. /\ anchors' \in {anchors, Append(anchors, draft[t])}
        /\ UNCHANGED <<mode, head, tree, epoch, ckpts>>
        /\ draft' = [draft EXCEPT ![t] = NoDraft]
        /\ pc' = [pc EXCEPT ![t] = "idle"]
    BY <1>9 DEF Publish, PublishFails, Return, Goto, log
  <2>2. \A i \in DOMAIN anchors' : Sound(anchors'[i], head, mode, epoch)
    <3>1. CASE anchors' = anchors
      BY <3>1 DEF SoundInv
    <3>2. CASE anchors' = Append(anchors, draft[t])
      BY <1>0, <3>2 DEF SoundInv
    <3> QED
      BY <2>1, <3>1, <3>2
  <2> QED
    BY <1>0, <1>a, <2>1, <2>2 DEF SoundInv, Unsigned
<1>10. CASE UNCHANGED vars
  BY <1>10 DEF SoundInv, vars
<1> QED
  BY <1>1, <1>2, <1>3, <1>4, <1>5, <1>6, <1>7, <1>8, <1>9, <1>10 DEF Next

\* Every checkpoint that was ever made is sound.
LEMMA AlwaysSound == Spec => []SoundInv
BY TypeInit, TypeNext, SoundInit, SoundNext, PTL DEF Spec

\* A stored or published checkpoint names size, root and head of one state of
\* the log, whatever was appended while it was signed (CheckpointCtx).
THEOREM SnapshotCorrect == Spec => []SnapshotConsistent
<1>1. SoundInv => SnapshotConsistent
  BY DEF SoundInv, Sound, Snapshot, SnapshotConsistent, AllCheckpoints,
         Published
<1> QED
  BY AlwaysSound, <1>1, PTL

\* A stored or published checkpoint that a witness signed verifies, whenever
\* the key was rotated (GatherWitnessSignatures).
THEOREM CosignedCorrect == Spec => []CosignedVerifies
<1>1. SoundInv => CosignedVerifies
  BY DEF SoundInv, Sound, Verifies, Verify, CosignedVerifies, AllCheckpoints,
         Published
<1> QED
  BY AlwaysSound, <1>1, PTL

-----------------------------------------------------------------------------
(* What is told of an anchor is so                                         *)

\* A thread that publishes to the file holds its lock, and has written, synced
\* and acknowledged what its step says; what the file holds the disk holds but
\* for the end; and what is told of an anchor was acknowledged.
AnchorInv ==
    /\ Anchors!TypeOK
    /\ \A t \in AnchorThreads :
         /\ aPc[t] # "idle" => aDraft[t] \in Anchors!Sizes
         /\ aPc[t] \in {"write", "sync", "head"} => aMu = t
         /\ aPc[t] = "sync" /\ Anchors!Readable(aFile)
               => aDraft[t] \in Anchors!Lines(aFile)
         /\ aPc[t] = "head" /\ Anchors!Readable(aDisk)
               => aDraft[t] \in Anchors!Lines(aDisk)
         /\ aPc[t] = "saveFile" => aDraft[t] \in aAcked
         /\ aPc[t] = "saveRekor" => aRef[t] # "none"
         /\ aPc[t] = "saveRekor" /\ aRef[t] = "uuid" => aDraft[t] \in aRekor
    /\ Anchors!Readable(aFile) => Anchors!Readable(aDisk)
          /\ Anchors!Lines(aDisk) \subseteq Anchors!Lines(aFile)
    /\ Anchors!Readable(aDisk) => aAcked \subseteq Anchors!Lines(aDisk)
    /\ aHead \in aAcked \cup {0}
    /\ \A n \in DOMAIN aRecords :
         /\ aRecords[n] = "file" => n \in aAcked
         /\ aRecords[n] = "uuid" => n \in aRekor

\* The first state satisfies the invariant.
LEMMA AnchorInit == Anchors!Init => AnchorInv
BY AnchorAssumption DEF Anchors!Init, AnchorInv, Anchors!TypeOK, Anchors!Sizes,
                        Anchors!Readable, Anchors!Lines, Anchors!EmptySpace

\* A line that is written stays what it is, or spoils the file.
LEMMA WithLineFact ==
  ASSUME NEW f \in Seq(Anchors!Sizes \cup {Torn, Spoilt}), NEW n \in Anchors!Sizes
  PROVE  /\ Anchors!WithLine(f, n) \in Seq(Anchors!Sizes \cup {Torn, Spoilt})
         /\ Anchors!Readable(Anchors!WithLine(f, n)) =>
              /\ Anchors!Readable(f)
              /\ Anchors!Lines(Anchors!WithLine(f, n)) = Anchors!Lines(f) \cup {n}
<1> DEFINE S == Anchors!Sizes \cup {Torn, Spoilt}
<1>1. CASE Anchors!EndsTorn(f)
  <2>1. /\ Anchors!WithLine(f, n) = [f EXCEPT ![Len(f)] = Spoilt]
        /\ Len(f) \in DOMAIN f
    BY <1>1 DEF Anchors!WithLine, Anchors!EndsTorn
  <2>2. Anchors!WithLine(f, n) \in Seq(S)
    BY <2>1
  <2>3. ~Anchors!Readable(Anchors!WithLine(f, n))
    BY <2>1, AnchorAssumption DEF Anchors!Readable
  <2> QED
    BY <2>2, <2>3
<1>2. CASE ~Anchors!EndsTorn(f)
  <2>1. Anchors!WithLine(f, n) = Append(f, n)
    BY <1>2 DEF Anchors!WithLine
  <2>2. /\ Append(f, n) \in Seq(S)
        /\ DOMAIN Append(f, n) = DOMAIN f \cup {Len(f) + 1}
        /\ Append(f, n)[Len(f) + 1] = n
        /\ \A i \in DOMAIN f : Append(f, n)[i] = f[i]
    OBVIOUS
  <2> QED
    BY <2>1, <2>2 DEF Anchors!Readable, Anchors!Lines
<1> QED
  BY <1>1, <1>2

\* A fragment makes the file unreadable.
LEMMA WithFragmentFact ==
  ASSUME NEW f \in Seq(Anchors!Sizes \cup {Torn, Spoilt})
  PROVE  /\ Anchors!WithFragment(f) \in Seq(Anchors!Sizes \cup {Torn, Spoilt})
         /\ ~Anchors!Readable(Anchors!WithFragment(f))
<1>1. CASE Anchors!EndsTorn(f)
  BY <1>1, AnchorAssumption DEF Anchors!WithFragment, Anchors!EndsTorn, Anchors!Readable
<1>2. CASE ~Anchors!EndsTorn(f)
  <2>1. /\ Anchors!WithFragment(f) = Append(f, Torn)
        /\ Append(f, Torn) \in Seq(Anchors!Sizes \cup {Torn, Spoilt})
        /\ Len(f) + 1 \in DOMAIN Append(f, Torn)
        /\ Append(f, Torn)[Len(f) + 1] = Torn
    BY <1>2 DEF Anchors!WithFragment
  <2> QED
    BY <2>1, AnchorAssumption DEF Anchors!Readable
<1> QED
  BY <1>1, <1>2

\* Every step keeps it.
LEMMA AnchorNext == AnchorInv /\ [Anchors!Next]_(Anchors!vars) => AnchorInv'
<1> SUFFICES ASSUME AnchorInv, [Anchors!Next]_(Anchors!vars) PROVE AnchorInv'
  BY Zenon
<1> USE AnchorAssumption DEF Anchors!Sizes
<1>1. CASE Anchors!NewCheckpoint
  BY <1>1 DEF Anchors!NewCheckpoint, AnchorInv, Anchors!TypeOK, Anchors!sink,
              Anchors!net, Anchors!call, Anchors!bounds
<1>2. ASSUME NEW t \in AnchorThreads, Anchors!Anchor(t) PROVE AnchorInv'
  BY <1>2 DEF Anchors!Anchor, Anchors!Goto, AnchorInv, Anchors!TypeOK, Anchors!sink,
              Anchors!net
<1>3. ASSUME NEW t \in AnchorThreads, Anchors!OpenFile(t) PROVE AnchorInv'
  BY <1>3 DEF Anchors!OpenFile, Anchors!Goto, AnchorInv, Anchors!TypeOK, Anchors!sink,
              Anchors!net, Anchors!call, Anchors!bounds
<1>4. ASSUME NEW t \in AnchorThreads, Anchors!WriteLine(t) PROVE AnchorInv'
  <2>1. /\ aPc[t] = "write" /\ aPc' = [aPc EXCEPT ![t] = "sync"]
        /\ aFile' = Anchors!WithLine(aFile, aDraft[t])
        /\ UNCHANGED <<aLatest, aDisk, aHead, aMu, aRekor, aFallback, aRecords, aDraft,
                       aRef, aAcked>>
    BY <1>4, Zenon DEF Anchors!WriteLine, Anchors!Goto, Anchors!net, Anchors!call
  <2>2. aFile \in Seq(Anchors!Sizes \cup {Torn, Spoilt}) /\ aDraft[t] \in Anchors!Sizes
    BY <2>1 DEF AnchorInv, Anchors!TypeOK
  <2>3. /\ aFile' \in Seq(Anchors!Sizes \cup {Torn, Spoilt})
        /\ Anchors!Readable(aFile') => Anchors!Readable(aFile)
              /\ Anchors!Lines(aFile') = Anchors!Lines(aFile) \cup {aDraft[t]}
    BY <2>1, <2>2, WithLineFact, Zenon
  <2>4. \A u \in AnchorThreads \ {t} : aPc[u] \notin {"write", "sync", "head"}
    BY <2>1, Zenon DEF AnchorInv
  <2> QED
    BY <2>1, <2>2, <2>3, <2>4, Zenon DEF AnchorInv, Anchors!TypeOK
<1>5. ASSUME NEW t \in AnchorThreads, Anchors!SyncFile(t) PROVE AnchorInv'
  <2>1. /\ aPc[t] = "sync" /\ aPc' = [aPc EXCEPT ![t] = "head"]
        /\ aDisk' = aFile
        /\ UNCHANGED <<aLatest, aFile, aHead, aMu, aRekor, aFallback, aRecords, aDraft,
                       aRef, aAcked>>
    BY <1>5 DEF Anchors!SyncFile, Anchors!Goto, Anchors!net, Anchors!call
  <2>2. \A u \in AnchorThreads \ {t} : aPc[u] \notin {"write", "sync", "head"}
    BY <2>1 DEF AnchorInv
  <2> QED
    BY <2>1, <2>2 DEF AnchorInv, Anchors!TypeOK
<1>6. ASSUME NEW t \in AnchorThreads, Anchors!WriteHead(t) PROVE AnchorInv'
  <2>1. /\ aPc[t] = "head" /\ aPc' = [aPc EXCEPT ![t] = "saveFile"]
        /\ aHead' = aDraft[t] /\ aMu' = NoThread /\ aAcked' = aAcked \cup {aDraft[t]}
        /\ UNCHANGED <<aLatest, aFile, aDisk, aRekor, aFallback, aRecords, aDraft, aRef>>
    BY <1>6, Zenon DEF Anchors!WriteHead, Anchors!Goto, Anchors!net, Anchors!call
  <2>2. \A u \in AnchorThreads \ {t} : aPc[u] \notin {"write", "sync", "head"}
    BY <2>1, Zenon DEF AnchorInv
  <2> QED
    BY <2>1, <2>2, Zenon DEF AnchorInv, Anchors!TypeOK
<1>7. ASSUME NEW t \in AnchorThreads, Anchors!PublishFails(t) PROVE AnchorInv'
  <2>1. /\ aPc[t] \in {"open", "write", "sync", "head"}
        /\ aPc' = [aPc EXCEPT ![t] = "rekor"]
        /\ UNCHANGED <<aLatest, aDisk, aHead, aRekor, aFallback, aRecords, aDraft, aRef,
                       aAcked>>
    BY <1>7, Zenon DEF Anchors!PublishFails, Anchors!Goto, Anchors!net, Anchors!call
  <2>2. \/ aPc[t] = "open" /\ aFile' = aFile /\ aMu' = aMu
        \/ /\ aPc[t] # "open" /\ aMu' = NoThread
           /\ aFile' = aFile \/ (aPc[t] = "write" /\ aFile' = Anchors!WithFragment(aFile))
    BY <1>7 DEF Anchors!PublishFails, Anchors!Goto
  <2>3. CASE aPc[t] = "open"
    BY <2>1, <2>2, <2>3 DEF AnchorInv, Anchors!TypeOK
  <2>4. CASE aPc[t] # "open"
    <3>1. \A u \in AnchorThreads \ {t} : aPc[u] \notin {"write", "sync", "head"}
      BY <2>1, <2>4, Zenon DEF AnchorInv
    <3>2. aFile' \in Seq(Anchors!Sizes \cup {Torn, Spoilt})
          /\ (aFile' = aFile \/ ~Anchors!Readable(aFile'))
      BY <2>2, <2>4, WithFragmentFact, Zenon DEF AnchorInv, Anchors!TypeOK
    <3> QED
      BY <2>1, <2>2, <2>4, <3>1, <3>2 DEF AnchorInv, Anchors!TypeOK
  <2> QED
    BY <2>3, <2>4
<1>8. ASSUME NEW t \in AnchorThreads, Anchors!SaveFileRecord(t) PROVE AnchorInv'
  <2>1. /\ aPc[t] = "saveFile" /\ aPc' = [aPc EXCEPT ![t] = "rekor"]
        /\ aRecords' = Anchors!Put(aRecords, aDraft[t], "file") \/ aRecords' = aRecords
        /\ UNCHANGED <<aLatest, aFile, aDisk, aHead, aMu, aRekor, aFallback, aDraft,
                       aRef, aAcked>>
    BY <1>8 DEF Anchors!SaveFileRecord, Anchors!Goto, Anchors!sink, Anchors!net,
                Anchors!call
  <2>2. aDraft[t] \in aAcked /\ aDraft[t] \in Anchors!Sizes
    BY <2>1, Zenon DEF AnchorInv
  <2> QED
    BY <2>1, <2>2 DEF AnchorInv, Anchors!TypeOK, Anchors!Put
<1>9. ASSUME NEW t \in AnchorThreads, Anchors!RekorAccepts(t) PROVE AnchorInv'
  BY <1>9, Zenon DEF Anchors!RekorAccepts, Anchors!Goto, AnchorInv, Anchors!TypeOK,
                     Anchors!sink, Anchors!bounds
<1>10. ASSUME NEW t \in AnchorThreads, Anchors!RekorFails(t) PROVE AnchorInv'
  <2>1. /\ aPc[t] = "rekor"
        /\ \/ aPc' = [aPc EXCEPT ![t] = "idle"] /\ UNCHANGED <<aFallback, aRef>>
           \/ /\ aPc' = [aPc EXCEPT ![t] = "saveRekor"]
              /\ aRef' = [aRef EXCEPT ![t] = "fallback"]
              /\ aFallback' = aFallback \/ aFallback' = aFallback \cup {aDraft[t]}
        /\ aRekor' = aRekor \/ aRekor' = aRekor \cup {aDraft[t]}
        /\ UNCHANGED <<aLatest, aFile, aDisk, aHead, aMu, aRecords, aDraft, aAcked>>
    BY <1>10, Zenon DEF Anchors!RekorFails, Anchors!Goto, Anchors!sink
  <2>2. aDraft[t] \in Anchors!Sizes
    BY <2>1, Zenon DEF AnchorInv
  <2>3. /\ aRekor \subseteq aRekor'
        /\ aRekor' \subseteq Anchors!Sizes /\ aFallback' \subseteq Anchors!Sizes
    BY <2>1, <2>2, Zenon DEF AnchorInv, Anchors!TypeOK
  <2>4. Anchors!TypeOK'
    BY <2>1, <2>3, Zenon DEF AnchorInv, Anchors!TypeOK
  <2>5. /\ \A u \in AnchorThreads : u # t => aPc'[u] = aPc[u] /\ aRef'[u] = aRef[u]
        /\ aPc'[t] = "idle" \/ (aPc'[t] = "saveRekor" /\ aRef'[t] = "fallback")
    BY <2>1 DEF AnchorInv, Anchors!TypeOK
  <2> QED
    BY <2>1, <2>2, <2>3, <2>4, <2>5 DEF AnchorInv
<1>11. ASSUME NEW t \in AnchorThreads, Anchors!SaveRekorRecord(t) PROVE AnchorInv'
  <2>1. /\ aPc[t] = "saveRekor" /\ aPc' = [aPc EXCEPT ![t] = "idle"]
        /\ aRecords' = Anchors!Put(aRecords, aDraft[t], aRef[t]) \/ aRecords' = aRecords
        /\ aRef' = [aRef EXCEPT ![t] = "none"]
        /\ UNCHANGED <<aLatest, aFile, aDisk, aHead, aMu, aRekor, aFallback, aDraft,
                       aAcked>>
    BY <1>11 DEF Anchors!SaveRekorRecord, Anchors!Goto, Anchors!sink, Anchors!net
  <2>2. /\ aDraft[t] \in Anchors!Sizes
        /\ aRef[t] = "fallback" \/ (aRef[t] = "uuid" /\ aDraft[t] \in aRekor)
    BY <2>1, Zenon DEF AnchorInv, Anchors!TypeOK
  <2> QED
    BY <2>1, <2>2 DEF AnchorInv, Anchors!TypeOK, Anchors!Put
<1>12. CASE Anchors!Crash
  <2>1. PICK f \in {aFile, aDisk, Anchors!WithFragment(aDisk)} : aFile' = f /\ aDisk' = f
    BY <1>12 DEF Anchors!Crash
  <2>2. /\ aHead' \in {aHead, 0} /\ aMu' = NoThread
        /\ aPc' = [t \in AnchorThreads |-> "idle"]
        /\ aRef' = [t \in AnchorThreads |-> "none"]
        /\ UNCHANGED <<aLatest, aRekor, aFallback, aRecords, aDraft, aAcked>>
    BY <1>12 DEF Anchors!Crash, Anchors!net
  <2>3. /\ f \in Seq(Anchors!Sizes \cup {Torn, Spoilt})
        /\ Anchors!Readable(f) => Anchors!Readable(aDisk)
              /\ Anchors!Lines(aDisk) \subseteq Anchors!Lines(f)
    BY <2>1, WithFragmentFact, Zenon DEF AnchorInv, Anchors!TypeOK
  <2> QED
    BY <2>1, <2>2, <2>3 DEF AnchorInv, Anchors!TypeOK
<1>13. CASE UNCHANGED Anchors!vars
  BY <1>13, Zenon DEF Anchors!vars, AnchorInv, Anchors!TypeOK, Anchors!sink, Anchors!net,
               Anchors!call, Anchors!bounds
<1> QED
  BY <1>1, <1>2, <1>3, <1>4, <1>5, <1>6, <1>7, <1>8, <1>9, <1>10, <1>11, <1>12, <1>13
  DEF Anchors!Next

\* What the store, the head file and Rekor's UUIDs tell of an anchor is so.
THEOREM AnchorsCorrect == Anchors!Spec => []AnchorsHold
<1>1. AnchorInv => Anchors!AnchorsHold
  BY Zenon DEF AnchorInv, Anchors!AnchorsHold
<1> QED
  BY <1>1, AnchorInit, AnchorNext, PTL DEF Anchors!Spec, AnchorsHold

-----------------------------------------------------------------------------
(* The exit code of the watcher is right                                   *)

\* What a map of sizes to roots holds was shown.
Known(f) == \A n \in DOMAIN f : f[n] \in WatchRoots
/\ [size |-> n, root |-> f[n]] \in wShown

\* One map holds what another holds.
Within(f, g) == \A n \in DOMAIN f : n \in DOMAIN g /\ g[n] = f[n]

\* The operator and the witnesses answer with what was shown, and a witness
\* never forgets.
GossipInv ==
    /\ wLatest # Watch!NoView => wLatest \in wShown
    /\ wOp # Watch!NoView => wOp \in wShown
    /\ DOMAIN wSeen = Watch!Witnesses
    /\ \A w \in Watch!Witnesses : Known(wSeen[w]) /\ Within(wBefore[w], wSeen[w])

\* A view is what the witness holds at the operator's size: a root that was
\* shown, and the one it held when the operator answered.
ViewInv ==
    /\ wViews \in Seq([reachable: BOOLEAN, root: WatchRoots \cup {Watch!NoRoot}])
    /\ Len(wViews) <= Len(WitnessURLs)
    /\ \A i \in 1 .. Len(wViews) : LET w == WitnessURLs[i] IN
          wViews[i].reachable =>
             /\ wViews[i].root # Watch!NoRoot =>
                   [size |-> wOp.size, root |-> wViews[i].root] \in wShown
             /\ wOp.size \in DOMAIN wBefore[w] => wViews[i].root = wBefore[w][wOp.size]

\* The exit code is given at the end of a pass.
WatchInv ==
    /\ GossipInv /\ ViewInv
    /\ wPc # "idle" => wCode = Watch!Running
    /\ wPc = "operator" => wViews = <<>> /\ wOp = Watch!NoView
    /\ Watch!ExitCodeIsRight

\* The first state satisfies the invariant.
LEMMA WatchInit == Watch!Init => WatchInv
<1> SUFFICES ASSUME Watch!Init PROVE WatchInv
  OBVIOUS
<1>1. GossipInv
  BY DEF Watch!Init, GossipInv, Known, Within, Watch!EmptySpace
<1>2. Len(WitnessURLs) \in Nat
  BY WatchAssumption
<1>3. ViewInv
  BY <1>2 DEF Watch!Init, ViewInv
<1> QED
  BY <1>1, <1>3 DEF Watch!Init, WatchInv, Watch!ExitCodeIsRight, Watch!DivergenceIsFork,
                    Watch!KnownForkReported,
                    Watch!Running

\* More that is shown, and more that the witnesses hold, take nothing back.
LEMMA GrowKeeps ==
  ASSUME WatchInv, wShown \subseteq wShown',
         wLatest' # Watch!NoView => wLatest' \in wShown',
         DOMAIN wSeen' = Watch!Witnesses,
         \A w \in Watch!Witnesses : Known(wSeen[w])' /\ Within(wSeen[w], wSeen'[w]),
         UNCHANGED <<wPc, wOp, wViews, wCode, wBefore>>
  PROVE  WatchInv'
<1>1. GossipInv'
  BY DEF WatchInv, GossipInv, Within
<1>2. ViewInv'
  BY Zenon DEF WatchInv, ViewInv
<1>3. Watch!ExitCodeIsRight'
  BY Zenon DEF WatchInv, Watch!ExitCodeIsRight, Watch!DivergenceIsFork, Watch!KnownForkReported
<1> QED
  BY <1>1, <1>2, <1>3 DEF WatchInv

\* A pass of the watcher changes nothing of the operator and the witnesses.
LEMMA FetchKeeps ==
  ASSUME WatchInv, Watch!FetchSignedSeen \/ Watch!WitnessUnreachable
  PROVE  WatchInv'
<1> DEFINE n == Len(wViews)
           w == WitnessURLs[n + 1]
           v == wViews'[n + 1]
<1>0. /\ n \in Nat /\ Len(WitnessURLs) \in Nat /\ n < Len(WitnessURLs)
      /\ wViews \in Seq([reachable: BOOLEAN, root: WatchRoots \cup {Watch!NoRoot}])
      /\ n + 1 \in DOMAIN WitnessURLs /\ w \in Watch!Witnesses
  BY WatchAssumption DEF WatchInv, ViewInv, Watch!FetchSignedSeen,
                         Watch!WitnessUnreachable, Watch!Witnesses
<1>1. UNCHANGED <<wLatest, wSeen, wShown, wPc, wOp, wCode, wBefore>> /\ wPc = "witnesses"
  BY DEF Watch!FetchSignedSeen, Watch!WitnessUnreachable
<1>2. Known(wSeen[w]) /\ Within(wBefore[w], wSeen[w])
  BY <1>0, Zenon DEF WatchInv, GossipInv
<1>3. PICK r \in [reachable: BOOLEAN, root: WatchRoots \cup {Watch!NoRoot}] :
         /\ wViews' = Append(wViews, r)
         /\ r.reachable => r.root = Watch!SeenAtSize(w)
  <2>1. CASE Watch!FetchSignedSeen
    <3>1. Watch!SeenAtSize(w) \in WatchRoots \cup {Watch!NoRoot}
      BY <1>2, Zenon DEF Watch!SeenAtSize, Known
    <3> DEFINE x == [reachable |-> TRUE, root |-> Watch!SeenAtSize(w)]
    <3>2. x \in [reachable: BOOLEAN, root: WatchRoots \cup {Watch!NoRoot}]
          /\ x.root = Watch!SeenAtSize(w)
      BY <3>1
    <3>3. wViews' = Append(wViews, x)
      BY <2>1 DEF Watch!FetchSignedSeen
    <3> HIDE DEF x
    <3> QED
      BY <3>2, <3>3
  <2>2. CASE Watch!WitnessUnreachable
    <3> DEFINE x == [reachable |-> FALSE, root |-> Watch!NoRoot]
    <3>1. x \in [reachable: BOOLEAN, root: WatchRoots \cup {Watch!NoRoot}] /\ ~x.reachable
      OBVIOUS
    <3>2. wViews' = Append(wViews, x)
      BY <2>2 DEF Watch!WitnessUnreachable
    <3> HIDE DEF x
    <3> QED
      BY <3>1, <3>2
  <2> QED
    BY <2>1, <2>2
<1>4. /\ wViews' \in Seq([reachable: BOOLEAN, root: WatchRoots \cup {Watch!NoRoot}])
      /\ Len(wViews') = n + 1 /\ wViews'[n + 1] = r
      /\ \A i \in 1 .. n : wViews'[i] = wViews[i]
  BY <1>0, <1>3
<1>5. r.reachable =>
         /\ r.root # Watch!NoRoot => [size |-> wOp.size, root |-> r.root] \in wShown
         /\ wOp.size \in DOMAIN wBefore[w] => r.root = wBefore[w][wOp.size]
  BY <1>2, <1>3, Zenon DEF Watch!SeenAtSize, Known, Within
<1>6. Len(wViews') <= Len(WitnessURLs)
  BY <1>0, <1>4
<1>7. ASSUME NEW i \in 1 .. (n + 1)
      PROVE  wViews'[i].reachable =>
               /\ wViews'[i].root # Watch!NoRoot =>
                     [size |-> wOp.size, root |-> wViews'[i].root] \in wShown
               /\ wOp.size \in DOMAIN wBefore[WitnessURLs[i]] =>
                     wViews'[i].root = wBefore[WitnessURLs[i]][wOp.size]
  <2>1. CASE i = n + 1
    BY <1>4, <1>5, <2>1, Zenon
  <2>2. CASE i \in 1 .. n
    BY <1>4, <2>2, Zenon DEF WatchInv, ViewInv
  <2> QED
    BY <1>0, <2>1, <2>2
<1>8. ViewInv'
  BY <1>1, <1>4, <1>6, <1>7, Zenon DEF ViewInv
<1>9. GossipInv'
  BY <1>1, Zenon DEF WatchInv, GossipInv, Known, Within
<1>10. wCode' = Watch!Running
  BY <1>1 DEF WatchInv
<1>11. Watch!ExitCodeIsRight'
  BY <1>10 DEF Watch!ExitCodeIsRight, Watch!DivergenceIsFork, Watch!KnownForkReported,
               Watch!Running
<1> QED
  BY <1>1, <1>8, <1>9, <1>10, <1>11 DEF WatchInv

\* The exit code that is given is right.
LEMMA CompareRight ==
  ASSUME WatchInv, Watch!Compare
  PROVE  Watch!ExitCodeIsRight'
<1>0. /\ UNCHANGED <<wOp, wViews, wBefore, wShown>> /\ wCode' = Watch!ExitCode
      /\ DOMAIN wViews = 1 .. Len(wViews)
  <2>1. wViews \in Seq([reachable: BOOLEAN, root: WatchRoots \cup {Watch!NoRoot}])
    BY Zenon DEF WatchInv, ViewInv
  <2>2. DOMAIN wViews = 1 .. Len(wViews)
    BY <2>1
  <2> QED
    BY <2>2, Zenon DEF Watch!Compare
<1>1. CASE wOp = Watch!NoView
  <2>1. wCode' = 2
    BY <1>0, <1>1 DEF Watch!ExitCode
  <2> QED
    BY <2>1 DEF Watch!ExitCodeIsRight, Watch!DivergenceIsFork, Watch!KnownForkReported
<1>2. CASE wOp # Watch!NoView /\ Watch!Divergences # {}
  <2>1. wCode' = 1
    BY <1>0, <1>2 DEF Watch!ExitCode
  <2>2. PICK i \in DOMAIN wViews : wViews[i].reachable
        /\ wViews[i].root \notin {Watch!NoRoot, wOp.root}
    BY <1>2 DEF Watch!Divergences
  <2>3. wOp \in wShown /\ [size |-> wOp.size, root |-> wViews[i].root] \in wShown
    BY <1>0, <1>2, <2>2, Zenon DEF WatchInv, GossipInv, ViewInv
  <2>4. \E a, b \in wShown : a.size = b.size /\ a.root # b.root
    <3> DEFINE b == [size |-> wOp.size, root |-> wViews[i].root]
    <3>1. b.size = wOp.size /\ b.root # wOp.root
      BY <2>2, Zenon
    <3> QED
      BY <2>3, <3>1
  <2> QED
    BY <1>0, <2>1, <2>4 DEF Watch!ExitCodeIsRight, Watch!DivergenceIsFork,
                            Watch!KnownForkReported
<1>3. CASE wOp # Watch!NoView /\ Watch!Divergences = {}
  <2>1. wCode' \in {0, 2}
    BY <1>0, <1>3 DEF Watch!ExitCode
  <2>2. ASSUME NEW i \in DOMAIN wViews, wViews[i].reachable,
               wOp.size \in DOMAIN wBefore[WitnessURLs[i]]
        PROVE  wBefore[WitnessURLs[i]][wOp.size] = wOp.root
    <3> DEFINE w == WitnessURLs[i]
    <3>1. wViews[i].root \in {Watch!NoRoot, wOp.root}
      BY <1>3, <2>2, Zenon DEF Watch!Divergences
    <3>2. wViews[i].root = wBefore[w][wOp.size]
      BY <1>0, <2>2, Zenon DEF WatchInv, ViewInv
    <3>3. w \in Watch!Witnesses
      BY <1>0, WatchAssumption DEF WatchInv, ViewInv, Watch!Witnesses
    <3>4. wBefore[w][wOp.size] \in WatchRoots
      BY <2>2, <3>3, Zenon DEF WatchInv, GossipInv, Known, Within
    <3> QED
      BY <3>1, <3>2, <3>4, WatchAssumption, Zenon DEF Watch!NoRoot
  <2> QED
    BY <1>0, <2>1, <2>2 DEF Watch!ExitCodeIsRight, Watch!DivergenceIsFork,
                            Watch!KnownForkReported
<1> QED
  BY <1>1, <1>2, <1>3

\* Every step preserves the invariant.
LEMMA WatchNext == WatchInv /\ [Watch!Next]_(Watch!vars) => WatchInv'
<1> SUFFICES ASSUME WatchInv, [Watch!Next]_(Watch!vars) PROVE WatchInv'
  OBVIOUS
<1>1. ASSUME NEW r \in WatchRoots, Watch!ServeCheckpoint(r) PROVE WatchInv'
  <2>1. /\ wShown \subseteq wShown' /\ wLatest' \in wShown'
        /\ UNCHANGED <<wSeen, wPc, wOp, wViews, wCode, wBefore>>
    BY <1>1, Zenon DEF Watch!ServeCheckpoint
  <2>2. DOMAIN wSeen' = Watch!Witnesses
    BY <2>1, Zenon DEF WatchInv, GossipInv
  <2>3. \A w \in Watch!Witnesses : Known(wSeen[w])' /\ Within(wSeen[w], wSeen'[w])
    BY <2>1, Zenon DEF WatchInv, GossipInv, Known, Within
  <2> QED
    BY <2>1, <2>2, <2>3, GrowKeeps
<1>2. ASSUME NEW w \in Watch!Witnesses, NEW n \in 1 .. WatchMaxSize,
             NEW r \in WatchRoots, Watch!Cosign(w, n, r)
      PROVE  WatchInv'
  <2>1. /\ wShown' = wShown \cup {[size |-> n, root |-> r]}
        /\ wSeen' = [wSeen EXCEPT ![w] = Watch!Put(@, n, r)] /\ n \notin DOMAIN wSeen[w]
        /\ UNCHANGED <<wLatest, wPc, wOp, wViews, wCode, wBefore>>
    BY <1>2, Zenon DEF Watch!Cosign
  <2>2. DOMAIN wSeen' = Watch!Witnesses
        /\ (wLatest' # Watch!NoView => wLatest' \in wShown')
    BY <2>1, Zenon DEF WatchInv, GossipInv
  <2>3. ASSUME NEW x \in Watch!Witnesses
        PROVE  Known(wSeen[x])' /\ Within(wSeen[x], wSeen'[x])
    <3>1. Known(wSeen[x]) /\ DOMAIN wSeen = Watch!Witnesses
      BY Zenon DEF WatchInv, GossipInv
    <3>2. CASE x = w
      <4>1. wSeen'[x] = Watch!Put(wSeen[x], n, r)
        BY <2>1, <3>1, <3>2, Zenon
      <4>2. /\ DOMAIN wSeen'[x] = DOMAIN wSeen[x] \cup {n} /\ wSeen'[x][n] = r
            /\ \A m \in DOMAIN wSeen[x] : wSeen'[x][m] = wSeen[x][m]
        BY <2>1, <3>2, <4>1, Zenon DEF Watch!Put
      <4> QED
        BY <2>1, <3>1, <4>2, Zenon DEF Known, Within
    <3>3. CASE x # w
      <4>1. wSeen'[x] = wSeen[x]
        BY <2>1, <3>1, <3>3, Zenon
      <4> QED
        BY <2>1, <3>1, <4>1, Zenon DEF Known, Within
    <3> QED
      BY <3>2, <3>3, Zenon
  <2> QED
    BY <2>1, <2>2, <2>3, GrowKeeps, Zenon
<1>3. CASE Watch!Begin
  <2>1. GossipInv'
    BY <1>3, Zenon DEF Watch!Begin, WatchInv, GossipInv, Known, Within
  <2>2. ViewInv'
    BY <1>3, WatchAssumption DEF Watch!Begin, WatchInv, ViewInv
  <2> QED
    BY <1>3, <2>1, <2>2 DEF Watch!Begin, WatchInv, Watch!ExitCodeIsRight,
                            Watch!DivergenceIsFork,
                            Watch!KnownForkReported, Watch!Running
<1>4. CASE Watch!FetchOperatorCheckpoint \/ Watch!OperatorUnreachable
  <2>0. /\ wOp' \in {wOp, wLatest} /\ wBefore' = wSeen /\ wPc = "operator"
        /\ wPc' = "witnesses"
        /\ UNCHANGED <<wLatest, wSeen, wShown, wViews, wCode>> /\ wViews = <<>>
    BY <1>4, Zenon DEF Watch!FetchOperatorCheckpoint, Watch!OperatorUnreachable, WatchInv
  <2>1. GossipInv'
    BY <2>0, Zenon DEF WatchInv, GossipInv, Known, Within
  <2>2. ViewInv'
    BY <2>0 DEF WatchInv, ViewInv
  <2>3. wPc # "idle" => wCode = Watch!Running
    BY Zenon DEF WatchInv
  <2> QED
    BY <2>0, <2>1, <2>2, <2>3 DEF WatchInv, Watch!ExitCodeIsRight, Watch!DivergenceIsFork,
                            Watch!KnownForkReported, Watch!Running
<1>5. CASE Watch!FetchSignedSeen \/ Watch!WitnessUnreachable
  BY <1>5, FetchKeeps
<1>6. CASE Watch!Compare
  <2>0. UNCHANGED <<wLatest, wSeen, wShown, wOp, wViews, wBefore>> /\ wPc' = "idle"
    BY <1>6 DEF Watch!Compare
  <2>1. GossipInv' /\ ViewInv'
    BY <2>0, Zenon DEF WatchInv, GossipInv, ViewInv, Known, Within
  <2>2. Watch!ExitCodeIsRight'
    BY <1>6, CompareRight
  <2> QED
    BY <2>0, <2>1, <2>2 DEF WatchInv
<1>7. CASE UNCHANGED Watch!vars
  <2>1. GossipInv' /\ ViewInv'
    BY <1>7, Zenon DEF Watch!vars, WatchInv, GossipInv, ViewInv, Known, Within
  <2> QED
    BY <1>7, <2>1, Zenon DEF Watch!vars, WatchInv, Watch!ExitCodeIsRight,
                      Watch!DivergenceIsFork, Watch!KnownForkReported
<1> QED
  BY <1>1, <1>2, <1>3, <1>4, <1>5, <1>6, <1>7 DEF Watch!Next

\* The exit code of the watcher reports forks and only forks, for every number
\* of witnesses, sizes, roots and failing requests (pkg/watcher, Run).
THEOREM WatchCorrect == Watch!Spec => []ExitCodeIsRight
<1>1. WatchInv => Watch!ExitCodeIsRight
  BY DEF WatchInv
<1> QED
  BY <1>1, WatchInit, WatchNext, PTL DEF Watch!Spec, ExitCodeIsRight

=============================================================================
