--------------------------- MODULE Checkpointing ---------------------------
(***************************************************************************)
(* Checkpoints and anchors: core.Log.CheckpointCtx, Anchor and             *)
(* CheckpointAndAnchor (pkg/core/log.go), checkpoint.Signer.Sign and       *)
(* Verify (pkg/checkpoint), GatherWitnessSignatures (pkg/core/witnesses),  *)
(* the checkpoint keyspace (pkg/storage) and FileSink (pkg/anchor).        *)
(*                                                                         *)
(* steled runs them from two tickers and from admin handlers at once, next *)
(* to appends and key rotations.  The tree is read under Log.mu; the       *)
(* signer's key, epoch and signatures are read under fwdsec.Signer.mu, but *)
(* in one critical section each; witnesses, store and sink come later.     *)
(*                                                                         *)
(* The log is represented by its length (module SteleLog): the root of the *)
(* tree and the head hash of the store are functions of theirs, and an     *)
(* append holds Log.mu while the two differ.  Rotate is one step (module   *)
(* FwdSec); the key of epoch e is represented by e.                        *)
(***************************************************************************)
EXTENDS Integers, Sequences, Keyspace

CONSTANTS
    Threads,      \* concurrent callers: tickers and admin handlers
    Witnesses,    \* ids in the operator's witness list
    Modes,        \* how the operator may be configured to sign
    MaxSize,      \* bound: entries in the log
    MaxEpoch,     \* bound: key rotations
    MaxCalls      \* bound: calls of CheckpointCtx and Anchor

ASSUME CheckpointingAssumption ==
    /\ Modes \subseteq {"single", "hybrid", "threshold"}
    /\ MaxSize \in Nat
    /\ MaxEpoch \in Nat
    /\ MaxCalls \in Nat

VARIABLES
    mode,       \* one key, a key and an ML-DSA key, or a t-of-N cosigner group
    head,       \* entries in the store
    tree,       \* entries in the in-memory tree
    epoch,      \* Chain.ActiveEpoch; epochs 0 .. epoch are in the chain
    ckpts,      \* "ckpt/" keyspace: tree size -> checkpoint
    anchors,    \* the FileSink's lines, in write order
    records,    \* "anchor/" keyspace: the sizes with a record
    pc,         \* per thread: the next step of its call
    draft,      \* per thread: the checkpoint it works on
    andAnchor,  \* per thread: the call is CheckpointAndAnchor
    calls

vars == <<mode, head, tree, epoch, ckpts, anchors, records, pc, draft,
          andAnchor, calls>>

NoKey == -1

Checkpoints == [size: Nat, root: Nat, head: Nat, keyID: Nat \cup {NoKey},
                epoch: Nat \cup {NoKey}, sig: Nat \cup {NoKey},
                qsig: Nat \cup {NoKey}, members: BOOLEAN,
                cosigs: SUBSET Witnesses]

NoDraft == [size |-> 0, root |-> 0, head |-> 0, keyID |-> NoKey,
            epoch |-> NoKey, sig |-> NoKey, qsig |-> NoKey,
            members |-> FALSE, cosigs |-> {}]

-----------------------------------------------------------------------------
(* Verification (pkg/checkpoint)                                           *)

\* checkpoint.Verify against the chain with epochs 0 .. epoch.  A signature is
\* represented by the key that made it.
Verify(c) ==
    \/ c.members
    \/ /\ c.epoch \in 0 .. epoch
       /\ c.keyID = c.epoch
       /\ c.sig = c.epoch
       /\ c.qsig = IF mode = "hybrid" THEN c.epoch ELSE NoKey

-----------------------------------------------------------------------------
(* The log and its keys                                                    *)

log == <<mode, head, tree, epoch>>
stored == <<ckpts, anchors, records>>
call == <<pc, draft, andAnchor, calls>>

Init ==
    /\ mode \in Modes
    /\ head = 0
    /\ tree = 0
    /\ epoch = 0
    /\ ckpts = EmptySpace
    /\ anchors = <<>>
    /\ records = {}
    /\ pc = [t \in Threads |-> "idle"]
    /\ draft = [t \in Threads |-> NoDraft]
    /\ andAnchor = [t \in Threads |-> FALSE]
    /\ calls = 0

\* No append is between its transaction and the update of the tree.
MuFree == head = tree

\* AppendCtx under Log.mu: store.AppendEntry ...
AppendEntry ==
    /\ MuFree
    /\ head < MaxSize
    /\ head' = head + 1
    /\ UNCHANGED <<mode, tree, epoch, stored, call>>

\* ... then tree.AppendLeafHash
UpdateTree ==
    /\ ~MuFree
    /\ tree' = tree + 1
    /\ UNCHANGED <<mode, head, epoch, stored, call>>

\* Signer.Rotate: one critical section of Signer.mu
Rotate ==
    /\ epoch < MaxEpoch
    /\ epoch' = epoch + 1
    /\ UNCHANGED <<mode, head, tree, stored, call>>

-----------------------------------------------------------------------------
(* CheckpointCtx                                                           *)

Goto(t, label) == pc' = [pc EXCEPT ![t] = label]

\* Any return: the thread is free again.
Return(t) ==
    /\ Goto(t, "idle")
    /\ draft' = [draft EXCEPT ![t] = NoDraft]
    /\ andAnchor' = [andAnchor EXCEPT ![t] = FALSE]

BeginCall(t) ==
    /\ pc[t] = "idle"
    /\ calls < MaxCalls
    /\ calls' = calls + 1

\* mutant: the tree and the store are read without Log.mu
ReadTree_Unlocked(t, both) ==
    /\ BeginCall(t)
    /\ draft' = [draft EXCEPT ![t] =
                   [NoDraft EXCEPT !.size = tree, !.root = tree, !.head = head]]
    /\ andAnchor' = [andAnchor EXCEPT ![t] = both]
    /\ Goto(t, "public")
    /\ UNCHANGED <<log, stored>>

\* Root, head and size are read in one critical section of Log.mu.
ReadTree(t, both) ==
    /\ MuFree
    /\ BeginCall(t)
    /\ draft' = [draft EXCEPT ![t] =
                   [NoDraft EXCEPT !.size = tree, !.root = tree, !.head = head]]
    /\ andAnchor' = [andAnchor EXCEPT ![t] = both]
    /\ Goto(t, "public")
    /\ UNCHANGED <<log, stored>>

\* The clock disagrees with the beacon, or signing fails (a destroyed key, no
\* quorum), or the checkpoint cannot be stored: a hard error, nothing is kept.
CheckpointFails(t) ==
    /\ pc[t] \in {"public", "sign", "save"}
    /\ Return(t)
    /\ UNCHANGED <<log, stored, calls>>

\* s.fws.Public()
ReadPublic(t) ==
    /\ pc[t] = "public"
    /\ draft' = [draft EXCEPT ![t].keyID = epoch]
    /\ Goto(t, "epoch")
    /\ UNCHANGED <<log, stored, andAnchor, calls>>

\* s.fws.ActiveEpoch(): a critical section of its own
ReadEpoch(t) ==
    /\ pc[t] = "epoch"
    /\ draft' = [draft EXCEPT ![t].epoch = epoch]
    /\ Goto(t, "sign")
    /\ UNCHANGED <<log, stored, andAnchor, calls>>

\* The group signs the canonical bytes, or the key that is active by now does.
SignDraft(t) ==
    /\ pc[t] = "sign"
    /\ draft' = IF mode = "threshold"
                THEN [draft EXCEPT ![t].members = TRUE]
                ELSE [draft EXCEPT ![t].sig = epoch]
    /\ Goto(t, IF mode = "hybrid" THEN "qsign" ELSE "gather")
    /\ UNCHANGED <<log, stored, andAnchor, calls>>

\* s.fws.QuantumSign(canon)
QuantumSign(t) ==
    /\ pc[t] = "qsign"
    /\ draft' = [draft EXCEPT ![t].qsig = epoch]
    /\ Goto(t, "gather")
    /\ UNCHANGED <<log, stored, andAnchor, calls>>

\* mutant: a signature counts whatever the witness answered
GatherWitnessSignatures_Trusting(t, answering) ==
    /\ pc[t] = "gather"
    /\ draft' = [draft EXCEPT ![t].cosigs = answering]
    /\ Goto(t, "save")
    /\ UNCHANGED <<log, stored, andAnchor, calls>>

\* Every registered witness is asked; those that cannot be reached, time out or
\* refuse are skipped.  A witness verifies the checkpoint against the chain it
\* is sent before it signs (pkg/witness), and what comes back is checked
\* against the key on file for the id it names (validateWitnessSig).
GatherWitnessSignatures(t, answering) ==
    /\ pc[t] = "gather"
    /\ draft' = [draft EXCEPT ![t].cosigs =
                   {w \in answering : Verify(draft[t])}]
    /\ Goto(t, "save")
    /\ UNCHANGED <<log, stored, andAnchor, calls>>

\* The checkpoint is stored under its size, over the one that is there.
SaveCheckpoint(t) ==
    /\ pc[t] = "save"
    /\ ckpts' = Put(ckpts, draft[t].size, draft[t])
    /\ UNCHANGED <<log, anchors, records, calls>>
    /\ \/ /\ andAnchor[t]
          /\ Goto(t, "latest")
          /\ UNCHANGED <<draft, andAnchor>>
       \/ /\ ~andAnchor[t]
          /\ Return(t)

-----------------------------------------------------------------------------
(* Anchor                                                                  *)

Anchor(t) ==
    /\ BeginCall(t)
    /\ Goto(t, "latest")
    /\ UNCHANGED <<log, stored, draft, andAnchor>>

\* storage.LatestCheckpoint: nothing while the log is empty, otherwise the
\* largest size at or below the log's.
LatestSizes ==
    {n \in DOMAIN ckpts : /\ head > 0
                          /\ n <= head
                          /\ \A m \in DOMAIN ckpts : m <= head => m <= n}

LatestCheckpoint(t) ==
    /\ pc[t] = "latest"
    /\ \E n \in LatestSizes : draft' = [draft EXCEPT ![t] = ckpts[n]]
    /\ Goto(t, "publish")
    /\ UNCHANGED <<log, stored, andAnchor, calls>>

\* "anchor: no checkpoint exists yet"
NoCheckpointYet(t) ==
    /\ pc[t] = "latest"
    /\ LatestSizes = {}
    /\ Return(t)
    /\ UNCHANGED <<log, stored, calls>>

\* FileSink.Publish appends a line, then Anchor records it in the store
\* (ignoring an error).
Publish(t) ==
    /\ pc[t] = "publish"
    /\ draft[t].sig # NoKey
    /\ anchors' = Append(anchors, draft[t])
    /\ records' = records \cup {draft[t].size}
    /\ Return(t)
    /\ UNCHANGED <<log, ckpts, calls>>

\* FileSink refuses a checkpoint without an operator signature; or the file
\* cannot be opened, or it can be written but not synced.
PublishFails(t) ==
    /\ pc[t] = "publish"
    /\ \/ anchors' = anchors
       \/ draft[t].sig # NoKey /\ anchors' = Append(anchors, draft[t])
    /\ Return(t)
    /\ UNCHANGED <<log, ckpts, records, calls>>

-----------------------------------------------------------------------------
Next ==
    \/ AppendEntry
    \/ UpdateTree
    \/ Rotate
    \/ \E t \in Threads :
         \/ \E both \in BOOLEAN : ReadTree(t, both)
         \/ CheckpointFails(t)
         \/ ReadPublic(t)
         \/ ReadEpoch(t)
         \/ SignDraft(t)
         \/ QuantumSign(t)
         \/ \E answering \in SUBSET Witnesses :
              GatherWitnessSignatures(t, answering)
         \/ SaveCheckpoint(t)
         \/ Anchor(t)
         \/ LatestCheckpoint(t)
         \/ NoCheckpointYet(t)
         \/ Publish(t)
         \/ PublishFails(t)

Spec == Init /\ [][Next]_vars

-----------------------------------------------------------------------------
(* Properties                                                              *)

Labels == {"idle", "public", "epoch", "sign", "qsign", "gather", "save",
           "latest", "publish"}

\* Every variable has its type; a checkpoint is stored under its own size.
TypeOK ==
    /\ mode \in Modes
    /\ head \in Nat /\ tree \in Nat /\ epoch \in Nat /\ calls \in Nat
    /\ \A n \in DOMAIN ckpts : ckpts[n] \in Checkpoints /\ ckpts[n].size = n
    /\ anchors \in Seq(Checkpoints)
    /\ records \subseteq Nat
    /\ pc \in [Threads -> Labels]
    /\ draft \in [Threads -> Checkpoints]
    /\ andAnchor \in [Threads -> BOOLEAN]

Published == {anchors[i] : i \in DOMAIN anchors}

AllCheckpoints == {ckpts[n] : n \in DOMAIN ckpts} \cup Published

\* A checkpoint that left the process names the root and the head hash of one
\* and the same prefix of the log, of the size it states, whatever was appended
\* while it was signed (log.go, CheckpointCtx).
SnapshotConsistent ==
    \A c \in AllCheckpoints :
        c.root = c.size /\ c.head = c.size /\ c.size <= head

\* A checkpoint with a witness signature verifies under the rotation chain, for
\* ever: a signature of an epoch that Rotate ended while the checkpoint was
\* being signed is never cosigned (checkpoint.Sign, GatherWitnessSignatures).
CosignedVerifies ==
    \A c \in AllCheckpoints : c.cosigs # {} => Verify(c)

\* Every stored checkpoint verifies, signed before, after or during a rotation
\* (pkg/checkpoint/checkpoint_test.go:72, "pre-rotation checkpoint should still
\* verify").
StoredCheckpointVerifies == \A n \in DOMAIN ckpts : Verify(ckpts[n])

=============================================================================
