------------------------------ MODULE Recovery ------------------------------
(***************************************************************************)
(* Disaster recovery: snapshots of the database (cmd/stele-backup),        *)
(* exports of the rotation chain (cmd/stele-export-chain), and the start   *)
(* of steled on what was restored (fwdsec.NewSignerWithStore, core.New).   *)
(*                                                                         *)
(* The active key is outside the host (an HSM or a sealed copy, as         *)
(* RECOVERY.md asks for), so that losing the host leaves it intact; a      *)
(* rotation destroys the previous one.  An entry is represented by the     *)
(* time it was made; the root of a log by its last entry, which through    *)
(* the hash chain stands for all of them.                                  *)
(***************************************************************************)
EXTENDS Integers, Sequences, Keyspace

CONSTANTS
    Incremental,   \* BOOLEAN: snapshots may use --since
    MaxSize,       \* bound: the size of the log
    MaxEntries,    \* bound: entries ever made
    MaxEpoch,      \* bound: rotations
    MaxSnapshots,  \* bound: snapshots
    MaxExports,    \* bound: exports of the chain
    MaxLosses      \* bound: losses of the database or the host

VARIABLES
    up,         \* steled runs
    entries,    \* keys entry/: index to [made, prev, ver]
    ckpts,      \* keys checkpoint/: size to [root, epoch, ver]
    ver,        \* the version of the last transaction
    chain,      \* chain.json: [root, epochs]; epochs 0: there is none
    key,        \* the key that exists: [root, epoch]
    snapshots,  \* the backups: [entries, ckpts, ver] and, for the history, the
                \* [size, last, full, good] of what they were made of
    exports,    \* the exported chains
    restored,   \* history: the snapshot restored since the loss; 0: none
    time, losses

db == <<entries, ckpts, ver>>
backups == <<snapshots, exports>>
vars == <<up, entries, ckpts, ver, chain, key, snapshots, exports, restored,
          time, losses>>

NoChain == [root |-> 0, epochs |-> 0]

Init ==
    /\ up = TRUE
    /\ entries = EmptySpace
    /\ ckpts = EmptySpace
    /\ ver = 0
    /\ chain = [root |-> 0, epochs |-> 1]
    /\ key = [root |-> 0, epoch |-> 0]
    /\ snapshots = <<>>
    /\ exports = <<>>
    /\ restored = 0
    /\ time = 0
    /\ losses = 0

-----------------------------------------------------------------------------
(* The running log                                                         *)

Largest(space) == CHOOSE n \in DOMAIN space : \A m \in DOMAIN space : m <= n

Size == IF DOMAIN entries = {} THEN 0 ELSE Largest(entries) + 1

Root == IF Size = 0 THEN 0 ELSE entries[Size - 1].made

\* replay: from index 0 every entry follows the one before it.
Replays ==
    /\ DOMAIN entries = 0 .. (Size - 1)
    /\ \A i \in DOMAIN entries :
         entries[i].prev = IF i = 0 THEN 0 ELSE entries[i - 1].made

AppendCtx ==
    /\ up
    /\ Size < MaxSize
    /\ time < MaxEntries
    /\ time' = time + 1
    /\ ver' = ver + 1
    /\ entries' = Put(entries, Size, [made |-> time', prev |-> Root, ver |-> ver'])
    /\ UNCHANGED <<up, ckpts, chain, key, backups, restored, losses>>

\* CheckpointAndAnchor; the same size signed again by the same key is no news.
Checkpoint ==
    /\ up
    /\ Size \in DOMAIN ckpts => ckpts[Size].root # Root \/ ckpts[Size].epoch # key
    /\ ver' = ver + 1
    /\ ckpts' = Put(ckpts, Size, [root |-> Root, epoch |-> key, ver |-> ver'])
    /\ UNCHANGED <<up, entries, chain, key, backups, restored, time, losses>>

\* The chain is written, the previous key destroyed.
Rotate ==
    /\ up
    /\ key.epoch < MaxEpoch
    /\ chain' = [chain EXCEPT !.epochs = @ + 1]
    /\ key' = [key EXCEPT !.epoch = @ + 1]
    /\ UNCHANGED <<up, db, backups, restored, time, losses>>

Stop ==
    /\ up
    /\ up' = FALSE
    /\ UNCHANGED <<db, chain, key, backups, restored, time, losses>>

-----------------------------------------------------------------------------
(* Backups                                                                 *)

\* What Badger's backup stream holds: the keys with a later version.
Newer(space, since) ==
    [k \in {k \in DOMAIN space : space[k].ver > since} |-> space[k]]

\* The version to pass as --since: that of the last snapshot, or 0.
Sinces ==
    {0} \cup IF Incremental /\ snapshots # <<>>
             THEN {snapshots[Len(snapshots)].ver} ELSE {}

\* mutant: the stream leaves the entries out
Snapshot_NoEntries(since) ==
    /\ ~up
    /\ Len(snapshots) < MaxSnapshots
    /\ snapshots' = Append(snapshots,
                           [entries |-> EmptySpace, ckpts |-> ckpts, ver |-> ver,
                            size |-> Size, last |-> Root, full |-> since = 0,
                            good |-> Replays])
    /\ UNCHANGED <<up, db, chain, key, exports, restored, time, losses>>

\* stele-backup snapshot; BadgerDB's directory lock keeps it out while steled
\* runs, and where there is no database it fails.
Snapshot(since) ==
    /\ ~up
    /\ ver > 0
    /\ Len(snapshots) < MaxSnapshots
    /\ snapshots' = Append(snapshots,
                           [entries |-> Newer(entries, since),
                            ckpts |-> Newer(ckpts, since), ver |-> ver,
                            size |-> Size, last |-> Root, full |-> since = 0,
                            good |-> Replays])
    /\ UNCHANGED <<up, db, chain, key, exports, restored, time, losses>>

\* stele-export-chain full: reads chain.json at any time.
ExportChain ==
    /\ chain # NoChain
    /\ Len(exports) < MaxExports
    /\ exports' = Append(exports, chain)
    /\ UNCHANGED <<up, db, chain, key, snapshots, restored, time, losses>>

-----------------------------------------------------------------------------
(* Loss and recovery                                                       *)

\* The database is lost or moved away; with the host, chain.json too.
Lose(host) ==
    /\ losses < MaxLosses
    /\ losses' = losses + 1
    /\ up' = FALSE
    /\ entries' = EmptySpace
    /\ ckpts' = EmptySpace
    /\ ver' = 0
    /\ chain' = IF host THEN NoChain ELSE chain
    /\ restored' = 0
    /\ UNCHANGED <<key, backups, time>>

\* stele-backup restore refuses a directory that is not empty.
RestoreDB(i) ==
    /\ ~up
    /\ ver = 0
    /\ entries' = snapshots[i].entries
    /\ ckpts' = snapshots[i].ckpts
    /\ ver' = snapshots[i].ver
    /\ restored' = i
    /\ UNCHANGED <<up, chain, key, backups, time, losses>>

\* cp chain-N.json keys/chain.json
RestoreChain(i) ==
    /\ ~up
    /\ chain' = exports[i]
    /\ UNCHANGED <<up, db, key, backups, restored, time, losses>>

-----------------------------------------------------------------------------
(* The start                                                               *)

\* loadActive: the store has the key of the locator, and it is the last one's
\* of the chain.
LoadsActive ==
    /\ chain # NoChain
    /\ key = [root |-> chain.root, epoch |-> chain.epochs - 1]

Start ==
    /\ ~up
    /\ Replays
    /\ LoadsActive
    /\ up' = TRUE
    /\ UNCHANGED <<db, chain, key, backups, restored, time, losses>>

\* createGenesis: without a chain.json steled makes a new identity.
StartFresh ==
    /\ ~up
    /\ Replays
    /\ chain = NoChain
    /\ chain' = [root |-> key.root + 1, epochs |-> 1]
    /\ key' = [root |-> key.root + 1, epoch |-> 0]
    /\ up' = TRUE
    /\ UNCHANGED <<db, backups, restored, time, losses>>

Next ==
    \/ AppendCtx \/ Checkpoint \/ Rotate \/ Stop
    \/ \E since \in Sinces : Snapshot(since)
    \/ ExportChain
    \/ \E host \in BOOLEAN : Lose(host)
    \/ \E i \in DOMAIN snapshots : RestoreDB(i)
    \/ \E i \in DOMAIN exports : RestoreChain(i)
    \/ Start \/ StartFresh

Spec == Init /\ [][Next]_vars

-----------------------------------------------------------------------------
(* Properties                                                              *)

Identities == 0 .. MaxLosses

\* Every variable has its type.
TypeOK ==
    /\ up \in BOOLEAN
    /\ DOMAIN entries \subseteq 0 .. (MaxSize - 1)
    /\ DOMAIN ckpts \subseteq 0 .. MaxSize
    /\ \A n \in DOMAIN ckpts :
         ckpts[n].epoch \in [root: Identities, epoch: 0 .. MaxEpoch]
    /\ chain \in [root: Identities, epochs: 0 .. (MaxEpoch + 1)]
    /\ key \in [root: Identities, epoch: 0 .. MaxEpoch]
    /\ Len(snapshots) <= MaxSnapshots /\ Len(exports) <= MaxExports
    /\ restored \in 0 .. MaxSnapshots
    /\ ver \in Nat /\ time \in 0 .. MaxEntries /\ losses \in 0 .. MaxLosses

RestoredCheckpointsVerify ==
    up => \A n \in DOMAIN ckpts :
            ckpts[n].epoch.root = chain.root => ckpts[n].epoch.epoch < chain.epochs

SnapshotRestores ==
    restored # 0 /\ snapshots[restored].full /\ snapshots[restored].good =>
        LET s == snapshots[restored] IN
        /\ Replays
        /\ Size >= s.size
        /\ s.size > 0 => entries[s.size - 1].made = s.last

\* A recovered log is the log that was backed up.  "Restore from the most
\* recent good snapshot" (RECOVERY.md:70): restored into an empty directory, a
\* full snapshot of a database that replays is one that replays and holds what
\* it was made of, and what is appended later extends it; and whatever snapshots
\* and chain exports were combined, a log that starts on its old identity holds
\* only checkpoints that its chain verifies.
RecoveryIsSound == SnapshotRestores /\ RestoredCheckpointsVerify

=============================================================================
