------------------------------ MODULE Tripwire ------------------------------
(***************************************************************************)
(* The tripwire (pkg/tripwire): at every tick it reads the latest stored   *)
(* checkpoint, re-derives the Merkle root from the stored entries and      *)
(* compares the two, while the log appends, makes checkpoints, stops and   *)
(* starts, and while the store may be modified out of band.                *)
(*                                                                         *)
(* The content of an entry is the time at which it was appended, or Edited *)
(* once it was overwritten.  A hash is what it covers: EntryHash and       *)
(* LeafHash of an entry are the sequence of contents up to it, the root of *)
(* a tree is the sequence of its leaves.                                   *)
(***************************************************************************)
EXTENDS Integers, Sequences

CONSTANTS
    MaxAppends,  \* bound: entries
    MaxChanges,  \* bound: modifications of the store
    MaxStops     \* bound: restarts of steled

VARIABLES
    store,    \* the stored entries: [data, hash]
    tree,     \* the leaves of the tree in memory
    latest,   \* the latest stored checkpoint: its root; <<>> if there is none
    up,       \* steled runs
    pc,       \* the tripwire's next step
    ckpt,     \* the checkpoint it compares with
    result,   \* of the last pass: "none", "ok", "tamper", "error"
    changed,  \* history: the first index modified out of band, 0 if none
    seen,     \* history: changed, when the pass began
    rebuilt,  \* history: the tree was rebuilt from a modified store
    resigned, \* history: and a checkpoint was made of it
    time, changes, stops

logVars == <<store, tree, latest, up, time>>
passVars == <<pc, ckpt, result, seen>>
history == <<changed, rebuilt, resigned, changes, stops>>
vars == <<logVars, passVars, history>>

Init ==
    /\ store = <<>>
    /\ tree = <<>>
    /\ latest = <<>>
    /\ up = TRUE
    /\ pc = "idle"
    /\ ckpt = <<>>
    /\ result = "none"
    /\ changed = 0
    /\ seen = 0
    /\ rebuilt = FALSE
    /\ resigned = FALSE
    /\ time = 0
    /\ changes = 0
    /\ stops = 0

Edited == 0

-----------------------------------------------------------------------------
(* Entries                                                                 *)

\* Entry.Verify: the hashes cover the data.
Verify(e) == e.hash[Len(e.hash)] = e.data

\* Entry.VerifyChain for the entry at position i of the store
VerifyChain(i) ==
    SubSeq(store[i].hash, 1, Len(store[i].hash) - 1) =
        IF i = 1 THEN <<>> ELSE store[i - 1].hash

\* Every entry up to n verifies and chains.
Sound(n) == \A i \in 1 .. n : Verify(store[i]) /\ VerifyChain(i)

-----------------------------------------------------------------------------
(* The log                                                                 *)

AppendCtx ==
    /\ up
    /\ time < MaxAppends
    /\ time' = time + 1
    /\ tree' = Append(tree, time')
    /\ store' = Append(store, [data |-> time', hash |-> tree'])
    /\ UNCHANGED <<latest, up, passVars, history>>

\* CheckpointCtx signs the root in memory; LatestCheckpoint has the largest
\* size.
Checkpoint ==
    /\ up
    /\ tree # <<>>
    /\ latest' = IF Len(tree) >= Len(latest) THEN tree ELSE latest
    /\ resigned' = (resigned \/ (rebuilt /\ latest' = tree))
    /\ UNCHANGED <<store, tree, up, time, passVars, changed, rebuilt,
                   changes, stops>>

Stop ==
    /\ up
    /\ stops < MaxStops
    /\ stops' = stops + 1
    /\ up' = FALSE
    /\ tree' = <<>>
    /\ pc' = "idle"
    /\ result' = "none"
    /\ UNCHANGED <<store, latest, time, ckpt, seen, changed, rebuilt,
                   resigned, changes>>

\* New and replay: the tree is rebuilt from entries that verify and chain.  The
\* stored checkpoint is not looked at.
Start ==
    /\ ~up
    /\ Sound(Len(store))
    /\ up' = TRUE
    /\ tree' = IF store = <<>> THEN <<>> ELSE store[Len(store)].hash
    /\ rebuilt' = (changed # 0)
    /\ UNCHANGED <<store, latest, time, passVars, changed, resigned,
                   changes, stops>>

\* replay aborts the start.
StartRefused ==
    /\ ~up
    /\ ~Sound(Len(store))
    /\ UNCHANGED vars

-----------------------------------------------------------------------------
(* Modifications out of band                                               *)

Touch(i) ==
    /\ changes < MaxChanges
    /\ changes' = changes + 1
    /\ changed' = IF changed = 0 \/ i < changed THEN i ELSE changed
    /\ UNCHANGED <<tree, latest, up, time, passVars, rebuilt, resigned, stops>>

\* cmd/stele-tamper: the data of an entry, the hashes left as they are
Edit(i) ==
    /\ store' = [store EXCEPT ![i].data = Edited]
    /\ Touch(i)

\* A restore of entries that is older than the checkpoints: the tail is gone.
Truncate(n) ==
    /\ ~up
    /\ n < Len(store)
    /\ store' = SubSeq(store, 1, n)
    /\ Touch(n + 1)

-----------------------------------------------------------------------------
(* runOnce                                                                 *)

\* LatestCheckpoint; without one the pass is skipped.
Tick ==
    /\ up
    /\ pc = "idle"
    /\ latest # <<>>
    /\ ckpt' = latest
    /\ seen' = changed
    /\ result' = "none"
    /\ pc' = "run"
    /\ UNCHANGED <<logVars, history>>

TickSkipped ==
    /\ up
    /\ latest = <<>>
    /\ UNCHANGED vars

\* mutant: the whole store is compared, not the entries under the checkpoint
Outcome_WholeStore ==
    IF ~Sound(Len(store)) THEN "tamper"
    ELSE IF Len(store) < Len(ckpt) THEN "error"
    ELSE IF store[Len(store)].hash # ckpt THEN "tamper" ELSE "ok"

\* Run over one snapshot of the store: an entry that does not verify or chain,
\* or another root, is tampering; too few entries are an error.
Outcome ==
    IF \E i \in 1 .. Len(ckpt) :
          i <= Len(store) /\ (~Verify(store[i]) \/ ~VerifyChain(i))
    THEN "tamper"
    ELSE IF Len(store) < Len(ckpt) THEN "error"
    ELSE IF store[Len(ckpt)].hash # ckpt THEN "tamper" ELSE "ok"

Run ==
    /\ pc = "run"
    /\ result' = Outcome
    /\ pc' = "idle"
    /\ UNCHANGED <<logVars, ckpt, seen, history>>

Next ==
    \/ AppendCtx \/ Checkpoint \/ Stop \/ Start \/ StartRefused
    \/ \E i \in DOMAIN store : Edit(i)
    \/ \E n \in 0 .. MaxAppends : Truncate(n)
    \/ Tick \/ TickSkipped \/ Run

Spec == Init /\ [][Next]_vars

-----------------------------------------------------------------------------
(* Properties                                                              *)

\* Every variable has its type; while steled runs there are as many entries as
\* leaves.
TypeOK ==
    /\ \A i \in DOMAIN store : store[i].data \in 0 .. MaxAppends
    /\ \A i \in DOMAIN tree : tree[i] \in 1 .. MaxAppends
    /\ up => Len(store) = Len(tree)
    /\ up \in BOOLEAN /\ rebuilt \in BOOLEAN /\ resigned \in BOOLEAN
    /\ pc \in {"idle", "run"}
    /\ result \in {"none", "ok", "tamper", "error"}
    /\ changed \in 0 .. MaxAppends /\ seen \in 0 .. MaxAppends

NoFalseAlarm == result \in {"tamper", "error"} => changed # 0

ModificationDetected == result = "ok" /\ seen \in 1 .. Len(ckpt) => resigned

\* The alarm is right both ways.  Entries appended and checkpoints made while a
\* pass runs do not set it off; and a pass that began after an entry under its
\* checkpoint was modified does not report "ok", unless the log was restarted
\* from the modified store and signed that (pkg/tripwire, Run).
AlarmIsRight == NoFalseAlarm /\ ModificationDetected

=============================================================================
