------------------------------ MODULE Anchoring -----------------------------
(***************************************************************************)
(* Publishing the latest checkpoint to the sinks: core.Log.Anchor          *)
(* (pkg/core/log.go) over a FileSink and a RekorSink (pkg/anchor), and the *)
(* anchor keyspace of the store.  Two threads may anchor at once: the      *)
(* scheduled task of the daemon and POST /anchor.                          *)
(*                                                                         *)
(* A checkpoint is its size.  A write to the anchor file reaches the disk  *)
(* when it is synced; a crash keeps an unsynced line, loses it or keeps    *)
(* the beginning of it.                                                    *)
(***************************************************************************)
EXTENDS Integers, Sequences, Keyspace

CONSTANTS
    Threads,
    NoThread,
    Torn,       \* the beginning of a line, without its newline
    Spoilt,     \* a line that is no Record
    Strict,     \* RekorSink.StrictRekor
    MaxSize,    \* bound: checkpoints
    MaxCalls,   \* bound: calls of Anchor
    MaxFaults,  \* bound: writes and requests that fail
    MaxCrashes  \* bound: crashes

VARIABLES
    latest,    \* the size of the latest checkpoint, 0 without one
    file,      \* the lines of the anchor file, as the process sees them
    disk,      \* what of them is on the disk
    head,      \* the head file: the checkpoint of a line, 0 without one
    mu,        \* the holder of FileSink.mu
    rekor,     \* what Rekor has logged
    fallback,  \* the lines of the fallback file
    records,   \* anchor/<size>: what the last saved record refers to
    pc,
    draft,     \* per thread: the checkpoint it publishes
    ref,       \* per thread: what its Rekor record refers to
    acked,     \* history: the checkpoints FileSink.Publish returned a record of
    calls, faults, crashes

sink == <<file, disk, head, acked>>
net  == <<rekor, fallback>>
call == <<draft, ref>>
bounds == <<calls, faults, crashes>>
vars == <<latest, sink, mu, net, records, pc, call, bounds>>

Sizes == 1 .. MaxSize

TypeOK ==
    /\ latest \in 0 .. MaxSize
    /\ file \in Seq(Sizes \cup {Torn, Spoilt})
    /\ disk \in Seq(Sizes \cup {Torn, Spoilt})
    /\ head \in 0 .. MaxSize
    /\ mu \in Threads \cup {NoThread}
    /\ rekor \subseteq Sizes /\ fallback \subseteq Sizes /\ acked \subseteq Sizes
    /\ \A n \in DOMAIN records : n \in Sizes /\ records[n] \in {"file", "uuid", "fallback"}
    /\ pc \in [Threads -> {"idle", "open", "write", "sync", "head", "saveFile",
                           "rekor", "saveRekor"}]
    /\ draft \in [Threads -> 0 .. MaxSize]
    /\ ref \in [Threads -> {"none", "uuid", "fallback"}]

Init ==
    /\ latest = 0
    /\ file = <<>> /\ disk = <<>> /\ head = 0 /\ mu = NoThread
    /\ rekor = {} /\ fallback = {}
    /\ records = EmptySpace
    /\ pc = [t \in Threads |-> "idle"]
    /\ draft = [t \in Threads |-> 0]
    /\ ref = [t \in Threads |-> "none"]
    /\ acked = {}
    /\ calls = 0 /\ faults = 0 /\ crashes = 0

NewCheckpoint ==
    /\ latest < MaxSize
    /\ latest' = latest + 1
    /\ UNCHANGED <<sink, mu, net, records, pc, call, bounds>>

Goto(t, from, to) == pc[t] = from /\ pc' = [pc EXCEPT ![t] = to]

Fault == faults < MaxFaults /\ faults' = faults + 1 /\ UNCHANGED <<calls, crashes>>

\* LatestCheckpoint; without one there is nothing to do.
Anchor(t) ==
    /\ latest > 0
    /\ Goto(t, "idle", "open")
    /\ draft' = [draft EXCEPT ![t] = latest]
    /\ calls < MaxCalls
    /\ calls' = calls + 1
    /\ UNCHANGED <<latest, sink, mu, net, records, ref, faults, crashes>>

-----------------------------------------------------------------------------
(* FileSink.Publish, under its mutex                                       *)

OpenFile(t) ==
    /\ Goto(t, "open", "write")
    /\ mu = NoThread
    /\ mu' = t
    /\ UNCHANGED <<latest, sink, net, records, call, bounds>>

\* What an append makes of a file: a line that follows the beginning of
\* another is one line with it.
EndsTorn(f) == f # <<>> /\ f[Len(f)] = Torn
WithLine(f, n) == IF EndsTorn(f) THEN [f EXCEPT ![Len(f)] = Spoilt] ELSE Append(f, n)
WithFragment(f) == IF EndsTorn(f) THEN f ELSE Append(f, Torn)

WriteLine(t) ==
    /\ Goto(t, "write", "sync")
    /\ file' = WithLine(file, draft[t])
    /\ UNCHANGED <<latest, disk, head, mu, net, records, call, acked, bounds>>

\* mutant: the line is left to the page cache
SyncFile_Skipped(t) ==
    /\ Goto(t, "sync", "head")
    /\ UNCHANGED <<latest, sink, mu, net, records, call, bounds>>

SyncFile(t) ==
    /\ Goto(t, "sync", "head")
    /\ disk' = file
    /\ UNCHANGED <<latest, file, head, mu, net, records, call, acked, bounds>>

\* The head is written beside its file and renamed over it.
WriteHead(t) ==
    /\ Goto(t, "head", "saveFile")
    /\ head' = draft[t]
    /\ mu' = NoThread
    /\ acked' = acked \cup {draft[t]}
    /\ UNCHANGED <<latest, file, disk, net, records, call, bounds>>

\* A step of Publish fails: the lock is released and the next sink is tried.
\* A write may have got part of its line out.
PublishFails(t) ==
    /\ Fault
    /\ \/ Goto(t, "open", "rekor") /\ mu # t /\ UNCHANGED <<file, mu>>
       \/ /\ Goto(t, "write", "rekor")
          /\ file' \in {file, WithFragment(file)}
          /\ mu' = NoThread
       \/ /\ \/ Goto(t, "sync", "rekor")
             \/ Goto(t, "head", "rekor")
          /\ mu' = NoThread
          /\ UNCHANGED file
    /\ UNCHANGED <<latest, disk, head, net, records, call, acked>>

\* store.SaveAnchor, whose error is ignored; a record replaces the one of
\* another sink for the same size.
SaveFileRecord(t) ==
    /\ Goto(t, "saveFile", "rekor")
    /\ records' \in {Put(records, draft[t], "file"), records}
    /\ UNCHANGED <<latest, sink, mu, net, call, bounds>>

-----------------------------------------------------------------------------
(* RekorSink.Publish                                                       *)

RekorAccepts(t) ==
    /\ Goto(t, "rekor", "saveRekor")
    /\ rekor' = rekor \cup {draft[t]}
    /\ ref' = [ref EXCEPT ![t] = "uuid"]
    /\ UNCHANGED <<latest, sink, mu, fallback, records, draft, bounds>>

\* mutant: the fallback record is told like Rekor's own
RekorFails_Claims(t) ==
    /\ Fault
    /\ rekor' \in {rekor, rekor \cup {draft[t]}}
    /\ IF Strict
       THEN /\ Goto(t, "rekor", "idle")
            /\ UNCHANGED <<fallback, ref>>
       ELSE /\ Goto(t, "rekor", "saveRekor")
            /\ fallback' \in {fallback, fallback \cup {draft[t]}}
            /\ ref' = [ref EXCEPT ![t] = "uuid"]
    /\ UNCHANGED <<latest, sink, mu, records, draft>>

\* Rekor refuses, or is not heard of: it may have logged the entry all the
\* same.  The fallback file gets a line, if it can be written, and the caller
\* a record.
RekorFails(t) ==
    /\ Fault
    /\ rekor' \in {rekor, rekor \cup {draft[t]}}
    /\ IF Strict
       THEN /\ Goto(t, "rekor", "idle")
            /\ UNCHANGED <<fallback, ref>>
       ELSE /\ Goto(t, "rekor", "saveRekor")
            /\ fallback' \in {fallback, fallback \cup {draft[t]}}
            /\ ref' = [ref EXCEPT ![t] = "fallback"]
    /\ UNCHANGED <<latest, sink, mu, records, draft>>

SaveRekorRecord(t) ==
    /\ Goto(t, "saveRekor", "idle")
    /\ records' \in {Put(records, draft[t], ref[t]), records}
    /\ ref' = [ref EXCEPT ![t] = "none"]
    /\ UNCHANGED <<latest, sink, mu, net, draft, bounds>>

-----------------------------------------------------------------------------
\* The machine goes down.  Of an unsynced line all, nothing or a part remains;
\* the head file was not synced and may come back empty.
Crash ==
    /\ crashes < MaxCrashes
    /\ crashes' = crashes + 1
    /\ \E f \in {file, disk} \cup (IF file = disk THEN {} ELSE {WithFragment(disk)}) :
          file' = f /\ disk' = f
    /\ head' \in {head, 0}
    /\ mu' = NoThread
    /\ pc' = [t \in Threads |-> "idle"]
    /\ ref' = [t \in Threads |-> "none"]
    /\ UNCHANGED <<latest, net, records, draft, acked, calls, faults>>

Next ==
    \/ NewCheckpoint
    \/ \E t \in Threads :
         \/ Anchor(t)
         \/ OpenFile(t)
         \/ WriteLine(t)
         \/ SyncFile(t)
         \/ WriteHead(t)
         \/ PublishFails(t)
         \/ SaveFileRecord(t)
         \/ RekorAccepts(t)
         \/ RekorFails(t)
         \/ SaveRekorRecord(t)
    \/ Crash

Spec == Init /\ [][Next]_vars

-----------------------------------------------------------------------------
(* Properties                                                              *)

\* FileSink.ReadAll: the records in the file, unless a line is malformed.
Readable(f) == \A i \in DOMAIN f : f[i] \in Sizes
Lines(f) == {f[i] : i \in DOMAIN f} \cap Sizes

\* What is told of an anchor is so.  While the anchor file can be read, it
\* holds, on the disk, every checkpoint FileSink.Publish returned a record of,
\* every one the store calls anchored in the file, and the one in the head
\* file; and Rekor has logged what the store has a UUID of.
AnchorsHold ==
    /\ Readable(disk) =>
         /\ acked \subseteq Lines(disk)
         /\ head # 0 => head \in Lines(disk)
         /\ \A n \in DOMAIN records : records[n] = "file" => n \in Lines(disk)
    /\ \A n \in DOMAIN records : records[n] = "uuid" => n \in rekor

\* "The file is opened in append mode and fsynced after every write so a crash
\* after Publish() cannot lose the anchor": what FileSink.Publish returned a
\* record of is a line of the anchor file.
PublishedIsALine == acked \subseteq Lines(file)

=============================================================================
