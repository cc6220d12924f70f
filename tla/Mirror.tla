------------------------------- MODULE Mirror -------------------------------
(***************************************************************************)
(* The read-only replica of a log (pkg/mirror): it polls the operator's    *)
(* size, fetches the missing entries in chunks, checks that each one       *)
(* continues the hash chain of its own store and appends it there.         *)
(*                                                                         *)
(* An entry is its index and the hash of its predecessor, and a hash is    *)
(* what it covers: an entry is written as the sequence of payloads up to   *)
(* it.  The operator may at one point be replaced by one that was restored *)
(* from a backup and went on from there with other entries.                *)
(***************************************************************************)
EXTENDS Integers, Sequences

CONSTANTS
    Payloads,     \* contents of entries
    ChunkSize,    \* Config.ChunkSize
    MaxSize,      \* bound: entries of the operator
    MaxFaults,    \* bound: requests that fail
    MaxCrashes,   \* bound: crashes of the mirror
    MaxRestores   \* bound: restores of the operator from a backup

VARIABLES
    upstream,  \* the operator's entries: the payloads
    store,     \* the mirror's BadgerDB: the entries
    up,        \* the mirror runs
    prev,      \* Mirror.prev: the last accepted entry, or <<>>
    lastSize,  \* Mirror.lastSize
    pc,        \* the next step of syncOnce
    target,    \* upstreamSize of this pass
    from,      \* the loop variable of this pass
    chunk,     \* entries fetched and not yet accepted
    errors,    \* Mirror.syncErrors > 0
    faults, crashes, restores

vars == <<upstream, store, up, prev, lastSize, pc, target, from, chunk, errors,
          faults, crashes, restores>>

\* The entry with index i of the operator's log.
Entry(i) == SubSeq(upstream, 1, i + 1)

Init ==
    /\ upstream = <<>>
    /\ store = <<>>
    /\ up = TRUE
    /\ prev = <<>>
    /\ lastSize = 0
    /\ pc = "idle"
    /\ target = 0
    /\ from = 0
    /\ chunk = <<>>
    /\ errors = FALSE
    /\ faults = 0
    /\ crashes = 0
    /\ restores = 0

-----------------------------------------------------------------------------
(* The operator                                                            *)

AppendCtx(d) ==
    /\ Len(upstream) < MaxSize
    /\ upstream' = Append(upstream, d)
    /\ UNCHANGED <<store, up, prev, lastSize, pc, target, from, chunk, errors,
                   faults, crashes, restores>>

\* storage.Restore of an earlier backup
Restore(n) ==
    /\ restores < MaxRestores
    /\ restores' = restores + 1
    /\ n < Len(upstream)
    /\ upstream' = SubSeq(upstream, 1, n)
    /\ UNCHANGED <<store, up, prev, lastSize, pc, target, from, chunk, errors,
                   faults, crashes>>

-----------------------------------------------------------------------------
(* syncOnce, under Mirror.mu                                               *)

\* fetchUpstreamSize; nothing new ends the pass.
FetchUpstreamSize ==
    /\ up
    /\ pc = "idle"
    /\ target' = Len(upstream)
    /\ from' = lastSize
    /\ pc' = IF Len(upstream) <= lastSize THEN "idle" ELSE "fetch"
    /\ UNCHANGED <<upstream, store, up, prev, lastSize, chunk, errors, faults,
                   crashes, restores>>

\* An error ends the pass; loop counts it and tries again at the next tick.
SyncFails ==
    /\ errors' = TRUE
    /\ pc' = "idle"
    /\ chunk' = <<>>
    /\ UNCHANGED <<upstream, store, up, prev, lastSize, target, from, crashes,
                   restores>>

\* A request for the size or a chunk fails, or the store does not take an
\* entry.
SyncFault ==
    /\ pc \in {"idle", "fetch", "accept"}
    /\ faults < MaxFaults
    /\ faults' = faults + 1
    /\ SyncFails

Minimum(a, b) == IF a < b THEN a ELSE b

\* fetchEntries [from, to): handleEntriesRange answers with what it has.
FetchEntries ==
    LET to == Minimum(from + ChunkSize, target) IN
    /\ pc = "fetch"
    /\ chunk' = IF from >= Len(upstream) THEN <<>>
                ELSE [k \in 1 .. Minimum(to, Len(upstream)) - from |-> Entry(from + k - 1)]
    /\ pc' = "accept"
    /\ UNCHANGED <<upstream, store, up, prev, lastSize, target, from, errors,
                   faults, crashes, restores>>

\* mutant: only the index is compared
Continues_IndexOnly(e) == Len(e) = Len(prev) + 1

\* Entry.VerifyChain(prev): the index follows and PrevHash is the hash of prev.
Continues(e) == Len(e) = Len(prev) + 1 /\ SubSeq(e, 1, Len(prev)) = prev

\* acceptEntry: the store's transaction ...
AcceptEntry ==
    /\ pc = "accept"
    /\ chunk # <<>>
    /\ Continues(Head(chunk))
    /\ store' = Append(store, Head(chunk))
    /\ pc' = "advance"
    /\ UNCHANGED <<upstream, up, prev, lastSize, target, from, chunk, errors,
                   faults, crashes, restores>>

\* ... then prev and lastSize.
Advance ==
    /\ pc = "advance"
    /\ prev' = Head(chunk)
    /\ lastSize' = lastSize + 1
    /\ chunk' = Tail(chunk)
    /\ pc' = "accept"
    /\ UNCHANGED <<upstream, store, up, target, from, errors, faults, crashes,
                   restores>>

RejectEntry ==
    /\ pc = "accept"
    /\ chunk # <<>>
    /\ ~Continues(Head(chunk))
    /\ SyncFails
    /\ UNCHANGED faults

\* The loop steps by ChunkSize, however many entries came.
NextChunk ==
    /\ pc = "accept"
    /\ chunk = <<>>
    /\ from' = from + ChunkSize
    /\ pc' = IF from' < target THEN "fetch" ELSE "idle"
    /\ UNCHANGED <<upstream, store, up, prev, lastSize, target, chunk, errors,
                   faults, crashes, restores>>

-----------------------------------------------------------------------------
Crash ==
    /\ up
    /\ crashes < MaxCrashes
    /\ crashes' = crashes + 1
    /\ up' = FALSE
    /\ pc' = "down"
    /\ prev' = <<>>
    /\ lastSize' = 0
    /\ chunk' = <<>>
    /\ errors' = FALSE
    /\ UNCHANGED <<upstream, store, target, from, faults, restores>>

\* New: the size and the last entry come back from the store.
New ==
    /\ ~up
    /\ up' = TRUE
    /\ pc' = "idle"
    /\ lastSize' = Len(store)
    /\ prev' = IF store = <<>> THEN <<>> ELSE store[Len(store)]
    /\ UNCHANGED <<upstream, store, target, from, chunk, errors, faults,
                   crashes, restores>>

SyncStep ==
    \/ FetchUpstreamSize \/ FetchEntries \/ AcceptEntry \/ Advance \/ RejectEntry
    \/ NextChunk

Next ==
    \/ \E d \in Payloads : AppendCtx(d)
    \/ \E n \in 0 .. MaxSize : Restore(n)
    \/ SyncStep
    \/ SyncFault
    \/ Crash
    \/ New

Spec == Init /\ [][Next]_vars

-----------------------------------------------------------------------------
(* Properties                                                              *)

Entries == Seq(Payloads) \ {<<>>}

\* Every variable has its type, and the size in memory is the store's but for
\* the entry that is being accepted.
TypeOK ==
    /\ upstream \in Seq(Payloads) /\ Len(upstream) <= MaxSize
    /\ \A i \in DOMAIN store : store[i] \in Entries
    /\ \A i \in DOMAIN chunk : chunk[i] \in Entries
    /\ prev \in Entries \cup {<<>>}
    /\ up => lastSize = Len(store) - (IF pc = "advance" THEN 1 ELSE 0)
    /\ pc \in {"idle", "fetch", "accept", "advance", "down"}
    /\ target \in Nat /\ from \in Nat
    /\ up \in BOOLEAN /\ errors \in BOOLEAN

\* The mirror holds one history: every entry continues the one before it, even
\* when the operator was set back and went on differently in the middle of a
\* pass.
OneHistory ==
    \A i \in DOMAIN store : Len(store[i]) = i /\ store[i] = SubSeq(store[Len(store)], 1, i)

=============================================================================
