------------------------------ MODULE SteleLog ------------------------------
(***************************************************************************)
(* The append path of a stele log: core.Log (pkg/core/log.go) over the     *)
(* BadgerDB store (pkg/storage), its hash-chained entries (pkg/logentry),  *)
(* the replay table, the producer registry, and the in-memory Merkle tree  *)
(* with its leaf cache (pkg/merkle).                                       *)
(*                                                                         *)
(* AppendCtx runs in concurrent handler threads.  Its registry checks run  *)
(* outside l.mu; its replay record and its entry are two separate store    *)
(* transactions under l.mu; the tree is updated after the second.  A crash *)
(* may fall between any two of these steps, and a restart replays the      *)
(* store into a fresh tree.                                                *)
(*                                                                         *)
(* A hash is represented by what it covers, so equal hashes have equal     *)
(* preimages and nothing else is assumed of them.                          *)
(***************************************************************************)
EXTENDS Integers, Sequences, FiniteSets, Keyspace

CONSTANTS
    Threads,            \* concurrent calls of AppendCtx
    Requests,           \* [env, honeypot] pairs clients submit
    ProducerIDs,
    Credentials,        \* [key, qkey]: a producer's Ed25519 / Dilithium keys
    NoKey,              \* an absent Dilithium key
    Payloads,           \* values of an envelope's data
    NoThread,           \* l.mu is free
    NoRequest,          \* a thread that serves no request
    RequireEnrollment,  \* Options.RequireEnrollment
    ReplayTTL,          \* TRUE when the store was opened WithReplayTTL(d > 0)
    MaxLeafNodes,       \* Options.MerkleLeafCacheNodes; 0 = unbounded
    Tampering,          \* TRUE when the stele-tamper demo may be run
    MaxSize,            \* bound: entries in the log
    MaxFaults,          \* bound: store transactions that fail
    MaxCrashes,         \* bound: process crashes
    MaxAdmin            \* bound: changes of the producer registry

Envelopes == [producer: ProducerIDs, cred: Credentials,
              data: Payloads, sig: Payloads]

ASSUME ConstantsAssumption ==
    /\ Requests \subseteq [env: Envelopes, honeypot: BOOLEAN]
    /\ NoThread \notin Threads
    /\ NoRequest \notin Requests
    /\ RequireEnrollment \in BOOLEAN
    /\ ReplayTTL \in BOOLEAN
    /\ Tampering \in BOOLEAN
    /\ MaxLeafNodes \in Nat
    /\ MaxSize \in Nat
    /\ MaxFaults \in Nat
    /\ MaxCrashes \in Nat
    /\ MaxAdmin \in Nat

VARIABLES
    entries,    \* "entry/" keyspace, by index (entry i is entries[i + 1])
    leaves,     \* "leaf/" keyspace: index -> leaf hash
    metaSize,   \* "meta/size"
    metaHead,   \* "meta/head_hash"
    replay,     \* "replay/" keyspace: envelope hash -> entry index
    producers,  \* "producer/" keyspace: id -> registry record
    status,     \* the steled process: "down", "replaying", "up", "aborted"
    tree,       \* compact range of the Merkle tree: the leaves it commits to
    leafCache,  \* resident part of the tree's leaf LRU: index -> leaf hash
    mu,         \* holder of Log.mu
    pc,         \* per thread: where it is in AppendCtx
    req,        \* per thread: the request it serves
    acked,      \* history: <<index, envelope hash>> of successful returns
    granted,    \* history: <<producer, credential, enrollment>> ever registered
    tampered,   \* history: indices rewritten by stele-tamper
    faults, crashes, admin  \* counters for the bounds

store  == <<entries, leaves, metaSize, metaHead, replay, producers>>
memory == <<tree, leafCache, mu, pc, req>>
ghosts == <<acked, granted, tampered>>
counts == <<faults, crashes, admin>>
vars   == <<store, status, memory, ghosts, counts>>

-----------------------------------------------------------------------------
(* Entries and their hashes (pkg/logentry, pkg/attest)                     *)

ZeroHash == <<>>

\* Envelope.Hash: SHA-256 of the canonical bytes, which exclude the signature.
EnvelopeHash(env) ==
    [producer |-> env.producer, cred |-> env.cred, data |-> env.data]

\* Envelope.Verify: the signature is represented by the payload it signs.
EnvelopeVerify(env) == env.sig = env.data

\* Entry.Canonical: index, previous hash, envelope hash and honeypot mark.
Canonical(e) ==
    Append(e.prevHash, [index    |-> e.index,
                        env      |-> EnvelopeHash(e.env),
                        honeypot |-> e.honeypot])

HashLeaf(canon) == <<"leaf", canon>>

\* logentry.New followed by Seal.
NewEntry(idx, prev, env, honeypot) ==
    LET e == [index |-> idx, prevHash |-> prev, env |-> env,
              honeypot |-> honeypot]
    IN  [index     |-> idx,
         prevHash  |-> prev,
         env       |-> env,
         honeypot  |-> honeypot,
         entryHash |-> Canonical(e),
         leafHash  |-> HashLeaf(Canonical(e))]

\* Entry.Verify: envelope signature and both stored hashes.
EntryVerify(e) ==
    /\ EnvelopeVerify(e.env)
    /\ e.entryHash = Canonical(e)
    /\ e.leafHash = HashLeaf(Canonical(e))

\* Entry.VerifyChain against the entry before it in the store's order.
EntryVerifyChain(i) ==
    IF i = 1
      THEN entries[i].index = 0 /\ entries[i].prevHash = ZeroHash
      ELSE /\ entries[i].index = entries[i - 1].index + 1
           /\ entries[i].prevHash = entries[i - 1].entryHash

-----------------------------------------------------------------------------
(* The Merkle tree's leaf cache (pkg/merkle)                               *)

\* Tree.putLeaf: the caches it may leave.  Which resident leaf is the least
\* recently used one is not tracked: any other than the new one may go.
PutLeaf(idx, hash) ==
    LET filled == Put(leafCache, idx, hash)
    IN  IF MaxLeafNodes = 0 \/ Cardinality(DOMAIN filled) <= MaxLeafNodes
          THEN {filled}
          ELSE {Delete(filled, victim) : victim \in DOMAIN filled \ {idx}}

\* Tree.nodeHash at level 0 finds idx in the cache or in the store ...
LeafFound(idx) == idx \in DOMAIN leafCache \cup DOMAIN leaves

\* ... and this is what it returns.
LeafHashAt(idx) ==
    IF idx \in DOMAIN leafCache THEN leafCache[idx] ELSE leaves[idx]

-----------------------------------------------------------------------------
(* Start-up: core.New and replay                                           *)

Init ==
    /\ entries = <<>>
    /\ leaves = EmptySpace
    /\ metaSize = 0
    /\ metaHead = ZeroHash
    /\ replay = EmptySpace
    /\ producers = EmptySpace
    /\ status = "down"
    /\ tree = <<>>
    /\ leafCache = EmptySpace
    /\ mu = NoThread
    /\ pc = [t \in Threads |-> "idle"]
    /\ req = [t \in Threads |-> NoRequest]
    /\ acked = {}
    /\ granted = {}
    /\ tampered = {}
    /\ faults = 0 /\ crashes = 0 /\ admin = 0

New ==
    /\ status \in {"down", "aborted"}
    /\ status' = "replaying"
    /\ tree' = <<>>
    /\ leafCache' = EmptySpace
    /\ UNCHANGED <<store, mu, pc, req, ghosts, counts>>

\* mutant: replay checks the links and not the entries
Replayable_LinksOnly(i) == EntryVerifyChain(i)

Replayable(i) == EntryVerify(entries[i]) /\ EntryVerifyChain(i)

\* mutant: the leaf mirror is not backfilled
ReplayEntry_NoBackfill ==
    /\ status = "replaying"
    /\ Len(tree) < Len(entries)
    /\ Replayable(Len(tree) + 1)
    /\ leafCache' \in PutLeaf(Len(tree), entries[Len(tree) + 1].leafHash)
    /\ tree' = Append(tree, entries[Len(tree) + 1].leafHash)
    /\ UNCHANGED <<store, status, mu, pc, req, ghosts, counts>>

\* One iteration of replay: verify, backfill the leaf mirror, extend the tree.
ReplayEntry ==
    /\ status = "replaying"
    /\ Len(tree) < Len(entries)
    /\ LET i == Len(tree) + 1
           e == entries[i]
       IN  /\ Replayable(i)
           /\ leaves' = IF e.index \in DOMAIN leaves THEN leaves
                        ELSE Put(leaves, e.index, e.leafHash)
           /\ leafCache' \in PutLeaf(Len(tree), e.leafHash)
           /\ tree' = Append(tree, e.leafHash)
    /\ UNCHANGED <<entries, metaSize, metaHead, replay, producers, status,
                   mu, pc, req, ghosts, counts>>

\* An entry that does not verify aborts start-up.
ReplayRefuses ==
    /\ status = "replaying"
    /\ Len(tree) < Len(entries)
    /\ ~Replayable(Len(tree) + 1)
    /\ status' = "aborted"
    /\ UNCHANGED <<store, memory, ghosts, counts>>

ReplayDone ==
    /\ status = "replaying"
    /\ Len(tree) = Len(entries)
    /\ status' = "up"
    /\ UNCHANGED <<store, memory, ghosts, counts>>

-----------------------------------------------------------------------------
(* AppendCtx                                                               *)

\* mutant: a hybrid registration also admits an envelope without Dilithium key
ProducerAdmits_Downgrade(env) ==
    /\ env.producer \in DOMAIN producers
    /\ LET prod == producers[env.producer]
       IN  /\ ~prod.revoked
           /\ prod.cred.key = env.cred.key
           /\ env.cred.qkey # NoKey => prod.cred.qkey = env.cred.qkey
           /\ RequireEnrollment => prod.enrollment = "valid"

\* The registry checks made before l.mu is taken.
ProducerAdmits(env) ==
    /\ env.producer \in DOMAIN producers
    /\ LET prod == producers[env.producer]
       IN  /\ ~prod.revoked
           /\ prod.cred.key = env.cred.key
           /\ prod.cred.qkey # NoKey => prod.cred.qkey = env.cred.qkey
           /\ RequireEnrollment => prod.enrollment = "valid"

BeginAppend(t, r) ==
    /\ status = "up"
    /\ pc[t] = "idle"
    /\ Len(entries) + Cardinality({u \in Threads : pc[u] # "idle"}) < MaxSize
    /\ EnvelopeVerify(r.env)
    /\ ProducerAdmits(r.env)
    /\ pc' = [pc EXCEPT ![t] = "checked"]
    /\ req' = [req EXCEPT ![t] = r]
    /\ UNCHANGED <<store, status, tree, leafCache, mu, ghosts, counts>>

\* Every early return before l.mu leaves no trace.
RejectAppend(t, r) ==
    /\ status = "up"
    /\ pc[t] = "idle"
    /\ ~(EnvelopeVerify(r.env) /\ ProducerAdmits(r.env))
    /\ UNCHANGED vars

Return(t) ==
    /\ mu' = NoThread
    /\ pc' = [pc EXCEPT ![t] = "idle"]
    /\ req' = [req EXCEPT ![t] = NoRequest]

\* mutant: the replay record is written without looking for an older one
RecordEnvelope_Unchecked(t) ==
    /\ pc[t] = "checked"
    /\ mu = NoThread
    /\ replay' = Put(replay, EnvelopeHash(req[t].env), Len(tree))
    /\ mu' = t
    /\ pc' = [pc EXCEPT ![t] = "recorded"]
    /\ UNCHANGED <<entries, leaves, metaSize, metaHead, producers, status,
                   tree, leafCache, req, ghosts, counts>>

\* l.mu.Lock and CheckAndRecordEnvelope: a transaction of its own.
RecordEnvelope(t) ==
    /\ pc[t] = "checked"
    /\ mu = NoThread
    /\ EnvelopeHash(req[t].env) \notin DOMAIN replay
    /\ replay' = Put(replay, EnvelopeHash(req[t].env), Len(tree))
    /\ mu' = t
    /\ pc' = [pc EXCEPT ![t] = "recorded"]
    /\ UNCHANGED <<entries, leaves, metaSize, metaHead, producers, status,
                   tree, leafCache, req, ghosts, counts>>

\* mutant: the early return keeps l.mu
RecordRefused_KeepsLock(t) ==
    LET known == EnvelopeHash(req[t].env) \in DOMAIN replay
    IN  /\ pc[t] = "checked"
        /\ mu = NoThread
        /\ known \/ faults < MaxFaults
        /\ faults' = IF known THEN faults ELSE faults + 1
        /\ mu' = t
        /\ pc' = [pc EXCEPT ![t] = "idle"]
        /\ req' = [req EXCEPT ![t] = NoRequest]
        /\ UNCHANGED <<store, status, tree, leafCache, ghosts, crashes, admin>>

\* "envelope already accepted", or the transaction failed.
RecordRefused(t) ==
    LET known == EnvelopeHash(req[t].env) \in DOMAIN replay
    IN  /\ pc[t] = "checked"
        /\ mu = NoThread
        /\ known \/ faults < MaxFaults
        /\ faults' = IF known THEN faults ELSE faults + 1
        /\ Return(t)
        /\ UNCHANGED <<store, status, tree, leafCache, ghosts, crashes, admin>>

\* The entry AppendCtx builds from tree.Size() and the store's head.
EntryFor(t) ==
    NewEntry(Len(tree), IF Len(tree) = 0 THEN ZeroHash ELSE metaHead,
             req[t].env, req[t].honeypot)

\* The checks AppendEntry makes inside its transaction.
AppendEntryAccepts(e) ==
    /\ e.index = metaSize
    /\ e.prevHash = metaHead
    /\ e.index + 1 \notin DOMAIN entries

\* mutant: the transaction forgets meta/head_hash
PersistEntry_StaleHead(t) ==
    LET e == EntryFor(t)
    IN  /\ pc[t] = "recorded"
        /\ AppendEntryAccepts(e)
        /\ entries' = Append(entries, e)
        /\ leaves' = Put(leaves, e.index, e.leafHash)
        /\ metaSize' = metaSize + 1
        /\ pc' = [pc EXCEPT ![t] = "persisted"]
        /\ UNCHANGED <<metaHead, replay, producers, status, tree, leafCache,
                       mu, req, ghosts, counts>>

\* AppendEntry commits entry, leaf mirror, size and head in one transaction.
PersistEntry(t) ==
    LET e == EntryFor(t)
    IN  /\ pc[t] = "recorded"
        /\ AppendEntryAccepts(e)
        /\ entries' = Append(entries, e)
        /\ leaves' = Put(leaves, e.index, e.leafHash)
        /\ metaSize' = metaSize + 1
        /\ metaHead' = e.entryHash
        /\ pc' = [pc EXCEPT ![t] = "persisted"]
        /\ UNCHANGED <<replay, producers, status, tree, leafCache, mu, req,
                       ghosts, counts>>

\* mutant: the error is swallowed and the client told the entry is in
PersistFails_Swallowed(t) ==
    /\ pc[t] = "recorded"
    /\ AppendEntryAccepts(EntryFor(t)) => faults < MaxFaults
    /\ faults' = faults + 1
    /\ acked' = acked \cup {<<Len(tree), EnvelopeHash(req[t].env)>>}
    /\ Return(t)
    /\ UNCHANGED <<store, status, tree, leafCache, granted, tampered, crashes,
                   admin>>

\* mutant: the rollback removes the last stored entry
PersistFails_RollsBack(t) ==
    /\ pc[t] = "recorded"
    /\ entries # <<>>
    /\ faults < MaxFaults
    /\ faults' = faults + 1
    /\ entries' = SubSeq(entries, 1, Len(entries) - 1)
    /\ Return(t)
    /\ UNCHANGED <<leaves, metaSize, metaHead, replay, producers, status, tree,
                   leafCache, ghosts, crashes, admin>>

\* AppendEntry returns an error: the replay record is already committed.
PersistFails(t) ==
    /\ pc[t] = "recorded"
    /\ AppendEntryAccepts(EntryFor(t)) => faults < MaxFaults
    /\ faults' = faults + 1
    /\ Return(t)
    /\ UNCHANGED <<store, status, tree, leafCache, ghosts, crashes, admin>>

\* tree.AppendLeafHash, unlock, return the entry.
UpdateTree(t) ==
    LET e == entries[Len(entries)]
    IN  /\ pc[t] = "persisted"
        /\ tree' = Append(tree, e.leafHash)
        /\ leafCache' \in PutLeaf(Len(tree), e.leafHash)
        /\ acked' = acked \cup {<<e.index, EnvelopeHash(e.env)>>}
        /\ Return(t)
        /\ UNCHANGED <<store, status, granted, tampered, counts>>

-----------------------------------------------------------------------------
(* Proof reads, the producer registry, time, crashes, offline tools        *)

\* A proof reads leaf i through the cache under l.mu; a miss promotes it.
ReadLeaf(i) ==
    /\ status = "up"
    /\ mu = NoThread
    /\ i < Len(tree)
    /\ i \in DOMAIN leaves \ DOMAIN leafCache
    /\ leafCache' \in PutLeaf(i, leaves[i])
    /\ UNCHANGED <<store, status, tree, mu, pc, req, ghosts, counts>>

\* Store.RegisterProducer is a blind write: it also replaces a revoked or an
\* enrolled record.  IssueEnrollment and ConfirmEnrollment write the record
\* with a signed enrollment, /producers/register without one.
RegisterProducer(p, c, enrollment) ==
    /\ status = "up"
    /\ admin < MaxAdmin
    /\ admin' = admin + 1
    /\ producers' = Put(producers, p, [cred |-> c, revoked |-> FALSE,
                                       enrollment |-> enrollment])
    /\ granted' = granted \cup {<<p, c, enrollment>>}
    /\ UNCHANGED <<entries, leaves, metaSize, metaHead, replay, status,
                   memory, acked, tampered, faults, crashes>>

RevokeProducer(p) ==
    /\ status = "up"
    /\ p \in DOMAIN producers
    /\ admin < MaxAdmin
    /\ admin' = admin + 1
    /\ producers' = [producers EXCEPT ![p].revoked = TRUE]
    /\ UNCHANGED <<entries, leaves, metaSize, metaHead, replay, status,
                   memory, ghosts, faults, crashes>>

\* Producer.IsExpired becomes true.
ExpireEnrollment(p) ==
    /\ p \in DOMAIN producers
    /\ producers[p].enrollment = "valid"
    /\ producers' = [producers EXCEPT ![p].enrollment = "expired"]
    /\ UNCHANGED <<entries, leaves, metaSize, metaHead, replay, status,
                   memory, ghosts, counts>>

\* A replay record outlives the append that wrote it, then its TTL ends.
ExpireReplay(h) ==
    /\ ReplayTTL
    /\ \A t \in Threads :
          pc[t] \in {"recorded", "persisted"} => EnvelopeHash(req[t].env) # h
    /\ replay' = Delete(replay, h)
    /\ UNCHANGED <<entries, leaves, metaSize, metaHead, producers, status,
                   memory, ghosts, counts>>

\* The process dies: the store survives, the tree and the handlers do not.
Crash ==
    /\ status \in {"replaying", "up"}
    /\ crashes < MaxCrashes
    /\ crashes' = crashes + 1
    /\ status' = "down"
    /\ tree' = <<>>
    /\ leafCache' = EmptySpace
    /\ mu' = NoThread
    /\ pc' = [t \in Threads |-> "idle"]
    /\ req' = [t \in Threads |-> NoRequest]
    /\ UNCHANGED <<store, ghosts, faults, admin>>

\* Maintenance on a stopped log, or a log written before the mirror existed.
DeleteLeafHash(i) ==
    /\ status = "down"
    /\ leaves' = Delete(leaves, i)
    /\ UNCHANGED <<entries, metaSize, metaHead, replay, producers, status,
                   memory, ghosts, counts>>

\* stele-tamper replaces the payload of a stored entry and recomputes nothing.
Tamper(i, d) ==
    /\ Tampering
    /\ status = "down"
    /\ i \in DOMAIN entries
    /\ i \notin tampered
    /\ d # entries[i].env.data
    /\ entries' = [entries EXCEPT ![i].env.data = d]
    /\ tampered' = tampered \cup {i}
    /\ UNCHANGED <<leaves, metaSize, metaHead, replay, producers, status,
                   memory, acked, granted, counts>>

AppendStep(t) ==
    \/ RecordEnvelope(t)
    \/ RecordRefused(t)
    \/ PersistEntry(t)
    \/ PersistFails(t)
    \/ UpdateTree(t)

StartUp == New \/ ReplayEntry \/ ReplayRefuses \/ ReplayDone

Next ==
    \/ StartUp
    \/ \E t \in Threads, r \in Requests : BeginAppend(t, r) \/ RejectAppend(t, r)
    \/ \E t \in Threads : AppendStep(t)
    \/ \E i \in DOMAIN leaves : ReadLeaf(i) \/ DeleteLeafHash(i)
    \/ \E p \in ProducerIDs :
          \/ \E c \in Credentials, s \in {"none", "valid"} : RegisterProducer(p, c, s)
          \/ RevokeProducer(p)
          \/ ExpireEnrollment(p)
    \/ \E h \in DOMAIN replay : ExpireReplay(h)
    \/ Crash
    \/ \E i \in DOMAIN entries, d \in Payloads : Tamper(i, d)

Spec == Init /\ [][Next]_vars

\* The supervisor restarts steled, replay runs to its end, and every handler
\* keeps running; Go's mutex hands l.mu to a starving waiter.
Fairness ==
    /\ WF_vars(StartUp)
    /\ \A t \in Threads :
          /\ WF_vars(PersistEntry(t) \/ PersistFails(t) \/ UpdateTree(t))
          /\ SF_vars(RecordEnvelope(t) \/ RecordRefused(t))

FairSpec == Spec /\ Fairness

-----------------------------------------------------------------------------
(* Properties                                                              *)

Hashes    == Seq([index: Nat,
                  env: [producer: ProducerIDs, cred: Credentials, data: Payloads],
                  honeypot: BOOLEAN])
LeafHashes == {"leaf"} \X Hashes
Entries   == [index: Nat, prevHash: Hashes, env: Envelopes, honeypot: BOOLEAN,
              entryHash: Hashes, leafHash: LeafHashes]
Records   == [cred: Credentials, revoked: BOOLEAN,
              enrollment: {"none", "valid", "expired"}]

\* Every variable holds a value of its Go type.
TypeOK ==
    /\ entries \in Seq(Entries)
    /\ DOMAIN leaves \subseteq Nat /\ \A i \in DOMAIN leaves : leaves[i] \in LeafHashes
    /\ metaSize \in Nat
    /\ metaHead \in Hashes
    /\ \A h \in DOMAIN replay : replay[h] \in Nat
    /\ DOMAIN producers \subseteq ProducerIDs
    /\ \A p \in DOMAIN producers : producers[p] \in Records
    /\ status \in {"down", "replaying", "up", "aborted"}
    /\ tree \in Seq(LeafHashes)
    /\ DOMAIN leafCache \subseteq Nat
    /\ \A i \in DOMAIN leafCache : leafCache[i] \in LeafHashes
    /\ mu \in Threads \cup {NoThread}
    /\ pc \in [Threads -> {"idle", "checked", "recorded", "persisted"}]
    /\ req \in [Threads -> Requests \cup {NoRequest}]
    /\ faults \in Nat /\ crashes \in Nat /\ admin \in Nat

\* Whatever was interrupted and wherever, the store replay reads is a hash
\* chain that verifies, and meta/size and meta/head describe its end: replay
\* never refuses a log nobody tampered with.
ChainIntact ==
    tampered = {} =>
      /\ \A i \in DOMAIN entries : Replayable(i)
      /\ metaSize = Len(entries)
      /\ metaHead = IF entries = <<>> THEN ZeroHash
                    ELSE entries[Len(entries)].entryHash

\* Whenever l.mu is free in a serving log, the root commits to exactly the
\* stored entries, and a proof reads the very leaves the root commits to,
\* however the cache evicted them and whoever deleted their mirror offline.
ProofsMatchRoot ==
    status = "up" /\ mu = NoThread /\ tampered = {} =>
      /\ Len(tree) = Len(entries)
      /\ \A i \in 0 .. Len(tree) - 1 :
           /\ tree[i + 1] = entries[i + 1].leafHash
           /\ LeafFound(i)
           /\ LeafHashAt(i) = tree[i + 1]

\* Without a TTL on the replay table no envelope is in the log twice, whatever
\* clients retry, two handlers race, or a crash separates record and entry.
NoEnvelopeTwice ==
    ~ReplayTTL /\ tampered = {} =>
      \A i, j \in DOMAIN entries :
        EnvelopeHash(entries[i].env) = EnvelopeHash(entries[j].env) => i = j

\* An entry AppendCtx returned to a client is in the store for good, at the
\* index the client was given, through every later crash and restart.
AckedDurable ==
    tampered = {} =>
      \A a \in acked : /\ a[1] + 1 \in DOMAIN entries
                       /\ EnvelopeHash(entries[a[1] + 1].env) = a[2]

\* An administrator registered the envelope's producer with its keys.
Granted(env) ==
    \E c \in Credentials, s \in {"none", "valid"} :
      /\ <<env.producer, c, s>> \in granted
      /\ RequireEnrollment => s = "valid"
      /\ c.key = env.cred.key
      /\ c.qkey \in {NoKey, env.cred.qkey}

\* The log holds only envelopes whose signature verifies, of producers an
\* administrator put in the registry with those keys: a hybrid registration
\* is never served by an envelope with another Dilithium key or none, and under
\* --require-enrollment the registration carried a signed enrollment.
OnlyGrantedProducers ==
    tampered = {} =>
      \A i \in DOMAIN entries :
        EnvelopeVerify(entries[i].env) /\ Granted(entries[i].env)

\* "Running this then restarting steled should always cause steled to refuse
\* to start" (cmd/stele-tamper): a rewritten entry never reaches a serving log.
TamperRefused == tampered # {} => status # "up"

\* An untampered log that went down comes up again: replay terminates and
\* refuses nothing.
Recovers == status = "down" ~> status = "up"

\* Every AppendCtx returns: no handler waits for l.mu for ever.
AppendReturns == \A t \in Threads : pc[t] # "idle" ~> pc[t] = "idle"

\* The log implements Ledger: its entries are the ledger, the entries AppendCtx
\* returned are the receipts; crashes, replays and registry changes are silent.
Abstract == INSTANCE Ledger WITH
    Items  <- {EnvelopeHash(r.env) : r \in Requests},
    Unique <- ~ReplayTTL,
    ledger <- [i \in DOMAIN entries |-> EnvelopeHash(entries[i].env)]

ImplementsLedger == Abstract!Spec

=============================================================================
