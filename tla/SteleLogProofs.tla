--------------------------- MODULE SteleLogProofs ---------------------------
(***************************************************************************)
(* Proofs about SteleLog for every set of threads, requests, producers and *)
(* keys, every bound, and every setting of the log's options.              *)
(***************************************************************************)
EXTENDS SteleLog, TLAPS

-----------------------------------------------------------------------------
(* Facts about the operators                                               *)

\* What a written key space holds (storage's txn.Set).
LEMMA PutFacts ==
    ASSUME NEW s, NEW k, NEW v
    PROVE  /\ DOMAIN Put(s, k, v) = DOMAIN s \cup {k}
           /\ Put(s, k, v)[k] = v
           /\ \A j \in DOMAIN s : j # k => Put(s, k, v)[j] = s[j]
BY DEF Put

\* What a key space holds after txn.Delete.
LEMMA DeleteFacts ==
    ASSUME NEW s, NEW k
    PROVE  /\ DOMAIN Delete(s, k) = DOMAIN s \ {k}
           /\ \A j \in DOMAIN s \ {k} : Delete(s, k)[j] = s[j]
BY DEF Delete

\* An entry hash is a hash: Canonical extends the previous hash.
LEMMA CanonicalType ==
    ASSUME NEW e, e.prevHash \in Hashes, e.index \in Nat,
           e.env \in Envelopes, e.honeypot \in BOOLEAN
    PROVE  Canonical(e) \in Hashes
<1>1. EnvelopeHash(e.env) \in [producer: ProducerIDs, cred: Credentials,
                               data: Payloads]
  BY DEF EnvelopeHash, Envelopes
<1> QED
  BY <1>1 DEF Canonical, Hashes

\* logentry.New and Seal build a well-formed entry from their arguments.
LEMMA NewEntryFacts ==
    ASSUME NEW i \in Nat, NEW prev \in Hashes, NEW env \in Envelopes,
           NEW hp \in BOOLEAN
    PROVE  LET e == NewEntry(i, prev, env, hp)
           IN  /\ e \in Entries
               /\ e.index = i /\ e.prevHash = prev /\ e.env = env
               /\ e.entryHash = Canonical(e)
               /\ e.leafHash = HashLeaf(Canonical(e))
<1> DEFINE d == [index |-> i, prevHash |-> prev, env |-> env, honeypot |-> hp]
           e == NewEntry(i, prev, env, hp)
<1>1. Canonical(d) \in Hashes
  BY CanonicalType
<1>2. /\ e.index = i /\ e.prevHash = prev /\ e.env = env /\ e.honeypot = hp
      /\ e.entryHash = Canonical(d) /\ e.leafHash = HashLeaf(Canonical(d))
  BY DEF NewEntry
<1>3. Canonical(e) = Canonical(d)
  BY <1>2 DEF Canonical
<1>4. HashLeaf(Canonical(d)) \in LeafHashes
  BY <1>1 DEF HashLeaf, LeafHashes
<1>5. e \in Entries
  BY <1>1, <1>4 DEF NewEntry, Entries
<1> QED
  BY <1>2, <1>3, <1>5

\* The caches putLeaf may leave: the new leaf is resident, the others are as
\* they were or evicted.
LEMMA PutLeafFacts ==
    ASSUME NEW i, NEW h, NEW c \in PutLeaf(i, h)
    PROVE  /\ DOMAIN c \subseteq DOMAIN leafCache \cup {i}
           /\ \A j \in DOMAIN c : c[j] = IF j = i THEN h ELSE leafCache[j]
<1> DEFINE f == Put(leafCache, i, h)
<1>1. c = f \/ \E v \in DOMAIN f \ {i} : c = Delete(f, v)
  BY DEF PutLeaf
<1>2. DOMAIN f = DOMAIN leafCache \cup {i} /\ f[i] = h
      /\ \A j \in DOMAIN leafCache : j # i => f[j] = leafCache[j]
  BY DEF Put
<1>3. CASE c = f
  BY <1>2, <1>3
<1>4. ASSUME NEW v \in DOMAIN f \ {i}, c = Delete(f, v)
      PROVE  /\ DOMAIN c \subseteq DOMAIN leafCache \cup {i}
             /\ \A j \in DOMAIN c : c[j] = IF j = i THEN h ELSE leafCache[j]
  <2>1. DOMAIN c = DOMAIN f \ {v} /\ \A j \in DOMAIN f \ {v} : c[j] = f[j]
    BY <1>4, DeleteFacts, Zenon
  <2> QED
    BY <2>1, <1>2
<1> QED
  BY <1>1, <1>3, <1>4

-----------------------------------------------------------------------------
(* Types and the lock                                                      *)

\* l.mu is held by exactly the handler between its two transactions and the
\* update of the tree.  A handler serves a request whose signature verified,
\* in a process that is up; after its second transaction there is an entry.
LockInv ==
    \A t \in Threads :
      /\ pc[t] \in {"recorded", "persisted"} <=> mu = t
      /\ pc[t] # "idle" => /\ status = "up"
                           /\ req[t] \in Requests
                           /\ EnvelopeVerify(req[t].env)
      /\ pc[t] = "persisted" => entries # <<>>

TypeLock == TypeOK /\ LockInv

\* An empty store with steled down is well typed and nobody holds l.mu.
LEMMA TypeLockInit == Init => TypeLock
BY ConstantsAssumption
   DEF Init, TypeLock, TypeOK, LockInv, EmptySpace, ZeroHash, Hashes

\* The entry a handler builds is well formed.
LEMMA EntryForFacts ==
    ASSUME TypeLock, NEW t \in Threads, pc[t] = "recorded"
    PROVE  LET e == EntryFor(t)
           IN  /\ e \in Entries
               /\ e.index = Len(tree)
               /\ e.env = req[t].env
               /\ EntryVerify(e)
<1> DEFINE prev == IF Len(tree) = 0 THEN ZeroHash ELSE metaHead
<1>1. prev \in Hashes
  BY DEF TypeLock, TypeOK, ZeroHash, Hashes
<1>2. Len(tree) \in Nat
  BY DEF TypeLock, TypeOK
<1>3. req[t].env \in Envelopes /\ req[t].honeypot \in BOOLEAN
      /\ EnvelopeVerify(req[t].env)
  BY ConstantsAssumption DEF TypeLock, LockInv
<1> HIDE DEF prev
<1> QED
  BY <1>1, <1>2, <1>3, NewEntryFacts DEF EntryFor, EntryVerify, prev

\* The cache stays well typed when a well-typed leaf is put into it.
LEMMA PutLeafType ==
    ASSUME TypeLock, NEW i \in Nat, NEW h \in LeafHashes,
           NEW c \in PutLeaf(i, h)
    PROVE  DOMAIN c \subseteq Nat /\ \A j \in DOMAIN c : c[j] \in LeafHashes
BY PutLeafFacts DEF TypeLock, TypeOK

\* stele-tamper changes the payload of one stored entry and nothing else.
LEMMA TamperFacts ==
    ASSUME TypeLock, NEW i \in DOMAIN entries, NEW d \in Payloads, Tamper(i, d)
    PROVE  /\ entries' \in Seq(Entries) /\ Len(entries') = Len(entries)
           /\ \A j \in DOMAIN entries : j # i => entries'[j] = entries[j]
           /\ entries'[i].index = entries[i].index
           /\ entries'[i].prevHash = entries[i].prevHash
           /\ entries'[i].honeypot = entries[i].honeypot
           /\ entries'[i].entryHash = entries[i].entryHash
           /\ entries'[i].leafHash = entries[i].leafHash
           /\ entries'[i].env.data = d
<1> DEFINE v == [entries[i].env EXCEPT !.data = d]
           e == [entries[i] EXCEPT !.env = v]
<1>1. entries \in Seq(Entries) /\ entries[i] \in Entries
  BY DEF TypeLock, TypeOK
<1>2. v \in Envelopes /\ v.data = d
  BY <1>1, SMTT(30) DEF Entries, Envelopes
<1>3. entries' = [entries EXCEPT ![i] = e]
  BY DEF Tamper
<1> HIDE DEF v
<1>4. /\ e \in Entries
      /\ e.index = entries[i].index /\ e.prevHash = entries[i].prevHash
      /\ e.honeypot = entries[i].honeypot /\ e.env = v
      /\ e.entryHash = entries[i].entryHash
      /\ e.leafHash = entries[i].leafHash
  BY <1>1, <1>2 DEF Entries
<1> HIDE DEF e
<1> QED
  BY <1>1, <1>2, <1>3, <1>4

\* Every step of AppendCtx, of start-up and of the administration keeps the
\* types and the discipline of l.mu.
LEMMA TypeLockNext == TypeLock /\ [Next]_vars => TypeLock'
<1> SUFFICES ASSUME TypeLock, [Next]_vars PROVE TypeLock'
  BY Zenon
<1> USE DEF TypeLock
<1>1. ASSUME New PROVE TypeLock'
  BY <1>1 DEF New, TypeOK, LockInv, store, ghosts, counts, EmptySpace
<1>2. ASSUME ReplayEntry PROVE TypeLock'
  <2> DEFINE e == entries[Len(tree) + 1]
  <2>1. Len(tree) \in Nat /\ e \in Entries
    BY <1>2 DEF ReplayEntry, TypeOK
  <2>2. e.index \in Nat /\ e.leafHash \in LeafHashes
    BY <2>1 DEF Entries
  <2>3. DOMAIN leafCache' \subseteq Nat
        /\ \A j \in DOMAIN leafCache' : leafCache'[j] \in LeafHashes
    BY <1>2, <2>1, <2>2, PutLeafType DEF ReplayEntry
  <2>4. DOMAIN leaves' \subseteq Nat
        /\ \A j \in DOMAIN leaves' : leaves'[j] \in LeafHashes
    BY <1>2, <2>2, Zenon DEF ReplayEntry, TypeOK, Put
  <2> QED
    BY <1>2, <2>2, <2>3, <2>4
       DEF ReplayEntry, TypeOK, LockInv, ghosts, counts
<1>3. ASSUME ReplayRefuses \/ ReplayDone PROVE TypeLock'
  BY <1>3, Zenon DEF ReplayRefuses, ReplayDone, TypeOK, LockInv, store, memory,
              ghosts, counts
<1>4. ASSUME NEW t \in Threads, NEW r \in Requests, BeginAppend(t, r)
      PROVE  TypeLock'
  BY <1>4, Zenon DEF BeginAppend, TypeOK, LockInv, store, ghosts, counts
<1>5. ASSUME NEW t \in Threads, RecordEnvelope(t) PROVE TypeLock'
  <2>1. \A h \in DOMAIN replay' : replay'[h] \in Nat
    BY <1>5 DEF RecordEnvelope, TypeOK, Put
  <2> QED
    BY <1>5, <2>1, ConstantsAssumption, Zenon
       DEF RecordEnvelope, TypeOK, LockInv, ghosts, counts
<1>6. ASSUME NEW t \in Threads, RecordRefused(t) PROVE TypeLock'
  BY <1>6, ConstantsAssumption
     DEF RecordRefused, Return, TypeOK, LockInv, store, ghosts
<1>7. ASSUME NEW t \in Threads, PersistEntry(t) PROVE TypeLock'
  <2> DEFINE e == EntryFor(t)
  <2>1. e \in Entries
    BY <1>7, EntryForFacts, Zenon DEF PersistEntry
  <2>2. /\ e.index \in Nat /\ e.entryHash \in Hashes
        /\ e.leafHash \in LeafHashes
    BY <2>1 DEF Entries
  <2>3. entries' = Append(entries, e) /\ entries' \in Seq(Entries)
        /\ entries' # <<>>
    BY <1>7, <2>1 DEF PersistEntry, TypeOK
  <2>4. DOMAIN leaves' \subseteq Nat
        /\ \A j \in DOMAIN leaves' : leaves'[j] \in LeafHashes
    BY <1>7, <2>2, SMTT(30) DEF PersistEntry, TypeOK, Put
  <2> HIDE DEF e
  <2> QED
    BY <1>7, <2>2, <2>3, <2>4
       DEF PersistEntry, TypeOK, LockInv, ghosts, counts, e
<1>8. ASSUME NEW t \in Threads, PersistFails(t) PROVE TypeLock'
  BY <1>8, ConstantsAssumption
     DEF PersistFails, Return, TypeOK, LockInv, store, ghosts
<1>9. ASSUME NEW t \in Threads, UpdateTree(t) PROVE TypeLock'
  <2> DEFINE e == entries[Len(entries)]
  <2>1. e \in Entries /\ Len(tree) \in Nat
    BY <1>9 DEF UpdateTree, TypeOK, LockInv
  <2>2. e.leafHash \in LeafHashes
    BY <2>1, SMTT(30) DEF Entries
  <2>3. DOMAIN leafCache' \subseteq Nat
        /\ \A j \in DOMAIN leafCache' : leafCache'[j] \in LeafHashes
    BY <1>9, <2>1, <2>2, PutLeafType, SMTT(30) DEF UpdateTree
  <2> QED
    BY <1>9, <2>2, <2>3, ConstantsAssumption
       DEF UpdateTree, Return, TypeOK, LockInv, store, counts
<1>10. ASSUME NEW i \in DOMAIN leaves, ReadLeaf(i) PROVE TypeLock'
  <2>1. DOMAIN leafCache' \subseteq Nat
        /\ \A j \in DOMAIN leafCache' : leafCache'[j] \in LeafHashes
    BY <1>10, PutLeafType, SMTT(30) DEF ReadLeaf, TypeOK
  <2> QED
    BY <1>10, <2>1, SMTT(30)
       DEF ReadLeaf, TypeOK, LockInv, store, ghosts, counts
<1>11. ASSUME NEW i \in DOMAIN leaves, DeleteLeafHash(i) PROVE TypeLock'
  BY <1>11, Zenon DEF DeleteLeafHash, Delete, TypeOK, LockInv, memory, ghosts,
               counts
<1>12. ASSUME NEW p \in ProducerIDs, NEW c \in Credentials,
              NEW s \in {"none", "valid"}, RegisterProducer(p, c, s)
       PROVE  TypeLock'
  BY <1>12 DEF RegisterProducer, Put, Records, TypeOK, LockInv, memory
<1>13. ASSUME NEW p \in ProducerIDs, RevokeProducer(p) \/ ExpireEnrollment(p)
       PROVE  TypeLock'
  <2>1. /\ p \in DOMAIN producers
        /\ \/ producers' = [producers EXCEPT ![p] = [@ EXCEPT !.revoked = TRUE]]
           \/ producers' = [producers EXCEPT
                               ![p] = [@ EXCEPT !.enrollment = "expired"]]
    BY <1>13 DEF RevokeProducer, ExpireEnrollment
  <2>2. /\ [producers[p] EXCEPT !.revoked = TRUE] \in Records
        /\ [producers[p] EXCEPT !.enrollment = "expired"] \in Records
    BY <2>1, Zenon DEF TypeOK, Records
  <2>3. DOMAIN producers' = DOMAIN producers
        /\ \A q \in DOMAIN producers : producers'[q] \in Records
    BY <2>1, <2>2, Zenon DEF TypeOK
  <2> QED
    BY <1>13, <2>3 DEF RevokeProducer, ExpireEnrollment, TypeOK, LockInv,
                       memory, ghosts, counts
<1>14. ASSUME NEW h \in DOMAIN replay, ExpireReplay(h) PROVE TypeLock'
  BY <1>14, Zenon DEF ExpireReplay, Delete, TypeOK, LockInv, memory, ghosts, counts
<1>15. ASSUME Crash PROVE TypeLock'
  BY <1>15, ConstantsAssumption
     DEF Crash, EmptySpace, TypeOK, LockInv, store, ghosts
<1>16. ASSUME NEW i \in DOMAIN entries, NEW d \in Payloads, Tamper(i, d)
       PROVE  TypeLock'
  <2>1. entries' \in Seq(Entries) /\ Len(entries') = Len(entries)
    BY <1>16, TamperFacts
  <2>2. entries # <<>> => entries' # <<>>
    BY <2>1 DEF TypeOK
  <2> QED
    BY <1>16, <2>1, <2>2, Zenon DEF Tamper, TypeOK, LockInv, memory, counts
<1>17. ASSUME UNCHANGED vars PROVE TypeLock'
  BY <1>17, Zenon DEF vars, store, memory, ghosts, counts, TypeOK, LockInv
<1> QED
  BY <1>1, <1>2, <1>3, <1>4, <1>5, <1>6, <1>7, <1>8, <1>9, <1>10, <1>11,
     <1>12, <1>13, <1>14, <1>15, <1>16, <1>17
     DEF Next, StartUp, AppendStep, RejectAppend

\* Every variable of the log keeps its type, and l.mu is held by one handler.
THEOREM TypeCorrect == Spec => []TypeOK
<1>1. Spec => []TypeLock
  BY TypeLockInit, TypeLockNext, PTL DEF Spec
<1> QED
  BY <1>1, PTL DEF TypeLock

\* The first half of the argument holds throughout.
LEMMA AlwaysTypeLock == Spec => []TypeLock
BY TypeLockInit, TypeLockNext, PTL DEF Spec

-----------------------------------------------------------------------------
(* The hash chain in the store                                             *)

\* The stored entries form one chain from index 0 on that meta/size and
\* meta/head describe; stele-tamper breaks the entries it rewrites, and only
\* those: it leaves indices and hashes alone.
ChainInv ==
    /\ \A i \in DOMAIN entries : entries[i].index = i - 1 /\ EntryVerifyChain(i)
    /\ metaSize = Len(entries)
    /\ metaHead = IF entries = <<>> THEN ZeroHash
                  ELSE entries[Len(entries)].entryHash
    /\ tampered \subseteq DOMAIN entries
    /\ \A i \in DOMAIN entries : i \in tampered <=> ~EntryVerify(entries[i])

\* Only AppendEntry's transaction and stele-tamper write entries.
LEMMA EntryWriters ==
    ASSUME [Next]_vars
    PROVE  \/ UNCHANGED <<entries, metaSize, metaHead, tampered>>
           \/ \E t \in Threads : PersistEntry(t)
           \/ \E i \in DOMAIN entries, d \in Payloads : Tamper(i, d)
BY Zenon DEF Next, StartUp, AppendStep, New, ReplayEntry, ReplayRefuses, ReplayDone,
       BeginAppend, RejectAppend, RecordEnvelope, RecordRefused, PersistFails,
       UpdateTree, ReadLeaf, DeleteLeafHash, RegisterProducer, RevokeProducer,
       ExpireEnrollment, ExpireReplay, Crash, store, memory, ghosts, counts,
       vars

\* Entry hashes tell payloads apart.
LEMMA CanonicalData ==
    ASSUME NEW e \in Entries, NEW f \in Entries, Canonical(e) = Canonical(f)
    PROVE  e.env.data = f.env.data
<1>1. e.prevHash \in Hashes /\ f.prevHash \in Hashes
  BY DEF Entries
<1>2. EnvelopeHash(e.env) = EnvelopeHash(f.env)
  BY <1>1 DEF Canonical, Hashes
<1> QED
  BY <1>2 DEF EnvelopeHash

\* An empty store has no entry that could break the chain.
LEMMA ChainInit == Init => ChainInv
BY DEF Init, ChainInv, ZeroHash

\* A sequence of length zero is empty.
LEMMA NoElements ==
    \A S : \A s \in Seq(S) : Len(s) = 0 => s = <<>>
OBVIOUS

\* A handler appends at the end of the chain, and stele-tamper breaks the
\* entry it rewrites.
LEMMA ChainNext == TypeLock /\ ChainInv /\ [Next]_vars => ChainInv'
<1> SUFFICES ASSUME TypeLock, ChainInv, [Next]_vars PROVE ChainInv'
  OBVIOUS
<1>1. entries \in Seq(Entries)
  BY DEF TypeLock, TypeOK
<1>2. ASSUME UNCHANGED <<entries, metaSize, metaHead, tampered>>
      PROVE  ChainInv'
  BY <1>2, Zenon DEF ChainInv, EntryVerifyChain
<1>3. ASSUME NEW t \in Threads, PersistEntry(t) PROVE ChainInv'
  <2> DEFINE e == EntryFor(t)
  <2>0. PICK n \in Nat : n = Len(entries)
    BY <1>1
  <2>1. e \in Entries /\ EntryVerify(e)
    BY <1>3, EntryForFacts, Zenon DEF PersistEntry
  <2>2. /\ entries' = Append(entries, e) /\ metaSize' = metaSize + 1
        /\ metaHead' = e.entryHash /\ tampered' = tampered
        /\ e.index = metaSize /\ e.prevHash = metaHead
    BY <1>3, Zenon DEF PersistEntry, AppendEntryAccepts, ghosts
  <2> HIDE DEF e
  <2>3. /\ n = Len(entries) /\ DOMAIN entries = 1 .. n
        /\ Len(entries') = n + 1 /\ DOMAIN entries' = 1 .. n + 1
        /\ entries'[n + 1] = e
        /\ \A i \in 1 .. n : entries'[i] = entries[i]
    BY <1>1, <2>0, <2>1, <2>2
  <2>4. ASSUME NEW i \in 1 .. n
        PROVE  entries'[i].index = i - 1 /\ EntryVerifyChain(i)'
    BY <2>3 DEF ChainInv, EntryVerifyChain
  <2>5. entries'[n + 1].index = n /\ EntryVerifyChain(n + 1)'
    <3>1. e.index = n
      BY <2>0, <2>2, Zenon DEF ChainInv
    <3>2. CASE n = 0
      <4>0. entries = <<>>
        BY <1>1, <2>0, <3>2, NoElements, Zenon
      <4>1. e.prevHash = ZeroHash
        BY <2>2, <4>0, Zenon DEF ChainInv
      <4> QED
        BY <2>3, <3>1, <3>2, <4>1 DEF EntryVerifyChain
    <3>3. CASE n # 0
      <4>1. n \in 1 .. n /\ (n + 1) - 1 = n /\ n + 1 # 1
        BY <2>3, <3>3
      <4>2. e.prevHash = entries[n].entryHash
        BY <1>1, <2>0, <2>2, <3>3 DEF ChainInv
      <4>3. entries[n].index = n - 1 /\ entries'[n] = entries[n]
        BY <2>3, <4>1, Zenon DEF ChainInv
      <4> QED
        BY <2>3, <3>1, <4>1, <4>2, <4>3 DEF EntryVerifyChain
    <3> QED
      BY <2>3, <3>2, <3>3, Zenon
  <2>6. \A i \in DOMAIN entries' : i \in tampered <=> ~EntryVerify(entries'[i])
    BY <2>1, <2>3 DEF ChainInv
  <2>7. \A i \in DOMAIN entries' :
          entries'[i].index = i - 1 /\ EntryVerifyChain(i)'
    <3> SUFFICES ASSUME NEW i \in 1 .. n + 1
                 PROVE  entries'[i].index = i - 1 /\ EntryVerifyChain(i)'
      BY <2>3, Zenon
    <3>1. i \in 1 .. n \/ i = n + 1
      BY <2>3
    <3> QED
      BY <2>3, <2>4, <2>5, <3>1
  <2>8. metaSize' = Len(entries') /\ entries' # <<>>
        /\ metaHead' = entries'[Len(entries')].entryHash
    BY <2>2, <2>3 DEF ChainInv
  <2> QED
    BY <2>2, <2>3, <2>6, <2>7, <2>8 DEF ChainInv
<1>4. ASSUME NEW i \in DOMAIN entries, NEW d \in Payloads, Tamper(i, d)
      PROVE  ChainInv'
  <2>1. /\ entries' \in Seq(Entries) /\ Len(entries') = Len(entries)
        /\ \A j \in DOMAIN entries : j # i => entries'[j] = entries[j]
        /\ entries'[i].index = entries[i].index
        /\ entries'[i].prevHash = entries[i].prevHash
        /\ entries'[i].entryHash = entries[i].entryHash
        /\ entries'[i].env.data = d
    BY <1>4, TamperFacts, Zenon
  <2>2. /\ tampered' = tampered \cup {i} /\ i \notin tampered
        /\ metaSize' = metaSize /\ metaHead' = metaHead
        /\ d # entries[i].env.data
    BY <1>4 DEF Tamper
  <2>3. DOMAIN entries' = DOMAIN entries /\ entries'[i] \in Entries
        /\ entries[i] \in Entries
    BY <1>1, <2>1
  <2>4. \A j \in DOMAIN entries :
          entries'[j].index = j - 1 /\ EntryVerifyChain(j)'
    <3> SUFFICES ASSUME NEW j \in DOMAIN entries
                 PROVE  entries'[j].index = j - 1 /\ EntryVerifyChain(j)'
      BY Zenon
    <3>1. \A k \in DOMAIN entries :
            /\ entries'[k].index = entries[k].index
            /\ entries'[k].prevHash = entries[k].prevHash
            /\ entries'[k].entryHash = entries[k].entryHash
      BY <2>1, Zenon
    <3>2. j # 1 => j - 1 \in DOMAIN entries
      BY <1>1
    <3> QED
      BY <3>1, <3>2, Zenon DEF ChainInv, EntryVerifyChain
  <2>5. ~EntryVerify(entries'[i])
    <3>1. entries[i].entryHash = Canonical(entries[i])
      BY <2>2, Zenon DEF ChainInv, EntryVerify
    <3>2. Canonical(entries'[i]) # Canonical(entries[i])
      BY <2>1, <2>2, <2>3, CanonicalData, Zenon
    <3> QED
      BY <2>1, <3>1, <3>2, Zenon DEF EntryVerify
  <2>6. metaHead' = IF entries' = <<>> THEN ZeroHash
                    ELSE entries'[Len(entries')].entryHash
    BY <1>1, <2>1, <2>2, <2>3 DEF ChainInv
  <2> QED
    BY <2>1, <2>2, <2>3, <2>4, <2>5, <2>6, Zenon DEF ChainInv
<1> QED
  BY <1>2, <1>3, <1>4, EntryWriters

\* The stored entries form a chain throughout.
LEMMA AlwaysChain == Spec => []ChainInv
BY ChainInit, ChainNext, AlwaysTypeLock, PTL DEF Spec

\* Whatever was interrupted and wherever, replay refuses no untampered store.
THEOREM ChainCorrect == Spec => []ChainIntact
<1>1. ChainInv => ChainIntact
  BY DEF ChainInv, ChainIntact, Replayable
<1> QED
  BY <1>1, AlwaysChain, PTL

-----------------------------------------------------------------------------
(* Acknowledged entries                                                    *)

\* A receipt names the index and the envelope of a stored entry.
AckInv ==
    \A a \in acked :
      /\ a[1] + 1 \in DOMAIN entries
      /\ a[1] + 1 \notin tampered =>
           EnvelopeHash(entries[a[1] + 1].env) = a[2]

\* Stored entries keep their place and, unless tampered with, their content.
LEMMA EntriesStay ==
    ASSUME TypeLock, [Next]_vars, NEW i \in DOMAIN entries
    PROVE  /\ i \in DOMAIN entries'
           /\ i \in tampered => i \in tampered'
           /\ i \notin tampered' => entries'[i] = entries[i]
<1>1. entries \in Seq(Entries)
  BY Zenon DEF TypeLock, TypeOK
<1>2. CASE UNCHANGED <<entries, metaSize, metaHead, tampered>>
  BY <1>2
<1>3. ASSUME NEW t \in Threads, PersistEntry(t)
      PROVE  i \in DOMAIN entries' /\ entries'[i] = entries[i]
             /\ tampered' = tampered
  <2>1. EntryFor(t) \in Entries
    BY <1>3, EntryForFacts, Zenon DEF PersistEntry
  <2> QED
    BY <1>1, <1>3, <2>1 DEF PersistEntry, ghosts
<1>4. ASSUME NEW k \in DOMAIN entries, NEW d \in Payloads, Tamper(k, d)
      PROVE  /\ i \in DOMAIN entries' /\ tampered' = tampered \cup {k}
             /\ i # k => entries'[i] = entries[i]
  <2>1. /\ entries' \in Seq(Entries) /\ Len(entries') = Len(entries)
        /\ \A j \in DOMAIN entries : j # k => entries'[j] = entries[j]
    BY <1>4, TamperFacts, Zenon
  <2> QED
    BY <1>1, <1>4, <2>1 DEF Tamper
<1> QED
  BY <1>2, <1>3, <1>4, EntryWriters, SMTT(30)

\* At first nothing has been acknowledged.
LEMMA AckInit == Init => AckInv
BY DEF Init, AckInv

\* Append answers only after AppendEntry committed, and what it stored stays.
LEMMA AckNext == TypeLock /\ ChainInv /\ AckInv /\ [Next]_vars => AckInv'
<1> SUFFICES ASSUME TypeLock, ChainInv, AckInv, [Next]_vars,
                    NEW a \in acked'
             PROVE  /\ a[1] + 1 \in DOMAIN entries'
                    /\ a[1] + 1 \notin tampered' =>
                         EnvelopeHash(entries'[a[1] + 1].env) = a[2]
  BY SMTT(30) DEF AckInv
<1>1. \/ acked' = acked
      \/ \E t \in Threads : UpdateTree(t)
  BY Zenon DEF Next, StartUp, AppendStep, New, ReplayEntry, ReplayRefuses,
         ReplayDone, BeginAppend, RejectAppend, RecordEnvelope, RecordRefused,
         PersistEntry, PersistFails, ReadLeaf, DeleteLeafHash,
         RegisterProducer, RevokeProducer, ExpireEnrollment, ExpireReplay,
         Crash, Tamper, store, memory, ghosts, counts, vars
<1>2. CASE a \in acked
  <2>1. /\ a[1] + 1 \in DOMAIN entries
        /\ a[1] + 1 \notin tampered =>
             EnvelopeHash(entries[a[1] + 1].env) = a[2]
    BY <1>2 DEF AckInv
  <2> QED
    BY <2>1, EntriesStay, Zenon
<1>3. ASSUME NEW t \in Threads, UpdateTree(t), a \notin acked
      PROVE  /\ a[1] + 1 \in DOMAIN entries
             /\ EnvelopeHash(entries[a[1] + 1].env) = a[2]
             /\ entries' = entries
  <2> DEFINE n == Len(entries)
  <2>1. a = <<entries[n].index, EnvelopeHash(entries[n].env)>>
    BY <1>3, Zenon DEF UpdateTree
  <2>2. n \in DOMAIN entries /\ n \in Nat
    BY <1>3 DEF UpdateTree, TypeLock, TypeOK, LockInv
  <2>3. a[1] = n - 1 /\ a[2] = EnvelopeHash(entries[n].env)
    BY <2>1, <2>2, Zenon DEF ChainInv
  <2> QED
    BY <1>3, <2>2, <2>3 DEF UpdateTree, store
<1> QED
  BY <1>1, <1>2, <1>3

\* An entry AppendCtx returned is in the store for good, at the index the
\* client was given.
THEOREM AckedCorrect == Spec => []AckedDurable
<1>1. AckInv => AckedDurable
  BY Zenon DEF AckInv, AckedDurable
<1> QED
  BY <1>1, AckInit, AckNext, AlwaysTypeLock, AlwaysChain, PTL DEF Spec

-----------------------------------------------------------------------------
(* The replay table                                                        *)

\* Without a TTL the table knows every stored envelope and the one of the
\* handler that holds l.mu between its two transactions, which is not stored
\* yet: the record is written before the entry and survives its failure.
ReplayInv ==
    ~ReplayTTL /\ tampered = {} =>
      /\ \A i \in DOMAIN entries : EnvelopeHash(entries[i].env) \in DOMAIN replay
      /\ \A t \in Threads : pc[t] = "recorded" =>
           /\ EnvelopeHash(req[t].env) \in DOMAIN replay
           /\ \A i \in DOMAIN entries :
                EnvelopeHash(entries[i].env) # EnvelopeHash(req[t].env)
      /\ \A i, j \in DOMAIN entries :
           EnvelopeHash(entries[i].env) = EnvelopeHash(entries[j].env) => i = j

\* At first the replay table and the entries are both empty.
LEMMA ReplayInit == Init => ReplayInv
BY DEF Init, ReplayInv

\* Every stored envelope has its replay record before and after each step:
\* TryRecordEnvelope commits before AppendEntry does, and a record without a
\* TTL is never deleted.
LEMMA ReplayNext == TypeLock /\ ReplayInv /\ [Next]_vars => ReplayInv'
<1> SUFFICES ASSUME TypeLock, ReplayInv, [Next]_vars,
                    ~ReplayTTL, tampered' = {}
             PROVE  ReplayInv'
  BY SMTT(30) DEF ReplayInv
<1>1. ASSUME NEW t \in Threads, RecordEnvelope(t) PROVE ReplayInv'
  <2>1. tampered = {} /\ entries' = entries /\ req' = req
        /\ pc' = [pc EXCEPT ![t] = "recorded"]
        /\ EnvelopeHash(req[t].env) \notin DOMAIN replay
        /\ DOMAIN replay' = DOMAIN replay \cup {EnvelopeHash(req[t].env)}
    BY <1>1, PutFacts, ZenonT(40) DEF RecordEnvelope, ghosts
  <2>2. \A u \in Threads : u # t => pc'[u] # "recorded"
    BY <1>1, ConstantsAssumption, SMTT(30)
       DEF RecordEnvelope, TypeLock, TypeOK, LockInv
  <2> QED
    BY <2>1, <2>2, Zenon DEF ReplayInv, TypeLock, TypeOK
<1>2. ASSUME NEW t \in Threads, PersistEntry(t) PROVE ReplayInv'
  <2> DEFINE e == EntryFor(t)
  <2>1. e \in Entries /\ e.env = req[t].env
    BY <1>2, EntryForFacts, Zenon DEF PersistEntry
  <2>2. /\ entries' = Append(entries, e) /\ pc[t] = "recorded"
        /\ tampered = {} /\ replay' = replay /\ req' = req
        /\ pc' = [pc EXCEPT ![t] = "persisted"]
    BY <1>2, Zenon DEF PersistEntry, ghosts
  <2> HIDE DEF e
  <2>3. \A u \in Threads : pc'[u] # "recorded"
    BY <2>2, SMTT(30) DEF TypeLock, TypeOK, LockInv
  <2>4. /\ DOMAIN entries' = DOMAIN entries \cup {Len(entries) + 1}
        /\ entries'[Len(entries) + 1] = e
        /\ \A i \in DOMAIN entries : entries'[i] = entries[i]
    BY <2>1, <2>2 DEF TypeLock, TypeOK
  <2> QED
    BY <2>1, <2>2, <2>3, <2>4, SMTT(30) DEF ReplayInv
<1>3. ASSUME /\ UNCHANGED <<entries, tampered, replay>>
             /\ \A t \in Threads : pc'[t] = "recorded" =>
                  pc[t] = "recorded" /\ req'[t] = req[t]
      PROVE  ReplayInv'
  BY <1>3, SMTT(30) DEF ReplayInv
<1>4. \/ \E t \in Threads : RecordEnvelope(t) \/ PersistEntry(t)
      \/ /\ UNCHANGED <<entries, tampered, replay>>
         /\ \A t \in Threads : pc'[t] = "recorded" =>
              pc[t] = "recorded" /\ req'[t] = req[t]
  BY ZenonT(40) DEF Next, StartUp, AppendStep, New, ReplayEntry, ReplayRefuses,
         ReplayDone, BeginAppend, RejectAppend, RecordRefused, PersistFails,
         UpdateTree, Return, ReadLeaf, DeleteLeafHash, RegisterProducer,
         RevokeProducer, ExpireEnrollment, ExpireReplay, Crash, Tamper, store,
         memory, ghosts, counts, vars, TypeLock, TypeOK
<1> QED
  BY <1>1, <1>2, <1>3, <1>4, Zenon

\* Without a TTL no envelope is accepted twice, whoever retries it.
THEOREM ReplayCorrect == Spec => []NoEnvelopeTwice
<1>1. ReplayInv => NoEnvelopeTwice
  BY Zenon DEF ReplayInv, NoEnvelopeTwice
<1> QED
  BY <1>1, ReplayInit, ReplayNext, AlwaysTypeLock, PTL DEF Spec

-----------------------------------------------------------------------------
(* The producer registry                                                   *)

\* A registry record was granted, with an enrollment while it has a valid one.
RegistryGranted ==
    \A p \in DOMAIN producers : \E s \in {"none", "valid"} :
      /\ <<p, producers[p].cred, s>> \in granted
      /\ producers[p].enrollment = "valid" => s = "valid"

\* The envelope of every handler past the checks was granted, and so was that
\* of every stored entry.  A later revocation takes nothing back.
GrantInv ==
    /\ RegistryGranted
    /\ \A t \in Threads : pc[t] # "idle" => Granted(req[t].env)
    /\ \A i \in DOMAIN entries \ tampered : Granted(entries[i].env)

\* At first the registry is empty and no entry is stored.
LEMMA GrantInit == Init => GrantInv
BY DEF Init, GrantInv, RegistryGranted, EmptySpace

\* What lookupProducer let through in a handler, and what AppendEntry stores of
\* it, has been granted: grants are remembered, revocations do not undo them.
LEMMA GrantNext == TypeLock /\ GrantInv /\ [Next]_vars => GrantInv'
<1> SUFFICES ASSUME TypeLock, GrantInv, [Next]_vars PROVE GrantInv'
  OBVIOUS
<1> USE DEF TypeLock
<1>1. granted \subseteq granted'
  BY Zenon DEF Next, StartUp, AppendStep, New, ReplayEntry, ReplayRefuses,
         ReplayDone, BeginAppend, RejectAppend, RecordEnvelope, RecordRefused,
         PersistEntry, PersistFails, UpdateTree, ReadLeaf, DeleteLeafHash,
         RegisterProducer, RevokeProducer, ExpireEnrollment, ExpireReplay,
         Crash, Tamper, store, memory, ghosts, counts, vars
<1>2. RegistryGranted'
  <2>1. ASSUME NEW q \in ProducerIDs, NEW c \in Credentials,
               NEW s \in {"none", "valid"}, RegisterProducer(q, c, s)
        PROVE  RegistryGranted'
    BY <2>1, <1>1 DEF RegisterProducer, Put, GrantInv, RegistryGranted
  <2>2. ASSUME NEW q \in ProducerIDs, RevokeProducer(q) \/ ExpireEnrollment(q)
        PROVE  RegistryGranted'
    <3>1. /\ DOMAIN producers' = DOMAIN producers
          /\ q \in DOMAIN producers
          /\ \A p \in DOMAIN producers : p # q => producers'[p] = producers[p]
          /\ \/ producers'[q] = [producers[q] EXCEPT !.revoked = TRUE]
             \/ producers'[q] = [producers[q] EXCEPT !.enrollment = "expired"]
      BY <2>2, ZenonT(40) DEF RevokeProducer, ExpireEnrollment
    <3>2. /\ producers'[q].cred = producers[q].cred
          /\ producers'[q].enrollment \in {producers[q].enrollment, "expired"}
      BY <3>1 DEF TypeOK, Records
    <3> QED
      BY <1>1, <3>1, <3>2 DEF GrantInv, RegistryGranted
  <2>3. CASE producers' = producers
    BY <1>1, <2>3, Zenon DEF GrantInv, RegistryGranted
  <2> QED
    BY <2>1, <2>2, <2>3
      , Zenon DEF Next, StartUp, AppendStep, New, ReplayEntry, ReplayRefuses,
           ReplayDone, BeginAppend, RejectAppend, RecordEnvelope,
           RecordRefused, PersistEntry, PersistFails, UpdateTree, ReadLeaf,
           DeleteLeafHash, ExpireReplay, Crash, Tamper, store, memory, ghosts,
           counts, vars
<1>3. \A t \in Threads : pc'[t] # "idle" => Granted(req[t].env)'
  <2> SUFFICES ASSUME NEW t \in Threads, pc'[t] # "idle"
               PROVE  Granted(req[t].env)'
    BY SMTT(30)
  <2>1. \/ pc[t] # "idle" /\ req'[t] = req[t]
        \/ \E r \in Requests : BeginAppend(t, r)
    BY ZenonT(40)
       DEF Next, StartUp, AppendStep, New, ReplayEntry, ReplayRefuses,
           ReplayDone, BeginAppend, RejectAppend, RecordEnvelope,
           RecordRefused, PersistEntry, PersistFails, UpdateTree, Return,
           ReadLeaf, DeleteLeafHash, RegisterProducer, RevokeProducer,
           ExpireEnrollment, ExpireReplay, Crash, Tamper, store, memory,
           ghosts, counts, vars, TypeOK
  <2>2. CASE pc[t] # "idle" /\ req'[t] = req[t]
    <3>1. Granted(req[t].env)
      BY <2>2, Zenon DEF GrantInv
    <3> QED
      BY <1>1, <2>2, <3>1, Zenon DEF Granted
  <2>3. ASSUME NEW r \in Requests, BeginAppend(t, r)
        PROVE  Granted(req[t].env)'
    <3>1. Granted(r.env)
      BY <2>3, Zenon DEF BeginAppend, ProducerAdmits, GrantInv, RegistryGranted,
                  Granted, TypeOK, Records
    <3>2. req'[t] = r
      BY <2>3, Zenon DEF BeginAppend, TypeOK
    <3> QED
      BY <1>1, <3>1, <3>2, Zenon DEF Granted
  <2> QED
    BY <2>1, <2>2, <2>3, Zenon
<1>4. \A i \in DOMAIN entries' \ tampered' : Granted(entries[i].env)'
  <2> SUFFICES ASSUME NEW i \in DOMAIN entries' \ tampered'
               PROVE  Granted(entries[i].env)'
    OBVIOUS
  <2>1. CASE i \in DOMAIN entries
    <3>1. i \notin tampered /\ entries'[i] = entries[i]
      BY <2>1, EntriesStay, Zenon
    <3>2. Granted(entries[i].env)
      BY <2>1, <3>1, Zenon DEF GrantInv
    <3> QED
      BY <1>1, <3>1, <3>2, Zenon DEF Granted
  <2>2. CASE i \notin DOMAIN entries
    <3>1. PICK t \in Threads : PersistEntry(t)
      BY <2>2, EntryWriters, TamperFacts DEF TypeOK
    <3>2. EntryFor(t) \in Entries /\ EntryFor(t).env = req[t].env
      BY <3>1, EntryForFacts, Zenon DEF PersistEntry
    <3>3. entries'[i].env = req[t].env /\ pc[t] # "idle"
      BY <2>2, <3>1, <3>2 DEF PersistEntry, TypeOK
    <3>4. Granted(req[t].env)
      BY <3>3, Zenon DEF GrantInv
    <3> QED
      BY <1>1, <3>3, <3>4, Zenon DEF Granted
  <2> QED
    BY <2>1, <2>2, Zenon
<1> QED
  BY <1>2, <1>3, <1>4, Zenon DEF GrantInv

\* The log holds only envelopes an administrator's grant covers.
THEOREM GrantCorrect == Spec => []OnlyGrantedProducers
<1>1. ChainInv /\ GrantInv => OnlyGrantedProducers
  BY Zenon DEF ChainInv, GrantInv, EntryVerify, OnlyGrantedProducers
<1> QED
  BY <1>1, GrantInit, GrantNext, AlwaysTypeLock, AlwaysChain, PTL DEF Spec

-----------------------------------------------------------------------------
(* The tree, the leaf cache and the leaf mirror                            *)

\* The tree is the prefix of the stored leaves that replay or the handlers
\* have reached; cache and mirror hold leaves of stored entries only, and the
\* mirror holds all that the tree commits to.  The tree is behind the store
\* during replay and between a handler's second transaction and its update.
TreeInv ==
    /\ Len(tree) <= Len(entries)
    /\ \A i \in 1 .. Len(tree) :
         tree[i] = entries[i].leafHash /\ i - 1 \in DOMAIN leaves
    /\ \A i \in DOMAIN leaves :
         i < Len(entries) /\ leaves[i] = entries[i + 1].leafHash
    /\ \A i \in DOMAIN leafCache :
         i < Len(entries) /\ leafCache[i] = entries[i + 1].leafHash
    /\ status = "down" => tree = <<>>
    /\ \A t \in Threads : pc[t] = "persisted" =>
         Len(entries) = Len(tree) + 1 /\ Len(tree) \in DOMAIN leaves
    /\ status = "up" /\ (\A t \in Threads : pc[t] # "persisted") =>
         Len(entries) = Len(tree)

\* Before the first start the tree is empty.
LEMMA TreeInit == Init => TreeInv
BY DEF Init, TreeInv, EmptySpace

\* The actions that leave the store's entries, the tree and both leaf maps.
LEMMA TreeQuiet ==
    ASSUME TypeLock, TreeInv,
           UNCHANGED <<entries, leaves, tree, leafCache>>,
           \/ status' = status /\ \A t \in Threads :
                pc'[t] = "persisted" <=> pc[t] = "persisted"
           \/ /\ status' = "aborted" \/ Len(tree) = Len(entries)
              /\ status' # "down"
              /\ \A t \in Threads : pc'[t] # "persisted"
    PROVE  TreeInv'
BY Zenon DEF TreeInv

\* replay rebuilds the leaves of the stored entries, and Append adds one leaf
\* for the entry it stores, before the lock is given back.
LEMMA TreeNext == TypeLock /\ ChainInv /\ TreeInv /\ [Next]_vars => TreeInv'
<1> SUFFICES ASSUME TypeLock, ChainInv, TreeInv, [Next]_vars PROVE TreeInv'
  OBVIOUS
<1> USE DEF TypeLock
<1>0. /\ entries \in Seq(Entries) /\ Len(entries) \in Nat
      /\ tree \in Seq(LeafHashes) /\ Len(tree) \in Nat
      /\ DOMAIN leaves \subseteq Nat /\ DOMAIN leafCache \subseteq Nat
  BY DEF TypeOK
<1>1. ASSUME New PROVE TreeInv'
  <2>1. \A t \in Threads : pc[t] = "idle"
    BY <1>1, SMTT(30) DEF New, LockInv
  <2> QED
    BY <1>0, <1>1, <2>1 DEF New, store, TreeInv, EmptySpace
<1>2. ASSUME ReplayEntry PROVE TreeInv'
  <2> DEFINE n == Len(tree)
             e == entries[n + 1]
  <2>1. n + 1 \in DOMAIN entries /\ (n + 1) - 1 = n
    BY <1>0, <1>2 DEF ReplayEntry
  <2>2. e \in Entries /\ e.index = n /\ e.leafHash \in LeafHashes
    <3>1. e \in Entries
      BY <1>0, <2>1
    <3>2. e.index = n
      BY <2>1, Zenon DEF ChainInv
    <3> QED
      BY <3>1, <3>2, Zenon DEF Entries
  <2>3. /\ tree' = Append(tree, e.leafHash)
        /\ leafCache' \in PutLeaf(n, e.leafHash)
        /\ UNCHANGED <<entries, status, pc>> /\ status = "replaying"
    BY <1>2, Zenon DEF ReplayEntry
  <2>4. leaves' = IF n \in DOMAIN leaves THEN leaves
                  ELSE Put(leaves, n, e.leafHash)
    BY <1>2, <2>2, Zenon DEF ReplayEntry
  <2>5. /\ DOMAIN leaves' = DOMAIN leaves \cup {n}
        /\ \A i \in DOMAIN leaves' : leaves'[i] = entries[i + 1].leafHash
    BY <2>4, Zenon DEF Put, TreeInv
  <2>6. /\ DOMAIN leafCache' \subseteq DOMAIN leafCache \cup {n}
        /\ \A i \in DOMAIN leafCache' : leafCache'[i] = entries[i + 1].leafHash
    <3>1. /\ DOMAIN leafCache' \subseteq DOMAIN leafCache \cup {n}
          /\ \A i \in DOMAIN leafCache' :
               leafCache'[i] = IF i = n THEN e.leafHash ELSE leafCache[i]
      BY <2>3, PutLeafFacts
    <3> QED
      BY <3>1, Zenon DEF TreeInv
  <2>7. /\ Len(tree') = n + 1 /\ tree'[n + 1] = e.leafHash
        /\ \A i \in 1 .. n : tree'[i] = tree[i]
    BY <1>0, <2>2, <2>3
  <2>8. \A t \in Threads : pc[t] = "idle"
    BY <2>3, Zenon DEF LockInv
  <2>9. \A i \in 1 .. n + 1 :
          tree'[i] = entries[i].leafHash /\ i - 1 \in DOMAIN leaves'
    <3> SUFFICES ASSUME NEW i \in 1 .. n + 1
                 PROVE  tree'[i] = entries[i].leafHash /\ i - 1 \in DOMAIN leaves'
      BY Zenon
    <3>1. i \in 1 .. n \/ i = n + 1
      BY <1>0
    <3> QED
      BY <2>1, <2>5, <2>7, <3>1, Zenon DEF TreeInv
  <2>10. n + 1 <= Len(entries) /\ n < Len(entries)
    BY <1>0, <2>1
  <2> QED
    BY <2>5, <2>6, <2>7, <2>8, <2>3, <2>9, <2>10, SMTT(30) DEF TreeInv
<1>3. ASSUME ReplayRefuses \/ ReplayDone PROVE TreeInv'
  <2>1. \A t \in Threads : pc[t] = "idle"
    BY <1>3, SMTT(30) DEF ReplayRefuses, ReplayDone, LockInv
  <2> QED
    BY <1>3, <2>1, TreeQuiet, Zenon DEF ReplayRefuses, ReplayDone, store, memory
<1>4. ASSUME NEW t \in Threads,
             \/ \E r \in Requests : BeginAppend(t, r)
             \/ RecordEnvelope(t) \/ RecordRefused(t) \/ PersistFails(t)
      PROVE  TreeInv'
  <2>1. \A u \in Threads : pc'[u] = "persisted" <=> pc[u] = "persisted"
    BY <1>4, ZenonT(40)
       DEF BeginAppend, RecordEnvelope, RecordRefused, PersistFails,
                Return, TypeOK
  <2> QED
    BY <1>4, <2>1, TreeQuiet, Zenon DEF BeginAppend, RecordEnvelope, RecordRefused,
                                 PersistFails, store
<1>5. ASSUME NEW t \in Threads, PersistEntry(t) PROVE TreeInv'
  <2> DEFINE e == EntryFor(t)
             n == Len(entries)
  <2>1. e \in Entries /\ e.index = Len(tree)
    BY <1>5, EntryForFacts, SMTT(30) DEF PersistEntry
  <2>2. /\ entries' = Append(entries, e) /\ leaves' = Put(leaves, n, e.leafHash)
        /\ UNCHANGED <<tree, leafCache, status>> /\ Len(tree) = n
        /\ pc' = [pc EXCEPT ![t] = "persisted"] /\ status = "up"
    BY <1>5, <2>1, SMTT(30)
       DEF PersistEntry, AppendEntryAccepts, ChainInv, LockInv
  <2> HIDE DEF e
  <2>3. /\ Len(entries') = n + 1 /\ entries'[n + 1] = e
        /\ \A i \in 1 .. n : entries'[i] = entries[i]
    BY <1>0, <2>1, <2>2
  <2>4. /\ DOMAIN leaves' = DOMAIN leaves \cup {n}
        /\ \A i \in DOMAIN leaves' : leaves'[i] = entries'[i + 1].leafHash
    <3>1. \A i \in DOMAIN leaves : i + 1 \in 1 .. n
      BY <1>0 DEF TreeInv
    <3> QED
      BY <2>2, <2>3, <3>1 DEF Put, TreeInv
  <2>5. \A i \in DOMAIN leafCache : leafCache[i] = entries'[i + 1].leafHash
    <3>1. \A i \in DOMAIN leafCache : i + 1 \in 1 .. n
      BY <1>0 DEF TreeInv
    <3> QED
      BY <2>3, <3>1, ZenonT(40) DEF TreeInv
  <2>6. pc'[t] = "persisted"
    BY <2>2, Zenon DEF TypeOK
  <2> QED
    BY <1>0, <2>2, <2>3, <2>4, <2>5, <2>6, SMTT(30) DEF TreeInv
<1>6. ASSUME NEW t \in Threads, UpdateTree(t) PROVE TreeInv'
  <2> DEFINE n == Len(tree)
             e == entries[n + 1]
  <2>0. Len(entries) = n + 1 /\ n \in DOMAIN leaves /\ status = "up"
    <3>1. pc[t] = "persisted"
      BY <1>6, Zenon DEF UpdateTree
    <3>2. status = "up"
      BY <3>1, Zenon DEF LockInv
    <3>3. Len(entries) = n + 1 /\ n \in DOMAIN leaves
      BY <3>1, Zenon DEF TreeInv
    <3> QED
      BY <3>2, <3>3, Zenon
  <2>1. /\ UNCHANGED <<entries, leaves, status>> /\ e.leafHash \in LeafHashes
        /\ tree' = Append(tree, e.leafHash)
        /\ leafCache' \in PutLeaf(n, e.leafHash)
    <3>1. e \in Entries
      BY <1>0, <2>0, SMTT(30)
    <3> QED
      BY <1>6, <2>0, <3>1, Zenon DEF UpdateTree, Entries, store
  <2>2. \A u \in Threads : pc'[u] # "persisted"
    BY <1>6, Zenon DEF UpdateTree, Return, LockInv, TypeOK
  <2>3. /\ DOMAIN leafCache' \subseteq DOMAIN leafCache \cup {n}
        /\ \A i \in DOMAIN leafCache' : leafCache'[i] = entries[i + 1].leafHash
    <3>1. /\ DOMAIN leafCache' \subseteq DOMAIN leafCache \cup {n}
          /\ \A i \in DOMAIN leafCache' :
               leafCache'[i] = IF i = n THEN e.leafHash ELSE leafCache[i]
      BY <2>1, PutLeafFacts
    <3> QED
      BY <3>1 DEF TreeInv
  <2>4. /\ Len(tree') = n + 1 /\ tree'[n + 1] = e.leafHash
        /\ \A i \in 1 .. n : tree'[i] = tree[i]
    BY <1>0, <2>1, SMTT(30)
  <2>5. Len(tree') = Len(entries') /\ status' = "up"
    BY <2>0, <2>1, <2>4, Zenon
  <2>6. \A i \in 1 .. Len(tree') :
          tree'[i] = entries'[i].leafHash /\ i - 1 \in DOMAIN leaves'
    <3> SUFFICES ASSUME NEW i \in 1 .. n + 1
                 PROVE  tree'[i] = entries[i].leafHash /\ i - 1 \in DOMAIN leaves
      BY <2>1, <2>4, Zenon
    <3>1. CASE i = n + 1
      BY <1>0, <2>0, <2>4, <3>1
    <3>2. CASE i \in 1 .. n
      BY <2>4, <3>2, Zenon DEF TreeInv
    <3> QED
      BY <1>0, <3>1, <3>2
  <2>7. \A i \in DOMAIN leafCache' :
          i < Len(entries') /\ leafCache'[i] = entries'[i + 1].leafHash
    BY <1>0, <2>0, <2>1, <2>3, SMTT(30) DEF TreeInv
  <2>8. \A i \in DOMAIN leaves' :
          i < Len(entries') /\ leaves'[i] = entries'[i + 1].leafHash
    BY <2>1, SMTT(30) DEF TreeInv
  <2> QED
    BY <1>0, <2>1, <2>2, <2>5, <2>6, <2>7, <2>8, SMTT(30) DEF TreeInv
<1>7. ASSUME NEW k \in DOMAIN leaves, ReadLeaf(k) PROVE TreeInv'
  <2>1. /\ DOMAIN leafCache' \subseteq DOMAIN leafCache \cup {k}
        /\ \A i \in DOMAIN leafCache' : leafCache'[i] = entries[i + 1].leafHash
    BY <1>7, PutLeafFacts DEF ReadLeaf, TreeInv
  <2> QED
    BY <1>7, <2>1, SMTT(30) DEF ReadLeaf, store, TreeInv
<1>8. ASSUME NEW k \in DOMAIN leaves, DeleteLeafHash(k) PROVE TreeInv'
  <2>1. tree = <<>> /\ \A t \in Threads : pc[t] = "idle"
    BY <1>8, Zenon DEF DeleteLeafHash, TreeInv, LockInv
  <2>2. /\ UNCHANGED <<entries, tree, leafCache, status, pc>>
        /\ DOMAIN leaves' \subseteq DOMAIN leaves
        /\ \A i \in DOMAIN leaves' : leaves'[i] = leaves[i]
    BY <1>8, Zenon DEF DeleteLeafHash, Delete, memory
  <2> QED
    BY <2>1, <2>2, SMTT(30) DEF TreeInv
<1>9. ASSUME Crash PROVE TreeInv'
  BY <1>0, <1>9, SMTT(30) DEF Crash, store, EmptySpace, TreeInv
<1>10. ASSUME NEW k \in DOMAIN entries, NEW d \in Payloads, Tamper(k, d)
       PROVE  TreeInv'
  <2>1. /\ Len(entries') = Len(entries)
        /\ \A i \in DOMAIN entries : entries'[i].leafHash = entries[i].leafHash
    BY <1>10, TamperFacts, Zenon
  <2>2. /\ \A i \in 1 .. Len(tree) : i \in DOMAIN entries
        /\ \A i \in DOMAIN leaves \cup DOMAIN leafCache : i + 1 \in DOMAIN entries
    <3>1. Len(tree) <= Len(entries)
      BY Zenon DEF TreeInv
    <3>2. \A i \in DOMAIN leaves \cup DOMAIN leafCache : i < Len(entries)
      BY Zenon DEF TreeInv
    <3> QED
      BY <1>0, <3>1, <3>2
  <2>3. UNCHANGED <<leaves, tree, leafCache, status, pc>>
    BY <1>10 DEF Tamper, memory
  <2> QED
    BY <2>1, <2>2, <2>3, Zenon DEF TreeInv
<1>11. ASSUME UNCHANGED <<entries, leaves, tree, leafCache, status, pc>>
       PROVE  TreeInv'
  BY <1>11, TreeQuiet
<1> QED
  BY <1>1, <1>2, <1>3, <1>4, <1>5, <1>6, <1>7, <1>8, <1>9, <1>10, <1>11
    , Zenon DEF Next, StartUp, AppendStep, RejectAppend, RegisterProducer,
         RevokeProducer, ExpireEnrollment, ExpireReplay, memory, store, vars

\* A handler takes l.mu in a log whose tree commits to exactly the store.
LEMMA TreeMatches == TypeLock /\ TreeInv => ProofsMatchRoot
<1> SUFFICES ASSUME TypeLock, TreeInv, status = "up", mu = NoThread
             PROVE  /\ Len(tree) = Len(entries)
                    /\ \A i \in 0 .. Len(tree) - 1 :
                         /\ tree[i + 1] = entries[i + 1].leafHash
                         /\ LeafFound(i)
                         /\ LeafHashAt(i) = tree[i + 1]
  BY Zenon DEF ProofsMatchRoot
<1>1. \A t \in Threads : pc[t] # "persisted"
  BY ConstantsAssumption, Zenon DEF TypeLock, LockInv
<1>2. Len(tree) = Len(entries) /\ Len(tree) \in Nat
  BY <1>1 DEF TreeInv, TypeLock, TypeOK
<1>3. ASSUME NEW i \in 0 .. Len(tree) - 1
      PROVE  /\ tree[i + 1] = entries[i + 1].leafHash
             /\ LeafFound(i) /\ LeafHashAt(i) = tree[i + 1]
  <2>1. i + 1 \in 1 .. Len(tree) /\ (i + 1) - 1 = i
    BY <1>2
  <2>2. tree[i + 1] = entries[i + 1].leafHash /\ i \in DOMAIN leaves
    BY <2>1, Zenon DEF TreeInv
  <2> QED
    BY <2>2, Zenon DEF TreeInv, LeafFound, LeafHashAt
<1> QED
  BY <1>2, <1>3, Zenon

\* The tree in memory is the tree of the stored entries throughout.
LEMMA AlwaysTree == Spec => []TreeInv
BY TreeInit, TreeNext, AlwaysTypeLock, AlwaysChain, PTL DEF Spec

\* Whatever the cache evicted, whoever deleted leaves offline and wherever the
\* process died, a serving log proves inclusion from the leaves its root
\* commits to, and its root commits to exactly the stored entries.
THEOREM ProofsCorrect == Spec => []ProofsMatchRoot
BY TreeMatches, AlwaysTypeLock, AlwaysTree, PTL

-----------------------------------------------------------------------------
(* Rewritten entries                                                       *)

\* Replay does not get past a rewritten entry, so a log with one is not up.
TamperInv ==
    /\ \A i \in tampered : Len(tree) < i
    /\ status = "up" => tampered = {}

\* At first no entry has been rewritten.
LEMMA TamperInit == Init => TamperInv
BY SMTT(30) DEF Init, TamperInv

\* An entry rewritten by stele-tamper stays one that replay refuses, so the log
\* stays down.
LEMMA TamperNext ==
    TypeLock /\ ChainInv /\ TreeInv /\ TamperInv /\ [Next]_vars => TamperInv'
<1> SUFFICES ASSUME TypeLock, ChainInv, TreeInv, TamperInv, [Next]_vars
             PROVE  TamperInv'
  OBVIOUS
<1> USE DEF TypeLock
<1>0. /\ Len(tree) \in Nat /\ Len(entries) \in Nat
      /\ DOMAIN entries = 1 .. Len(entries) /\ tree \in Seq(LeafHashes)
  BY DEF TypeOK
<1>1. ASSUME New \/ Crash PROVE TamperInv'
  <2>1. tree' = <<>> /\ status' # "up" /\ tampered' = tampered
    BY <1>1, Zenon DEF New, Crash, ghosts
  <2> QED
    BY <1>0, <2>1 DEF TamperInv, ChainInv
<1>2. ASSUME ReplayEntry PROVE TamperInv'
  <2>1. Len(tree) + 1 \in DOMAIN entries /\ Len(tree) + 1 \notin tampered
    BY <1>0, <1>2 DEF ReplayEntry, Replayable, ChainInv
  <2>2. entries[Len(tree) + 1].leafHash \in LeafHashes
    <3>1. entries[Len(tree) + 1] \in Entries
      BY <2>1 DEF TypeOK
    <3> QED
      BY <3>1, Zenon DEF Entries
  <2>3. Len(tree') = Len(tree) + 1 /\ tampered' = tampered /\ status' # "up"
    BY <1>0, <1>2, <2>2 DEF ReplayEntry, ghosts
  <2>4. \A i \in tampered : i \in Nat
    BY <1>0 DEF ChainInv
  <2> QED
    BY <1>0, <2>1, <2>3, <2>4, SMTT(30) DEF TamperInv
<1>3. ASSUME ReplayDone PROVE TamperInv'
  <2>1. tampered = {}
    BY <1>0, <1>3 DEF ReplayDone, TamperInv, ChainInv
  <2> QED
    BY <1>3, <2>1, Zenon DEF ReplayDone, TamperInv, memory, ghosts
<1>4. ASSUME NEW t \in Threads, UpdateTree(t) PROVE TamperInv'
  BY <1>4, Zenon DEF UpdateTree, LockInv, TamperInv
<1>5. ASSUME NEW k \in DOMAIN entries, NEW d \in Payloads, Tamper(k, d)
      PROVE  TamperInv'
  <2>1. /\ tree = <<>> /\ tree' = tree /\ status' = "down"
        /\ tampered' = tampered \cup {k}
    BY <1>5 DEF Tamper, TreeInv, memory
  <2> QED
    BY <1>0, <2>1 DEF TamperInv
<1>6. ASSUME UNCHANGED <<tree, tampered>>, status' \in {status, "aborted"}
      PROVE  TamperInv'
  BY <1>6 DEF TamperInv
<1> QED
  BY <1>1, <1>2, <1>3, <1>4, <1>5, <1>6
    , Zenon DEF Next, StartUp, AppendStep, ReplayRefuses, BeginAppend, RejectAppend,
         RecordEnvelope, RecordRefused, PersistEntry, PersistFails, ReadLeaf,
         DeleteLeafHash, RegisterProducer, RevokeProducer, ExpireEnrollment,
         ExpireReplay, store, memory, ghosts, counts, vars

\* Whatever stele-tamper rewrites, steled does not come up on it.
THEOREM TamperCorrect == Spec => []TamperRefused
<1>1. TamperInv => TamperRefused
  BY Zenon DEF TamperInv, TamperRefused
<1> QED
  BY <1>1, TamperInit, TamperNext, AlwaysTypeLock, AlwaysChain, AlwaysTree,
     PTL DEF Spec

-----------------------------------------------------------------------------
(* The log implements Ledger                                               *)

\* The ledger the stored entries stand for.
Accepted == [i \in DOMAIN entries |-> EnvelopeHash(entries[i].env)]

\* No stored entry has been rewritten.
Untampered == tampered = {}

\* Without stele-tamper no entry is ever rewritten.
LEMMA AlwaysUntampered == ~Tampering => (Spec => []Untampered)
<1> SUFFICES ASSUME ~Tampering PROVE Spec => []Untampered
  OBVIOUS
<1>1. Init => Untampered
  BY Zenon DEF Init, Untampered
<1>2. Untampered /\ [Next]_vars => Untampered'
  <2> SUFFICES ASSUME Untampered, [Next]_vars PROVE Untampered'
    BY Zenon
  <2>1. ~\E i \in DOMAIN entries, d \in Payloads : Tamper(i, d)
    BY DEF Tamper
  <2>2. \A t \in Threads : PersistEntry(t) => tampered' = tampered
    BY Zenon DEF PersistEntry, ghosts
  <2> QED
    BY <2>1, <2>2, EntryWriters, Zenon DEF Untampered
<1> QED
  BY <1>1, <1>2, PTL DEF Spec

\* The empty log is the empty ledger.
LEMMA LedgerInit == Init => Abstract!Init
BY DEF Init, Abstract!Init

\* AppendEntry's transaction accepts, UpdateTree's return acknowledges, and
\* every other step of an untampered log leaves the ledger alone.
LEMMA LedgerNext ==
    TypeLock /\ ChainInv /\ ReplayInv /\ Untampered /\ Untampered' /\ [Next]_vars
    => [Abstract!Next]_<<Accepted, acked>>
<1> SUFFICES ASSUME TypeLock, ChainInv, ReplayInv, Untampered,
                    Untampered', [Next]_vars
             PROVE  [Abstract!Next]_<<Accepted, acked>>
  OBVIOUS
<1>1. ASSUME NEW t \in Threads, PersistEntry(t)
      PROVE  Abstract!Next
  <2> DEFINE e == EntryFor(t)
             x == EnvelopeHash(req[t].env)
  <2>1. e \in Entries /\ e.env = req[t].env
    BY <1>1, EntryForFacts, Zenon DEF PersistEntry
  <2>2. entries' = Append(entries, e) /\ acked' = acked
        /\ pc[t] = "recorded"
    BY <1>1, Zenon DEF PersistEntry, ghosts
  <2>3. entries \in Seq(Entries)
    BY Zenon DEF TypeLock, TypeOK
  <2>4. x \in {EnvelopeHash(r.env) : r \in Requests}
    BY <2>2, Zenon DEF TypeLock, LockInv
  <2>5. ~ReplayTTL => \A i \in DOMAIN entries : Accepted[i] # x
    BY <2>2, Zenon DEF ReplayInv, Accepted, Untampered
  <2>6. Accepted' = Append(Accepted, x)
    BY <2>1, <2>2, <2>3, SMTT(30) DEF Accepted
  <2> QED
    BY <2>2, <2>4, <2>5, <2>6, Zenon DEF Accepted, Abstract!Next, Abstract!Accept
<1>2. ASSUME NEW t \in Threads, UpdateTree(t)
      PROVE  Abstract!Next
  <2> DEFINE n == Len(entries)
  <2>1. n \in DOMAIN entries /\ n \in Nat
    BY <1>2 DEF UpdateTree, TypeLock, TypeOK, LockInv
  <2>2. entries[n].index = n - 1
    BY <2>1, SMTT(30) DEF ChainInv
  <2>3. /\ acked' = acked \cup {<<n - 1, Accepted[n]>>}
        /\ entries' = entries
    BY <1>2, <2>1, <2>2, Zenon DEF UpdateTree, Accepted, store
  <2>4. Accepted' = Accepted /\ DOMAIN Accepted = DOMAIN entries
    BY <2>3, Zenon DEF Accepted
  <2> QED
    BY <2>1, <2>3, <2>4, SMTT(30)
       DEF Accepted, Abstract!Next, Abstract!Acknowledge
<1>3. ASSUME UNCHANGED <<entries, acked>> PROVE UNCHANGED <<Accepted, acked>>
  BY <1>3, SMTT(30) DEF Accepted
<1>4. \/ UNCHANGED <<entries, acked>>
      \/ \E t \in Threads : PersistEntry(t) \/ UpdateTree(t)
  BY Zenon DEF Next, StartUp, AppendStep, New, ReplayEntry, ReplayRefuses,
         ReplayDone, BeginAppend, RejectAppend, RecordEnvelope, RecordRefused,
         PersistFails, ReadLeaf, DeleteLeafHash, RegisterProducer,
         RevokeProducer, ExpireEnrollment, ExpireReplay, Crash, Tamper, store,
         memory, ghosts, counts, vars, Untampered
<1> QED
  BY <1>1, <1>2, <1>3, <1>4, Zenon

\* An untampered log is a ledger: it grows at its end only, takes no envelope
\* twice when the replay table has no TTL, and every receipt names the place
\* its envelope really has, through crashes, failed writes and replays.
THEOREM LedgerCorrect == ~Tampering => (Spec => ImplementsLedger)
<1> SUFFICES ASSUME ~Tampering PROVE Spec => ImplementsLedger
  BY Zenon
<1>1. Spec => []Untampered
  BY AlwaysUntampered
<1>2. Spec => []ReplayInv
  BY ReplayInit, ReplayNext, AlwaysTypeLock, PTL DEF Spec
<1> QED
  BY <1>1, <1>2, LedgerInit, LedgerNext, AlwaysTypeLock, AlwaysChain, PTL
     DEF Spec, ImplementsLedger, Abstract!Spec, Accepted

\* What Ledger promises is enough for its clients, however it is implemented: a
\* receipt names an entry for good, and no envelope is stored twice unless the
\* replay table forgets.
THEOREM LedgerSafe == Abstract!Spec => [](AckedDurable /\ NoEnvelopeTwice)
<1> DEFINE S == {EnvelopeHash(r.env) : r \in Requests}
           L == [i \in DOMAIN entries |-> EnvelopeHash(entries[i].env)]
           Once == \A i, j \in 1 .. Len(L) : L[i] = L[j] => i = j
           I == /\ L \in Seq(S)
                /\ \A a \in acked : a[1] + 1 \in 1 .. Len(L) /\ L[a[1] + 1] = a[2]
                /\ ~ReplayTTL => Once
<1>1. Abstract!Init => I
  <2> SUFFICES ASSUME L = <<>>, acked = {} PROVE I
    BY Zenon DEF Abstract!Init
  <2> HIDE DEF L
  <2> QED
    OBVIOUS
<1>2. I /\ [Abstract!Next]_<<L, acked>> => I'
  <2> SUFFICES ASSUME I, [Abstract!Next]_<<L, acked>> PROVE I'
    BY Zenon
  <2>0. /\ \A x : Abstract!Accept(x) =>
                    /\ ~ReplayTTL => \A i \in DOMAIN L : L[i] # x
                    /\ L' = Append(L, x) /\ acked' = acked
        /\ \A i : Abstract!Acknowledge(i) =>
                    L' = L /\ acked' = acked \cup {<<i - 1, L[i]>>}
        /\ \/ \E x \in S : Abstract!Accept(x)
           \/ \E i \in DOMAIN L : Abstract!Acknowledge(i)
           \/ UNCHANGED <<L, acked>>
    BY Zenon DEF Abstract!Next, Abstract!Accept, Abstract!Acknowledge
  <2> HIDE DEF L
  <2>1. CASE UNCHANGED <<L, acked>>
    BY <2>1, Zenon
  <2>2. ASSUME NEW x \in S, Abstract!Accept(x) PROVE I'
    <3> HIDE DEF S
    <3>1. /\ ~ReplayTTL => \A i \in DOMAIN L : L[i] # x
          /\ L' = Append(L, x) /\ acked' = acked
      BY <2>0, <2>2, Zenon
    <3>2. /\ Append(L, x) \in Seq(S) /\ Len(Append(L, x)) = Len(L) + 1
          /\ Len(L) \in Nat /\ DOMAIN L = 1 .. Len(L)
          /\ \A j \in 1 .. Len(L) : Append(L, x)[j] = L[j]
          /\ Append(L, x)[Len(L) + 1] = x
      OBVIOUS
    <3>3. /\ \A j \in 1 .. Len(L) : j \in 1 .. Len(L) + 1
          /\ \A j \in 1 .. Len(L) + 1 : j \in 1 .. Len(L) \/ j = Len(L) + 1
      BY <3>2
    <3>4. ASSUME ~ReplayTTL, NEW i \in 1 .. Len(L'), NEW j \in 1 .. Len(L'),
                 L'[i] = L'[j]
          PROVE i = j
      <4>0. \A m \in 1 .. Len(L') :
              \/ m \in 1 .. Len(L) /\ L'[m] = L[m]
              \/ m = Len(L) + 1 /\ L'[m] = x
        <5>1. Len(L') = Len(L) + 1
          BY <3>1, <3>2, Zenon
        <5>2. /\ \A m \in 1 .. Len(L) : L'[m] = L[m]
              /\ L'[Len(L) + 1] = x
          BY <3>1, <3>2, Zenon
        <5> QED
          BY <3>3, <5>1, <5>2, Zenon
      <4>1. /\ (i \in 1 .. Len(L) /\ L'[i] = L[i]) \/ (i = Len(L) + 1 /\ L'[i] = x)
            /\ (j \in 1 .. Len(L) /\ L'[j] = L[j]) \/ (j = Len(L) + 1 /\ L'[j] = x)
        BY <3>4, <4>0, Zenon
      <4>2. \A m \in 1 .. Len(L) : L[m] # x
        BY <3>1, <3>2, <3>4, Zenon
      <4>3. CASE i \in 1 .. Len(L) /\ j \in 1 .. Len(L) /\ L'[i] = L[i] /\ L'[j] = L[j]
        <5>1. L[i] = L[j]
          BY <3>4, <4>3, Zenon
        <5> QED
          BY <3>4, <4>3, <5>1, Zenon
      <4> QED
        BY <3>4, <4>1, <4>2, <4>3, Zenon
    <3>5. \A a \in acked' : a[1] + 1 \in 1 .. Len(L') /\ L'[a[1] + 1] = a[2]
      BY <3>1, <3>2, <3>3, Zenon
    <3> QED
      BY <3>1, <3>2, <3>4, <3>5, Zenon
  <2>3. ASSUME NEW i \in DOMAIN L, Abstract!Acknowledge(i) PROVE I'
    <3> DEFINE n == <<i - 1, L[i]>>
    <3> HIDE DEF S
    <3>1. L' = L /\ acked' = acked \cup {n}
      BY <2>0, <2>3, Zenon
    <3>2. i \in 1 .. Len(L)
      OBVIOUS
    <3>3. n[1] + 1 = i /\ n[2] = L[i]
      BY <3>2
    <3> HIDE DEF n
    <3>4. n[1] + 1 \in 1 .. Len(L) /\ L[n[1] + 1] = n[2]
      BY <3>2, <3>3, Zenon
    <3> QED
      BY <3>1, <3>4, Zenon
  <2> QED
    BY <2>0, <2>1, <2>2, <2>3, Zenon
<1>3. I => AckedDurable /\ NoEnvelopeTwice
  <2> SUFFICES ASSUME I PROVE AckedDurable /\ NoEnvelopeTwice
    BY Zenon
  <2>1. /\ DOMAIN L = DOMAIN entries
        /\ \A i \in DOMAIN entries : L[i] = EnvelopeHash(entries[i].env)
    BY Zenon
  <2> HIDE DEF L, S
  <2>2. DOMAIN L = 1 .. Len(L)
    OBVIOUS
  <2>3. AckedDurable
    BY <2>1, <2>2, Zenon DEF AckedDurable
  <2>4. NoEnvelopeTwice
    <3> SUFFICES ASSUME ~ReplayTTL, NEW i \in DOMAIN entries,
                        NEW j \in DOMAIN entries,
                        EnvelopeHash(entries[i].env) = EnvelopeHash(entries[j].env)
                 PROVE i = j
      BY Zenon DEF NoEnvelopeTwice
    <3>1. L[i] = L[j] /\ i \in 1 .. Len(L) /\ j \in 1 .. Len(L)
      BY <2>1, <2>2, Zenon
    <3> QED
      BY <3>1, Zenon
  <2> QED
    BY <2>3, <2>4, Zenon
<1> HIDE DEF I, L
<1>4. Abstract!Spec => Abstract!Init /\ [][Abstract!Next]_<<L, acked>>
  BY DEF Abstract!Spec, L
<1> QED
  BY <1>1, <1>2, <1>3, <1>4, PTL

=============================================================================
