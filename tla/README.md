# stele in TLA+

A verification development for stele, a tamper-evident transparency log in Go.
The modules model the log's parts from the source; TLC checks them on small
instances; TLAPS proves every safety property of the passing runs but one, the
Merkle proofs, for every value of the constants.

Paths below are relative to `src/`.  `PROJECT.json` names, for every definition
that models code, the lines it stands for.

1. [The system and its parts](#1-the-system-and-its-parts)
2. [How the modules are written](#2-how-the-modules-are-written)
3. [The modules](#3-the-modules)
4. [The runs](#4-the-runs)
5. [Fairness](#5-fairness)
6. [What is proved](#6-what-is-proved)
7. [What the models found](#7-what-the-models-found)
8. [What is not modelled](#8-what-is-not-modelled)
9. [Plan](#9-plan)

## 1. The system and its parts

A *producer* signs an envelope and posts it to `steled`.  The handler passes the
*ingest gate*, and `core.Log.Append` checks the envelope against the *producer
registry*, records its hash in the *replay table*, stores a hash-chained entry
in BadgerDB and adds its leaf to the *Merkle tree* in memory.  On a timer the
log signs a *checkpoint* (size, root, head) with the current key of a
*forward-secure chain*, collects cosignatures from *witnesses* and publishes it
to *anchors*.  The key is rotated by an operator or by the *watchdog*, and each
rotation destroys the previous key.  Witnesses *gossip* signed statements of
what they saw and record evidence of a fork.  Outside the daemon, *mirrors* copy
the log, *watchers* compare operator and witnesses, and *auditors* and clients
ask the *read API* for proofs.  Inside it, the *tripwire* recomputes the root
from the stored entries, and *journals* record what administrators did and what
readers asked, and a read of an entry flagged as a honeypot raises an alarm.  The
*daemon* itself opens these parts one after the other and, on SIGTERM, fails its
readiness probe, closes its listener and returns.  Keys live in files or on a
PKCS#11 *token*.  `stele-backup` and `stele-export-chain` serve recovery after
the loss of a host.

| Part | Source | Module | |
|---|---|---|---|
| log core: append, replay table, start-up | `pkg/core`, `pkg/logentry`, `pkg/storage` | `SteleLog`, `Ledger`, `Keyspace` | modelled, proved |
| Merkle tree | `pkg/merkle` | `Merkle` | modelled |
| key chain | `pkg/fwdsec` | `FwdSec`, `KeyChain` | modelled, proved |
| keys on a token | `pkg/hsm` | `Pkcs11`, `KeyStore` | modelled, proved |
| checkpoints | `pkg/core`, `pkg/checkpoint` | `Checkpointing` | modelled, proved |
| anchors | `pkg/core`, `pkg/anchor` | `Anchoring` | modelled, proved |
| witnesses, gossip | `pkg/witness` | `Witness`, `Cosigner` | partly, proved |
| enrollment | `pkg/core`, `pkg/storage`, `pkg/api` | `Enrollment` | modelled, proved |
| threshold cosigning | `pkg/threshold` | `Threshold` | modelled, proved |
| journals | `pkg/adminlog`, `pkg/readlog`, `pkg/api` | `Journal` | modelled, proved |
| handlers and their trail, honeylog | `pkg/api/server.go`, `pkg/honeylog` | `Endpoints` | partly, proved |
| ingest gate | `pkg/api/ingest.go` | `Ingest` | modelled, proved |
| read API, client, auditor | `pkg/api`, `pkg/audit`, `cmd/stele` | `ReadAPI` | partly, proved |
| mirror | `pkg/mirror` | `Mirror` | modelled, proved |
| tripwire | `pkg/tripwire` | `Tripwire` | modelled, proved |
| watchdog | `pkg/watchdog` | `Watchdog` | modelled, proved |
| watcher | `pkg/watcher` | `Watcher` | modelled, proved |
| backup, restore, export | `cmd/stele-backup`, `cmd/stele-export-chain` | `Recovery` | modelled, proved |
| daemon: start, readiness, shutdown | `cmd/steled`, `pkg/obs` | `Daemon` | modelled, proved |
| beacon, DNS discovery, hardening, TLS, metrics, PDF, SDKs, pilot, soak report | | | not modelled (section 8) |

The parts share little state.  The log, the registry and the replay table share
one database and are one module.  `Checkpointing` looks at the log and the
signer from above: the log is its length and a rotation is one step, which is
what `SteleLog` (one lock around store and tree) and `FwdSec` (one lock around
`Rotate`) justify.  `Anchoring` takes a checkpoint that `Checkpointing` saved
and follows it to the disk.  `Daemon` keeps of a handler or a task only whether
it is running, `Endpoints` of a journal only whether it took an event.
`Watcher` takes from `Witness` that a witness keeps the first root it cosigned
at a size, `Recovery` takes from `FwdSec` that a rotation destroys the previous
key.

## 2. How the modules are written

**Steps.**  A step is what the code does without another goroutine, another
process or a crash being able to come between: a critical section, a database
transaction, a file operation, a request.  A handler with two transactions is
two steps even if it holds a lock across both, because a crash may separate
them.

**Data.**  A hash is the value it covers, so equal hashes mean equal contents
and nothing else does.  A signature is the record of its key and what it signs;
verification compares the two.  A database keyspace is a function on the keys
present (`Keyspace`: `EmptySpace`, `Put`, `Delete`).  Wording, formats and
layout are left out, except where a property turns on them: `Journal` keeps that
`encoding/json` replaces bytes that are not UTF-8 although the hash covers them.

**Failures.**  Writes that fail, requests that get no answer, crashes and
administrative changes are actions guarded by a counter and a constant
`MaxFaults`, `MaxCrashes`, `MaxAdmin` and so on.  Every bound is a constant whose
name begins with `Max` and whose comment says what it bounds.

**History.**  Variables commented `history:` record what happened (receipts,
signatures made, grants) for the properties to refer to.  The program's own
decisions never depend on them; the environment's may, as when a faulty cosigner
answers with any signature that was ever produced.

**Variants.**  Where the code has a mode (hybrid keys, threshold rotation, the
kind of checkpoint signer), the mode is a variable that `Init` chooses, so that
one run covers all.

**Mutants.**  An operator named `Def_Change` directly before `Def`, commented
`mutant:`, is `Def` with a plausible mistake: a guard dropped, a reset
forgotten, two steps swapped.  It is not used by the specification.  Putting it
in `Def`'s place makes TLC report a violation of the property `PROJECT.json`
pairs it with, which shows that the property depends on that line of the code.

## 3. The modules

For each module: what its state is, which calls its actions are, and what its
properties say.  The comments in the modules have the details.

**`SteleLog`** (`pkg/core/log.go`, `pkg/storage`, `cmd/stele-tamper`).  State on
disk: `entries`, the mirror of leaf hashes `leaves`, `metaSize` and `metaHead`,
the `replay` table, the registry `producers`.  State in memory: `status`, the
`tree`, the bounded `leafCache`, the lock `mu`, and per handler `pc` and `req`.
A call of `AppendCtx` is `BeginAppend` or `RejectAppend` (the checks before the
lock: signature, registry, enrollment), `RecordEnvelope` or `RecordRefused`
(the lock and the first transaction), `PersistEntry` or `PersistFails` (the
second), `UpdateTree` (leaf, answer, unlock).  `New`, `ReplayEntry`,
`ReplayRefuses` and `ReplayDone` are the start of the daemon.  `RegisterProducer`,
`RevokeProducer`, `ExpireEnrollment` and `ExpireReplay` go on next to it, `Crash`
may happen at any point, `Tamper` is what `stele-tamper` does to a stopped log.
- `ChainIntact`: replay never refuses a log nobody tampered with.
- `ProofsMatchRoot`: root, stored entries and the leaves a proof reads agree
  whenever the lock is free.
- `NoEnvelopeTwice`, `AckedDurable`, `OnlyGrantedProducers`, `TamperRefused`.
- `Recovers`, `AppendReturns`: liveness.
- `ImplementsLedger`: refinement of `Ledger`.

**`Ledger`** is the abstract specification: a sequence that grows at its end,
holds no item twice (if the replay table has no TTL), and receipts that name the
item at its place.  `SteleLog` implements it with the stored envelopes' hashes
as `ledger`; start-up, registry changes, crashes and the first transaction of an
append are stuttering steps.

**`FwdSec`** (`pkg/fwdsec`).  `chainFile` and `keyFiles` on disk; `chain`,
`active`, `newKey` in memory.  `Rotate` is `generated`, `signed`, `written`, and
the destruction of the old key, each with a failing variant, and `Crash` between
any two; `LoadActive` and the genesis steps are the start.  The clock a
certificate takes its time from may step back at any moment, and every start may
come with another `--pq-mode`.
- `KeyRecoverable`: `chain.json` always names an intact key that it authorises.
- `ChainVerdict`: the chain on disk and the published one verify, except exactly
  when the clock stepped back between two of its rotations or hybrid mode was
  turned on over a classical key.
- `ChainVerifies`: the same without the second exception, refuted (section 7).
- `SignaturesStayValid`: no epoch is given to a second key.  No run checks it; it
  follows from the refinement.
- `ImplementsKeyChain`: refinement of `KeyChain`.
- `PreviousKeyDestroyed` (action property): what a successful `Rotate` replaced is
  off the disk.

**`KeyChain`** is the abstract specification of the signer: keys are generated,
certified at the end of a chain, and destroyed; the last key of the chain is never
destroyed and alone signs, under its own epoch; a key that is gone does not come
back.  `FwdSec` implements it with the keys certified in `chain.json` as `chain` and
the keys with an intact file as `kept`: the replacement of `chain.json` is
`Certify`, every loss of a key file is `Destroy`, and all that happens in memory,
restarts and crashes included, stutters.

**`Checkpointing`** (`pkg/core/log.go`, `pkg/checkpoint`, `pkg/core/witnesses.go`,
`pkg/anchor`).  Callers run `CheckpointCtx`, `Anchor` or both: `ReadTree` (under
`Log.mu`), `ReadPublic`, `ReadEpoch`, `SignDraft`, `QuantumSign` (each under
`Signer.mu` by itself), `GatherWitnessSignatures`, `SaveCheckpoint`,
`LatestCheckpoint`, `Publish`.  `AppendEntry`, `UpdateTree` and `Rotate` come in
between.
- `SnapshotConsistent`: size, root and head are of one state of the log.
- `CosignedVerifies`: what a witness cosigned verifies for ever.

**`Anchoring`** (`Log.Anchor` in `pkg/core/log.go`, `pkg/anchor`).  Two threads, the
scheduled task and `POST /anchor`, publish the latest checkpoint to a file sink
and to Rekor.  `FileSink.Publish` is open, write, sync and the replacement of the
head file under the sink's mutex; the line written is in `file` at once and on
`disk` when it is synced, and a crash keeps it, loses it or keeps the beginning of
it.  Rekor answers or refuses, and then the fallback file is written.
- `AnchorsHold`: what a returned record, a stored anchor record and the head file
  say is on the disk or in Rekor, while the file can be read.
- `PublishedIsALine`: refuted (section 7).

**`Witness`** (`pkg/witness`).  Per witness the maps `seen`, `checkpoints`,
`forks`, `latest` and their files; `pc`, `request` for the `Cosign` call that
holds the mutex and `round`, `peer`, `statement` for the gossip round next to it,
which ends in a cross attestation: the overlap is computed on the live map
without the mutex, and kept under it.
- `ImplementsCosigner`: refinement of `Cosigner`.
- `NoDoubleCosign`: across crashes and failed saves no witness signs two roots of
  one size.  No run checks it; it follows from the refinement.
- `NoFalseFork`: no operator is accused that did not sign two roots.
- `ConfirmsWhatItSaw`: a cross attestation names roots its author holds.
- `SplitViewDetected`: two witnesses shown different roots both find out and have
  the evidence on disk, though one save of it fails and is not reported.

**`Cosigner`** is the abstract specification of a cohort of witnesses: each has a
record of checkpoints, one root per size, from which nothing is taken back, and
cosigns only what is on it.  `Witness` implements it with the file of `seen` as the
record.  A save is `Record`, which may add several checkpoints at once, since the
map in memory keeps what an earlier failed save did not write; the answer of
`Cosign` is `Cosign`; gossip, forks and crashes stutter.

**`Enrollment`** (`pkg/core/log.go:300-600`, `pkg/storage/producers.go`).
One-step and challenge-response enrollment by concurrent handlers, next to
expiry, revocation, rotation and restart.
- `ChallengeUsedOnce`: no challenge is confirmed twice.
- `EnrollmentVerifies`: a registered enrollment verifies, in hybrid mode exactly if
  its two halves were signed in one epoch; one that came from a challenge carries
  the producer's consent to its terms, and the challenge led to no other.

**`Threshold`** (`pkg/threshold`).  The coordinator's requests, its result channel,
its cancellation; failing and faulty cosigners; `VerifyMulti`.
- `QuorumSigned`, `CancelIsSafe`, `SignTerminates`.

**`Merkle`** (`pkg/merkle`).  The compact range, the LRU of internal nodes and the
leaf cache, against the recursive definitions of RFC 6962.  The node lists and
the verification are those of the library the package uses and are marked
external.
- `ProofsVerify`: inclusion for every leaf and consistency for every pair of
  sizes, whatever was evicted.

**`ReadAPI`** (`pkg/api/server.go`, `pkg/audit`, `cmd/stele`).  One client session
whose requests are served in several critical sections while the log grows and
rotates.
- `AnswersHoldTogether`.

**`Mirror`** (`pkg/mirror`): the poll loop, chunked fetches, a crash of the mirror,
an operator restored from a backup.  `OneHistory`.

**`Tripwire`** (`pkg/tripwire`): a pass reads the checkpoint and then the entries
while the log grows, restarts, or is edited.  `AlarmIsRight`.

**`Watcher`** (`pkg/watcher`): one request after the other while log and witnesses
move.  `ExitCodeIsRight`.

**`Journal`** (`pkg/adminlog`, `pkg/readlog`, `recordAdmin` and `recordRead` in
`pkg/api/server.go`): the two packages are one state machine.  `JournalIsSound`.

**`Ingest`** (`pkg/api/ingest.go`, `handleAppend`): token buckets, their eviction,
the semaphore.  `GateHolds`: no producer passes more often than its rate allows,
though its bucket is evicted and made anew, and the slots taken are exactly those
of the appends in flight.

**`Watchdog`** (`pkg/watchdog`): three goroutines and one debounce.
`RotationsPaced`.

**`Recovery`** (`cmd/stele-backup`, `cmd/stele-export-chain`, start-up): snapshots,
exports, loss of a disk or host, restore.  `RecoveryIsSound`.

**`Endpoints`** (`pkg/api/server.go`, `pkg/honeylog`).  The handlers of `/entries`,
`/proof/inclusion` and `/rotate` by concurrent requests, each with `recordRead`,
`recordAdmin` and `fireHoney` at its place, while the log grows and the watchdog
rotates.  A journal may refuse an event, which the handler ignores.
- `TrailCoversAnswers`: what `/entries` handed out is in the read journal, and a
  rotation that was answered is between the epochs its event names.
- `HoneypotFires`: a honeypot `/entries` handed out raises its alarm.

**`Pkcs11`** (`pkg/hsm/pkcs11.go`).  A key is a pair of objects on the token;
`Generate` and `Destroy` make two calls each, either of which may fail, with
crashes in between.  **`KeyStore`** is the abstract specification, the promises of
`fwdsec.KeyStore` and `fwdsec.LiveKey`: a generated key stays until it is removed,
a removed one never signs again, a `Destroy` that returned nil has removed it.
- `ImplementsKeyStore`: refinement, with a key live while its private object is
  there.

**`Daemon`** (`cmd/steled/main.go`, `pkg/obs`).  The steps of `run()` in their order
(`After`), each with its early return, the deferred calls run in reverse, the
tasks, the shutdown coordinator with its sleep, `Signal` at any moment (before
`NotifyContext` it kills), and a balancer that polls `/readyz` and routes requests
by the last answer.
- `ExitReleasesAll`: a process that ends of itself has closed what it opened.
- `RoutedIsServed`: no request is routed to a closed listener.
- `ShutdownCompletes`: a caught signal ends the process.
- `DrainsBeforeClose`: refuted (section 7).

**Parts.**  Several components are checked in one run and proved in one module,
where their variables need names of their own.  A *part* module gives them:
it declares the variables of one to three components under a prefix, makes an
instance of each, states the assumption on the constants, and names the
properties.  The runs check, and the theorems state, these properties.

| Part | Instances |
|---|---|
| `ServerPart` | `Process` of `Daemon`, `API` of `Endpoints` |
| `AnchoringPart` | `Anchors` of `Anchoring` |
| `TokenPart` | `Hsm` of `Pkcs11` |
| `JournalPart` | `Journals` of `Journal` |
| `GatePart` | `Gate` of `Ingest` |
| `UpkeepPart` | `Dog` of `Watchdog`, `Backup` of `Recovery` |
| `ReadersPart` | `Reads` of `ReadAPI`, `Alarm` of `Tripwire`, `Copy` of `Mirror` |
| `WatcherPart` | `Watch` of `Watcher` |

**Compositions for TLC.**  `MCObservers` (`Enrollment`, `ReadersPart`,
`WatcherPart`), `MCServices` (`FwdSec`, `JournalPart`, `GatePart`, `UpkeepPart`)
and `MCOperations` (`Threshold`, `ServerPart`, `AnchoringPart`, `TokenPart`) each
put components that share no variable side by side.  A variable `part`, chosen by
`Init`, names the one that takes steps while the others stay in one initial
state.  This loses nothing: each property speaks of one component, and every
behaviour of that component occurs with `part` set to it.  It adds nothing
either: what the variables of a component do in the composition is a behaviour
of that component's `Spec`, one that stutters for ever if `part` names another,
so the theorems of section 6, which are about `Process!Spec`, `Gate!Spec` and so
on, cover what the run explores.  For liveness the fairness of a component is
asked for in the behaviours about it only.  The states add up instead of
multiplying.  `MCSteleLog` sets the log and `Merkle` side by side in the same
way; `MCCheckpointing` and `MCWitness` define constants and the symmetry sets.

## 4. The runs

`tlc -config X.cfg M` with the module and the configuration of `PROJECT.json`.

| Run | Distinct states | Bounds |
|---|---|---|
| `log_core` | 872,326 | 2 handlers, 5 requests (a duplicate, a wrong signature and hybrid credentials among them), log of 3, 1 cached leaf, 1 failed write, 2 crashes, 2 registry changes, tampering; tree of 9 leaves (caches of 3 and 2) |
| `log_live` | 84,586 | 2 handlers, log of 2, 1 failed write, 1 crash, 2 registry changes, TTL and required enrollment |
| `checkpointing` | 3,536,649 | 2 callers, 3 calls, 2 witnesses, log of 2, 1 rotation, hybrid and threshold signer |
| `witness` | 698,077 | 2 witnesses, 1 size, 2 roots, 1 failed save, 1 crash, 1 cleared fork |
| `witness_live` | 195,896 | the same, with the two witnesses shown different roots |
| `observers` | 2,209,724 | enrollment: 2 handlers, 1 id, 2 keys, 3 calls, 1 rotation, 1 revocation, 1 restart; read API: log of 6, 2 rotations, 3 samples; mirror: log of 4, chunks of 2, 1 fault, crash and restore; tripwire: 5 entries, 2 edits, 2 restarts; watcher: 2 witnesses, 2 passes, 1 fault |
| `services` | 4,321,092 | key chain: 4 keys, 2 clock values, 2 failures, 1 crash, each start classical or hybrid, with or without threshold rotation; journal: 2 handlers, 3 events, 1 failed write, 2 crashes; gate: 2 handlers, 2 producers, burst 2, time 5; watchdog: interval 3, debounce 2, time 8; recovery: log of 2, 3 entries, 1 rotation, 2 snapshots, 1 export, 1 loss |
| `operations` | 449,943 | threshold: 2 of 3 members, one faulty, one registered hybrid, 2 messages, 2 calls, 2 failures; daemon: every choice of five flags, 2 requests, sleep of 2 ticks, polls every tick; endpoints: 2 requests, log of 3, 3 rotations, 1 honeypot, 1 failure; anchors: 2 threads, 2 checkpoints, 3 calls, 1 failure, 1 crash; token: 3 keys, 2 failures, 2 crashes |
| `checkpointing_race` | | finds the counterexample of section 7, single signer |
| `fwdsec_hybrid_upgrade` | | finds the counterexample of section 7 |
| `daemon_drain` | | finds the counterexample of section 7: no flag but an existing key chain, 1 request |
| `anchor_torn` | | finds the counterexample of section 7: 1 thread, 2 checkpoints, 1 crash, no other failure |

**Why these bounds.**  Each is large enough for the case the property is about.
Two handlers suffice for every race on `Log.mu`, since the lock admits one and
the checks before it read the store only.  A log of three has an entry that is
neither first nor last, so that a broken link, a lost leaf and a stale head are
three different things.  Two crashes let a crash hit the recovery from the first.
Four keys let a rotation fail, be repeated and be followed by another, in a mode
that changes at the restart between them.  One size with two roots is a split view;
a second size adds nothing to what `Cosigner` promises, which is about roots of
one size.  Nine leaves cross the powers
of two 2, 4 and 8, with caches small enough that most nodes a proof needs have
been evicted.  In the gate, the idle time equals the time to fill a bucket, the
worst case `GateAssumption` allows.  In the watchdog, the clock runs for more than two
intervals, so that ticks fall before, into and after a debounce.  In the daemon,
the sleep is one tick longer than the time between two polls, the least that
"give LBs one health-check cycle" allows.  Three keys and two failures on the
token let a `Destroy` half fail beside a `Generate` that does, and a crash hit
the cleaning up of either.  Enrollment has one id, since the ceremonies of two
ids meet only in the serial number and the epoch; with
`Ids = {p1, p2}` the run passes as well, over 9,755,125 states and in more than
five minutes, and the theorems of section 6 are for any number.

**Deadlock** is checked where the system always has a next step.  It is switched
off where the bounds, and not the system, end a behaviour: there the counters
are used up and nothing is left to do.

**Symmetry** is used in the safety runs `checkpointing` and `witness`, over callers,
witnesses and roots, none of which an action or a property tells apart.

## 5. Fairness

*`SteleLog!FairSpec`*.  The supervisor restarts the daemon and replay goes on (weak
fairness of `StartUp`).  A handler that holds the lock goes on (weak).  A handler
that waits for the lock gets it (strong): Go's `sync.Mutex` hands the lock to a
waiter after a millisecond.  No fairness is assumed of clients, administrators,
failures or crashes.

*`Witness!FairSpec`*.  A `Cosign` call that holds the mutex goes on (weak).  Gossip runs
from a ticker for ever, reaches every peer again and again, and gets the mutex
(strong fairness).  Requests to cosign come or do not.

*`Threshold!FairSpec`*.  A request ends, because it has a deadline; the collecting
loop and the return go on (weak).

*`Daemon!FairSpec`*.  The main goroutine and the coordinator go on, time passes and
the balancer polls (weak).  Nothing is asked of handlers, tasks or of whoever
sends the signal: `ShutdownCompletes` holds although a handler never returns.

*`Endpoints!FairSpec`*.  A goroutine that `fireHoney` started runs (weak).  Nothing
is asked of requests.  That the process lives on is assumed.

The other modules are checked for safety only.

## 6. What is proved

The theorems hold for every value of the constants that satisfies the named
assumption of the module; the bounds of the runs play no part in them.  Each
proof has the same form: an inductive invariant, one lemma that the initial
states satisfy it, one that every action preserves it, and a theorem that draws
the property from it.  The components are distributed over the proof modules so
that each is checked in a few minutes:

| Module | Components |
|---|---|
| `SteleLogProofs` | `SteleLog`, its refinement of `Ledger` |
| `FwdSecProofs` | `FwdSec` with its refinement of `KeyChain`, `TokenPart` with its refinement of `KeyStore` |
| `CheckpointingProofs` | `Checkpointing`, `AnchoringPart`, `WatcherPart` |
| `WitnessProofs` | `Witness`, its refinement of `Cosigner`; `JournalPart` |
| `EnrollmentProofs` | `Enrollment`, `ServerPart` |
| `OperationsProofs` | `Threshold`, `GatePart` |
| `UpkeepProofs` | `UpkeepPart` |
| `ReadersProofs` | `ReadersPart` |

A leaf that needs neither arithmetic nor records names Zenon: the time tlapm takes
over a leaf for the SMT solver grows with the number it has translated before.

For each abstract specification there are two results: that the component
implements it, and that it implies, for every implementation, the safety property
a client relies on (`LedgerSafe`, `KeyChainSafe`, `KeyStoreSafe`, `CosignerSafe`).
The second shows that the abstraction promises enough.

### The log

`SteleLogProofs` proves, for any sets of handlers, requests, producers,
credentials and payloads and any bounds, from `ConstantsAssumption` alone (the
form of requests and the types of the switches and bounds):

| Theorem | Statement |
|---|---|
| `TypeCorrect` | `Spec => []TypeOK` |
| `ChainCorrect` | `Spec => []ChainIntact` |
| `AckedCorrect` | `Spec => []AckedDurable` |
| `ReplayCorrect` | `Spec => []NoEnvelopeTwice` |
| `GrantCorrect` | `Spec => []OnlyGrantedProducers` |
| `ProofsCorrect` | `Spec => []ProofsMatchRoot` |
| `TamperCorrect` | `Spec => []TamperRefused` |
| `LedgerCorrect` | `~Tampering => (Spec => ImplementsLedger)` |
| `LedgerSafe` | `Abstract!Spec => [](AckedDurable /\ NoEnvelopeTwice)` |

None of the properties is inductive.  The argument adds one fact after the
other, each proved from the ones before:

1. `TypeLock` = `TypeOK` and `LockInv`: `Log.mu` is held by exactly the handler
   between its first transaction and its update of the tree.  Everything else
   depends on there being one such handler.
2. `ChainInv`: entries have their index and the hash of their predecessor,
   `meta/size` and `meta/head` describe the end, and the entries that do not
   verify are exactly those `stele-tamper` rewrote.  `EntryWriters` isolates the
   only two actions that write entries, so that every other action is one case.
3. `AckInv` and `EntriesStay`: the handler that persisted its entry finds it at
   the end until it answers; stored entries keep their place.
4. `ReplayInv`: every stored envelope is in the replay table, and so is the one
   of the handler between its two transactions, which is not stored yet.  That
   second part is what makes a race or a crash harmless.
5. `GrantInv`: registry records and the requests handlers have let through were
   granted.  A revocation does not undo that, which is why the property speaks
   of a grant and not of one still in force.
6. `TreeInv`: the tree is a prefix of the stored leaves, one short between
   `PersistEntry` and `UpdateTree` and while replay runs, complete otherwise;
   cache and mirror only ever hold leaves of stored entries.  `ProofsMatchRoot`
   follows when the lock is free.
7. `TamperInv`: replay has not passed a rewritten entry, so a log that is up has
   none.
8. `LedgerNext`: `PersistEntry` is `Accept` (`ReplayInv` gives uniqueness),
   `UpdateTree` is `Acknowledge`, all else stutters.

### The key chain

`FwdSecProofs`, from `FwdSecAssumption` (the modes are sets of Booleans, the
bounds numbers):

| Theorem | Statement |
|---|---|
| `TypeCorrect` | `Spec => []TypeOK` |
| `RecoverCorrect` | `Spec => []KeyRecoverable` |
| `SignaturesCorrect` | `Spec => []SignaturesStayValid` |
| `DestroyCorrect` | `Spec => PreviousKeyDestroyed` |
| `VerdictCorrect` | `Spec => []ChainVerdict` |
| `ChainCorrect` | `OneMode` implies `Spec => []ChainVerifies` |
| `ChainRefines` | `Spec => ImplementsKeyChain` |
| `KeyChainSafe` | `Abstract!Spec => []SignaturesStayValid` |

1. `KeyInv`: the key a rotation makes has its file and is neither the active key
   nor, until `chain.json` is replaced, the one that file names.  So giving the new key
   up and destroying the old one both spare the key a restart needs.  The chain
   in memory is the one on disk, or has one certificate more.
2. `EpochInv`: certificates are numbered by their place; a live key is the active
   key of the chain on disk until that is replaced, and then the key before the
   last.  Only a live key signs, so an epoch never gets a second key, and what
   `DestroyPrevious` removes is the previous epoch's key.
3. `VerifyInv`, for starts in any mode: a certificate has a quantum key exactly
   if its key was made with one (`Halves`), the genesis certificate verifies, and
   each later one verifies but for an upgrade and is linked to the one before but
   for its date (`WellMade`).  `WellMadeVerdict` draws the verdict from that:
   both directions of `ChainVerdict`, so that the two exceptions are the only ones
   and each of them really spoils the chain.
4. `ModeInv`: if every start has the same `--pq-mode` (`OneMode`), all keys have a
   quantum half or none has, so no certificate is an upgrade and `ChainVerifies`
   holds too.  Without `OneMode` it fails, as `fwdsec_hybrid_upgrade` shows.
5. `FreshInv`: the key being certified is in no certificate on disk yet.
   `ChainMapsNext` then goes through the actions: a key made is `Generate`, the
   replacement of `chain.json` is `Certify`, a key given up or destroyed is `Destroy`
   (by `KeyInv` it is not the last of the chain), a signature is `Sign` (by
   `EpochInv` under the last epoch of the chain on disk).

### Checkpoints

`CheckpointingProofs`, from `CheckpointingAssumption` (the signing modes and the
types of the bounds):

| Theorem | Statement |
|---|---|
| `TypeCorrect` | `Spec => []TypeOK` |
| `SnapshotCorrect` | `Spec => []SnapshotConsistent` |
| `CosignedCorrect` | `Spec => []CosignedVerifies` |

`SoundInv` extends both properties from what left the process to the drafts of
the calls in progress, and adds that a draft has no cosignature before its
signature is final.  `SoundStays` says that appends and rotations do not undo it.
That every stored checkpoint verifies, cosigned or not, is what
`checkpointing_race` refutes: a witness verifies before it signs, the log does not.

### Witnesses

`WitnessProofs`, from `WitnessAssumption` (the markers for "no peer" and "no
request" are distinct from real ones, the bounds are numbers):

| Theorem | Statement |
|---|---|
| `TypeCorrect` | `Spec => []TypeOK` |
| `CosignCorrect` | `Spec => []NoDoubleCosign` |
| `ForkCorrect` | `Spec => []NoFalseFork` |
| `ConfirmCorrect` | `Spec => []ConfirmsWhatItSaw` |
| `CosignerRefines` | `Spec => ImplementsCosigner` |
| `CosignerSafe` | `Promise!Spec => []NoDoubleCosign` |

`NoDoubleCosign` is about signatures given and says nothing of the maps they are
checked against.  `SeenInv` adds them: memory has what the file has, the file has
all that was cosigned, and the call in progress has its root in memory and, past
the save, in the file.  A crash sets memory back to the file, so the order save,
then sign is what the proof rests on.  `ShownInv` says that whatever a witness
holds, in memory, in files, or in a statement fetched some time ago, the operator
signed; so two maps that disagree are evidence whenever they were read.
`ConfirmInv` says that, until a save fails, the map in memory is the one in the
file except in a `Cosign` call before its save, and that the gossip round that is
about to confirm a statement holds all of it in memory; since it keeps the
attestation under the mutex, no such call is under way then.  For the refinement,
`SeenInv` gives that a save only adds to the file and that what is cosigned is in
it, `ShownInv` that what is added was offered; a map has one root per size
(`PairsOneRoot`).

### Enrollment

`EnrollmentProofs`, from `EnrollmentAssumption`: `EnrollmentTypeCorrect`,
`ChallengeCorrect` (`Spec => []ChallengeUsedOnce`) and `EnrollmentCorrect`
(`Spec => []EnrollmentVerifies`).  `OnceInv` says that no challenge that is
pending or yet to come has been accepted, which holds because a confirmation
takes the challenge away in the critical section that finds it.  `VerifyInv` follows a
record through the call that makes it (`Step`): it names an epoch that has begun;
its first signature is of that epoch, since the epoch the signer reports is
compared with it; its second may be of a later one; and a record from a challenge
has the consent to its terms, which later steps leave alone (`ConsentFacts`).  `OnceInv` is needed again: accepting another challenge does not
change the count of the one a record came from (`LaterFacts`).

### Threshold signing

`OperationsProofs`, from `ThresholdAssumption`: `QuorumCorrect` (`Spec =>
[]QuorumSigned`) and `CancelCorrect` (`Spec => []CancelIsSafe`).  `FlowInv` says
that what is on its way, in the channel or gathered was produced by a cosigner;
`VerifyMulti` counts distinct members, hence the quorum.  `CancelInv` counts:
until the others are cancelled, which is when the threshold is met, the
signatures gathered and the valid ones still in the channel are at least as many
as the sound cosigners that have answered.

### Keys on a token

`FwdSecProofs`: `StoreTypeCorrect`, `StoreRefines` (`Hsm!Spec =>
ImplementsKeyStore`) and `KeyStoreSafe` (whatever implements `KeyStore`, a key whose
`Destroy` returned nil is gone, and the process holds only keys that are there).  `StoreInv` says that only keys `Generate` returned are held,
that the key of a `Generate` in progress is not yet one of them, and that a
`Destroy` that has met no error is past the private object.  `DestroyPrivate` is
then `Remove` or a stutter, the return of `Destroy` is `DestroyReturns`, and
whatever happens to a public object stutters.

### The daemon and its handlers

`EnrollmentProofs`: `ReleaseCorrect` (`Process!Spec => []ExitReleasesAll`), for any
flags and requests, and `RoutedCorrect` (`Process!Spec => []RoutedIsServed`), which
assumes `DrainOutlastsPoll`: the balancer polls more often than `LbDrain`.
`ReleaseInv` says that what is open is deferred, except the token's session between
the two steps that load the signer, whose error paths close it themselves.
`RouteInv` says that a balancer still routing while the coordinator sleeps has
polled at most `LbDrain - nap` ticks ago, so that it polls once more before the
sleep ends and finds the probe failing.

`TrailCorrect` (`API!Spec => []TrailCoversAnswers`), for any number of requests, any
log and any rotations beside them.  `TrailInv` follows a request from step to step
(`RequestInv`): what a read has handed out is in the journal except the entry it is
about to record, and a rotation lies between the epoch read before it and, once
that is read, the epoch after.  Other requests only add to the journals and only
raise the epoch, which `OtherKeeps` says once for all of them.

### Journals

`WitnessProofs`, from `JournalAssumption` (a text is valid UTF-8 or is not):
`JournalCorrect` (`Journals!Spec => []JournalIsSound`).  `JournalInv` has three
layers.  A file that was edited does not replay, and nothing opens it
(`EditRefused` goes through the edits).  In one that was not, lines and handlers
have ids of their own, and a handler's event is not in the file before it writes
it and is the last line after (`OnceInv`).  And while no write has failed the file
is a chain whose end the memory of the open journal has, but for the line being
written (`ChainInv`).  The layers differ in what they survive: a failed write breaks
`ChainInv` and leaves `OnceInv`, which is why a journal may refuse to open and still
records nothing twice.

### Anchors

`CheckpointingProofs`, from `AnchorAssumption` (the marks for a torn and a spoilt
line are not sizes): `AnchorsCorrect` (`Anchors!Spec => []AnchorsHold`).
`AnchorInv` says that a thread between the opening and the head file holds the
mutex, that past `sync` its line is on the disk, that the disk has no line the file
lacks, and that the head, and what the store names as anchored in the file, was
acknowledged.  All of it is conditional on the file being readable: a torn line
makes it unreadable for good, the case `anchor_torn` shows.

### The ingest gate

`OperationsProofs`, from `GateAssumption`: `GateCorrect` (`Gate!Spec => []GateHolds`).
`RateBound` compares any two requests a producer got through, so the invariant has
to know what each past request still allows.  `BucketInv`: the requests from the
i-th on, together with the tokens left, are at most the burst and what was gained
since; where the producer has no bucket, they are at most the gain alone.  The
second half is what evicting a bucket needs and what
`Burst <= Rate * IdleAfter` gives: a bucket idle for `IdleAfter` would be full, so
the full one made in its place is no gift.  The code does not enforce this; its
values satisfy it by far (200 tokens at 100 a second, an hour of idleness, and 10 at
5 for administrators).  For the semaphore, the slots taken are the handlers that
append.

### Watchdog and recovery

`UpkeepProofs`, from `DogAssumption`: `DogCorrect` (`Dog!Spec => []RotationsPaced`).
`TickInv` says how long ago the last rotation may have been when a tick is waiting
and when none is, which bounds it at every moment by `Interval + MinDebounce`
(`NotLate`); `AgeInv` says that the last rotation has made its key or still runs;
`OwnInv` that the events of the watchdog's own rotations wait at most as long as a
rotation takes, and so fall into its debounce.  That last step is where `MaxRotate <
MinDebounce` is needed.  The code sets no limit to the time of a rotation; 30
seconds, the default debounce, are far more than generating a key, two signatures and a
transaction take.

`RecoveryCorrect` (`Backup!Spec => []RecoveryIsSound`), without any assumption.
`RecoveryInv` describes the database and every snapshot alike: entries carry
versions up to the database's, a full snapshot taken of a database that replays is
itself one chain, and no checkpoint is signed by a key younger than the present one
(`NotAfter`, across identities).  `RestoredInv` adds that what was restored from such
a snapshot is still under the entries there are.

### Readers

`ReadersProofs`, from the types of three constants:
- `ReadsCorrect` (`Reads!Spec => []AnswersHoldTogether`): `ProofInv` keeps, for each
  step of a handler, how the size of the proof relates to the log's present size
  and to what the client had before.
- `CopyCorrect` (`Copy!Spec => []OneHistory`): `CopyInv` says that each stored entry
  is a prefix of the next, and that `prev` is the last one except between storing
  an entry and advancing.  Nothing is assumed of the upstream, which may be
  restored to an older state and grow another way.
- `AlarmCorrect` (`Alarm!Spec => []AlarmIsRight`): stored hashes continue each other
  whatever was edited (`HashInv`); while nothing was edited all is as appended
  (`OriginalInv`), hence no false alarm; and the first edited entry differs from
  the original in content or in hash for ever (`ChangeInv`), hence a pass over it
  that ends "ok" had a checkpoint of the edited store.

`CheckpointingProofs` has the watcher, `WatchCorrect` (`Watch!Spec =>
[]ExitCodeIsRight`), from `WatchAssumption` ("none" is not a root).  `GossipInv`:
witnesses never forget and hold only what was shown.  `ViewInv`: a view taken of a
witness is a root shown at the operator's size, and the one the witness held when
the operator answered if it held one.

### What stays with TLC

Liveness (`Recovers`, `AppendReturns`, `SplitViewDetected`, `SignTerminates`,
`ShutdownCompletes`, `HoneypotFires`), since TLAPS does not reason about fairness and
`ENABLED`; and `ProofsVerify`, whose definitions are recursive over the size of the
tree: a proof would be an induction over data, which is out of the prover's reach
here.  The four counterexamples of section 7 are TLC's too.

## 7. What the models found

Four runs end in a counterexample.

- **A rotation between three locks** (`checkpointing_race`).
  `checkpoint.Signer.Sign` (`pkg/checkpoint/checkpoint.go:192`) reads the public
  key, the epoch and the signature in three critical sections.  When `Rotate`
  falls between them the stored checkpoint carries one epoch's number and another
  one's key or signature and does not verify.  `checkpoint_test.go:72` says
  "pre-rotation checkpoint should still verify".  The next checkpoint is sound.
- **Hybrid mode over a classical chain** (`fwdsec_hybrid_upgrade`).  The first
  rotation after `--pq-mode=hybrid` was turned on binds the new certificate to an
  empty previous quantum key and leaves it without a quantum signature
  (`pkg/fwdsec/fwdsec.go:465`); the chain does not verify.
  `property_test.go:23` says "For any sequence of 0..N rotations, the resulting
  chain must verify" and `PLAYBOOK.md:570-571` tells operators to turn it on.
- **The store closes under its users** (`daemon_drain`).  `ListenAndServe` returns
  as soon as `Shutdown` has closed the listener (`cmd/steled/main.go:504`), `run()`
  returns and its deferred calls close the store, while `Shutdown` still waits for
  handlers and the watchdog has not been stopped.  The comment at lines 467-472
  says that `Shutdown` "waits for in-flight handlers to finish (up to
  `httpDrain`)" and that "the watchdog is stopped last so its rotations can't race
  the close".  The mains of `stele-witness`, `stele-mirror` and `stele-cosigner`
  shut down in the same way.
- **A record appended to a torn line** (`anchor_torn`).  A crash may leave the
  beginning of a line at the end of the anchor file.  `FileSink.Publish` opens the
  file for appending (`pkg/anchor/anchor.go:87`) and does not look at its end, so
  the next record, synced and returned to the caller, shares a line with it and
  is not a line `ReadAll` can read.  Lines 46-47 say that the file is "fsynced
  after every write so a crash after Publish() cannot lose the anchor".

### Observations

While the properties were being stated, these places turned out to do something
else than a comment or a document says.  The properties are stated for what the
code does; each item says what they therefore do not promise.

Log and registry:
- `Append` commits the replay record before the entry.  If the second transaction
  fails, the record stays and a retry is refused; `pkg/core/log.go:193` says "On
  any failure the on-disk state is unchanged."
- A replay record has a TTL, and the envelope is accepted again once it expired
  (`pkg/storage/replay.go:60`).  `NoEnvelopeTwice` is stated without a TTL.
- `Append` reads the registry before it takes `Log.mu`, so an entry may be stored
  after its producer was revoked (`pkg/core/log.go:224`).
- The classical and the quantum half of an enrollment are signed under two locks
  (`pkg/core/log.go:379`), and a rotation between them leaves one that does not
  verify.  `EnrollmentVerifies` says that this is the only case.
- `RegisterProducer` overwrites a revoked record, so a ceremony begun before the
  revocation lifts it when it is confirmed.

Keys:
- The new key is on disk before the old one is destroyed; a crash in between
  leaves both (`pkg/fwdsec/fwdsec.go:525`; the comment above it says otherwise).
- If destroying the old key fails with threshold rotation, the next rotation
  destroys that key again and leaves the one after it on disk.
  `PreviousKeyDestroyed` excludes threshold rotation.
- `StartedAt` is the wall clock.  A rotation after the clock was set back publishes
  a chain that does not verify, and no later rotation mends it, since every
  verifier compares all neighbouring certificates.
- `FileKeyStore`'s `Destroy` takes any error of `Stat` for the absence of the file.
- A `Sign` after `Close` of the PKCS#11 store would use a context that is gone; the
  order of shutdown above is what can bring that about.
- `threshold.Sign` counts answers that `VerifyMulti` does not: a second one of the
  same member, and one without the quantum half of a hybrid member
  (`pkg/threshold/coordinator.go:89`).  `QuorumSigned` is about `VerifyMulti`.

Checkpoints and anchors:
- `VerifyWitnessesHybrid` counts a witness as often as it is listed, while
  `pkg/verify/verify.go:39-40` speaks of distinct witnesses.
- Two anchoring passes may publish a smaller checkpoint after a larger one, and a
  checkpoint replaced before the pass is not published.
- The store keeps one anchor record per size: the record of the sink that
  published last replaces the other's.  Errors of writing Rekor's fallback file are
  dropped.
- The head file is described as holding "the most recent line's SHA-256"
  (`pkg/anchor/anchor.go:50`); it holds the hash of the checkpoint.

Witnesses:
- `gossipOne` calls the sink on every round of a fork; `gossip.go:54-55` says
  "exactly once".
- After a crash between its two saves a witness holds a root without its
  checkpoint, and evidence of a later fork has one checkpoint only.
- `recordForkLocked` drops the error of saving the evidence
  (`pkg/witness/witness.go:611`).  The next round finds the fork again while the
  peer serves the other root, which is why `SplitViewDetected` holds.
- A root is in memory, and so in signed statements, before it is saved.  After a
  failed save and a restart the witness may state another root.  Nothing was
  cosigned in between, which is what `Cosigner` promises.
- For the same reason a cross attestation may name a root that a restart forgets;
  `ConfirmsWhatItSaw` is stated until a save fails.
- `issueCrossAttestation` and `CompareWithPeer` take a reference to the map under
  the mutex and read it after (`cross_attestation.go:97`), while `Cosign` writes it.
  The model lets the reader see either state; the Go runtime may also abort the
  process, which is a crash.

Readers:
- `handleConsistencyProof` takes proof and new root under two locks
  (`pkg/api/server.go:726`); an append in between makes an honest answer fail.
- The auditor checks proofs of the current tree against the checkpoint it fetched
  first, and a checkpoint against a key chain fetched before it: a log that grows
  or rotates during an audit fails.  `AnswersHoldTogether` promises a pass only to
  a log that stood still.
- The watcher reports an error only if every witness failed, and skips a witness
  without a root at the operator's size; `cmd/stele-watcher/main.go:23-25` says
  otherwise of both.

- An inclusion proof comes with the leaf hash of the entry it looked up, but
  `handleInclusionProof` neither records the read nor fires the honeypot.
  `pkg/api/server.go:83` says that the read journal "captures every read
  operation served by this API", and `pkg/honeylog/honeylog.go:3-5` speaks of
  "any read endpoint". `TrailCoversAnswers` and `HoneypotFires` are stated for
  `/entries`.
- `handleRotate` reads the epoch before and after its rotation without a lock
  (`pkg/api/server.go:771`), so the epochs its event names may span another's
  rotation.  `TrailCoversAnswers` asks that they span its own.

Services:
- A second SIGTERM during shutdown is caught and ignored until `run()` returns.
- A journal line cut short, or written and not synced, is not counted in memory;
  the next line repeats its index and the next start refuses the file.  So does a
  text field that is not UTF-8.  `JournalIsSound` excludes both.
- A mutation is journaled after it was made, and a failure is only logged.
- Start-up does not compare the rebuilt tree with the stored checkpoint, so a
  consistent edit of a stopped log is signed by the next checkpoint
  (`AlarmIsRight` excludes it), and a restore from an old snapshot may sign another
  root at an anchored size.
- The watchdog drops its first directory events whoever made them, stamps the
  debounce before a rotation that may fail, and does not see appends stop.
- An incremental snapshot cannot be restored on top of another: restore wants an
  empty directory.  `RecoveryIsSound` is stated for full snapshots.

## 8. What is not modelled

- *Cryptography.*  Hashes do not collide and signatures are made with their keys;
  formats and canonical encodings are taken to be injective.
- *BadgerDB.*  Transactions are atomic and durable once committed.  Compaction,
  garbage collection and the value log are not modelled.
- *The tree hash inside `SteleLog`.*  There the root is the sequence of leaves;
  that proofs lead to it is the subject of `Merkle`.
- *Witness configuration.*  The operators and peers of a witness are fixed.
- *Anchors.*  The body of a Rekor submission and its answer are left out: Rekor
  logs a checkpoint and says so, or not.
- *Read API.*  Entry ranges, search and statistics only read and are not part of a
  verdict.
- *Endpoints.*  Of the requests that change a rule only `/rotate` is modelled
  with its trail; the others record in the same order after the same kind of
  call.  Of honeylog's sinks the one on
  stderr is kept: whether the webhook failed is told to nobody.
- *Daemon.*  The values of flags, and TLS, are left out; a step of `run()` that can
  fail may fail.
- *Beacon* values are opaque bytes in a checkpoint.  *DNS discovery* is a lookup
  and a parse.  *Hardening* is system calls at start.  *TLS, metrics, logging, PDF
  reports*, the *soak report* and the *SDKs* keep no state of the protocol.
- *The pilot* (`pilot/git_watcher.py`) posts the commits that appear in git
  repositories.  Which commits a scan after an interrupted one posts depends on
  the order in which `git log` lists them, which no code of this repository
  determines.  Its state file is written once at the end of a scan, so a scan
  that is killed posts its commits again; envelopes are made anew each time and
  the replay table does not hold them back.

## 9. Plan

1. Compositions with shared state: `Checkpointing` over the steps of `FwdSec`
   instead of an atomic rotation; `FwdSec` over `KeyStore`, so that `Pkcs11` may
   take the place of the key files; `Watcher` over `Witness`.
2. Wider instances: two sizes in `witness`, a second producer in `log_core`.
