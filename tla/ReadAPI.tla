------------------------------ MODULE ReadAPI ------------------------------
(***************************************************************************)
(* The proof endpoints of the operator (pkg/api/server.go) and the clients *)
(* that judge the log by them: audit.Run (pkg/audit), and verify-inclusion *)
(* and verify-consistency of the command line (cmd/stele).                 *)
(*                                                                         *)
(* The operator is honest: entries are only ever appended, so the tree of  *)
(* size n has one root and that root is written n.  Each read of Log.Size, *)
(* Log.Root or the store inside a handler takes the lock by itself;        *)
(* appends, checkpoints and rotations happen in between.  A request only   *)
(* reads, so requests do not see each other and one client is enough.      *)
(***************************************************************************)
EXTENDS Integers

CONSTANTS
    Kinds,      \* what a client does, a subset of {"audit", "include", "consist"}
    SampleN,    \* audit.Config.SampleN
    MaxSize,    \* bound: entries
    MaxEpoch    \* bound: key rotations

VARIABLES
    size,    \* Log.Size, and the root of the tree
    epoch,   \* the active epoch of the key chain
    latest,  \* Log.LatestCheckpoint: [size, epoch]
    pc,      \* the client's next step
    loc      \* what the client has read

vars == <<size, epoch, latest, pc, loc>>

\* No checkpoint: the size is 0.
NoCheckpoint == [size |-> 0, epoch |-> 0]
Checkpoints == [size: 0 .. MaxSize, epoch: 0 .. MaxEpoch]

\* kind: what the client is; began: size and epoch when it started; epoch: the
\* chain it fetched; ckpt: the checkpoint; next: the next index to be sampled;
\* treeSize, root, oldRoot: the proof; verdict: what it tells its user.
Client(kind, began, first, new) ==
    [kind |-> kind, began |-> began, epoch |-> began.epoch, ckpt |-> NoCheckpoint,
     next |-> first, treeSize |-> new, root |-> 0, oldRoot |-> 0, verdict |-> "none"]

Fresh == Client("none", NoCheckpoint, 0, 0)

-----------------------------------------------------------------------------
Init ==
    /\ size = 1
    /\ epoch = 0
    /\ latest = NoCheckpoint
    /\ pc = "idle"
    /\ loc = Fresh

(* The operator                                                            *)

AppendCtx ==
    /\ size < MaxSize
    /\ size' = size + 1
    /\ UNCHANGED <<epoch, latest, pc, loc>>

Checkpoint ==
    /\ latest' = [size |-> size, epoch |-> epoch]
    /\ UNCHANGED <<size, epoch, pc, loc>>

Rotate ==
    /\ epoch < MaxEpoch
    /\ epoch' = epoch + 1
    /\ UNCHANGED <<size, latest, pc, loc>>

-----------------------------------------------------------------------------
(* A step of a client, or of the handler that serves it                    *)

Step(from, to, l) ==
    /\ pc = from
    /\ pc' = to
    /\ loc' = l
    /\ UNCHANGED <<size, epoch, latest>>

Verdict(l, v) == [l EXCEPT !.verdict = v]

\* A client starts; what it fetches first is GET /pubkey and GET /keychain.
\* The user of the command line names the index, or the old and the new size
\* (0: none).
Begin(kind, first, new) ==
    /\ pc = "idle"
    /\ kind = "audit" => first = 0
    /\ kind # "consist" => new = 0
    /\ pc' = IF kind = "consist" THEN "consSize" ELSE "checkpoint"
    /\ loc' = Client(kind, [size |-> size, epoch |-> epoch], first, new)
    /\ UNCHANGED <<size, epoch, latest>>

\* GET /checkpoint and Verifier.Checkpoint: the chain in hand must know the
\* epoch. An audit that has failed is not followed further: what comes after
\* only adds to its findings, the status stays FAIL.
FetchCheckpoint ==
    LET l == [loc EXCEPT !.ckpt = latest] IN
    IF latest = NoCheckpoint
    THEN Step("checkpoint", "done",
              Verdict(l, IF l.kind = "audit" THEN "warn" ELSE "error"))
    ELSE IF latest.epoch > l.epoch
         THEN Step("checkpoint", "done", Verdict(l, "unsigned"))
    ELSE IF l.kind = "audit" THEN Step("checkpoint", "size", l)
    ELSE Step("checkpoint", "incSize", l)

\* audit.Run, step 5: GET /size, "size regression" if below the checkpoint
FetchSize ==
    LET l == [loc EXCEPT !.treeSize = size] IN
    IF l.treeSize < l.ckpt.size THEN Step("size", "done", Verdict(l, "regressed"))
    ELSE Step("size", "sample", l)

\* sampleInclusion: n = min(SampleN, size) indexes, step size / n from 0
SampleCount(n) == IF SampleN > n THEN n ELSE SampleN
SampleStep(n) == n \div SampleCount(n)

Sampled(n, i) ==
    SampleN > 0 /\ n > 0 /\ i < n /\ i < SampleStep(n) * SampleCount(n)

\* The loop of sampleInclusion: the next entry and its proof at the
\* checkpoint's size, or the end of the audit.
Sample ==
    LET l == loc IN
    IF Sampled(l.ckpt.size, l.next)
    THEN Step("sample", "incSize", [l EXCEPT !.treeSize = l.ckpt.size])
    ELSE Step("sample", "done", Verdict(l, "pass"))

-----------------------------------------------------------------------------
(* handleInclusionProof                                                    *)

\* The tree size: the parameter, or Log.Size.
InclusionSize ==
    Step("incSize", "incProof",
         [loc EXCEPT !.treeSize = IF loc.kind = "audit" THEN @ ELSE size])

\* Log.Get and Log.InclusionProof, which needs the index inside the tree.
InclusionProof ==
    LET l == loc IN
    IF l.next < l.treeSize /\ l.treeSize <= size
    THEN Step("incProof", "incRoot", l)
    ELSE Step("incProof", "done", Verdict(l, "fail"))

InclusionRoot == Step("incRoot", "incCheck", [loc EXCEPT !.root = size])

\* mutant: the size is not looked at again
InclusionCheck_Trusting == Step("incCheck", "incVerify", loc)

\* "MVP only serves proofs at current tree size": Log.Size again, after the
\* root.
InclusionCheck ==
    IF loc.treeSize = size THEN Step("incCheck", "incVerify", loc)
    ELSE Step("incCheck", "done", Verdict(loc, "fail"))

\* The client: the auditor checks the proof against the checkpoint's root and
\* goes on; verify-inclusion checks it against the root of the answer, and that
\* against the checkpoint.
VerifyInclusion ==
    LET l == loc IN
    IF l.treeSize # l.root \/ l.root # l.ckpt.size
    THEN Step("incVerify", "done", Verdict(l, "fail"))
    ELSE IF l.kind = "audit"
         THEN Step("incVerify", "sample",
                   [l EXCEPT !.next = @ + SampleStep(l.ckpt.size)])
         ELSE Step("incVerify", "done", Verdict(l, "pass"))

-----------------------------------------------------------------------------
(* handleConsistencyProof                                                  *)

\* The new size: the parameter, or Log.Size ...
ConsistencySize ==
    Step("consSize", "consCheck",
         [loc EXCEPT !.treeSize = IF @ = 0 THEN size ELSE @])

\* ... which must be Log.Size.
ConsistencyCheck ==
    IF loc.treeSize = size THEN Step("consCheck", "consProof", loc)
    ELSE Step("consCheck", "done", Verdict(loc, "error"))

\* Log.ConsistencyProof
ConsistencyProof ==
    LET l == loc IN
    IF l.next <= l.treeSize THEN Step("consProof", "consRoot", l)
    ELSE Step("consProof", "done", Verdict(l, "error"))

ConsistencyRoot == Step("consRoot", "consOld", [loc EXCEPT !.root = size])

\* The latest checkpoint, if it has the old size; without it the client gives
\* up.
OldRoot ==
    IF latest # NoCheckpoint /\ latest.size = loc.next
    THEN Step("consOld", "consVerify", [loc EXCEPT !.oldRoot = latest.size])
    ELSE Step("consOld", "done", Verdict(loc, "error"))

\* Verifier.Consistency
VerifyConsistency ==
    LET l == loc IN
    Step("consVerify", "done",
         Verdict(l, IF l.root = l.treeSize /\ l.oldRoot = l.next THEN "pass"
                    ELSE "fail"))

Finish == Step("done", "idle", Fresh)

Next ==
    \/ AppendCtx \/ Checkpoint \/ Rotate
    \/ \E kind \in Kinds, first, new \in 0 .. MaxSize : Begin(kind, first, new)
    \/ FetchCheckpoint \/ FetchSize \/ Sample
    \/ InclusionSize \/ InclusionProof \/ InclusionRoot \/ InclusionCheck
    \/ VerifyInclusion
    \/ ConsistencySize \/ ConsistencyCheck \/ ConsistencyProof \/ ConsistencyRoot
    \/ OldRoot \/ VerifyConsistency
    \/ Finish

Spec == Init /\ [][Next]_vars

-----------------------------------------------------------------------------
(* Properties                                                              *)

\* Every variable has its type, and what a client has read never runs ahead of
\* the log.
TypeOK ==
    /\ size \in 1 .. MaxSize /\ epoch \in 0 .. MaxEpoch /\ latest \in Checkpoints
    /\ loc.kind \in Kinds \cup {"none"}
    /\ loc.ckpt.size <= size /\ loc.root <= size
    /\ loc.next \in 0 .. MaxSize /\ loc.treeSize \in 0 .. MaxSize

InclusionSound == pc = "incVerify" => loc.root = loc.treeSize

OldRootSigned == pc = "consVerify" => loc.oldRoot = loc.next

NoSizeRegression == loc.verdict # "regressed"

QuietLogPasses ==
    /\ pc = "done"
    /\ loc.kind \in {"audit", "include"}
    /\ loc.began = [size |-> size, epoch |-> epoch]
    /\ loc.ckpt.size = size
    /\ loc.next < size \/ loc.kind = "audit"
    => loc.verdict = "pass"

\* The answers a client puts together hold together, although the log grows
\* between and inside its requests.  handleInclusionProof never pairs a proof
\* with the root of another tree; the old root handleConsistencyProof returns
\* was signed at the old size; audit.Run reports no regression of a log that
\* only grows; and a log that stood still, at its latest checkpoint and epoch,
\* passes.
AnswersHoldTogether ==
    InclusionSound /\ OldRootSigned /\ NoSizeRegression /\ QuietLogPasses

=============================================================================
