------------------------------ MODULE Witness ------------------------------
(***************************************************************************)
(* The witness cohort (pkg/witness): servers that cosign the checkpoints   *)
(* of one operator, refuse two roots at one tree size, and gossip what     *)
(* they have seen to find an operator that shows different logs to         *)
(* different witnesses.                                                    *)
(*                                                                         *)
(* A checkpoint is its size and its root.  The operator may sign any of    *)
(* them: with two roots per size it equivocates.  Cosign holds Server.mu   *)
(* from its first check to its signature and writes two files on the way;  *)
(* a save may fail and the process may crash between any two steps.  A     *)
(* gossip round runs next to it: it takes Server.mu only for the steps the *)
(* code locks, and compares against the live seen map without it.          *)
(* The operator is on every watch list, and every witness has every other  *)
(* one as a peer.                                                          *)
(***************************************************************************)
EXTENDS Integers, FiniteSets, Keyspace

CONSTANTS
    Witnesses,
    Sizes,         \* tree sizes of the checkpoints that are signed
    Roots,         \* root hashes the operator signs at a size
    Shows,         \* the roots the operator shows to each witness
    NoRequest,     \* no Cosign call holds the mutex
    NoFork,        \* no entry in Server.forks
    NoPeer,        \* ForkEvidence.TheirPeerID of a fork found by Cosign
    MaxFaults,     \* bound: saves that fail
    MaxCrashes,    \* bound: crashes
    MaxClears      \* bound: DELETE /witness/v0/forks

ASSUME WitnessAssumption ==
    /\ IsFiniteSet(Witnesses)
    /\ Shows \in [Witnesses -> SUBSET Roots]
    /\ NoPeer \notin Witnesses
    /\ NoRequest \notin Sizes \X Roots
    /\ MaxFaults \in Nat
    /\ MaxCrashes \in Nat
    /\ MaxClears \in Nat

VARIABLES
    seen,         \* Server.seen: size -> root
    checkpoints,  \* Server.checkpoints: the sizes with a checkpoint
    forks,        \* Server.forks: the evidence for the origin, or NoFork
    latest,       \* Server.attest.Latest: peer -> statement
    crossAtts,    \* Server.crossAtts: the <<size, root>> it has confirmed
    seenFile,     \* seen.json
    ckptsFile,    \* checkpoints.json
    forksFile,    \* forks.json
    latestFile,   \* attestations.json
    crossFile,    \* cross_attestations.json
    pc,           \* the Cosign call that holds Server.mu: its next step
    request,      \* ... and its checkpoint
    round,        \* the gossip exchange in progress: its next step
    peer,         \* ... its peer
    statement,    \* ... the SignedSeen it fetched, then the overlap with it
    signed,       \* history: what each witness has cosigned
    offered,      \* history: what the operator has signed
    faults, crashes, clears

memory == <<seen, checkpoints, forks, latest, crossAtts>>
files == <<seenFile, ckptsFile, forksFile, latestFile, crossFile>>
cross == <<crossAtts, crossFile>>
cosign == <<pc, request>>
gossip == <<round, peer, statement>>
history == <<signed, offered>>
bounds == <<faults, crashes, clears>>
vars == <<memory, files, cosign, gossip, history, bounds>>

\* ForkEvidence: the tree size and who the other root came from.
Evidence == [size: Sizes, peer: Witnesses \cup {NoPeer}]

-----------------------------------------------------------------------------
Init ==
    /\ seen = [w \in Witnesses |-> EmptySpace]
    /\ checkpoints = [w \in Witnesses |-> {}]
    /\ forks = [w \in Witnesses |-> NoFork]
    /\ latest = [w \in Witnesses |-> EmptySpace]
    /\ seenFile = seen /\ ckptsFile = checkpoints
    /\ crossAtts = [w \in Witnesses |-> {}]
    /\ forksFile = forks /\ latestFile = latest /\ crossFile = crossAtts
    /\ pc = [w \in Witnesses |-> "free"]
    /\ request = [w \in Witnesses |-> NoRequest]
    /\ round = [w \in Witnesses |-> "idle"]
    /\ peer = [w \in Witnesses |-> NoPeer]
    /\ statement = [w \in Witnesses |-> EmptySpace]
    /\ signed = [w \in Witnesses |-> {}]
    /\ offered = {}
    /\ faults = 0 /\ crashes = 0 /\ clears = 0

MuFree(w) == pc[w] = "free"

\* A file is written and renamed over the old one, or the write fails and the
\* caller goes on with what it has in memory.
Saved(file, w, value) ==
    /\ file' = [file EXCEPT ![w] = value]
    /\ UNCHANGED faults

SaveFailed(file) ==
    /\ faults < MaxFaults
    /\ faults' = faults + 1
    /\ UNCHANGED file

\* mutant: evidence is recorded, and saved, only when there is none yet
RecordFork_Once(w, n, p) ==
    LET evidence == [size |-> n, peer |-> p]
    IN \/ /\ forks[w] = NoFork
          /\ forks' = [forks EXCEPT ![w] = evidence]
          /\ Saved(forksFile, w, evidence) \/ SaveFailed(forksFile)
       \/ /\ forks[w] # NoFork
          /\ UNCHANGED <<forks, forksFile, faults>>

\* recordForkLocked: the newest evidence replaces what was there; an error of
\* saveForks is ignored.
RecordFork(w, n, p) ==
    LET evidence == [size |-> n, peer |-> p]
    IN /\ forks' = [forks EXCEPT ![w] = evidence]
       /\ Saved(forksFile, w, evidence) \/ SaveFailed(forksFile)

-----------------------------------------------------------------------------
(* Cosign                                                                  *)

\* The root seen at this size, if any, is another one.
Contradicts(w, n, r) == n \in DOMAIN seen[w] /\ seen[w][n] # r

\* The origin is flagged: nothing is verified, nothing is signed.
CosignRefused(w, n, r) ==
    /\ MuFree(w)
    /\ forks[w] # NoFork
    /\ offered' = offered \cup {<<n, r>>}
    /\ UNCHANGED <<memory, files, cosign, gossip, signed, bounds>>

CosignFork(w, n, r) ==
    /\ MuFree(w)
    /\ forks[w] = NoFork
    /\ Contradicts(w, n, r)
    /\ offered' = offered \cup {<<n, r>>}
    /\ RecordFork(w, n, NoPeer)
    /\ UNCHANGED <<seen, checkpoints, latest, seenFile, ckptsFile, latestFile,
                   cross, cosign, gossip, signed, crashes, clears>>

\* mutant: the fork check is skipped
CosignRecord_NoForkCheck(w, n, r) ==
    /\ MuFree(w)
    /\ forks[w] = NoFork
    /\ offered' = offered \cup {<<n, r>>}
    /\ seen' = [seen EXCEPT ![w] = Put(@, n, r)]
    /\ checkpoints' = [checkpoints EXCEPT ![w] = @ \cup {n}]
    /\ pc' = [pc EXCEPT ![w] = "saveSeen"]
    /\ request' = [request EXCEPT ![w] = <<n, r>>]
    /\ UNCHANGED <<forks, latest, crossAtts, files, gossip, signed, bounds>>

\* The checkpoint is recorded in memory.
CosignRecord(w, n, r) ==
    /\ MuFree(w)
    /\ forks[w] = NoFork
    /\ ~Contradicts(w, n, r)
    /\ offered' = offered \cup {<<n, r>>}
    /\ seen' = [seen EXCEPT ![w] = Put(@, n, r)]
    /\ checkpoints' = [checkpoints EXCEPT ![w] = @ \cup {n}]
    /\ pc' = [pc EXCEPT ![w] = "saveSeen"]
    /\ request' = [request EXCEPT ![w] = <<n, r>>]
    /\ UNCHANGED <<forks, latest, crossAtts, files, gossip, signed, bounds>>

Unlock(w) ==
    /\ pc' = [pc EXCEPT ![w] = "free"]
    /\ request' = [request EXCEPT ![w] = NoRequest]

SaveSeen(w) ==
    /\ pc[w] = "saveSeen"
    /\ \/ /\ Saved(seenFile, w, seen[w])
          /\ pc' = [pc EXCEPT ![w] = "saveCheckpoints"]
          /\ UNCHANGED request
       \/ /\ SaveFailed(seenFile)
          /\ Unlock(w)
    /\ UNCHANGED <<memory, ckptsFile, forksFile, latestFile, crossFile, gossip,
                   history, crashes, clears>>

SaveCheckpoints(w) ==
    /\ pc[w] = "saveCheckpoints"
    /\ \/ /\ Saved(ckptsFile, w, checkpoints[w])
          /\ pc' = [pc EXCEPT ![w] = "sign"]
          /\ UNCHANGED request
       \/ /\ SaveFailed(ckptsFile)
          /\ Unlock(w)
    /\ UNCHANGED <<memory, seenFile, forksFile, latestFile, crossFile, gossip,
                   history, crashes, clears>>

SignCheckpoint(w) ==
    /\ pc[w] = "sign"
    /\ signed' = [signed EXCEPT ![w] = @ \cup {request[w]}]
    /\ Unlock(w)
    /\ UNCHANGED <<memory, files, gossip, offered, bounds>>

-----------------------------------------------------------------------------
(* A gossip exchange of w with one peer: gossipOne                         *)

Goto(w, label) == round' = [round EXCEPT ![w] = label]

EndExchange(w) ==
    /\ Goto(w, "idle")
    /\ peer' = [peer EXCEPT ![w] = NoPeer]
    /\ statement' = [statement EXCEPT ![w] = EmptySpace]

\* GET /witness/v0/seen-signed: the peer copies its seen map under its own
\* Server.mu and signs the copy.  A peer that does not answer is no step.
FetchSignedSeen(w, p) ==
    /\ round[w] = "idle"
    /\ p # w
    /\ MuFree(p)
    /\ peer' = [peer EXCEPT ![w] = p]
    /\ statement' = [statement EXCEPT ![w] = seen[p]]
    /\ Goto(w, "record")
    /\ UNCHANGED <<memory, files, cosign, signed, offered, bounds>>

Disagree(s1, s2) ==
    {n \in DOMAIN s1 \cap DOMAIN s2 : s1[n] # s2[n]}

\* findContradiction between the latest statement of this peer and the new one
Contradictions(w) ==
    IF peer[w] \in DOMAIN latest[w]
    THEN Disagree(latest[w][peer[w]], statement[w])
    ELSE {}

\* recordAttestationLocked; an error of saveAttestationsLocked is logged.
RecordAttestation(w) ==
    /\ round[w] = "record"
    /\ MuFree(w)
    /\ latest' = [latest EXCEPT ![w] = Put(@, peer[w], statement[w])]
    /\ \/ /\ \E n \in Contradictions(w) :
               RecordFork(w, n, peer[w])
          /\ \/ latestFile' = [latestFile EXCEPT ![w] = latest'[w]]
             \/ faults < MaxFaults /\ UNCHANGED latestFile
       \/ /\ Contradictions(w) = {}
          /\ \/ Saved(latestFile, w, latest'[w])
             \/ SaveFailed(latestFile)
          /\ UNCHANGED <<forks, forksFile>>
    /\ Goto(w, "compare")
    /\ UNCHANGED <<seen, checkpoints, seenFile, ckptsFile, cross, cosign, peer,
                   statement, history, crashes, clears>>

\* CompareWithPeer reads the live seen map without Server.mu.
CompareAgrees(w) ==
    /\ round[w] = "compare"
    /\ Disagree(seen[w], statement[w]) = {}
    /\ Goto(w, "attest")
    /\ UNCHANGED <<memory, files, cosign, peer, statement, history,
                   bounds>>

\* mutant: a size only the peer has seen counts as a fork
CompareDisagrees_MissingSize(w) ==
    /\ round[w] = "compare"
    /\ MuFree(w)
    /\ \E n \in DOMAIN statement[w] :
         /\ n \in DOMAIN seen[w] => seen[w][n] # statement[w][n]
         /\ RecordFork(w, n, peer[w])
    /\ Goto(w, "alert")
    /\ UNCHANGED <<seen, checkpoints, latest, seenFile, ckptsFile, latestFile,
                   cross, cosign, peer, statement, history, crashes, clears>>

\* The first size the range over the statement finds, in any order: the peer's
\* checkpoint is fetched, which may fail, and the fork is recorded.
CompareDisagrees(w) ==
    /\ round[w] = "compare"
    /\ MuFree(w)
    /\ \E n \in Disagree(seen[w], statement[w]) :
         RecordFork(w, n, peer[w])
    /\ Goto(w, "alert")
    /\ UNCHANGED <<seen, checkpoints, latest, seenFile, ckptsFile, latestFile,
                   cross, cosign, peer, statement, history, crashes, clears>>

\* The EventSink gets the evidence that is on record by now, if any.
Alert(w) ==
    /\ round[w] = "alert"
    /\ MuFree(w)
    /\ EndExchange(w)
    /\ UNCHANGED <<memory, files, cosign, history, bounds>>

\* issueCrossAttestation reads the live seen map without Server.mu and signs the
\* sizes on which the two views agree, if there are any.
IssueCrossAttestation(w) ==
    LET overlap == {n \in DOMAIN seen[w] \cap DOMAIN statement[w] :
                      seen[w][n] = statement[w][n]}
    IN /\ round[w] = "attest"
       /\ \/ /\ overlap = {}
             /\ EndExchange(w)
          \/ /\ overlap # {}
             /\ statement' = [statement EXCEPT ![w] =
                                [n \in overlap |-> seen[w][n]]]
             /\ Goto(w, "confirm")
             /\ UNCHANGED peer
       /\ UNCHANGED <<memory, files, cosign, history, bounds>>

Confirmed(w) ==
    crossAtts[w] \cup {<<n, statement[w][n]>> : n \in DOMAIN statement[w]}

\* mutant: the attestation is recorded without Server.mu
RecordCrossAttestation_Unlocked(w) ==
    /\ round[w] = "confirm"
    /\ crossAtts' = [crossAtts EXCEPT ![w] = Confirmed(w)]
    /\ \/ Saved(crossFile, w, Confirmed(w))
       \/ SaveFailed(crossFile)
    /\ EndExchange(w)
    /\ UNCHANGED <<seen, checkpoints, forks, latest, seenFile, ckptsFile,
                   forksFile, latestFile, cosign, history, crashes, clears>>

\* recordCrossAttestationLocked; an error of saveCrossAttsLocked is ignored.
RecordCrossAttestation(w) ==
    /\ round[w] = "confirm"
    /\ MuFree(w)
    /\ crossAtts' = [crossAtts EXCEPT ![w] = Confirmed(w)]
    /\ \/ Saved(crossFile, w, Confirmed(w))
       \/ SaveFailed(crossFile)
    /\ EndExchange(w)
    /\ UNCHANGED <<seen, checkpoints, forks, latest, seenFile, ckptsFile,
                   forksFile, latestFile, cosign, history, crashes, clears>>

-----------------------------------------------------------------------------
(* Administration and crashes                                              *)

\* An error of saveForks is ignored.
ClearFork(w) ==
    /\ MuFree(w)
    /\ forks[w] # NoFork
    /\ clears < MaxClears
    /\ clears' = clears + 1
    /\ forks' = [forks EXCEPT ![w] = NoFork]
    /\ Saved(forksFile, w, NoFork) \/ SaveFailed(forksFile)
    /\ UNCHANGED <<seen, checkpoints, latest, seenFile, ckptsFile, latestFile,
                   cross, cosign, gossip, history, crashes>>

\* The process stops at any point and NewServer loads what the files hold.
Crash(w) ==
    /\ crashes < MaxCrashes
    /\ crashes' = crashes + 1
    /\ seen' = [seen EXCEPT ![w] = seenFile[w]]
    /\ checkpoints' = [checkpoints EXCEPT ![w] = ckptsFile[w]]
    /\ forks' = [forks EXCEPT ![w] = forksFile[w]]
    /\ latest' = [latest EXCEPT ![w] = latestFile[w]]
    /\ crossAtts' = [crossAtts EXCEPT ![w] = crossFile[w]]
    /\ Unlock(w)
    /\ EndExchange(w)
    /\ UNCHANGED <<files, history, faults, clears>>

-----------------------------------------------------------------------------
Cosign(w) ==
    \/ \E n \in Sizes, r \in Shows[w] :
         \/ CosignRefused(w, n, r)
         \/ CosignFork(w, n, r)
         \/ CosignRecord(w, n, r)
    \/ SaveSeen(w)
    \/ SaveCheckpoints(w)
    \/ SignCheckpoint(w)

GossipStep(w) ==
    \/ RecordAttestation(w)
    \/ CompareAgrees(w)
    \/ CompareDisagrees(w)
    \/ Alert(w)
    \/ IssueCrossAttestation(w)
    \/ RecordCrossAttestation(w)

Next ==
    \E w \in Witnesses :
        \/ Cosign(w)
        \/ \E p \in Witnesses : FetchSignedSeen(w, p)
        \/ GossipStep(w)
        \/ ClearFork(w)
        \/ Crash(w)

Spec == Init /\ [][Next]_vars

\* A Cosign call that holds the mutex goes on; gossip rounds recur, reach every
\* peer, and get the mutexes they ask for, since sync.Mutex hands a lock that
\* is waited for to the waiter.
Fairness ==
    \A w \in Witnesses :
        /\ WF_vars(SaveSeen(w) \/ SaveCheckpoints(w) \/ SignCheckpoint(w))
        /\ SF_vars(GossipStep(w))
        /\ \A p \in Witnesses \ {w} : SF_vars(FetchSignedSeen(w, p))

FairSpec == Spec /\ Fairness

-----------------------------------------------------------------------------
(* Properties                                                              *)

Spaces == UNION {[D -> Roots] : D \in SUBSET Sizes}
Statements == UNION {[P -> Spaces] : P \in SUBSET Witnesses}

Rounds == {"idle", "record", "compare", "alert", "attest", "confirm"}

\* Every variable has its type.
TypeOK ==
    /\ seen \in [Witnesses -> Spaces] /\ seenFile \in [Witnesses -> Spaces]
    /\ checkpoints \in [Witnesses -> SUBSET Sizes]
    /\ ckptsFile \in [Witnesses -> SUBSET Sizes]
    /\ forks \in [Witnesses -> Evidence \cup {NoFork}]
    /\ forksFile \in [Witnesses -> Evidence \cup {NoFork}]
    /\ latest \in [Witnesses -> Statements]
    /\ latestFile \in [Witnesses -> Statements]
    /\ crossAtts \in [Witnesses -> SUBSET (Sizes \X Roots)]
    /\ crossFile \in [Witnesses -> SUBSET (Sizes \X Roots)]
    /\ pc \in [Witnesses -> {"free", "saveSeen", "saveCheckpoints", "sign"}]
    /\ request \in [Witnesses -> (Sizes \X Roots) \cup {NoRequest}]
    /\ round \in [Witnesses -> Rounds]
    /\ peer \in [Witnesses -> Witnesses \cup {NoPeer}]
    /\ statement \in [Witnesses -> Spaces]
    /\ signed \in [Witnesses -> SUBSET (Sizes \X Roots)]
    /\ offered \subseteq Sizes \X Roots
    /\ faults \in Nat /\ crashes \in Nat /\ clears \in Nat

\* A witness never cosigns two roots at one size, across failed saves, crashes
\* and cleared forks: Cosign saves what it saw before it signs it.
NoDoubleCosign ==
    \A w \in Witnesses : \A c1, c2 \in signed[w] : c1[1] = c2[1] => c1 = c2

\* An origin is flagged only when its operator did sign two roots at the size
\* on record: no interleaving of Cosign, gossip, crashes and stale statements
\* makes a witness accuse an operator that did not.
NoFalseFork ==
    \A w \in Witnesses :
        forks[w] # NoFork =>
            \E c1, c2 \in offered :
                c1[1] = forks[w].size /\ c2[1] = forks[w].size /\ c1 # c2

SplitView(w) ==
    \E p \in Witnesses : \E c1 \in signed[w], c2 \in signed[p] :
        c1[1] = c2[1] /\ c1 # c2

\* A witness never confirms a root its own seen map does not hold, across
\* crashes, unless a save failed: the overlap is read without the mutex, while a
\* Cosign call may hold a root that is not in the file yet, but the attestation
\* is kept only under the mutex (cross_attestation.go, "A witness that publishes
\* attestations contradicting its own seen map is provably dishonest").
ConfirmsWhatItSaw ==
    faults = 0 =>
        \A w \in Witnesses : \A c \in crossAtts[w] :
            c[1] \in DOMAIN seen[w] /\ seen[w][c[1]] = c[2]

\* The checkpoints of a seen map.
Pairs(space) == {<<n, space[n]>> : n \in DOMAIN space}

\* The witnesses implement Cosigner, seen.json being the record: a restart, a
\* failed save or a cleared fork neither takes a root back nor adds one that the
\* operator did not sign, and whatever is cosigned is in the file by then.
Promise == INSTANCE Cosigner WITH
    record <- [w \in Witnesses |-> Pairs(seenFile[w])]

ImplementsCosigner == Promise!Spec

\* When two witnesses have cosigned different roots at one size, each of them
\* ends up with the operator flagged for good, in memory and in its file: a
\* failed save of the evidence, a crash and a cleared fork are made up for by
\* the next exchanges, which find the same disagreement again.
SplitViewDetected ==
    \A w \in Witnesses :
        SplitView(w) ~> [](forks[w] # NoFork /\ forksFile[w] # NoFork)

=============================================================================
