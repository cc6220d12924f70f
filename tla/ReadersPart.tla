---------------------------- MODULE ReadersPart -----------------------------
(***************************************************************************)
(* The parts that read a log, for a larger composition: the clients of the *)
(* read API, the tripwire and the mirror.  Their constants and variables   *)
(* have names of their own here.                                           *)
(***************************************************************************)
EXTENDS Integers, Sequences

CONSTANTS
    \* of the read API
    ClientKinds, SampleN, ReadMaxSize, ReadMaxEpoch,
    \* of the tripwire
    MaxAppends, MaxChanges, MaxStops,
    \* of the mirror
    Payloads, ChunkSize, CopyMaxSize, CopyMaxFaults, CopyMaxCrashes,
    MaxRestores

VARIABLES
    rSize, rEpoch, rLatest, rPc, rLoc,
    aStore, aTree, aLatest, aUp, aPc, aCkpt, aResult, aChanged, aSeen,
    aRebuilt, aResigned, aTime, aChanges, aStops,
    mUpstream, mStore, mUp, mPrev, mLastSize, mPc, mTarget, mFrom, mChunk,
    mErrors, mFaults, mCrashes, mRestores

readsVars == <<rSize, rEpoch, rLatest, rPc, rLoc>>

Reads == INSTANCE ReadAPI WITH
    Kinds <- ClientKinds, SampleN <- SampleN, MaxSize <- ReadMaxSize,
    MaxEpoch <- ReadMaxEpoch,
    size <- rSize, epoch <- rEpoch, latest <- rLatest, pc <- rPc,
    loc <- rLoc

alarmVars == <<aStore, aTree, aLatest, aUp, aPc, aCkpt, aResult, aChanged,
               aSeen, aRebuilt, aResigned, aTime, aChanges, aStops>>

Alarm == INSTANCE Tripwire WITH
    MaxAppends <- MaxAppends, MaxChanges <- MaxChanges, MaxStops <- MaxStops,
    store <- aStore, tree <- aTree, latest <- aLatest, up <- aUp, pc <- aPc,
    ckpt <- aCkpt, result <- aResult, changed <- aChanged, seen <- aSeen,
    rebuilt <- aRebuilt, resigned <- aResigned, time <- aTime,
    changes <- aChanges, stops <- aStops

copyVars == <<mUpstream, mStore, mUp, mPrev, mLastSize, mPc, mTarget, mFrom,
              mChunk, mErrors, mFaults, mCrashes, mRestores>>

Copy == INSTANCE Mirror WITH
    Payloads <- Payloads, ChunkSize <- ChunkSize, MaxSize <- CopyMaxSize,
    MaxFaults <- CopyMaxFaults, MaxCrashes <- CopyMaxCrashes,
    MaxRestores <- MaxRestores,
    upstream <- mUpstream, store <- mStore, up <- mUp, prev <- mPrev,
    lastSize <- mLastSize, pc <- mPc, target <- mTarget, from <- mFrom,
    chunk <- mChunk, errors <- mErrors, faults <- mFaults,
    crashes <- mCrashes, restores <- mRestores

ASSUME ReadsAssumption == ClientKinds \subseteq {"audit", "include", "consist"}

ASSUME AlarmAssumption == MaxAppends \in Nat

ASSUME CopyAssumption == ChunkSize \in Nat /\ CopyMaxSize \in Nat

-----------------------------------------------------------------------------
(* Properties                                                              *)

\* What a client of the proof endpoints puts together holds together (ReadAPI).
AnswersHoldTogether == Reads!AnswersHoldTogether

\* The tripwire alarms when it should and only then (Tripwire).
AlarmIsRight == Alarm!AlarmIsRight

\* The mirror holds one history, whatever became of the operator (Mirror).
OneHistory == Copy!OneHistory

=============================================================================
