----------------------------- MODULE UpkeepPart -----------------------------
(***************************************************************************)
(* The rotation watchdog, and backup with recovery, as parts of a larger   *)
(* composition: their constants and variables have names of their own      *)
(* here.                                                                   *)
(***************************************************************************)
EXTENDS Integers, Sequences

CONSTANTS
    \* of the watchdog
    Interval, MinDebounce, Ignored, Buckets, Batches, MaxCount, MaxRotate,
    DogMaxFaults, MaxTouches, DogMaxTime,
    \* of backup and recovery
    Incremental, BackupMaxSize, MaxEntries, BackupMaxEpoch, MaxSnapshots,
    MaxExports, MaxLosses

VARIABLES
    dNow, dLastRot, dTick, dEvents, dSkip, dRate, dChecked, dPc, dStarted,
    dBorn, dStarts, dFaults, dTouches,
    bUp, bEntries, bCkpts, bVer, bChain, bKey, bSnapshots, bExports, bRestored,
    bTime, bLosses

dogVars == <<dNow, dLastRot, dTick, dEvents, dSkip, dRate, dChecked, dPc,
             dStarted, dBorn, dStarts, dFaults, dTouches>>

Dog == INSTANCE Watchdog WITH
    Interval <- Interval, MinDebounce <- MinDebounce, Ignored <- Ignored,
    Buckets <- Buckets, Batches <- Batches, MaxCount <- MaxCount,
    MaxRotate <- MaxRotate, MaxFaults <- DogMaxFaults,
    MaxTouches <- MaxTouches, MaxTime <- DogMaxTime,
    now <- dNow, lastRot <- dLastRot, tick <- dTick, events <- dEvents,
    skip <- dSkip, rate <- dRate, checked <- dChecked, pc <- dPc,
    started <- dStarted, born <- dBorn, starts <- dStarts,
    faults <- dFaults, touches <- dTouches

backupVars == <<bUp, bEntries, bCkpts, bVer, bChain, bKey, bSnapshots,
                bExports, bRestored, bTime, bLosses>>

Backup == INSTANCE Recovery WITH
    Incremental <- Incremental, MaxSize <- BackupMaxSize,
    MaxEntries <- MaxEntries, MaxEpoch <- BackupMaxEpoch,
    MaxSnapshots <- MaxSnapshots, MaxExports <- MaxExports,
    MaxLosses <- MaxLosses,
    up <- bUp, entries <- bEntries, ckpts <- bCkpts, ver <- bVer,
    chain <- bChain, key <- bKey, snapshots <- bSnapshots,
    exports <- bExports, restored <- bRestored, time <- bTime,
    losses <- bLosses

\* A rotation takes less than the debounce (MinDebounce, 30 seconds by default:
\* watchdog.go:118).  The code puts no limit on it: it generates a key, signs
\* twice and commits one transaction, all of it local.
ASSUME DogAssumption ==
    /\ Interval \in Nat \ {0} /\ MinDebounce \in Nat /\ MaxRotate \in Nat
    /\ MaxRotate < MinDebounce

-----------------------------------------------------------------------------
(* Properties                                                              *)

\* The watchdog rotates neither too often nor too late (Watchdog).
RotationsPaced == Dog!RotationsPaced

\* A recovered log is the log that was backed up (Recovery).
RecoveryIsSound == Backup!RecoveryIsSound

=============================================================================
