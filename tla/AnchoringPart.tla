--------------------------- MODULE AnchoringPart ----------------------------
(***************************************************************************)
(* Anchoring as a part of a larger composition: its constants and          *)
(* variables have names of their own here.                                 *)
(***************************************************************************)
EXTENDS Integers, Sequences

CONSTANTS
    AnchorThreads, NoThread, Torn, Spoilt, Strict, AnchorMaxSize,
    AnchorMaxCalls, AnchorMaxFaults, AnchorMaxCrashes

VARIABLES
    aLatest, aFile, aDisk, aHead, aMu, aRekor, aFallback, aRecords, aPc,
    aDraft, aRef, aAcked, aCalls, aFaults, aCrashes

anchorVars == <<aLatest, aFile, aDisk, aHead, aMu, aRekor, aFallback, aRecords,
                aPc, aDraft, aRef, aAcked, aCalls, aFaults, aCrashes>>

Anchors == INSTANCE Anchoring WITH
    Threads <- AnchorThreads, NoThread <- NoThread, Torn <- Torn,
    Spoilt <- Spoilt, Strict <- Strict, MaxSize <- AnchorMaxSize,
    MaxCalls <- AnchorMaxCalls, MaxFaults <- AnchorMaxFaults,
    MaxCrashes <- AnchorMaxCrashes,
    latest <- aLatest, file <- aFile, disk <- aDisk, head <- aHead, mu <- aMu,
    rekor <- aRekor, fallback <- aFallback, records <- aRecords, pc <- aPc,
    draft <- aDraft, ref <- aRef, acked <- aAcked, calls <- aCalls,
    faults <- aFaults, crashes <- aCrashes

\* A line of the hash chain is a size, or one of two marks that are none.
ASSUME AnchorAssumption ==
    /\ AnchorMaxSize \in Nat
    /\ NoThread \notin AnchorThreads
    /\ Torn \notin Anchors!Sizes /\ Spoilt \notin Anchors!Sizes

-----------------------------------------------------------------------------
(* Properties                                                              *)

\* What the store says was anchored was anchored (Anchoring).
AnchorsHold == Anchors!AnchorsHold

=============================================================================
