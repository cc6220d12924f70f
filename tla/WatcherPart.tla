---------------------------- MODULE WatcherPart -----------------------------
(***************************************************************************)
(* The watcher as a part of a larger composition: its constants and        *)
(* variables have names of their own here.                                 *)
(***************************************************************************)
EXTENDS Integers, Sequences

CONSTANTS
    WitnessURLs, WatchRoots, WatchMaxSize, WatchMaxFaults, MaxPasses

VARIABLES
    wLatest, wSeen, wShown, wPc, wOp, wViews, wCode, wBefore, wFaults, wPasses

watchVars == <<wLatest, wSeen, wShown, wPc, wOp, wViews, wCode, wBefore,
               wFaults, wPasses>>

Watch == INSTANCE Watcher WITH
    WitnessURLs <- WitnessURLs, Roots <- WatchRoots, MaxSize <- WatchMaxSize,
    MaxFaults <- WatchMaxFaults, MaxPasses <- MaxPasses,
    latest <- wLatest, seen <- wSeen, shown <- wShown, pc <- wPc, op <- wOp,
    views <- wViews, code <- wCode, before <- wBefore, faults <- wFaults,
    passes <- wPasses

\* "none" is no root.
ASSUME WatchAssumption ==
    /\ WitnessURLs \in Seq({WitnessURLs[i] : i \in DOMAIN WitnessURLs})
    /\ "none" \notin WatchRoots

-----------------------------------------------------------------------------
(* Properties                                                              *)

\* The exit code of the watcher reports forks and only forks (Watcher).
ExitCodeIsRight == Watch!ExitCodeIsRight

=============================================================================
