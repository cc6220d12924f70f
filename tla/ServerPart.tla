----------------------------- MODULE ServerPart -----------------------------
(***************************************************************************)
(* The daemon process and its endpoints as parts of a larger composition:  *)
(* their constants and variables have names of their own here.             *)
(***************************************************************************)
EXTENDS Integers, Sequences

CONSTANTS
    \* of the daemon
    Options, DaemonRequests, LbDrain, LBPeriod,
    \* of the endpoints
    ApiRequests, Honeypots, MaxRange, ApiMaxSize, ApiMaxEpoch, ApiMaxFaults

VARIABLES
    dMain, dFlags, dOpen, dDefers, dNotify, dCtx, dTasks, dCoordinator,
    dDraining, dNap, dTimedOut, dHttp, dProbes, dRequests, dLb, dSincePoll,
    dExit,
    eSize, eEpoch, ePc, eLoc, eReadLog, eAdminLog, eAlerts, eStderr, eMissing,
    eMade, eFaults

daemonVars == <<dMain, dFlags, dOpen, dDefers, dNotify, dCtx, dTasks,
                dCoordinator, dDraining, dNap, dTimedOut, dHttp, dProbes,
                dRequests, dLb, dSincePoll, dExit>>

Process == INSTANCE Daemon WITH
    Options <- Options, Requests <- DaemonRequests, LbDrain <- LbDrain,
    LBPeriod <- LBPeriod,
    main <- dMain, flags <- dFlags, open <- dOpen, defers <- dDefers,
    notify <- dNotify, ctx <- dCtx, tasks <- dTasks,
    coordinator <- dCoordinator, draining <- dDraining, nap <- dNap,
    timedOut <- dTimedOut, http <- dHttp, probes <- dProbes,
    requests <- dRequests, lb <- dLb, sincePoll <- dSincePoll, exit <- dExit

apiVars == <<eSize, eEpoch, ePc, eLoc, eReadLog, eAdminLog, eAlerts, eStderr,
             eMissing, eMade, eFaults>>

API == INSTANCE Endpoints WITH
    Requests <- ApiRequests, Honeypots <- Honeypots, MaxRange <- MaxRange,
    MaxSize <- ApiMaxSize, MaxEpoch <- ApiMaxEpoch, MaxFaults <- ApiMaxFaults,
    size <- eSize, epoch <- eEpoch, pc <- ePc, loc <- eLoc,
    readLog <- eReadLog, adminLog <- eAdminLog, alerts <- eAlerts,
    stderr <- eStderr, missing <- eMissing, made <- eMade, faults <- eFaults

ASSUME ApiAssumption == ApiMaxSize \in Nat

-----------------------------------------------------------------------------
(* Properties                                                              *)

\* run() closes what it opened, whichever way it returns (module Daemon).
ExitReleasesAll == Process!ExitReleasesAll

\* No request is routed to a listener that is closed (Daemon).
RoutedIsServed == Process!RoutedIsServed

\* A caught signal ends the process (Daemon).
ShutdownCompletes == Process!ShutdownCompletes

\* The journals account for what the endpoints gave and did (Endpoints).
TrailCoversAnswers == API!TrailCoversAnswers

\* A honeypot entry that is handed out raises its alarm (Endpoints).
HoneypotFires == API!HoneypotFires

=============================================================================
