---------------------------- MODULE JournalPart -----------------------------
(***************************************************************************)
(* The journals of the API as a part of a larger composition: the          *)
(* constants and variables have names of their own here.                   *)
(***************************************************************************)
EXTENDS Integers, Sequences

CONSTANTS
    JournalThreads, Texts, MaxEvents, JournalMaxFaults, JournalMaxCrashes,
    Tampering

VARIABLES
    jFile, jUp, jSize, jPrev, jPc, jEvent, jRecorded, jTampered, jSerial,
    jFaults, jCrashes

journalsVars == <<jFile, jUp, jSize, jPrev, jPc, jEvent, jRecorded,
                  jTampered, jSerial, jFaults, jCrashes>>

Journals == INSTANCE Journal WITH
    Threads <- JournalThreads, Texts <- Texts, MaxEvents <- MaxEvents,
    MaxFaults <- JournalMaxFaults, MaxCrashes <- JournalMaxCrashes,
    Tampering <- Tampering,
    file <- jFile, up <- jUp, size <- jSize, prev <- jPrev, pc <- jPc,
    event <- jEvent, recorded <- jRecorded, tampered <- jTampered,
    serial <- jSerial, faults <- jFaults, crashes <- jCrashes

ASSUME JournalAssumption == MaxEvents \in Nat /\ Texts \subseteq {"utf8", "bytes"}

-----------------------------------------------------------------------------
(* Properties                                                              *)

\* The journal that opens is the journal that was written (module Journal).
JournalIsSound == Journals!JournalIsSound

=============================================================================
