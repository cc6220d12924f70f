------------------------------ MODULE GatePart ------------------------------
(***************************************************************************)
(* The ingest gate as a part of a larger composition: its constants and    *)
(* variables have names of their own here.                                 *)
(***************************************************************************)
EXTENDS Integers, FiniteSets

CONSTANTS
    Handlers, Producers, Capacity, Rate, Burst, IdleAfter, NoProducer,
    GateMaxTime, MaxRequests

VARIABLES
    gNow, gBuckets, gSem, gPc, gOf, gPassed

gateVars == <<gNow, gBuckets, gSem, gPc, gOf, gPassed>>

Gate == INSTANCE Ingest WITH
    Handlers <- Handlers, Producers <- Producers, Capacity <- Capacity,
    Rate <- Rate, Burst <- Burst, IdleAfter <- IdleAfter,
    NoProducer <- NoProducer, MaxTime <- GateMaxTime,
    MaxRequests <- MaxRequests,
    now <- gNow, buckets <- gBuckets, sem <- gSem, pc <- gPc, of <- gOf,
    passed <- gPassed

\* A bucket that the janitor evicts would have been full again: steled evicts
\* after an hour without a request (StartJanitor, cmd/steled/main.go:409), and
\* the default policy fills its 200 tokens at 100 a second in two
\* (DefaultIngestPolicy, api/ingest.go).
ASSUME GateAssumption ==
    /\ IsFiniteSet(Handlers) /\ Capacity \in Nat
    /\ Rate \in Nat /\ Burst \in Nat /\ IdleAfter \in Nat
    /\ Burst <= Rate * IdleAfter

-----------------------------------------------------------------------------
(* Properties                                                              *)

\* No producer gets more than its rate, though buckets are evicted, and every
\* slot of the semaphore comes back (Ingest).
GateHolds == Gate!RateBound /\ Gate!SlotsReturned

=============================================================================
