------------------------------ MODULE Watchdog ------------------------------
(***************************************************************************)
(* The rotation watchdog (pkg/watchdog): three goroutines (the scheduler,  *)
(* the fsnotify watcher of the key directory and the append-rate monitor)  *)
(* that call trigger, which rotates unless it did so less than MinDebounce *)
(* ago.                                                                    *)
(*                                                                         *)
(* Time is discrete.  A goroutine that has something to do does it before  *)
(* time goes on; a rotation takes up to MaxRotate and then leaves a change *)
(* of the key directory behind.  The rate monitor keeps Buckets counters,  *)
(* each of one unit of time.                                               *)
(***************************************************************************)
EXTENDS Integers, Sequences

LOCAL INSTANCE Functions

CONSTANTS
    Interval,     \* Config.Interval
    MinDebounce,  \* Config.MinDebounce
    Ignored,      \* the first events of the key directory that are skipped: 2
    Buckets,      \* nbuckets
    Batches,      \* how many appends may come at once
    MaxCount,     \* bound: the appends one bucket counts
    MaxRotate,    \* bound: the time a rotation takes
    MaxFaults,    \* bound: rotations that fail
    MaxTouches,   \* bound: outside changes of the key directory, manual rotations
    MaxTime       \* bound: the clock

Goroutines == {"scheduler", "fs", "rate"}

VARIABLES
    now,      \* the clock
    lastRot,  \* Watchdog.lastRot; long ago at first
    tick,     \* the ticker's channel holds a tick
    events,   \* watcher.Events: who changed the directory, oldest first
    skip,     \* the counter of startup events
    rate,     \* rateBuckets: [end, count]
    checked,  \* the rate monitor has looked at the buckets in this unit
    pc,       \* per goroutine: "idle" or "rotating"
    started,  \* per goroutine: when its rotation began
    born,     \* history: when the active key was made
    starts,   \* history: when the watchdog's last two rotations began
    faults, touches

vars == <<now, lastRot, tick, events, skip, rate, checked, pc, started, born,
          starts, faults, touches>>

LongAgo == 0 - MinDebounce

-----------------------------------------------------------------------------
Init ==
    /\ now = 0
    /\ lastRot = LongAgo
    /\ tick = FALSE
    /\ events = <<>>
    /\ skip = Ignored
    /\ rate = [i \in 1 .. Buckets |-> [end |-> LongAgo, count |-> 0]]
    /\ checked = TRUE
    /\ pc = [g \in Goroutines |-> "idle"]
    /\ started = [g \in Goroutines |-> 0]
    /\ born = 0
    /\ starts = <<>>
    /\ faults = 0
    /\ touches = 0

Busy(g) == pc[g] = "rotating"

\* Time goes on when no idle goroutine has work and no rotation is overdue.
Pass ==
    /\ now < MaxTime
    /\ ~(tick /\ ~Busy("scheduler"))
    /\ ~(events # <<>> /\ ~Busy("fs"))
    /\ checked \/ Busy("rate")
    /\ \A g \in Goroutines : Busy(g) => now - started[g] < MaxRotate
    /\ now' = now + 1
    /\ tick' = (tick \/ now' % Interval = 0)
    /\ checked' = FALSE
    /\ UNCHANGED <<lastRot, events, skip, rate, pc, started, born, starts,
                   faults, touches>>

-----------------------------------------------------------------------------
(* trigger                                                                 *)

Debounced == now - lastRot < MinDebounce

LastTwo(t) == IF Len(starts) < 2 THEN Append(starts, t) ELSE <<starts[2], t>>

\* mutant: every call restarts the debounce
Trigger_Sliding(g) ==
    /\ lastRot' = now
    /\ IF Debounced THEN UNCHANGED <<pc, started, starts>>
       ELSE /\ pc' = [pc EXCEPT ![g] = "rotating"]
            /\ started' = [started EXCEPT ![g] = now]
            /\ starts' = LastTwo(now)

\* Under Watchdog.mu: nothing within MinDebounce of the last attempt; otherwise
\* lastRot is stamped and, the lock released, Rotate is called.
Trigger(g) ==
    IF Debounced THEN UNCHANGED <<lastRot, pc, started, starts>>
    ELSE /\ lastRot' = now
         /\ pc' = [pc EXCEPT ![g] = "rotating"]
         /\ started' = [started EXCEPT ![g] = now]
         /\ starts' = LastTwo(now)

\* Rotate returns: the key is new, the directory has changed.
RotateDone(g) ==
    /\ Busy(g)
    /\ born' = now
    /\ events' = Append(events, "own")
    /\ pc' = [pc EXCEPT ![g] = "idle"]
    /\ started' = [started EXCEPT ![g] = 0]
    /\ UNCHANGED <<now, lastRot, tick, skip, rate, checked, starts,
                   faults, touches>>

RotateFails(g) ==
    /\ Busy(g)
    /\ faults < MaxFaults
    /\ faults' = faults + 1
    /\ events' \in {events, Append(events, "own")}
    /\ pc' = [pc EXCEPT ![g] = "idle"]
    /\ started' = [started EXCEPT ![g] = 0]
    /\ UNCHANGED <<now, lastRot, tick, skip, rate, checked, born, starts,
                   touches>>

\* handleRotate calls Log.Rotate itself; lastRot knows nothing of it.
ManualRotate ==
    /\ touches < MaxTouches
    /\ touches' = touches + 1
    /\ born' = now
    /\ events' = Append(events, "own")
    /\ UNCHANGED <<now, lastRot, tick, skip, rate, checked, pc, started,
                   starts, faults>>

-----------------------------------------------------------------------------
(* The goroutines                                                          *)

Scheduler ==
    /\ tick
    /\ ~Busy("scheduler")
    /\ tick' = FALSE
    /\ Trigger("scheduler")
    /\ UNCHANGED <<now, events, skip, rate, checked, born, faults,
                   touches>>

\* Someone changes a file of the key directory.
Touch ==
    /\ touches < MaxTouches
    /\ touches' = touches + 1
    /\ events' = Append(events, "outside")
    /\ UNCHANGED <<now, lastRot, tick, skip, rate, checked, pc, started, born,
                   starts, faults>>

\* startFSWatcher: the first events are taken for startup writes ...
IgnoreEvent ==
    /\ events # <<>>
    /\ ~Busy("fs")
    /\ skip > 0
    /\ skip' = skip - 1
    /\ events' = Tail(events)
    /\ UNCHANGED <<now, lastRot, tick, rate, checked, pc, started, born,
                   starts, faults, touches>>

\* ... every other one triggers.
HandleEvent ==
    /\ events # <<>>
    /\ ~Busy("fs")
    /\ skip = 0
    /\ events' = Tail(events)
    /\ Trigger("fs")
    /\ UNCHANGED <<now, tick, skip, rate, checked, born, faults, touches>>

\* ObserveAppend, n times: the last bucket, or a new one if that has ended
ObserveAppend(n) ==
    LET last == rate[Buckets] IN
    /\ \/ /\ last.end < now
          /\ rate' = Append(Tail(rate), [end |-> now + 1, count |-> n])
       \/ /\ last.end >= now
          /\ last.count + n <= MaxCount
          /\ rate' = [rate EXCEPT ![Buckets].count = @ + n]
    /\ UNCHANGED <<now, lastRot, tick, events, skip, checked, pc, started,
                   born, starts, faults, touches>>

\* detectRateAnomaly: the last bucket against the average of the others, more
\* than ten times or, where that is above 5, less than a tenth of it
Baseline == SumFunction([i \in 1 .. (Buckets - 1) |-> rate[i].count])
Surge == Baseline > 0 /\ rate[Buckets].count * (Buckets - 1) > 10 * Baseline
Drop == Baseline > 5 * (Buckets - 1) /\ rate[Buckets].count * (Buckets - 1) * 10 < Baseline

\* rateMonitor, every bucketDur once RateWindow has passed
RateMonitor ==
    /\ ~checked
    /\ ~Busy("rate")
    /\ checked' = TRUE
    /\ IF now >= Buckets /\ (Surge \/ Drop)
       THEN Trigger("rate")
       ELSE UNCHANGED <<lastRot, pc, started, starts>>
    /\ UNCHANGED <<now, tick, events, skip, rate, born, faults,
                   touches>>

Next ==
    \/ Pass
    \/ Scheduler
    \/ \E g \in Goroutines : RotateDone(g) \/ RotateFails(g)
    \/ ManualRotate
    \/ Touch \/ IgnoreEvent \/ HandleEvent
    \/ \E n \in Batches : ObserveAppend(n)
    \/ RateMonitor

Spec == Init /\ [][Next]_vars

-----------------------------------------------------------------------------
(* Properties                                                              *)

\* Every variable has its type.
TypeOK ==
    /\ now \in 0 .. MaxTime /\ lastRot \in LongAgo .. MaxTime
    /\ tick \in BOOLEAN /\ checked \in BOOLEAN
    /\ events \in Seq({"own", "outside"}) /\ skip \in 0 .. Ignored
    /\ rate \in [1 .. Buckets -> [end: LongAgo .. (MaxTime + 1), count: Nat]]
    /\ pc \in [Goroutines -> {"idle", "rotating"}]
    /\ started \in [Goroutines -> 0 .. MaxTime]
    /\ born \in 0 .. MaxTime /\ starts \in Seq(0 .. MaxTime)

DebounceHolds ==
    \A i \in 1 .. (Len(starts) - 1) : starts[i + 1] - starts[i] >= MinDebounce

KeyAgeBounded ==
    faults = 0 => now - born < Interval + MinDebounce + MaxRotate

NoSelfTrigger == Busy("fs") => touches > 0

\* Rotations come neither too often nor too late.  "MinDebounce is the minimum
\* time between two watchdog-triggered rotations"
\* (pkg/watchdog/watchdog.go:75-76), whichever goroutines race to trigger them;
\* while no rotation fails, no key grows older than Interval, MinDebounce and
\* the time a rotation takes, though ticks are debounced; and a rotation of the
\* watchdog's own that takes less than MinDebounce does not set off the next
\* one through the change it leaves in the key directory.
RotationsPaced == DebounceHolds /\ KeyAgeBounded /\ NoSelfTrigger

=============================================================================
